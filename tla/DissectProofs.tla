---------------------------- MODULE DissectProofs ---------------------------
(***************************************************************************)
(* For every datagram: the handlers read nothing outside it, both          *)
(* fragments of a request are non-empty, a datagram is dropped only when   *)
(* something stands in for it, the frames that stand in for a request are  *)
(* read back as that request, every frame passes a receiver's checks, a    *)
(* name is cut in two, and the handlers come to an end.                    *)
(***************************************************************************)
EXTENDS Dissect, SequenceTheorems, WellFoundedInduction, TLAPS

\* Beyond the parse, the payload is the rest of the datagram; the walk knows
\* how far the bytes it is about to read reach.
WalkInv ==
  /\ pc = "l4" => IpOk(d)
  /\ pc \notin {"ip", "l4", "done"} => p.at + p.len = Len(d)
  /\ pc = "tls" => p.len >= 6
  /\ pc \in {"ext", "name"} => end <= p.len
  /\ pc = "name" => pos + 4 + Data16(pos + 2) <= end

IInv == TypeOK /\ ReadsInside /\ SplitInside /\ WalkInv

\* At and Rd16 yield numbers whatever the offset.
LEMMA AtType ==
  ASSUME NEW b \in Seq(Byte), NEW i \in Int
  PROVE  At(b, i) \in 0 .. 255
<1>1. CASE i \in 0 .. Len(b) - 1
  <2>1. i + 1 \in 1 .. Len(b)
    BY <1>1
  <2>2. b[i + 1] \in Byte
    BY <2>1
  <2> QED BY <1>1, <2>2 DEF At, Byte
<1>2. CASE i \notin 0 .. Len(b) - 1
  BY <1>2 DEF At
<1> QED BY <1>1, <1>2

LEMMA Rd16Type ==
  ASSUME NEW b \in Seq(Byte), NEW i \in Int
  PROVE  Rd16(b, i) \in Nat
<1> DEFINE x == At(b, i)
           y == At(b, i + 1)
<1>1. x \in 0 .. 255 /\ y \in 0 .. 255
  BY AtType
<1> HIDE DEF x, y
<1>2. 256 * x + y \in Nat
  BY <1>1
<1> QED BY <1>2, Zenon DEF Rd16, x, y

\* The offset of the L4 header, and of the payload behind it, are numbers.
LEMMA HeaderTypes ==
  ASSUME NEW b \in Seq(Byte), IpOk(b)
  PROVE  /\ L4At(b) \in Nat /\ L4At(b) <= Len(b)
         /\ Doff(b) \in Nat
<1> DEFINE x == At(b, 0)
<1>0. 0 \in Int
  OBVIOUS
<1>1. x \in 0 .. 255
  BY <1>0, AtType, Zenon
<1> HIDE DEF x
<1>a. x \div 16 \in Nat /\ 4 * (x % 16) \in Nat
  BY <1>1
<1>2. Version(b) \in Nat /\ Ihl(b) \in Nat
  BY <1>a DEF Version, Ihl, x
<1>3. Len(b) \in Nat
  OBVIOUS
<1>4. L4At(b) \in Nat /\ L4At(b) <= Len(b)
  BY <1>2, <1>3 DEF L4At, IpOk
<1> DEFINE y == At(b, L4At(b) + 12)
<1>b. L4At(b) + 12 \in Int
  BY <1>4
<1>5. y \in 0 .. 255
  BY <1>b, AtType, Zenon
<1> HIDE DEF y
<1>c. 4 * (y \div 16) \in Nat
  BY <1>5
<1>6. Doff(b) \in Nat
  BY <1>c DEF Doff, y
<1> QED BY <1>4, <1>6

\* The parse that succeeds puts the payload inside the datagram.
LEMMA ParsedInside ==
  ASSUME NEW b \in Seq(Byte), IpOk(b), L4Ok(b)
  PROVE  /\ Parsed(b).at \in Nat /\ Parsed(b).len \in Nat
         /\ Parsed(b).at + Parsed(b).len = Len(b)
<1>1. L4At(b) \in Nat /\ Doff(b) \in Nat /\ Len(b) \in Nat
  BY HeaderTypes
<1>2. Parsed(b).at = L4At(b) + (IF Proto(b) = IPPROTO_TCP THEN Doff(b) ELSE 8)
  BY DEF Parsed
<1>3. Parsed(b).len = Len(b) - Parsed(b).at
  BY DEF Parsed
<1>4. Parsed(b).at \in Nat
  BY <1>1, <1>2
<1>5. Parsed(b).at <= Len(b)
  BY <1>1, <1>2 DEF L4Ok, L4Need, L4Len, IPPROTO_TCP, IPPROTO_UDP
<1> QED BY <1>1, <1>3, <1>4, <1>5

LEMMA InitInv == Init => IInv
<1> SUFFICES ASSUME Init PROVE IInv
  OBVIOUS
<1> USE DissectAssumption
<1>1. d \in Seq(Byte)
  BY DEF Init, d
<1>2. p.at \in Nat /\ p.len \in Nat
  BY DEF Init, NoPacket
<1>b. pc \in Places /\ verdict \in {"none", "accept", "drop"}
  BY DEF Init, Places
<1>c. rc1 \in {0, -1} /\ pos \in Nat /\ end \in Nat /\ split \in Int /\ noted \subseteq Counters
  BY DEF Init
<1>4. TypeOK
  BY <1>1, <1>2, <1>b, <1>c, Zenon DEF TypeOK
<1>3. ReadsInside /\ SplitInside /\ WalkInv
  BY DEF Init, ReadsInside, SplitInside, WalkInv
<1> QED BY <1>3, <1>4 DEF IInv

LEMMA ParseIpInv == IInv /\ ParseIp => IInv'
<1> SUFFICES ASSUME IInv, ParseIp PROVE IInv'
  OBVIOUS
<1> USE DEF IInv
<1>1. d' = d /\ d \in Seq(Byte) /\ Len(d) \in Nat
  BY DEF ParseIp, d, TypeOK
<1>2. TypeOK'
  <2>1. /\ pc' \in {"l4", "done"} /\ verdict' \in {verdict, "accept"}
        /\ noted' \in {noted, {"packets_seen"}}
    BY DEF ParseIp, Leave, Goto
  <2>2. UNCHANGED <<p, pos, end, split, rc1>>
    BY DEF ParseIp, walk
  <2> QED BY <1>1, <2>1, <2>2 DEF TypeOK, Places, Counters
<1>3. ReadsInside'
  <2>1. CASE Len(d) = 0
    BY <2>1 DEF ParseIp, ReadsInside, NoReads
  <2>2. CASE Len(d) # 0
    <3>1. touched' = IpReads(d)
      BY <2>2 DEF ParseIp
    <3>2. IpReads(d) \subseteq 0 .. Len(d) - 1
      BY <1>1, <2>2 DEF IpReads
    <3> QED BY <1>1, <3>1, <3>2 DEF ReadsInside
  <2> QED BY <2>1, <2>2
<1>4. SplitInside'
  BY DEF ParseIp, SplitInside, Leave, Goto
<1>5. WalkInv'
  BY <1>1 DEF ParseIp, WalkInv, Leave, Goto
<1> QED BY <1>2, <1>3, <1>4, <1>5

LEMMA ParseL4Inv == IInv /\ ParseL4 => IInv'
<1> SUFFICES ASSUME IInv, ParseL4 PROVE IInv'
  OBVIOUS
<1> USE DEF IInv
<1>1. d' = d /\ d \in Seq(Byte) /\ Len(d) \in Nat /\ IpOk(d)
  BY DEF ParseL4, d, TypeOK, WalkInv
<1>2. L4At(d) \in Nat
  BY <1>1, HeaderTypes
<1>3. ReadsInside'
  BY <1>1, <1>2 DEF ParseL4, ReadsInside, L4Reads, L4Len, L4Need
<1>4. CASE L4Ok(d)
  <2>1. /\ p' = Parsed(d) /\ pc' = "port"
        /\ p'.at \in Nat /\ p'.len \in Nat /\ p'.at + p'.len = Len(d)
    BY <1>1, <1>4, ParsedInside DEF ParseL4, Goto
  <2>2. TypeOK'
    BY <1>1, <1>4, <2>1 DEF ParseL4, TypeOK, Goto, Places, walk
  <2>3. SplitInside' /\ WalkInv'
    BY <1>1, <2>1 DEF SplitInside, WalkInv
  <2> QED BY <1>3, <2>2, <2>3
<1>5. CASE ~L4Ok(d)
  <2>1. TypeOK'
    BY <1>1, <1>5 DEF ParseL4, TypeOK, Leave, Places, walk
  <2>2. SplitInside' /\ WalkInv'
    BY <1>1, <1>5 DEF ParseL4, SplitInside, WalkInv, Leave
  <2> QED BY <1>3, <2>1, <2>2
<1> QED BY <1>4, <1>5

\* Reading payload bytes below payload_len stays inside the datagram.
LEMMA PayloadReads ==
  ASSUME IInv, pc \notin {"ip", "l4", "done"}, NEW S,
         S \subseteq 0 .. p.len - 1, Reads(S), in' = in
  PROVE  ReadsInside'
<1>1. d' = d /\ Len(d) \in Nat /\ p.at \in Nat /\ p.len \in Nat
  BY DEF IInv, TypeOK, d
<1>2. p.at + p.len = Len(d)
  BY DEF IInv, WalkInv
<1>3. \A i \in S : p.at + i \in 0 .. Len(d) - 1
  BY <1>1, <1>2
<1> QED BY <1>1, <1>3 DEF Reads, ReadsInside

\* The numbers the walk reads are natural.
LEMMA DataType ==
  ASSUME IInv, NEW i \in Int
  PROVE  Data(i) \in Nat /\ Data16(i) \in Nat
<1>1. d \in Seq(Byte) /\ p.at + i \in Int
  BY DEF IInv, TypeOK
<1>2. At(d, p.at + i) \in 0 .. 255 /\ Rd16(d, p.at + i) \in Nat
  BY <1>1, AtType, Rd16Type, Zenon
<1>3. At(d, p.at + i) \in Nat
  BY <1>2
<1> QED BY <1>2, <1>3, Zenon DEF Data, Data16

\* A step that leaves the datagram and the packet alone and whose reads stay
\* inside preserves the invariant if the places it may lead to allow it.
LEMMA Step ==
  ASSUME IInv, ReadsInside',
         UNCHANGED <<in, p>>, pc \notin {"ip", "l4", "done"},
         pc' \in Places \ {"ip", "l4"}, verdict' \in {"none", "accept", "drop"},
         noted' \subseteq Counters, rc1' \in {0, -1},
         pos' \in Nat, end' \in Nat, split' \in Int,
         pc' \in {"fake", "first", "second"} => split' \in 1 .. p.len - 1,
         pc' = "tls" => p.len >= 6,
         pc' \in {"ext", "name"} => end' <= p.len,
         pc' = "name" => pos' = pos /\ end' = end /\ pos + 4 + Data16(pos + 2) <= end
  PROVE  IInv'
<1>1. d' = d
  BY DEF d
<1>2. TypeOK'
  BY <1>1 DEF IInv, TypeOK
<1>3. SplitInside'
  BY DEF SplitInside
<1>4. pos' = pos => Data16(pos + 2)' = Data16(pos + 2)
  BY <1>1 DEF Data16
<1>5. WalkInv'
  BY <1>1, <1>4 DEF WalkInv, IInv
<1> QED BY <1>2, <1>3, <1>5 DEF IInv

\* The branches of packet_cb.
LEMMA DispatchInv == IInv /\ Dispatch => IInv'
<1> SUFFICES ASSUME IInv, Dispatch PROVE IInv'
  OBVIOUS
<1>1. /\ pc = "port" /\ UNCHANGED <<in, p, pos, end, split, rc1>>
      /\ p.len \in Nat
  BY DEF Dispatch, DispatchTls, DispatchHttp, DispatchDns, DispatchQuic,
         DispatchNone, Branch, walk, IInv, TypeOK
<1>2. pos \in Nat /\ end \in Nat /\ split \in Int /\ rc1 \in {0, -1}
      /\ noted \subseteq Counters /\ verdict \in {"none", "accept", "drop"}
  BY DEF IInv, TypeOK
<1>3. CASE DispatchTls
  <2>1. PICK on \in BOOLEAN :
          /\ Reads(IF on /\ CarriesData /\ p.len >= 6 THEN {0, 1, 5} ELSE {})
          /\ IF on /\ CarriesData /\ bd_tls_is_clienthello
             THEN Goto("tls") ELSE Leave("accept")
    BY <1>3 DEF DispatchTls
  <2>2. ReadsInside'
    <3> DEFINE S == IF on /\ CarriesData /\ p.len >= 6 THEN {0, 1, 5} ELSE {}
    <3>1. S \subseteq 0 .. p.len - 1
      BY <1>1
    <3> QED BY <1>1, <2>1, <3>1, PayloadReads
  <2>3. pc' = "tls" => p.len >= 6
    BY <2>1 DEF Leave, bd_tls_is_clienthello
  <2>4. pc' \in {"tls", "done"} /\ verdict' \in {verdict, "accept"} /\ noted' = noted
    BY <1>3, <2>1 DEF DispatchTls, Goto, Leave
  <2> QED BY <1>1, <1>2, <2>2, <2>3, <2>4, Step DEF Places
<1>4. CASE DispatchHttp
  <2>1. PICK on \in BOOLEAN :
          /\ Reads(IF on /\ CarriesData /\ p.len >= 5 THEN MethodReads ELSE {})
          /\ IF on /\ CarriesData /\ bd_http_is_request
             THEN Goto("http") ELSE Leave("accept")
    BY <1>4 DEF DispatchHttp
  <2>2. ReadsInside'
    <3> DEFINE S == IF on /\ CarriesData /\ p.len >= 5 THEN MethodReads ELSE {}
    <3>1. MethodReads \subseteq 0 .. p.len - 1
      BY <1>1 DEF MethodReads, kMethods
    <3>2. S \subseteq 0 .. p.len - 1
      BY <3>1
    <3> QED BY <1>1, <2>1, <3>2, PayloadReads
  <2>3. pc' \in {"http", "done"} /\ verdict' \in {verdict, "accept"} /\ noted' = noted
    BY <1>4, <2>1 DEF DispatchHttp, Goto, Leave
  <2> QED BY <1>1, <1>2, <2>2, <2>3, Step DEF Places
<1>5. CASE DispatchDns
  <2>1. PICK on \in BOOLEAN :
          IF on /\ p.len \in 1 .. BD_DNS_MAX
          THEN Reads(0 .. p.len - 1) /\ pc' = "answer" /\ verdict' = "drop"
          ELSE NoReads /\ Leave("accept")
    BY <1>5 DEF DispatchDns
  <2>2. ReadsInside'
    <3>1. Reads(0 .. p.len - 1) => ReadsInside'
      BY <1>1, PayloadReads
    <3>2. NoReads => ReadsInside'
      BY DEF NoReads, ReadsInside
    <3> QED BY <2>1, <3>1, <3>2
  <2>4. pc' \in {"answer", "done"} /\ verdict' \in {"drop", "accept"} /\ noted' = noted
    BY <1>5, <2>1 DEF DispatchDns, Leave
  <2> QED BY <1>1, <1>2, <2>2, <2>4, Step DEF Places
<1>6. CASE DispatchQuic
  <2>1. PICK on \in BOOLEAN :
          /\ Reads(IF on /\ p.len >= 5 THEN 0 .. 4 ELSE {})
          /\ IF on /\ quic_is_initial
             THEN Leave("drop") /\ noted' = noted \cup {"quic_handled"}
             ELSE Leave("accept") /\ UNCHANGED noted
    BY <1>6 DEF DispatchQuic
  <2>2. ReadsInside'
    <3> DEFINE S == IF on /\ p.len >= 5 THEN 0 .. 4 ELSE {}
    <3>1. S \subseteq 0 .. p.len - 1
      BY <1>1
    <3> QED BY <1>1, <2>1, <3>1, PayloadReads
  <2>4. pc' = "done" /\ verdict' \in {"drop", "accept"}
        /\ noted' \subseteq Counters
    BY <1>2, <2>1 DEF Leave, Counters
  <2> QED BY <1>1, <1>2, <2>2, <2>4, Step DEF Places
<1>7. CASE DispatchNone
  <2>1. pc' = "done" /\ verdict' = "accept" /\ noted' = noted
    BY <1>7 DEF DispatchNone, Leave
  <2>2. ReadsInside'
    BY <1>7 DEF DispatchNone, NoReads, ReadsInside
  <2> QED BY <1>1, <1>2, <2>1, <2>2, Step DEF Places
<1> QED BY <1>3, <1>4, <1>5, <1>6, <1>7 DEF Dispatch

\* A parser that returns, with or without a boundary.
LEMMA FoundInv ==
  ASSUME IInv, NEW off \in Int, Found(off), ReadsInside',
         pc \notin {"ip", "l4", "done"}, UNCHANGED <<in, p, rc1, noted>>
  PROVE  IInv'
<1>1. pc' = "cut" /\ split' = off /\ UNCHANGED <<pos, end, verdict>>
  BY DEF Found, Goto, walk
<1>2. pos \in Nat /\ end \in Nat /\ rc1 \in {0, -1} /\ noted \subseteq Counters
      /\ verdict \in {"none", "accept", "drop"}
  BY DEF IInv, TypeOK
<1> QED BY <1>1, <1>2, Step DEF Places

LEMMA NoReadsInside == NoReads => ReadsInside'
BY DEF NoReads, ReadsInside

LEMMA TlsFixedPartInv == IInv /\ TlsFixedPart => IInv'
<1> SUFFICES ASSUME IInv, TlsFixedPart PROVE IInv'
  OBVIOUS
<1>1. /\ pc = "tls" /\ UNCHANGED <<in, p, rc1, noted>> /\ ReadsInside'
      /\ end \in Nat /\ split \in Int /\ rc1 \in {0, -1} /\ noted \subseteq Counters
      /\ verdict \in {"none", "accept", "drop"} /\ -1 \in Int
  BY NoReadsInside DEF TlsFixedPart, IInv, TypeOK
<1>2. CASE NotFound
  BY <1>1, <1>2, FoundInv DEF NotFound
<1>3. CASE pos' = 43 /\ Goto("sid") /\ UNCHANGED <<end, split>>
  BY <1>1, <1>3, Step DEF Goto, Places
<1> QED BY <1>2, <1>3 DEF TlsFixedPart

\* session_id, cipher_suites and compression_methods.
LEMMA SkipInv ==
  ASSUME NEW here, here \notin {"ip", "l4", "done"},
         NEW w \in {1, 2}, NEW next \in {"ciphers", "compression", "extlen"},
         IInv, Skip(here, w, next)
  PROVE  IInv'
<1>1. /\ pc = here /\ UNCHANGED <<in, p, rc1, noted>>
      /\ pos \in Nat /\ end \in Nat /\ split \in Int /\ rc1 \in {0, -1}
      /\ noted \subseteq Counters /\ p.len \in Nat
      /\ verdict \in {"none", "accept", "drop"} /\ -1 \in Int
  BY DEF Skip, IInv, TypeOK
<1>2. CASE pos + w > p.len
  BY <1>1, <1>2, FoundInv, NoReadsInside DEF Skip, NotFound
<1>3. CASE pos + w <= p.len
  <2> DEFINE n == IF w = 1 THEN Data(pos) ELSE Data16(pos)
  <2>1. n \in Nat
    BY <1>1, DataType
  <2>2. /\ Reads(pos .. pos + w - 1)
        /\ IF pos + w + n > p.len THEN NotFound
           ELSE pos' = pos + w + n /\ Goto(next) /\ UNCHANGED <<end, split>>
    BY <1>1, <1>3 DEF Skip
  <2> HIDE DEF n
  <2>3. pos .. pos + w - 1 \subseteq 0 .. p.len - 1
    BY <1>1, <1>3
  <2>4. ReadsInside'
    BY <1>1, <2>2, <2>3, PayloadReads
  <2>5. CASE NotFound
    BY <1>1, <2>4, <2>5, FoundInv DEF NotFound
  <2>6. CASE pos' = pos + w + n /\ Goto(next) /\ UNCHANGED <<end, split>>
    <3>1. pos' \in Nat /\ end' = end /\ split' = split /\ verdict' = verdict
          /\ pc' \in {"ciphers", "compression", "extlen"}
      BY <1>1, <2>1, <2>6 DEF Goto
    <3> QED BY <1>1, <2>4, <3>1, Step DEF Places
  <2> QED BY <2>2, <2>5, <2>6
<1> QED BY <1>1, <1>2, <1>3

LEMMA ExtensionsLengthInv == IInv /\ ExtensionsLength => IInv'
<1> SUFFICES ASSUME IInv, ExtensionsLength PROVE IInv'
  OBVIOUS
<1>1. /\ pc = "extlen" /\ UNCHANGED <<in, p, rc1, noted>>
      /\ pos \in Nat /\ split \in Int /\ rc1 \in {0, -1}
      /\ noted \subseteq Counters /\ p.len \in Nat
      /\ verdict \in {"none", "accept", "drop"} /\ -1 \in Int
  BY DEF ExtensionsLength, IInv, TypeOK
<1>2. CASE pos + 2 > p.len
  BY <1>1, <1>2, FoundInv, NoReadsInside DEF ExtensionsLength, NotFound
<1>3. CASE pos + 2 <= p.len
  <2>1. Data16(pos) \in Nat
    BY <1>1, DataType
  <2>2. /\ Reads(pos .. pos + 1) /\ end' = ExtEnd(pos + 2, Data16(pos))
        /\ pos' = pos + 2 /\ pc' = "ext" /\ UNCHANGED <<verdict, split>>
    BY <1>1, <1>3 DEF ExtensionsLength, Goto
  <2>3. pos .. pos + 1 \subseteq 0 .. p.len - 1
    BY <1>1, <1>3
  <2>4. ReadsInside'
    BY <1>1, <2>2, <2>3, PayloadReads
  <2>5. end' \in Nat /\ end' <= p.len
    BY <1>1, <2>1, <2>2 DEF ExtEnd
  <2>6. pos' \in Nat
    BY <1>1, <2>2
  <2> QED BY <1>1, <2>2, <2>4, <2>5, <2>6, Step DEF Places
<1> QED BY <1>1, <1>2, <1>3

LEMMA ExtensionInv == IInv /\ Extension => IInv'
<1> SUFFICES ASSUME IInv, Extension PROVE IInv'
  OBVIOUS
<1>1. /\ pc = "ext" /\ UNCHANGED <<in, p, rc1, noted>> /\ end <= p.len
      /\ pos \in Nat /\ end \in Nat /\ split \in Int /\ rc1 \in {0, -1}
      /\ noted \subseteq Counters /\ p.len \in Nat
      /\ verdict \in {"none", "accept", "drop"} /\ -1 \in Int
  BY DEF Extension, IInv, TypeOK, WalkInv
<1>2. CASE pos + 4 > end
  BY <1>1, <1>2, FoundInv, NoReadsInside DEF Extension, NotFound
<1>3. CASE pos + 4 <= end
  <2>1. pos + 2 \in Int
    BY <1>1
  <2>2. Data16(pos + 2) \in Nat
    BY <2>1, DataType, Zenon
  <2>3. /\ Reads(pos .. pos + 3)
        /\ IF pos + 4 + Data16(pos + 2) > end THEN NotFound
           ELSE /\ IF Data16(pos) = 0 THEN Goto("name") /\ UNCHANGED pos
                   ELSE Goto("ext") /\ pos' = NextExtension(pos, Data16(pos + 2))
                /\ UNCHANGED <<end, split>>
    BY <1>1, <1>3 DEF Extension
  <2>4. pos .. pos + 3 \subseteq 0 .. p.len - 1
    BY <1>1, <1>3
  <2>5. ReadsInside'
    BY <1>1, <2>3, <2>4, PayloadReads
  <2>6. CASE NotFound
    BY <1>1, <2>5, <2>6, FoundInv DEF NotFound
  <2>7. CASE ~NotFound
    <3>1. /\ pos + 4 + Data16(pos + 2) <= end /\ UNCHANGED <<end, split, verdict>>
          /\ pc' \in {"name", "ext"} /\ pos' \in Nat
          /\ pc' = "name" => pos' = pos
      BY <1>1, <2>2, <2>3, <2>7 DEF Goto, NextExtension
    <3> QED BY <1>1, <2>5, <3>1, Step DEF Places
  <2> QED BY <2>6, <2>7
<1> QED BY <1>1, <1>2, <1>3

LEMMA ServerNameInv == IInv /\ ServerName => IInv'
<1> SUFFICES ASSUME IInv, ServerName PROVE IInv'
  OBVIOUS
<1>1. /\ pc = "name" /\ UNCHANGED <<in, p, rc1, noted>> /\ end <= p.len
      /\ pos \in Nat /\ end \in Nat /\ p.len \in Nat /\ -1 \in Int
      /\ pos + 4 + Data16(pos + 2) <= end
  BY DEF ServerName, IInv, TypeOK, WalkInv
<1>2. pos + 2 \in Int /\ pos + 7 \in Int /\ pos + 9 \in Int
  BY <1>1
<1>3. Data16(pos + 2) \in Nat /\ Data16(pos + 7) \in Nat
  BY <1>2, DataType, Zenon
<1>4. CASE Data16(pos + 2) < 5
  BY <1>1, <1>4, FoundInv, NoReadsInside DEF ServerName, NotFound
<1>5. CASE Data16(pos + 2) >= 5
  <2> DEFINE off == IF pos + 9 + Data16(pos + 7) > p.len \/ Data16(pos + 7) <= 0
                    THEN -1 ELSE NameSplit(pos + 9)
  <2>1. Reads(pos + 7 .. pos + 8) /\ Found(off)
    BY <1>3, <1>5 DEF ServerName
  <2>2. NameSplit(pos + 9) \in Int
    BY <1>1 DEF NameSplit
  <2>3. off \in Int
    BY <1>1, <2>2
  <2>4. pos + 7 .. pos + 8 \subseteq 0 .. p.len - 1
    BY <1>1, <1>3, <1>5
  <2>5. ReadsInside'
    BY <1>1, <2>1, <2>4, PayloadReads
  <2> HIDE DEF off
  <2> QED BY <1>1, <2>1, <2>3, <2>5, FoundInv
<1> QED BY <1>3, <1>4, <1>5

LEMMA HttpScanInv == IInv /\ HttpScan => IInv'
<1> SUFFICES ASSUME IInv, HttpScan PROVE IInv'
  OBVIOUS
<1>1. /\ pc = "http" /\ UNCHANGED <<in, p, rc1, noted>>
      /\ pos \in Nat /\ end \in Nat /\ split \in Int /\ rc1 \in {0, -1}
      /\ noted \subseteq Counters /\ p.len \in Nat
      /\ verdict \in {"none", "accept", "drop"} /\ -1 \in Int
  BY DEF HttpScan, IInv, TypeOK
<1>2. CASE pos + 5 > p.len
  BY <1>1, <1>2, FoundInv, NoReadsInside DEF HttpScan, NotFound
<1>3. CASE pos + 5 <= p.len
  <2> DEFINE S   == (IF pos = 0 THEN {} ELSE {pos - 1})
                      \cup (IF LineStart(pos) THEN pos .. pos + 4 ELSE {})
             off == IF pos + 2 < p.len THEN pos + 2 ELSE -1
  <2>1. /\ Reads(S)
        /\ \/ Found(off)
           \/ pos' = pos + 1 /\ Goto("http") /\ UNCHANGED <<end, split>>
    BY <1>1, <1>3 DEF HttpScan
  <2>2. S \subseteq 0 .. p.len - 1
    BY <1>1, <1>3
  <2> HIDE DEF S
  <2>3. ReadsInside'
    BY <1>1, <2>1, <2>2, PayloadReads
  <2>4. off \in Int
    BY <1>1
  <2> HIDE DEF off
  <2>5. CASE Found(off)
    BY <1>1, <2>3, <2>4, <2>5, FoundInv
  <2>6. CASE pos' = pos + 1 /\ Goto("http") /\ UNCHANGED <<end, split>>
    <3>1. pos' \in Nat /\ pc' = "http" /\ UNCHANGED <<end, split, verdict>>
      BY <1>1, <2>6 DEF Goto
    <3> QED BY <1>1, <2>3, <3>1, Step DEF Places
  <2> QED BY <2>1, <2>5, <2>6
<1> QED BY <1>1, <1>2, <1>3

\* Whatever the parsers return, the offset that is used lies inside.
LEMMA CutInv == IInv /\ Cut => IInv'
<1> SUFFICES ASSUME IInv, Cut PROVE IInv'
  OBVIOUS
<1>1. /\ pc = "cut" /\ UNCHANGED <<in, p, pos, end, rc1, noted>> /\ ReadsInside'
      /\ pos \in Nat /\ end \in Nat /\ split \in Int /\ rc1 \in {0, -1}
      /\ noted \subseteq Counters /\ p.len \in Nat
      /\ verdict \in {"none", "accept", "drop"}
  BY NoReadsInside DEF Cut, walk, IInv, TypeOK
<1>2. /\ split' \in Int /\ split' >= 1
      /\ \/ pc' = "done" /\ verdict' = "accept"
         \/ pc' = "fake" /\ verdict' = verdict /\ split' < p.len
  BY <1>1 DEF Cut, Fallback, Leave, Goto
<1> QED BY <1>1, <1>2, Step DEF Places

\* The three frames of a request, and the answer to a query.
LEMMA SendingInv == IInv /\ Sending => IInv'
<1> SUFFICES ASSUME IInv, Sending PROVE IInv'
  OBVIOUS
<1>1. /\ UNCHANGED <<in, p, pos, end, split>>
      /\ pc \in {"fake", "first", "second", "answer"}
  BY DEF Sending, SendFake, SendFirst, SendSecond, Answer, walk
<1>2. /\ pos \in Nat /\ end \in Nat /\ split \in Int /\ rc1 \in {0, -1}
      /\ noted \subseteq Counters /\ p.len \in Nat
      /\ verdict \in {"none", "accept", "drop"}
  BY DEF IInv, TypeOK
<1>3. CASE SendFake
  <2>1. /\ pc = "fake" /\ pc' = "first" /\ verdict' = verdict /\ rc1' = rc1
        /\ noted' \in {noted, noted \cup {"fake_sent"}}
    BY <1>3 DEF SendFake, Goto
  <2>2. Reads(0 .. 0 + p.len - 1)
    BY <1>3 DEF SendFake, SendTcp
  <2>3. 0 .. 0 + p.len - 1 \subseteq 0 .. p.len - 1
    BY <1>2
  <2>4. ReadsInside'
    BY <1>1, <2>2, <2>3, PayloadReads
  <2>5. split \in 1 .. p.len - 1
    BY <2>1 DEF IInv, SplitInside
  <2> QED BY <1>1, <1>2, <2>1, <2>4, <2>5, Step DEF Places, Counters
<1>4. CASE SendFirst
  <2>1. /\ pc = "first" /\ pc' = "second" /\ verdict' = verdict /\ noted' = noted
        /\ rc1' \in {0, -1}
    BY <1>4 DEF SendFirst, Goto, Rc
  <2>2. Reads(0 .. 0 + split - 1)
    BY <1>4 DEF SendFirst, SendTcp
  <2>3. split \in 1 .. p.len - 1
    BY <2>1 DEF IInv, SplitInside
  <2>4. 0 .. 0 + split - 1 \subseteq 0 .. p.len - 1
    BY <1>2, <2>3
  <2>5. ReadsInside'
    BY <1>1, <2>2, <2>4, PayloadReads
  <2> QED BY <1>1, <1>2, <2>1, <2>3, <2>5, Step DEF Places
<1>5. CASE SendSecond
  <2>1. /\ pc = "second" /\ pc' = "done" /\ verdict' \in {"accept", "drop"}
        /\ rc1' = rc1 /\ noted' \in {noted, noted \cup {"tcp_split"}}
    BY <1>5 DEF SendSecond, Leave, Verdict
  <2>2. Reads(split .. split + (p.len - split) - 1)
    BY <1>5 DEF SendSecond, SendTcp
  <2>3. split \in 1 .. p.len - 1
    BY <2>1 DEF IInv, SplitInside
  <2>4. split .. split + (p.len - split) - 1 \subseteq 0 .. p.len - 1
    BY <1>2, <2>3
  <2>5. ReadsInside'
    BY <1>1, <2>2, <2>4, PayloadReads
  <2> QED BY <1>1, <1>2, <2>1, <2>5, Step DEF Places, Counters
<1>6. CASE Answer
  <2>1. /\ pc' = "done" /\ verdict' = verdict /\ rc1' = rc1
        /\ noted' \in {noted, noted \cup {"dns_forwarded"}}
    BY <1>6 DEF Answer, Leave
  <2>2. ReadsInside'
    BY <1>6, NoReadsInside DEF Answer
  <2> QED BY <1>1, <1>2, <2>1, <2>2, Step DEF Places, Counters
<1> QED BY <1>3, <1>4, <1>5, <1>6 DEF Sending

LEMMA NextInv == IInv /\ [Next]_vars => IInv'
<1> SUFFICES ASSUME IInv, [Next]_vars PROVE IInv'
  OBVIOUS
<1>1. CASE Parsing
  BY <1>1, ParseIpInv, ParseL4Inv, DispatchInv DEF Parsing
<1>2. CASE Walking
  <2>1. SessionId \/ Ciphers \/ Compression => IInv'
    BY SkipInv DEF SessionId, Ciphers, Compression
  <2> QED BY <1>2, <2>1, TlsFixedPartInv, ExtensionsLengthInv, ExtensionInv,
             ServerNameInv DEF Walking
<1>3. CASE HttpScan
  BY <1>3, HttpScanInv
<1>4. CASE Cut
  BY <1>4, CutInv
<1>5. CASE Sending
  BY <1>5, SendingInv
<1>6. CASE UNCHANGED vars
  <2>1. UNCHANGED <<in, pc, p, pos, end, split, touched, rc1, noted, verdict>>
    BY <1>6 DEF vars, walk
  <2> QED BY <2>1 DEF IInv, TypeOK, ReadsInside, SplitInside, WalkInv, d, Data16
<1> QED BY <1>1, <1>2, <1>3, <1>4, <1>5, <1>6 DEF Next

LEMMA Inductive == Spec => []IInv
BY InitInv, NextInv, PTL DEF Spec

\* Every field keeps its type for every set of datagrams, frame size and
\* choice of failures.
THEOREM TypeCorrect == Spec => []TypeOK
BY Inductive, PTL DEF IInv

\* For every datagram, however its length fields lie and wherever it was cut
\* off: packet_cb and all it calls read only bytes of that datagram.
THEOREM ReadsStayInside == Spec => []ReadsInside
BY Inductive, PTL DEF IInv

\* For every payload: the offset at which bd_tcp_handle cuts leaves at least
\* one byte on both sides.
THEOREM SplitStaysInside == Spec => []SplitInside
BY Inductive, PTL DEF IInv

-----------------------------------------------------------------------------
(* What is sent, counted and dropped.                                      *)

\* The kinds of the frames that went out.
Kinds == {sent[i].kind : i \in DOMAIN sent}

\* At each place: what may have gone out and been counted so far.
SentInv ==
  /\ sent \in Seq({sent[i] : i \in DOMAIN sent})
  /\ pc \notin {"first", "second", "done"} =>
       Kinds = {} /\ noted \subseteq {"packets_seen"}
  /\ pc = "first" => Kinds \subseteq {"fake"}
  /\ pc = "second" => Kinds \subseteq {"fake", "first"} /\ (rc1 = 0 <=> "first" \in Kinds)
  /\ pc \in {"first", "second"} =>
       /\ noted \subseteq {"packets_seen", "fake_sent"}
       /\ "fake_sent" \in noted <=> "fake" \in Kinds
  /\ pc \notin {"answer", "done"} => verdict = "none"
  /\ pc = "answer" => verdict = "drop"

\* Which message a handler has before it.
MeantInv ==
  /\ in \in Inputs
  /\ pc = "port" => IpOk(d) /\ L4Ok(d) /\ p = Parsed(d)
  /\ pc = "answer" => in.what = "query"
  /\ pc \notin {"ip", "l4", "port", "answer", "done"} =>
       in.what \in {"hello", "request"}

DropInv == SentInv /\ MeantInv /\ OnlyReplacedIsDropped

\* A step that sends nothing, or one frame more.
LEMMA KindsSame ==
  ASSUME SentInv, sent' = sent
  PROVE  Kinds' = Kinds /\ sent' \in Seq({sent'[i] : i \in DOMAIN sent'})
BY DEF Kinds, SentInv

LEMMA KindsAppend ==
  ASSUME SentInv, NEW k, NEW b, sent' = Append(sent, [kind |-> k, bytes |-> b])
  PROVE  Kinds' = Kinds \cup {k} /\ sent' \in Seq({sent'[i] : i \in DOMAIN sent'})
<1> DEFINE S == {sent[i] : i \in DOMAIN sent}
           r == [kind |-> k, bytes |-> b]
           T == S \cup {r}
<1>1. sent \in Seq(S) /\ Len(sent) \in Nat
  BY DEF SentInv
<1> DEFINE n == Len(sent)
<1>2. sent \in Seq(T) /\ r \in T /\ DOMAIN sent = 1 .. n
  <2> HIDE DEF S, r
  <2> QED BY <1>1
<1> HIDE DEF S, T, r
<1>3. /\ Append(sent, r) \in Seq(T) /\ Len(Append(sent, r)) = n + 1
      /\ \A i \in 1 .. n : Append(sent, r)[i] = sent[i]
      /\ Append(sent, r)[n + 1] = r
  BY <1>2
<1> DEFINE t == Append(sent, r)
<1>4. t \in Seq(T) /\ DOMAIN t = 1 .. n + 1 /\ sent' = t
  BY <1>3 DEF r
<1>5. \A i \in 1 .. n + 1 : i \in 1 .. n \/ i = n + 1
  BY <1>1
<1>6. 1 .. n \subseteq 1 .. n + 1 /\ n + 1 \in 1 .. n + 1
  BY <1>1
<1>7. {t[i].kind : i \in DOMAIN t} = {sent[i].kind : i \in DOMAIN sent} \cup {k}
  <2>1. r.kind = k
    BY DEF r
  <2> HIDE DEF n, t
  <2>2. \A i \in 1 .. n : t[i] = sent[i]
    BY <1>3 DEF t
  <2>3. t[n + 1] = r
    BY <1>3 DEF t
  <2> QED BY <1>2, <1>4, <1>5, <1>6, <2>1, <2>2, <2>3
<1>8. t \in Seq({t[i] : i \in DOMAIN t})
  <2> DEFINE m == n + 1
             V == {t[i] : i \in DOMAIN t}
  <2>1. m \in Nat
    BY <1>1
  <2> HIDE DEF t, n
  <2>2. t \in [1 .. m -> T]
    BY <1>4, <2>1
  <2>3. \A i \in 1 .. m : t[i] \in V
    BY <1>4
  <2> HIDE DEF m, V
  <2>4. t \in [1 .. m -> V]
    BY <2>2, <2>3
  <2>5. t \in Seq(V)
    BY <2>1, <2>4
  <2> QED BY <2>5 DEF V
<1> QED BY <1>4, <1>7, <1>8 DEF Kinds

\* inject4 and inject6 send one frame or none.
LEMMA InjectSends ==
  ASSUME SentInv, NEW k, NEW src, NEW dst, NEW proto, NEW ttl, NEW l4,
         NEW ok \in BOOLEAN, Inject(k, src, dst, proto, ttl, l4, ok)
  PROVE  /\ Kinds' = IF ok THEN Kinds \cup {k} ELSE Kinds
         /\ sent' \in Seq({sent'[i] : i \in DOMAIN sent'})
<1>1. CASE ok
  <2>1. PICK id \in Ids :
          sent' = Append(sent, [kind |-> k, bytes |-> Frame(src, dst, proto, ttl, id, l4)])
    BY <1>1 DEF Inject
  <2> QED BY <1>1, <2>1, KindsAppend
<1>2. CASE ~ok
  BY <1>2, KindsSame DEF Inject
<1> QED BY <1>1, <1>2

\* Before the first datagram is looked at nothing was sent.
LEMMA DropInit == Init => DropInv
<1> SUFFICES ASSUME Init PROVE DropInv
  OBVIOUS
<1>1. sent = <<>> /\ Kinds = {}
  BY DEF Init, Kinds
<1>2. SentInv
  BY <1>1 DEF Init, SentInv
<1>3. MeantInv
  BY DEF Init, MeantInv
<1>4. OnlyReplacedIsDropped
  BY DEF Init, OnlyReplacedIsDropped
<1> QED BY <1>2, <1>3, <1>4 DEF DropInv

\* A packet that is let through before anything was sent.
LEMMA Passes ==
  ASSUME DropInv, pc \notin {"first", "second", "answer", "done"},
         UNCHANGED <<in, sent>>, noted' \subseteq {"packets_seen"}, Leave("accept")
  PROVE  DropInv'
<1>1. Kinds' = Kinds /\ sent' \in Seq({sent'[i] : i \in DOMAIN sent'})
  BY KindsSame DEF DropInv
<1>2. pc' = "done" /\ verdict' = "accept" /\ Kinds = {}
  BY DEF DropInv, SentInv, Leave
<1>3. SentInv' /\ MeantInv'
  BY <1>1, <1>2 DEF DropInv, SentInv, MeantInv
<1>4. OnlyReplacedIsDropped'
  <2>1. Kinds' = {} /\ verdict' # "drop"
    BY <1>1, <1>2
  <2>2. /\ "tcp_split" \notin noted' /\ "fake_sent" \notin noted'
        /\ "dns_forwarded" \notin noted'
        /\ noted' \ {"packets_seen", "fake_sent"} = {}
    OBVIOUS
  <2> QED BY <2>1, <2>2 DEF OnlyReplacedIsDropped, Kinds
<1> QED BY <1>3, <1>4 DEF DropInv

\* A step that goes on before anything was sent.
LEMMA GoesOn ==
  ASSUME DropInv, pc \notin {"first", "second", "answer", "done"},
         UNCHANGED <<in, sent, verdict>>, noted' \subseteq {"packets_seen"},
         pc' \notin {"first", "second", "answer", "done"}, MeantInv'
  PROVE  DropInv'
<1>1. Kinds' = Kinds /\ sent' \in Seq({sent'[i] : i \in DOMAIN sent'})
  BY KindsSame DEF DropInv
<1>2. SentInv'
  BY <1>1 DEF DropInv, SentInv
<1>3. OnlyReplacedIsDropped'
  <2>1. verdict' # "drop" /\ pc' # "done"
    BY DEF DropInv, SentInv
  <2> QED BY <2>1 DEF OnlyReplacedIsDropped
<1> QED BY <1>2, <1>3 DEF DropInv

\* packet_cb up to the dispatch.
LEMMA DropParsing ==
  ASSUME IInv, DropInv, ParseIp \/ ParseL4 PROVE DropInv'
<1>0. pc \in {"ip", "l4"} /\ noted \subseteq {"packets_seen"} /\ d' = d
      /\ UNCHANGED <<in, sent>> /\ in \in Inputs
  BY DEF ParseIp, ParseL4, DropInv, SentInv, MeantInv, d
<1>1. CASE ParseIp
  <2>1. noted' \subseteq {"packets_seen"}
    BY <1>0, <1>1 DEF ParseIp
  <2>2. CASE Leave("accept")
    BY <1>0, <2>1, <2>2, Passes
  <2>3. CASE Goto("l4")
    <3>1. MeantInv'
      BY <1>0, <2>3 DEF MeantInv, Goto
    <3> QED BY <1>0, <2>1, <2>3, <3>1, GoesOn DEF Goto
  <2> QED BY <1>1, <2>2, <2>3 DEF ParseIp
<1>2. CASE ParseL4
  <2>1. noted' \subseteq {"packets_seen"}
    BY <1>0, <1>2 DEF ParseL4
  <2>2. CASE Leave("accept")
    BY <1>0, <2>1, <2>2, Passes
  <2>3. CASE L4Ok(d) /\ p' = Parsed(d) /\ Goto("port")
    <3>1. IpOk(d)
      BY <1>2 DEF ParseL4, IInv, WalkInv
    <3>2. MeantInv'
      BY <1>0, <2>3, <3>1 DEF MeantInv, Goto
    <3> QED BY <1>0, <2>1, <2>3, <3>2, GoesOn DEF Goto
  <2> QED BY <1>2, <2>2, <2>3 DEF ParseL4
<1> QED BY <1>1, <1>2

\* What a branch of packet_cb takes is such a message to anyone.
LEMMA TakenIs ==
  ASSUME IInv, IpOk(d), L4Ok(d), p = Parsed(d)
  PROVE  /\ p.proto = IPPROTO_UDP /\ p.dport = 443 /\ quic_is_initial
              => IsInitial(d)
         /\ p.proto = IPPROTO_UDP /\ p.dport = 53 /\ p.len > 0
              => IsQuery(d)
         /\ p.proto = IPPROTO_TCP /\ p.dport = 443 /\ bd_tls_is_clienthello
              => IsHello(d)
         /\ p.proto = IPPROTO_TCP /\ p.dport = 80 /\ bd_http_is_request
              => IsRequest(d)
<1>2. \A i : Data(i) = Says(d, i)
  BY DEF Data, Says
<1>3. \A proto, port : p.proto = proto /\ p.dport = port => IsFor(d, proto, port)
  BY DEF IsFor
<1>5. Data(0) \div 16 = 12 => Data(0) \in 192 .. 207
  <2>1. 0 \in Int /\ p.at \in Nat /\ d \in Seq(Byte)
    BY DEF IInv, TypeOK
  <2>2. At(d, p.at + 0) \in 0 .. 255
    <3>1. p.at + 0 \in Int
      BY <2>1
    <3> QED BY <2>1, <3>1, AtType
  <2> DEFINE y == At(d, p.at + 0)
  <2> HIDE DEF y
  <2>3. y \in 0 .. 255 => (y \div 16 = 12 => y \in 192 .. 207)
    OBVIOUS
  <2> QED BY <2>2, <2>3 DEF y, Data
<1>6. p.proto = IPPROTO_UDP /\ p.dport = 443 /\ quic_is_initial => IsInitial(d)
  BY <1>2, <1>3, <1>5 DEF quic_is_initial, IsInitial
<1>7. p.proto = IPPROTO_UDP /\ p.dport = 53 /\ p.len > 0 => IsQuery(d)
  BY <1>3 DEF IsQuery
<1>8. p.proto = IPPROTO_TCP /\ p.dport = 443 /\ bd_tls_is_clienthello => IsHello(d)
  BY <1>2, <1>3 DEF bd_tls_is_clienthello, IsHello
<1>9. p.proto = IPPROTO_TCP /\ p.dport = 80 /\ bd_http_is_request => IsRequest(d)
  <2> SUFFICES ASSUME p.proto = IPPROTO_TCP, p.dport = 80, bd_http_is_request
               PROVE  IsRequest(d)
    OBVIOUS
  <2>1. PICK m \in kMethods : Starts(m)
    BY DEF bd_http_is_request
  <2>2. Parsed(d).len >= Len(m) /\ \A i \in DOMAIN m : Says(d, i - 1) = m[i]
    BY <1>2, <2>1 DEF Starts
  <2>3. Parsed(d).len >= 5 /\ IsFor(d, IPPROTO_TCP, 80)
    BY <1>3 DEF bd_http_is_request
  <2> QED BY <2>1, <2>2, <2>3 DEF IsRequest
<1> QED BY <1>6, <1>7, <1>8, <1>9

\* And one of the kind its sender meant.
LEMMA TakenIsMeant ==
  ASSUME IInv, DropInv, pc = "port"
  PROVE  /\ p.proto = IPPROTO_UDP /\ p.dport = 443 /\ quic_is_initial
              => in.what = "initial"
         /\ p.proto = IPPROTO_UDP /\ p.dport = 53 /\ p.len > 0
              => in.what = "query"
         /\ p.proto = IPPROTO_TCP /\ p.dport = 443 /\ bd_tls_is_clienthello
              => in.what = "hello"
         /\ p.proto = IPPROTO_TCP /\ p.dport = 80 /\ bd_http_is_request
              => in.what = "request"
<1>1. IpOk(d) /\ L4Ok(d) /\ p = Parsed(d) /\ in \in Inputs /\ d = in.bytes
  BY DEF DropInv, MeantInv, d
<1>2. /\ IsInitial(d) => in.what = "initial"
      /\ IsQuery(d) => in.what = "query"
      /\ IsHello(d) => in.what = "hello"
      /\ IsRequest(d) => in.what = "request"
  BY <1>1, KindAssumption
<1> QED BY <1>1, <1>2, TakenIs

\* The branches of packet_cb: only a QUIC Initial is dropped on the spot.
LEMMA DropDispatch ==
  ASSUME IInv, DropInv, Dispatch PROVE DropInv'
<1>0. /\ pc = "port" /\ UNCHANGED <<in, sent>> /\ in \in Inputs
      /\ noted \subseteq {"packets_seen"} /\ Kinds = {}
  BY DEF Dispatch, DispatchTls, DispatchHttp, DispatchDns, DispatchQuic,
         DispatchNone, Branch, DropInv, SentInv, MeantInv
<1>1. Kinds' = {} /\ sent' \in Seq({sent'[i] : i \in DOMAIN sent'})
  BY <1>0, KindsSame DEF DropInv
<1>2. CASE DispatchTls
  <2>1. noted' = noted /\ p.proto = IPPROTO_TCP /\ p.dport = 443
    BY <1>2 DEF DispatchTls, Branch
  <2>2. CASE Leave("accept")
    BY <1>0, <2>1, <2>2, Passes
  <2>3. CASE bd_tls_is_clienthello /\ Goto("tls")
    <3>1. in.what = "hello"
      BY <1>0, <2>1, <2>3, TakenIsMeant
    <3>2. MeantInv'
      BY <1>0, <2>3, <3>1 DEF MeantInv, Goto
    <3> QED BY <1>0, <2>1, <2>3, <3>2, GoesOn DEF Goto
  <2> QED BY <1>2, <2>2, <2>3 DEF DispatchTls
<1>3. CASE DispatchHttp
  <2>1. noted' = noted /\ p.proto = IPPROTO_TCP /\ p.dport = 80
    BY <1>3 DEF DispatchHttp, Branch
  <2>2. CASE Leave("accept")
    BY <1>0, <2>1, <2>2, Passes
  <2>3. CASE bd_http_is_request /\ Goto("http")
    <3>1. in.what = "request"
      BY <1>0, <2>1, <2>3, TakenIsMeant
    <3>2. MeantInv'
      BY <1>0, <2>3, <3>1 DEF MeantInv, Goto
    <3> QED BY <1>0, <2>1, <2>3, <3>2, GoesOn DEF Goto
  <2> QED BY <1>3, <2>2, <2>3 DEF DispatchHttp
<1>4. CASE DispatchDns
  <2>1. noted' = noted /\ p.proto = IPPROTO_UDP /\ p.dport = 53
    BY <1>4 DEF DispatchDns, Branch
  <2>2. CASE Leave("accept")
    BY <1>0, <2>1, <2>2, Passes
  <2>3. CASE p.len \in 1 .. BD_DNS_MAX /\ pc' = "answer" /\ verdict' = "drop"
    <3>1. p.len > 0
      BY <2>3, DissectAssumption
    <3>2. in.what = "query" /\ in' = in
      BY <1>0, <2>1, <3>1, TakenIsMeant
    <3>3. SentInv' /\ MeantInv'
      BY <1>0, <1>1, <2>1, <2>3, <3>2 DEF SentInv, MeantInv
    <3>4. OnlyReplacedIsDropped'
      BY <2>3, <3>2 DEF OnlyReplacedIsDropped
    <3> QED BY <3>3, <3>4 DEF DropInv
  <2> QED BY <1>4, <2>2, <2>3 DEF DispatchDns
<1>5. CASE DispatchQuic
  <2>1. p.proto = IPPROTO_UDP /\ p.dport = 443
    BY <1>5 DEF DispatchQuic, Branch
  <2>2. CASE Leave("accept") /\ UNCHANGED noted
    BY <1>0, <2>1, <2>2, Passes
  <2>3. CASE /\ quic_is_initial /\ Leave("drop")
             /\ noted' = noted \cup {"quic_handled"}
    <3>1. in.what = "initial" /\ in' = in /\ pc' = "done" /\ verdict' = "drop"
      BY <1>0, <2>1, <2>3, TakenIsMeant DEF Leave
    <3>2. SentInv' /\ MeantInv'
      BY <1>0, <1>1, <3>1 DEF SentInv, MeantInv
    <3>3. /\ "quic_handled" \in noted' /\ "tcp_split" \notin noted'
          /\ "fake_sent" \notin noted' /\ "dns_forwarded" \notin noted'
      BY <1>0, <2>3
    <3>4. OnlyReplacedIsDropped'
      BY <1>1, <3>1, <3>3 DEF OnlyReplacedIsDropped, Kinds
    <3> QED BY <3>2, <3>4 DEF DropInv
  <2> QED BY <1>5, <2>2, <2>3 DEF DispatchQuic
<1>6. CASE DispatchNone
  BY <1>0, <1>6, Passes DEF DispatchNone
<1> QED BY <1>2, <1>3, <1>4, <1>5, <1>6 DEF Dispatch

\* The parsers of tls.c and http.c send, count and decide nothing.
LEMMA DropWalking ==
  ASSUME DropInv, Walking \/ HttpScan PROVE DropInv'
<1> DEFINE Inside == {"tls", "sid", "ciphers", "compression", "extlen", "ext",
                      "name", "http", "cut"}
<1>1. /\ UNCHANGED <<in, sent, noted, verdict>>
      /\ pc \in Inside /\ pc' \in Inside
  BY DEF Walking, TlsFixedPart, SessionId, Ciphers, Compression, Skip,
         ExtensionsLength, Extension, ServerName, HttpScan, Found, NotFound, Goto
<1>2. MeantInv'
  BY <1>1 DEF DropInv, MeantInv
<1>3. noted' \subseteq {"packets_seen"}
  BY <1>1 DEF DropInv, SentInv
<1> QED BY <1>1, <1>2, <1>3, GoesOn

\* The choice of the split.
LEMMA DropCut ==
  ASSUME DropInv, Cut PROVE DropInv'
<1>1. pc = "cut" /\ UNCHANGED <<in, sent, noted>>
  BY DEF Cut
<1>2. noted' \subseteq {"packets_seen"}
  BY <1>1 DEF DropInv, SentInv
<1>3. CASE Leave("accept")
  BY <1>1, <1>2, <1>3, Passes
<1>4. CASE Goto("fake")
  <2>1. MeantInv'
    BY <1>1, <1>4 DEF DropInv, MeantInv, Goto
  <2> QED BY <1>1, <1>2, <1>4, <2>1, GoesOn DEF Goto
<1> QED BY <1>3, <1>4 DEF Cut

\* The three frames of a request: it is dropped only if both fragments left.
LEMMA DropFrames ==
  ASSUME DropInv, SendFake \/ SendFirst \/ SendSecond PROVE DropInv'
<1>0. UNCHANGED in /\ pc \in {"fake", "first", "second"} /\ SentInv /\ MeantInv
      /\ verdict = "none" /\ in \in Inputs /\ in.what \in {"hello", "request"}
  BY DEF SendFake, SendFirst, SendSecond, DropInv, SentInv, MeantInv
<1>1. CASE SendFake
  <2>1. PICK ok \in BOOLEAN :
          /\ SendTcp("fake", 0, p.len, p.seq, p.flags, FakeTtl, ok)
          /\ noted' = IF ok THEN noted \cup {"fake_sent"} ELSE noted
    BY <1>1 DEF SendFake
  <2>2. /\ Kinds' = IF ok THEN Kinds \cup {"fake"} ELSE Kinds
        /\ sent' \in Seq({sent'[i] : i \in DOMAIN sent'})
    BY <1>0, <2>1, InjectSends DEF SendTcp
  <2>3. pc = "fake" /\ pc' = "first" /\ verdict' = "none"
    BY <1>0, <1>1 DEF SendFake, Goto
  <2>4. Kinds = {} /\ noted \subseteq {"packets_seen"}
    BY <1>0, <2>3 DEF SentInv
  <2>5. /\ Kinds' \subseteq {"fake"} /\ noted' \subseteq {"packets_seen", "fake_sent"}
        /\ "fake_sent" \in noted' <=> "fake" \in Kinds'
    BY <2>1, <2>2, <2>4
  <2>6. SentInv' /\ MeantInv'
    BY <1>0, <2>2, <2>3, <2>5 DEF SentInv, MeantInv
  <2>7. OnlyReplacedIsDropped'
    BY <2>3 DEF OnlyReplacedIsDropped
  <2> QED BY <2>6, <2>7 DEF DropInv
<1>2. CASE SendFirst
  <2>1. PICK ok \in BOOLEAN :
          /\ SendTcp("first", 0, split, p.seq, FirstFlags(p.flags), BD_REAL_TTL, ok)
          /\ rc1' = Rc(ok)
    BY <1>2 DEF SendFirst
  <2>2. /\ Kinds' = IF ok THEN Kinds \cup {"first"} ELSE Kinds
        /\ sent' \in Seq({sent'[i] : i \in DOMAIN sent'})
    BY <1>0, <2>1, InjectSends DEF SendTcp
  <2>3. pc = "first" /\ pc' = "second" /\ verdict' = "none" /\ noted' = noted
    BY <1>0, <1>2 DEF SendFirst, Goto
  <2>4. /\ Kinds \subseteq {"fake"} /\ noted \subseteq {"packets_seen", "fake_sent"}
        /\ "fake_sent" \in noted <=> "fake" \in Kinds
    BY <1>0, <2>3 DEF SentInv
  <2>5. /\ Kinds' \subseteq {"fake", "first"} /\ (rc1' = 0 <=> "first" \in Kinds')
        /\ "fake_sent" \in noted' <=> "fake" \in Kinds'
    BY <2>1, <2>2, <2>3, <2>4 DEF Rc
  <2>6. SentInv' /\ MeantInv'
    BY <1>0, <2>2, <2>3, <2>4, <2>5 DEF SentInv, MeantInv
  <2>7. OnlyReplacedIsDropped'
    BY <2>3 DEF OnlyReplacedIsDropped
  <2> QED BY <2>6, <2>7 DEF DropInv
<1>3. CASE SendSecond
  <2>1. PICK ok \in BOOLEAN :
          /\ SendTcp("second", split, p.len - split, Add32(p.seq, split), p.flags,
                     BD_REAL_TTL, ok)
          /\ Leave(Verdict(rc1, Rc(ok)))
    BY <1>3 DEF SendSecond
  <2>2. /\ Kinds' = IF ok THEN Kinds \cup {"second"} ELSE Kinds
        /\ sent' \in Seq({sent'[i] : i \in DOMAIN sent'})
    BY <1>0, <2>1, InjectSends DEF SendTcp
  <2>3. /\ pc = "second" /\ pc' = "done"
        /\ verdict' = (IF rc1 = 0 /\ ok THEN "drop" ELSE "accept")
        /\ noted' = IF verdict' = "drop" THEN noted \cup {"tcp_split"} ELSE noted
    BY <1>3, <2>1 DEF SendSecond, Leave, Verdict, Rc
  <2>4. /\ Kinds \subseteq {"fake", "first"} /\ (rc1 = 0 <=> "first" \in Kinds)
        /\ noted \subseteq {"packets_seen", "fake_sent"}
        /\ "fake_sent" \in noted <=> "fake" \in Kinds
    BY <1>0, <2>3 DEF SentInv
  <2>5. verdict' = "drop" <=> {"first", "second"} \subseteq Kinds'
    BY <2>2, <2>3, <2>4
  <2>6. /\ "tcp_split" \in noted' <=> verdict' = "drop"
        /\ "fake_sent" \in noted' <=> "fake" \in Kinds'
        /\ "dns_forwarded" \notin noted' /\ "answer" \notin Kinds'
        /\ verdict' # "drop" => noted' \ {"packets_seen", "fake_sent"} = {}
    BY <2>2, <2>3, <2>4
  <2>7. SentInv' /\ MeantInv'
    BY <1>0, <2>2, <2>3 DEF SentInv, MeantInv
  <2>8. OnlyReplacedIsDropped'
    BY <1>0, <2>5, <2>6 DEF OnlyReplacedIsDropped, Kinds
  <2> QED BY <2>7, <2>8 DEF DropInv
<1> QED BY <1>1, <1>2, <1>3

\* The answer to a query.
LEMMA DropAnswer ==
  ASSUME DropInv, Answer PROVE DropInv'
<1>0. /\ UNCHANGED in /\ pc = "answer" /\ pc' = "done" /\ SentInv
      /\ in \in Inputs /\ in.what = "query" /\ Kinds = {}
      /\ noted \subseteq {"packets_seen"} /\ verdict' = verdict
  BY DEF Answer, Leave, DropInv, SentInv, MeantInv
<1>1. PICK ok \in BOOLEAN :
        /\ Kinds' = (IF ok THEN Kinds \cup {"answer"} ELSE Kinds)
        /\ sent' \in Seq({sent'[i] : i \in DOMAIN sent'})
        /\ noted' = IF ok THEN noted \cup {"dns_forwarded"} ELSE noted
  <2>1. CASE UNCHANGED <<sent, noted>>
    <3>1. Kinds' = Kinds /\ sent' \in Seq({sent'[i] : i \in DOMAIN sent'})
      BY <1>0, <2>1, KindsSame
    <3> QED BY <2>1, <3>1
  <2>2. CASE \E r \in Replies, ok \in BOOLEAN :
               /\ Inject("answer", p.dst, p.src, IPPROTO_UDP, BD_REAL_TTL,
                         build_udp_l4(p.dport, p.sport, r), ok)
               /\ noted' = IF ok THEN noted \cup {"dns_forwarded"} ELSE noted
    <3>1. PICK r \in Replies, ok \in BOOLEAN :
            /\ Inject("answer", p.dst, p.src, IPPROTO_UDP, BD_REAL_TTL,
                      build_udp_l4(p.dport, p.sport, r), ok)
            /\ noted' = IF ok THEN noted \cup {"dns_forwarded"} ELSE noted
      BY <2>2
    <3>2. /\ Kinds' = (IF ok THEN Kinds \cup {"answer"} ELSE Kinds)
          /\ sent' \in Seq({sent'[i] : i \in DOMAIN sent'})
      BY <1>0, <3>1, InjectSends
    <3> QED BY <3>1, <3>2
  <2> QED BY <2>1, <2>2 DEF Answer
<1>2. SentInv' /\ MeantInv'
  BY <1>0, <1>1 DEF SentInv, MeantInv
<1>3. /\ verdict' = "drop" /\ "tcp_split" \notin noted' /\ "fake_sent" \notin noted'
      /\ "dns_forwarded" \in noted' <=> "answer" \in Kinds'
      /\ "first" \notin Kinds' /\ "fake" \notin Kinds'
  BY <1>0, <1>1 DEF SentInv
<1>4. OnlyReplacedIsDropped'
  BY <1>0, <1>3 DEF OnlyReplacedIsDropped, Kinds
<1> QED BY <1>2, <1>4 DEF DropInv

\* Every step keeps all of it.
LEMMA DropInductive == Spec => []DropInv
<1>1. IInv /\ DropInv /\ [Next]_vars => DropInv'
  <2> SUFFICES ASSUME IInv, DropInv, [Next]_vars PROVE DropInv'
    OBVIOUS
  <2>1. CASE Parsing
    BY <2>1, DropParsing, DropDispatch DEF Parsing
  <2>2. CASE Walking \/ HttpScan
    BY <2>2, DropWalking
  <2>3. CASE Cut
    BY <2>3, DropCut
  <2>4. CASE Sending
    BY <2>4, DropFrames, DropAnswer DEF Sending
  <2>5. CASE UNCHANGED vars
    <3>1. UNCHANGED <<in, pc, p, rc1, sent, noted, verdict>>
      BY <2>5 DEF vars
    <3>2. Kinds' = Kinds /\ d' = d
      BY <3>1 DEF Kinds, d
    <3>3. SentInv'
      BY <3>1, <3>2 DEF DropInv, SentInv
    <3>4. MeantInv'
      BY <3>1, <3>2 DEF DropInv, MeantInv
    <3>5. OnlyReplacedIsDropped'
      BY <3>1 DEF DropInv, OnlyReplacedIsDropped
    <3> QED BY <3>3, <3>4, <3>5 DEF DropInv
  <2> QED BY <2>1, <2>2, <2>3, <2>4, <2>5 DEF Next
<1> QED BY <1>1, DropInit, Inductive, PTL DEF Spec

\* A datagram is dropped only when something stands in for it, and the
\* counters say what: for every datagram and every failure of a sendto, a
\* dropped one is a QUIC Initial, a DNS query, or a request both of whose
\* fragments went out (packet_cb, bd_tcp_handle, dns_worker).
THEOREM DropsAreReplaced == Spec => []OnlyReplacedIsDropped
BY DropInductive, PTL DEF DropInv

-----------------------------------------------------------------------------
(* Assembling a frame and reading it back.  The checksums are arbitrary    *)
(* here, so the bytes are members of some set S of values.                 *)

\* Offsets in two pieces put together.
LEMMA CatAt ==
  ASSUME NEW S, NEW a \in Seq(S), NEW b \in Seq(S)
  PROVE  /\ a \o b \in Seq(S) /\ Len(a \o b) = Len(a) + Len(b)
         /\ \A i \in 0 .. Len(a) - 1 : At(a \o b, i) = At(a, i)
         /\ \A j \in Len(a) .. Len(a) + Len(b) - 1 : At(a \o b, j) = At(b, j - Len(a))
<1> DEFINE c == a \o b
           m == Len(a)
           n == Len(b)
<1>1. m \in Nat /\ n \in Nat
  OBVIOUS
<1>2. c \in Seq(S) /\ Len(c) = m + n
      /\ \A i \in 1 .. m + n : c[i] = IF i <= m THEN a[i] ELSE b[i - m]
  BY ConcatProperties, Zenon
<1> HIDE DEF c
<1>3. ASSUME NEW i \in 0 .. m - 1 PROVE At(c, i) = At(a, i)
  <2>1. i \in 0 .. Len(c) - 1 /\ i + 1 \in 1 .. m + n /\ i + 1 <= m
    BY <1>1, <1>2
  <2> QED BY <1>2, <2>1 DEF At
<1>4. ASSUME NEW j \in m .. m + n - 1 PROVE At(c, j) = At(b, j - m)
  <2>1. j \in 0 .. Len(c) - 1 /\ j + 1 \in 1 .. m + n /\ ~(j + 1 <= m)
        /\ (j + 1) - m = (j - m) + 1 /\ j - m \in 0 .. n - 1
    BY <1>1, <1>2
  <2> HIDE DEF m, n
  <2>2. At(c, j) = c[j + 1]
    BY <2>1 DEF At
  <2>3. c[j + 1] = b[(j - m) + 1]
    BY <1>2, <2>1
  <2>4. At(b, j - m) = b[(j - m) + 1]
    BY <2>1 DEF At, n
  <2> QED BY <2>2, <2>3, <2>4
<1> QED BY <1>2, <1>3, <1>4 DEF c

\* A part of a frame.
LEMMA SliceAt ==
  ASSUME NEW S, NEW a \in Seq(S), NEW i \in Nat, NEW n \in Nat, i + n <= Len(a)
  PROVE  /\ Slice(a, i, n) \in Seq(S) /\ Len(Slice(a, i, n)) = n
         /\ \A k \in 0 .. n - 1 : At(Slice(a, i, n), k) = At(a, i + k)
<1> DEFINE c == Slice(a, i, n)
<1>1. Len(a) \in Nat
  OBVIOUS
<1>2. c \in Seq(S) /\ Len(c) = n /\ \A k \in 1 .. n : c[k] = a[i + k]
  <2>1. /\ i + 1 \in 1 .. Len(a) + 1 /\ i + n \in i .. Len(a)
        /\ (i + 1) \in Nat
    BY <1>1
  <2>2. CASE n = 0
    BY <2>1, <2>2 DEF Slice
  <2>3. CASE n > 0
    BY <2>1, <2>3 DEF Slice
  <2> QED BY <2>2, <2>3
<1> HIDE DEF c
<1>3. ASSUME NEW k \in 0 .. n - 1 PROVE At(c, k) = At(a, i + k)
  <2>1. /\ k \in 0 .. Len(c) - 1 /\ k + 1 \in 1 .. n /\ i + k \in 0 .. Len(a) - 1
        /\ i + (k + 1) = (i + k) + 1
    BY <1>1, <1>2
  <2> QED BY <1>2, <2>1 DEF At
<1> QED BY <1>2, <1>3 DEF c

\* Pieces with the same bytes are the same.
LEMMA SameBytes ==
  ASSUME NEW S, NEW a \in Seq(S), NEW b \in Seq(S), Len(a) = Len(b),
         \A k \in 0 .. Len(a) - 1 : At(a, k) = At(b, k)
  PROVE  a = b
<1>1. ASSUME NEW i \in 1 .. Len(a) PROVE a[i] = b[i]
  <2>1. i - 1 \in 0 .. Len(a) - 1 /\ i - 1 \in 0 .. Len(b) - 1 /\ (i - 1) + 1 = i
    OBVIOUS
  <2> QED BY <2>1 DEF At
<1> QED BY <1>1, SeqEqual

\* Two bytes.
LEMMA TwoBytes ==
  ASSUME NEW S, NEW x \in S, NEW y \in S
  PROVE  /\ <<x, y>> \in Seq(S) /\ Len(<<x, y>>) = 2
         /\ At(<<x, y>>, 0) = x /\ At(<<x, y>>, 1) = y
BY DEF At

\* Bytes that are zero.
LEMMA ZerosAre ==
  ASSUME NEW S, Int \subseteq S, NEW n \in Nat
  PROVE  Zeros(n) \in Seq(S) /\ Len(Zeros(n)) = n
<1> DEFINE z == Zeros(n)
<1>1. z \in [1 .. n -> S]
  BY DEF Zeros
<1> HIDE DEF z
<1>2. z \in UNION {[1 .. k -> S] : k \in Nat}
  BY <1>1, Zenon
<1>3. z \in Seq(S)
  BY <1>2, SeqDef, Zenon
<1>4. DOMAIN z = 1 .. Len(z) /\ Len(z) \in Nat
  BY <1>3, LenProperties, Zenon
<1>5. DOMAIN z = 1 .. n
  BY <1>1
<1>6. Len(z) = n
  <2>1. n > 0 => n \in 1 .. Len(z)
    BY <1>4, <1>5
  <2>2. Len(z) > 0 => Len(z) \in 1 .. n
    BY <1>4, <1>5
  <2>3. ASSUME NEW m \in Nat, n > 0 => n \in 1 .. m, m > 0 => m \in 1 .. n
        PROVE  m = n
    BY <2>3
  <2> QED BY <1>4, <2>1, <2>2, <2>3, Zenon
<1> QED BY <1>3, <1>6 DEF z

\* Numbers in network order.
LEMMA Be16At ==
  ASSUME NEW S, Int \subseteq S, NEW w \in Word
  PROVE  /\ Be16(w) \in Seq(S) /\ Len(Be16(w)) = 2
         /\ Rd16(Be16(w), 0) = w
<1> DEFINE x == w \div 256
           y == w % 256
<1>1. x \in Int /\ y \in Int /\ 256 * x + y = w
  BY SMTT(30) DEF Word
<1>2. x \in S /\ y \in S
  BY <1>1
<1> HIDE DEF x, y
<1>3. /\ <<x, y>> \in Seq(S) /\ Len(<<x, y>>) = 2
      /\ At(<<x, y>>, 0) = x /\ At(<<x, y>>, 1) = y
  BY <1>2, TwoBytes
<1>4. Be16(w) = <<x, y>>
  BY DEF Be16, x, y
<1>5. Rd16(<<x, y>>, 0) = w
  <2>1. 0 + 1 = 1
    OBVIOUS
  <2> QED BY <1>1, <1>3, <2>1 DEF Rd16
<1> QED BY <1>3, <1>4, <1>5

\* A frame read two bytes at a time.
LEMMA CatRd16 ==
  ASSUME NEW S, NEW a \in Seq(S), NEW b \in Seq(S)
  PROVE  /\ \A i \in 0 .. Len(a) - 2 : Rd16(a \o b, i) = Rd16(a, i)
         /\ \A j \in Len(a) .. Len(a) + Len(b) - 2 : Rd16(a \o b, j) = Rd16(b, j - Len(a))
<1>0. Len(a) \in Nat /\ Len(b) \in Nat
  OBVIOUS
<1>1. ASSUME NEW i \in 0 .. Len(a) - 2 PROVE Rd16(a \o b, i) = Rd16(a, i)
  <2>1. i \in 0 .. Len(a) - 1 /\ i + 1 \in 0 .. Len(a) - 1
    BY <1>0
  <2>2. At(a \o b, i) = At(a, i) /\ At(a \o b, i + 1) = At(a, i + 1)
    BY <2>1, CatAt
  <2> QED BY <2>2 DEF Rd16
<1>2. ASSUME NEW j \in Len(a) .. Len(a) + Len(b) - 2
      PROVE  Rd16(a \o b, j) = Rd16(b, j - Len(a))
  <2>1. /\ j \in Len(a) .. Len(a) + Len(b) - 1 /\ j + 1 \in Len(a) .. Len(a) + Len(b) - 1
        /\ (j + 1) - Len(a) = (j - Len(a)) + 1
    BY <1>0
  <2>2. At(a \o b, j) = At(b, j - Len(a)) /\ At(a \o b, j + 1) = At(b, (j + 1) - Len(a))
    BY <2>1, CatAt
  <2> QED BY <2>1, <2>2 DEF Rd16
<1> QED BY <1>1, <1>2

\* A uint32_t in network order.
LEMMA Be32At ==
  ASSUME NEW S, Int \subseteq S, NEW u \in Word \X Word
  PROVE  /\ Be32(u) \in Seq(S) /\ Len(Be32(u)) = 4
         /\ Rd16(Be32(u), 0) = u[1] /\ Rd16(Be32(u), 2) = u[2]
<1> DEFINE a == Be16(u[1])
           b == Be16(u[2])
<1>1. u[1] \in Word /\ u[2] \in Word
  OBVIOUS
<1>2. a \in Seq(S) /\ Len(a) = 2 /\ Rd16(a, 0) = u[1]
  BY <1>1, Be16At
<1>3. b \in Seq(S) /\ Len(b) = 2 /\ Rd16(b, 0) = u[2]
  BY <1>1, Be16At
<1> HIDE DEF a, b
<1>4. a \o b \in Seq(S) /\ Len(a \o b) = Len(a) + Len(b)
  BY <1>2, <1>3, CatAt, Zenon
<1>5. /\ \A i \in 0 .. Len(a) - 2 : Rd16(a \o b, i) = Rd16(a, i)
      /\ \A j \in Len(a) .. Len(a) + Len(b) - 2 : Rd16(a \o b, j) = Rd16(b, j - Len(a))
  BY <1>2, <1>3, CatRd16, Zenon
<1>6. Rd16(a \o b, 0) = Rd16(a, 0) /\ Rd16(a \o b, 2) = Rd16(b, 0)
  <2>1. 0 \in 0 .. Len(a) - 2 /\ 2 \in Len(a) .. Len(a) + Len(b) - 2 /\ 2 - Len(a) = 0
    BY <1>2, <1>3
  <2> QED BY <1>5, <2>1
<1>7. Len(a \o b) = 4
  BY <1>2, <1>3, <1>4
<1> QED BY <1>2, <1>3, <1>4, <1>6, <1>7 DEF Be32, a, b

\* Putting a piece of two or four bytes at the end of a header of n bytes.
LEMMA AddTwo ==
  ASSUME NEW S, NEW a \in Seq(S), NEW b \in Seq(S), Len(b) = 2
  PROVE  /\ a \o b \in Seq(S) /\ Len(a \o b) = Len(a) + 2
         /\ \A i \in 0 .. Len(a) - 2 : Rd16(a \o b, i) = Rd16(a, i)
         /\ \A i \in 0 .. Len(a) - 1 : At(a \o b, i) = At(a, i)
         /\ Rd16(a \o b, Len(a)) = Rd16(b, 0)
         /\ At(a \o b, Len(a)) = At(b, 0) /\ At(a \o b, Len(a) + 1) = At(b, 1)
<1>1. /\ Len(a) \in Nat /\ Len(a) \in Len(a) .. Len(a) + Len(b) - 2
      /\ Len(a) \in Len(a) .. Len(a) + Len(b) - 1
      /\ Len(a) + 1 \in Len(a) .. Len(a) + Len(b) - 1
      /\ Len(a) - Len(a) = 0 /\ (Len(a) + 1) - Len(a) = 1
  OBVIOUS
<1>2. /\ a \o b \in Seq(S) /\ Len(a \o b) = Len(a) + Len(b)
      /\ \A i \in 0 .. Len(a) - 1 : At(a \o b, i) = At(a, i)
      /\ \A j \in Len(a) .. Len(a) + Len(b) - 1 : At(a \o b, j) = At(b, j - Len(a))
  BY CatAt, Zenon
<1>3. /\ \A i \in 0 .. Len(a) - 2 : Rd16(a \o b, i) = Rd16(a, i)
      /\ \A j \in Len(a) .. Len(a) + Len(b) - 2 : Rd16(a \o b, j) = Rd16(b, j - Len(a))
  BY CatRd16, Zenon
<1> QED BY <1>1, <1>2, <1>3

\* The same with four bytes.
LEMMA AddFour ==
  ASSUME NEW S, NEW a \in Seq(S), NEW b \in Seq(S), Len(b) = 4
  PROVE  /\ a \o b \in Seq(S) /\ Len(a \o b) = Len(a) + 4
         /\ \A i \in 0 .. Len(a) - 2 : Rd16(a \o b, i) = Rd16(a, i)
         /\ \A i \in 0 .. Len(a) - 1 : At(a \o b, i) = At(a, i)
         /\ Rd16(a \o b, Len(a)) = Rd16(b, 0)
         /\ Rd16(a \o b, Len(a) + 2) = Rd16(b, 2)
<1>1. /\ Len(a) \in Nat /\ Len(a) \in Len(a) .. Len(a) + Len(b) - 2
      /\ Len(a) + 2 \in Len(a) .. Len(a) + Len(b) - 2
      /\ Len(a) - Len(a) = 0 /\ (Len(a) + 2) - Len(a) = 2
  OBVIOUS
<1>2. /\ a \o b \in Seq(S) /\ Len(a \o b) = Len(a) + Len(b)
      /\ \A i \in 0 .. Len(a) - 1 : At(a \o b, i) = At(a, i)
      /\ \A j \in Len(a) .. Len(a) + Len(b) - 1 : At(a \o b, j) = At(b, j - Len(a))
  BY CatAt, Zenon
<1>3. /\ \A i \in 0 .. Len(a) - 2 : Rd16(a \o b, i) = Rd16(a, i)
      /\ \A j \in Len(a) .. Len(a) + Len(b) - 2 : Rd16(a \o b, j) = Rd16(b, j - Len(a))
  BY CatRd16, Zenon
<1> QED BY <1>1, <1>2, <1>3

\* A TCP segment b of elements of S without options, as it is read.
TcpLies(S, b, sport, dport, seq, ack, flags, window, payload) ==
  /\ b \in Seq(S) /\ Len(b) = 20 + Len(payload)
  /\ Rd16(b, 0) = sport /\ Rd16(b, 2) = dport
  /\ Rd16(b, 4) = seq[1] /\ Rd16(b, 6) = seq[2]
  /\ Rd16(b, 8) = ack[1] /\ Rd16(b, 10) = ack[2]
  /\ At(b, 12) = 80 /\ At(b, 13) = flags /\ Rd16(b, 14) = window
  /\ \A k \in 0 .. Len(payload) - 1 : At(b, k + 20) = At(payload, k)

\* build_tcp_l4 writes what bd_packet_parse reads.
LEMMA TcpBuilt ==
  ASSUME NEW S, Int \subseteq S, NEW sport \in Word, NEW dport \in Word,
         NEW seq \in Word \X Word, NEW ack \in Word \X Word, NEW flags \in Int,
         NEW window \in Word, NEW payload \in Seq(S)
  PROVE  TcpLies(S, build_tcp_l4(sport, dport, seq, ack, flags, window, payload),
                 sport, dport, seq, ack, flags, window, payload)
<1> DEFINE b1 == Be16(sport)
           b2 == Be16(dport)
           b3 == Be32(seq)
           b4 == Be32(ack)
           b5 == <<80, flags>>
           b6 == Be16(window)
           b7 == Zeros(4)
<1>1. b1 \in Seq(S) /\ Len(b1) = 2 /\ Rd16(b1, 0) = sport
  BY Be16At
<1>2. b2 \in Seq(S) /\ Len(b2) = 2 /\ Rd16(b2, 0) = dport
  BY Be16At
<1>3. b3 \in Seq(S) /\ Len(b3) = 4 /\ Rd16(b3, 0) = seq[1] /\ Rd16(b3, 2) = seq[2]
  BY Be32At
<1>4. b4 \in Seq(S) /\ Len(b4) = 4 /\ Rd16(b4, 0) = ack[1] /\ Rd16(b4, 2) = ack[2]
  BY Be32At
<1>5. b5 \in Seq(S) /\ Len(b5) = 2 /\ At(b5, 0) = 80 /\ At(b5, 1) = flags
  BY TwoBytes
<1>6. b6 \in Seq(S) /\ Len(b6) = 2 /\ Rd16(b6, 0) = window
  BY Be16At
<1>7. b7 \in Seq(S) /\ Len(b7) = 4
  BY ZerosAre
<1> HIDE DEF b1, b2, b3, b4, b5, b6, b7
<1> DEFINE t2 == b1 \o b2
           t3 == t2 \o b3
           t4 == t3 \o b4
           t5 == t4 \o b5
           t6 == t5 \o b6
           t7 == t6 \o b7
           t8 == t7 \o payload
<1>12. t2 \in Seq(S) /\ Len(t2) = 4 /\ Rd16(t2, 0) = sport /\ Rd16(t2, 2) = dport
  <2>1. 0 \in 0 .. Len(b1) - 2
    BY <1>1
  <2> QED BY <1>1, <1>2, <2>1, AddTwo
<1> HIDE DEF t2
<1>13. /\ t3 \in Seq(S) /\ Len(t3) = 8 /\ Rd16(t3, 0) = sport /\ Rd16(t3, 2) = dport
       /\ Rd16(t3, 4) = seq[1] /\ Rd16(t3, 6) = seq[2]
  <2>0. t2 \in Seq(S) /\ b3 \in Seq(S) /\ Len(b3) = 4
    BY <1>3, <1>12
  <2>1. /\ t2 \o b3 \in Seq(S) /\ Len(t2 \o b3) = Len(t2) + 4
        /\ \A i \in 0 .. Len(t2) - 2 : Rd16(t2 \o b3, i) = Rd16(t2, i)
        /\ \A i \in 0 .. Len(t2) - 1 : At(t2 \o b3, i) = At(t2, i)
        /\ Rd16(t2 \o b3, Len(t2)) = Rd16(b3, 0)
        /\ Rd16(t2 \o b3, Len(t2) + 2) = Rd16(b3, 2)
    BY <2>0, AddFour, Zenon
  <2> QED BY <1>3, <1>12, <2>1
<1> HIDE DEF t3
<1>14. /\ t4 \in Seq(S) /\ Len(t4) = 12 /\ Rd16(t4, 0) = sport /\ Rd16(t4, 2) = dport
       /\ Rd16(t4, 4) = seq[1] /\ Rd16(t4, 6) = seq[2]
       /\ Rd16(t4, 8) = ack[1] /\ Rd16(t4, 10) = ack[2]
  <2>0. t3 \in Seq(S) /\ b4 \in Seq(S) /\ Len(b4) = 4
    BY <1>4, <1>13
  <2>1. /\ t3 \o b4 \in Seq(S) /\ Len(t3 \o b4) = Len(t3) + 4
        /\ \A i \in 0 .. Len(t3) - 2 : Rd16(t3 \o b4, i) = Rd16(t3, i)
        /\ \A i \in 0 .. Len(t3) - 1 : At(t3 \o b4, i) = At(t3, i)
        /\ Rd16(t3 \o b4, Len(t3)) = Rd16(b4, 0)
        /\ Rd16(t3 \o b4, Len(t3) + 2) = Rd16(b4, 2)
    BY <2>0, AddFour, Zenon
  <2> QED BY <1>4, <1>13, <2>1
<1> HIDE DEF t4
<1>15. /\ t5 \in Seq(S) /\ Len(t5) = 14 /\ Rd16(t5, 0) = sport /\ Rd16(t5, 2) = dport
       /\ Rd16(t5, 4) = seq[1] /\ Rd16(t5, 6) = seq[2]
       /\ Rd16(t5, 8) = ack[1] /\ Rd16(t5, 10) = ack[2]
       /\ At(t5, 12) = 80 /\ At(t5, 13) = flags
  <2>0. t4 \in Seq(S) /\ b5 \in Seq(S) /\ Len(b5) = 2
    BY <1>5, <1>14
  <2>1. /\ t4 \o b5 \in Seq(S) /\ Len(t4 \o b5) = Len(t4) + 2
        /\ \A i \in 0 .. Len(t4) - 2 : Rd16(t4 \o b5, i) = Rd16(t4, i)
        /\ \A i \in 0 .. Len(t4) - 1 : At(t4 \o b5, i) = At(t4, i)
        /\ Rd16(t4 \o b5, Len(t4)) = Rd16(b5, 0)
        /\ At(t4 \o b5, Len(t4)) = At(b5, 0)
        /\ At(t4 \o b5, Len(t4) + 1) = At(b5, 1)
    BY <2>0, AddTwo, Zenon
  <2> QED BY <1>5, <1>14, <2>1
<1> HIDE DEF t5
<1>16. /\ t6 \in Seq(S) /\ Len(t6) = 16 /\ Rd16(t6, 0) = sport /\ Rd16(t6, 2) = dport
       /\ Rd16(t6, 4) = seq[1] /\ Rd16(t6, 6) = seq[2]
       /\ Rd16(t6, 8) = ack[1] /\ Rd16(t6, 10) = ack[2]
       /\ At(t6, 12) = 80 /\ At(t6, 13) = flags /\ Rd16(t6, 14) = window
  <2>0. t5 \in Seq(S) /\ b6 \in Seq(S) /\ Len(b6) = 2
    BY <1>6, <1>15
  <2>1. /\ t5 \o b6 \in Seq(S) /\ Len(t5 \o b6) = Len(t5) + 2
        /\ \A i \in 0 .. Len(t5) - 2 : Rd16(t5 \o b6, i) = Rd16(t5, i)
        /\ \A i \in 0 .. Len(t5) - 1 : At(t5 \o b6, i) = At(t5, i)
        /\ Rd16(t5 \o b6, Len(t5)) = Rd16(b6, 0)
        /\ At(t5 \o b6, Len(t5)) = At(b6, 0)
        /\ At(t5 \o b6, Len(t5) + 1) = At(b6, 1)
    BY <2>0, AddTwo, Zenon
  <2> QED BY <1>6, <1>15, <2>1
<1> HIDE DEF t6
<1>17. /\ t7 \in Seq(S) /\ Len(t7) = 20 /\ Rd16(t7, 0) = sport /\ Rd16(t7, 2) = dport
       /\ Rd16(t7, 4) = seq[1] /\ Rd16(t7, 6) = seq[2]
       /\ Rd16(t7, 8) = ack[1] /\ Rd16(t7, 10) = ack[2]
       /\ At(t7, 12) = 80 /\ At(t7, 13) = flags /\ Rd16(t7, 14) = window
  <2>0. t6 \in Seq(S) /\ b7 \in Seq(S) /\ Len(b7) = 4
    BY <1>7, <1>16
  <2>1. /\ t6 \o b7 \in Seq(S) /\ Len(t6 \o b7) = Len(t6) + 4
        /\ \A i \in 0 .. Len(t6) - 2 : Rd16(t6 \o b7, i) = Rd16(t6, i)
        /\ \A i \in 0 .. Len(t6) - 1 : At(t6 \o b7, i) = At(t6, i)
        /\ Rd16(t6 \o b7, Len(t6)) = Rd16(b7, 0)
        /\ Rd16(t6 \o b7, Len(t6) + 2) = Rd16(b7, 2)
    BY <2>0, AddFour, Zenon
  <2> QED BY <1>7, <1>16, <2>1
<1> HIDE DEF t7
<1>18. /\ t8 \in Seq(S) /\ Len(t8) = 20 + Len(payload)
       /\ \A i \in 0 .. 19 : At(t8, i) = At(t7, i)
       /\ \A i \in 0 .. 18 : Rd16(t8, i) = Rd16(t7, i)
       /\ \A j \in 20 .. 20 + Len(payload) - 1 : At(t8, j) = At(payload, j - 20)
  <2>0. t7 \in Seq(S)
    BY <1>17
  <2>1. /\ t8 \in Seq(S) /\ Len(t8) = Len(t7) + Len(payload)
        /\ \A i \in 0 .. Len(t7) - 1 : At(t8, i) = At(t7, i)
        /\ \A j \in Len(t7) .. Len(t7) + Len(payload) - 1 : At(t8, j) = At(payload, j - Len(t7))
    BY <2>0, CatAt, Zenon
  <2>2. \A i \in 0 .. Len(t7) - 2 : Rd16(t8, i) = Rd16(t7, i)
    BY <2>0, CatRd16, Zenon
  <2>3. Len(t7) = 20 /\ 20 - 1 = 19 /\ 20 - 2 = 18
    BY <1>17
  <2> HIDE DEF t8
  <2> QED BY <2>1, <2>2, <2>3
<1> HIDE DEF t8
<1>19. ASSUME NEW k \in 0 .. Len(payload) - 1 PROVE At(t8, k + 20) = At(payload, k)
  <2>1. k + 20 \in 20 .. 20 + Len(payload) - 1 /\ (k + 20) - 20 = k
    OBVIOUS
  <2> QED BY <1>18, <2>1
<1>20. TcpLies(S, t8, sport, dport, seq, ack, flags, window, payload)
  BY <1>17, <1>18, <1>19 DEF TcpLies
<1>21. build_tcp_l4(sport, dport, seq, ack, flags, window, payload) = t8
  BY DEF build_tcp_l4, t2, t3, t4, t5, t6, t7, t8, b1, b2, b3, b4, b5, b6, b7
<1> QED BY <1>20, <1>21

\* A checksum, whatever its value, takes two bytes.
LEMMA StoredIs ==
  ASSUME NEW S, NEW w, w % 256 \in S, w \div 256 \in S
  PROVE  Stored(w) \in Seq(S) /\ Len(Stored(w)) = 2
<1> DEFINE x == w % 256
           y == w \div 256
<1>1. x \in S /\ y \in S
  OBVIOUS
<1>2. Stored(w) = IF LittleEndian THEN <<x, y>> ELSE <<y, x>>
  BY DEF Stored, Be16
<1> HIDE DEF x, y
<1>3. <<x, y>> \in Seq(S) /\ Len(<<x, y>>) = 2
  BY <1>1, TwoBytes
<1>4. <<y, x>> \in Seq(S) /\ Len(<<y, x>>) = 2
  BY <1>1, TwoBytes
<1> QED BY <1>2, <1>3, <1>4

\* Filling in a checksum changes no other byte.
LEMMA CheckKeeps ==
  ASSUME NEW S, NEW h \in Seq(S), NEW c \in Nat, c + 2 <= Len(h), NEW w,
         w % 256 \in S, w \div 256 \in S
  PROVE  /\ WithCheck(h, c, w) \in Seq(S) /\ Len(WithCheck(h, c, w)) = Len(h)
         /\ \A i \in 0 .. c - 1 : At(WithCheck(h, c, w), i) = At(h, i)
         /\ \A i \in c + 2 .. Len(h) - 1 : At(WithCheck(h, c, w), i) = At(h, i)
<1> DEFINE n == Len(h)
           x == Slice(h, 0, c)
           y == Stored(w)
           z == Slice(h, c + 2, n - c - 2)
           v == (x \o y) \o z
<1>1. n \in Nat /\ c + 2 \in Nat /\ n - c - 2 \in Nat /\ (c + 2) + (n - c - 2) <= n
      /\ 0 \in Nat /\ 0 + c <= n
  OBVIOUS
<1>2. x \in Seq(S) /\ Len(x) = c /\ \A k \in 0 .. c - 1 : At(x, k) = At(h, 0 + k)
  BY <1>1, SliceAt, Zenon
<1>3. y \in Seq(S) /\ Len(y) = 2
  BY StoredIs, Zenon
<1>4. /\ z \in Seq(S) /\ Len(z) = n - c - 2
      /\ \A k \in 0 .. (n - c - 2) - 1 : At(z, k) = At(h, (c + 2) + k)
  BY <1>1, SliceAt, Zenon
<1>5. WithCheck(h, c, w) = v
  BY DEF WithCheck
<1> HIDE DEF n, x, y, z
<1>6. /\ x \o y \in Seq(S) /\ Len(x \o y) = Len(x) + Len(y)
      /\ \A i \in 0 .. Len(x) - 1 : At(x \o y, i) = At(x, i)
  BY <1>2, <1>3, CatAt, Zenon
<1> DEFINE u == x \o y
<1>7. u \in Seq(S) /\ Len(u) = c + 2 /\ \A i \in 0 .. c - 1 : At(u, i) = At(h, i)
  BY <1>1, <1>2, <1>3, <1>6
<1> HIDE DEF u
<1>8. /\ u \o z \in Seq(S) /\ Len(u \o z) = Len(u) + Len(z)
      /\ \A i \in 0 .. Len(u) - 1 : At(u \o z, i) = At(u, i)
      /\ \A j \in Len(u) .. Len(u) + Len(z) - 1 : At(u \o z, j) = At(z, j - Len(u))
  BY <1>4, <1>7, CatAt, Zenon
<1>9. v = u \o z
  BY DEF u
<1> HIDE DEF v
<1>10. v \in Seq(S) /\ Len(v) = n
  BY <1>1, <1>4, <1>7, <1>8, <1>9
<1>11. ASSUME NEW i \in 0 .. c - 1 PROVE At(v, i) = At(h, i)
  <2>1. i \in 0 .. Len(u) - 1
    BY <1>7
  <2> QED BY <1>7, <1>8, <1>9, <2>1
<1>12. ASSUME NEW i \in c + 2 .. n - 1 PROVE At(v, i) = At(h, i)
  <2>1. /\ i \in Len(u) .. Len(u) + Len(z) - 1 /\ i - Len(u) = i - (c + 2)
        /\ i - (c + 2) \in 0 .. (n - c - 2) - 1 /\ (c + 2) + (i - (c + 2)) = i
    BY <1>1, <1>4, <1>7
  <2>2. At(v, i) = At(z, i - (c + 2))
    BY <1>8, <1>9, <2>1
  <2>3. At(z, i - (c + 2)) = At(h, (c + 2) + (i - (c + 2)))
    BY <1>4, <2>1
  <2> QED BY <2>1, <2>2, <2>3
<1> QED BY <1>5, <1>10, <1>11, <1>12 DEF n

\* The addresses at the end of an IP header.
LEMMA AddressesAt ==
  ASSUME NEW S, NEW h \in Seq(S), NEW src \in Seq(S), NEW dst \in Seq(S)
  PROVE  LET g == (h \o src) \o dst IN
         /\ g \in Seq(S) /\ Len(g) = Len(h) + Len(src) + Len(dst)
         /\ \A i \in 0 .. Len(h) - 1 : At(g, i) = At(h, i)
         /\ \A k \in 0 .. Len(src) - 1 : At(g, k + Len(h)) = At(src, k)
         /\ \A k \in 0 .. Len(dst) - 1 : At(g, k + (Len(h) + Len(src))) = At(dst, k)
<1> DEFINE u == h \o src
           m == Len(h)
           n == Len(src)
           o == Len(dst)
           g == u \o dst
<1>1. m \in Nat /\ n \in Nat /\ o \in Nat
  OBVIOUS
<1>2. /\ u \in Seq(S) /\ Len(u) = m + n
      /\ \A i \in 0 .. m - 1 : At(u, i) = At(h, i)
      /\ \A j \in m .. m + n - 1 : At(u, j) = At(src, j - m)
  BY CatAt, Zenon
<1> HIDE DEF u
<1>4. u \in Seq(S)
  BY <1>2
<1>3. /\ u \o dst \in Seq(S) /\ Len(u \o dst) = Len(u) + o
      /\ \A i \in 0 .. Len(u) - 1 : At(u \o dst, i) = At(u, i)
      /\ \A j \in Len(u) .. Len(u) + o - 1 : At(u \o dst, j) = At(dst, j - Len(u))
  BY <1>4, CatAt, Zenon
<1> HIDE DEF m, n, o, g
<1>5. g \in Seq(S) /\ Len(g) = m + n + o
  BY <1>1, <1>2, <1>3 DEF g
<1>6. ASSUME NEW i \in 0 .. m - 1 PROVE At(g, i) = At(h, i)
  <2>1. i \in 0 .. Len(u) - 1
    BY <1>1, <1>2
  <2> QED BY <1>2, <1>3, <2>1 DEF g
<1>7. ASSUME NEW k \in 0 .. n - 1 PROVE At(g, k + m) = At(src, k)
  <2>1. k + m \in 0 .. Len(u) - 1 /\ k + m \in m .. m + n - 1 /\ (k + m) - m = k
    BY <1>1, <1>2
  <2> QED BY <1>2, <1>3, <2>1 DEF g
<1>8. ASSUME NEW k \in 0 .. o - 1 PROVE At(g, k + (m + n)) = At(dst, k)
  <2>1. /\ k + (m + n) \in Len(u) .. Len(u) + o - 1 /\ (k + (m + n)) - (m + n) = k
    BY <1>1, <1>2
  <2> QED BY <1>2, <1>3, <2>1 DEF g
<1> QED BY <1>5, <1>6, <1>7, <1>8 DEF m, n, o, u, g

\* inject4's header before its checksum is filled in.
Bare4(src, dst, proto, ttl, id, n) ==
  <<69, 0>> \o Be16(20 + n) \o Be16(id) \o Be16(16384)
    \o <<ttl, proto>> \o Zeros(2) \o src \o dst

\* Three pieces of two bytes each.
LEMMA PairsAt ==
  ASSUME NEW S, NEW b1 \in Seq(S), NEW b2 \in Seq(S), NEW b3 \in Seq(S),
         Len(b1) = 2, Len(b2) = 2, Len(b3) = 2
  PROVE  /\ b1 \o b2 \o b3 \in Seq(S) /\ Len(b1 \o b2 \o b3) = 6
         /\ At(b1 \o b2 \o b3, 0) = At(b1, 0) /\ At(b1 \o b2 \o b3, 3) = At(b2, 1)
<1> DEFINE t == b1 \o b2
<1>1. /\ b1 \o b2 \in Seq(S) /\ Len(b1 \o b2) = Len(b1) + 2
      /\ \A i \in 0 .. Len(b1) - 2 : Rd16(b1 \o b2, i) = Rd16(b1, i)
      /\ \A i \in 0 .. Len(b1) - 1 : At(b1 \o b2, i) = At(b1, i)
      /\ Rd16(b1 \o b2, Len(b1)) = Rd16(b2, 0)
      /\ At(b1 \o b2, Len(b1)) = At(b2, 0) /\ At(b1 \o b2, Len(b1) + 1) = At(b2, 1)
  BY AddTwo, Zenon
<1>2. t \in Seq(S) /\ Len(t) = 4 /\ At(t, 0) = At(b1, 0) /\ At(t, 3) = At(b2, 1)
  BY <1>1
<1> HIDE DEF t
<1>3. t \in Seq(S)
  BY <1>2
<1>4. /\ t \o b3 \in Seq(S) /\ Len(t \o b3) = Len(t) + 2
      /\ \A i \in 0 .. Len(t) - 1 : At(t \o b3, i) = At(t, i)
  BY <1>3, AddTwo, Zenon
<1>5. /\ t \o b3 \in Seq(S) /\ Len(t \o b3) = 6
      /\ At(t \o b3, 0) = At(b1, 0) /\ At(t \o b3, 3) = At(b2, 1)
  BY <1>2, <1>4
<1> QED BY <1>5 DEF t

\* The pieces of inject4's header, whatever they contain, and of inject6's.
Cat8(b1, b2, b3, b4, b5, b6, src, dst) == b1 \o b2 \o b3 \o b4 \o b5 \o b6 \o src \o dst
Cat6(b1, b2, b3, b4, src, dst) == b1 \o b2 \o b3 \o b4 \o src \o dst

\* A header g with elements of S: length, the two bytes that are looked at,
\* and where the addresses are.
Lies(S, g, n, first, o, byte, src, dst) ==
  /\ g \in Seq(S) /\ Len(g) = n + Len(src) + Len(dst)
  /\ At(g, 0) = first /\ At(g, o) = byte
  /\ \A k \in 0 .. Len(src) - 1 : At(g, k + n) = At(src, k)
  /\ \A k \in 0 .. Len(dst) - 1 : At(g, k + (n + Len(src))) = At(dst, k)

\* The header that inject4 puts together from its fields.
LEMMA Pieces4 ==
  ASSUME NEW S, NEW b1 \in Seq(S), NEW b2 \in Seq(S), NEW b3 \in Seq(S),
         NEW b4 \in Seq(S), NEW b5 \in Seq(S), NEW b6 \in Seq(S),
         NEW src \in Seq(S), NEW dst \in Seq(S),
         Len(b1) = 2, Len(b2) = 2, Len(b3) = 2, Len(b4) = 2, Len(b5) = 2, Len(b6) = 2
  PROVE  Lies(S, Cat8(b1, b2, b3, b4, b5, b6, src, dst), 12, At(b1, 0), 9, At(b5, 1), src, dst)
<1> DEFINE t == b1 \o b2 \o b3
           v == t \o b4
           w == v \o b5
           u == w \o b6
           g == (u \o src) \o dst
<1>7. t \in Seq(S) /\ Len(t) = 6 /\ At(t, 0) = At(b1, 0)
  BY PairsAt
<1>8. t \in Seq(S)
  BY <1>7
<1> HIDE DEF t
<1>1. v \in Seq(S) /\ Len(v) = Len(t) + 2 /\ \A i \in 0 .. Len(t) - 1 : At(v, i) = At(t, i)
  BY <1>8, AddTwo
<1>2. v \in Seq(S)
  BY <1>1
<1> HIDE DEF v
<1>3. /\ w \in Seq(S) /\ Len(w) = Len(v) + 2
      /\ \A i \in 0 .. Len(v) - 1 : At(w, i) = At(v, i)
      /\ At(w, Len(v) + 1) = At(b5, 1)
  BY <1>2, AddTwo
<1>4. w \in Seq(S)
  BY <1>3
<1> HIDE DEF w
<1>9. u \in Seq(S) /\ Len(u) = Len(w) + 2 /\ \A i \in 0 .. Len(w) - 1 : At(u, i) = At(w, i)
  BY <1>4, AddTwo
<1> HIDE DEF u
<1>10. u \in Seq(S) /\ Len(u) = 12 /\ At(u, 0) = At(b1, 0) /\ At(u, 9) = At(b5, 1)
  <2>6. Len(t) = 6 /\ Len(v) = 8
    BY <1>1, <1>7
  <2>7. Len(w) = 10
    BY <1>3, <2>6
  <2>1. Len(t) = 6 /\ Len(v) = 8 /\ Len(w) = 10 /\ Len(u) = 12
    BY <1>9, <2>6, <2>7
  <2>2. 0 \in 0 .. Len(t) - 1 /\ 0 \in 0 .. Len(v) - 1 /\ 0 \in 0 .. Len(w) - 1
        /\ 9 \in 0 .. Len(w) - 1 /\ Len(v) + 1 = 9
    BY <2>1
  <2>3. At(u, 0) = At(w, 0) /\ At(u, 9) = At(w, 9)
    BY <1>9, <2>2
  <2>4. At(w, 0) = At(v, 0) /\ At(w, 9) = At(b5, 1)
    BY <1>3, <2>2
  <2>5. At(v, 0) = At(t, 0)
    BY <1>1, <2>2
  <2> QED BY <1>7, <1>9, <2>1, <2>3, <2>4, <2>5
<1>11. u \in Seq(S)
  BY <1>9
<1>12. /\ g \in Seq(S) /\ Len(g) = Len(u) + Len(src) + Len(dst)
       /\ \A i \in 0 .. Len(u) - 1 : At(g, i) = At(u, i)
       /\ \A k \in 0 .. Len(src) - 1 : At(g, k + Len(u)) = At(src, k)
       /\ \A k \in 0 .. Len(dst) - 1 : At(g, k + (Len(u) + Len(src))) = At(dst, k)
  BY <1>11, AddressesAt
<1> HIDE DEF g
<1>13. /\ g \in Seq(S) /\ Len(g) = 12 + Len(src) + Len(dst)
       /\ At(g, 0) = At(b1, 0) /\ At(g, 9) = At(b5, 1)
       /\ \A k \in 0 .. Len(src) - 1 : At(g, k + 12) = At(src, k)
       /\ \A k \in 0 .. Len(dst) - 1 : At(g, k + (12 + Len(src))) = At(dst, k)
  BY <1>10, <1>12
<1>14. Cat8(b1, b2, b3, b4, b5, b6, src, dst) = g
  BY Zenon DEF t, v, w, u, g, Cat8
<1> QED BY <1>13, <1>14, Zenon DEF Lies

\* The header that inject6 puts together from its fields.
LEMMA Pieces6 ==
  ASSUME NEW S, NEW b1 \in Seq(S), NEW b2 \in Seq(S), NEW b3 \in Seq(S),
         NEW b4 \in Seq(S), NEW src \in Seq(S), NEW dst \in Seq(S),
         Len(b1) = 2, Len(b2) = 2, Len(b3) = 2, Len(b4) = 2
  PROVE  Lies(S, Cat6(b1, b2, b3, b4, src, dst), 8, At(b1, 0), 6, At(b4, 0), src, dst)
<1>6. b1 \o b2 \o b3 \in Seq(S) /\ Len(b1 \o b2 \o b3) = 6 /\ At(b1 \o b2 \o b3, 0) = At(b1, 0)
  BY PairsAt
<1> DEFINE t == b1 \o b2 \o b3
           u == t \o b4
           g == (u \o src) \o dst
<1>7. t \in Seq(S) /\ Len(t) = 6 /\ At(t, 0) = At(b1, 0)
  BY <1>6
<1>8. t \in Seq(S)
  BY <1>7
<1> HIDE DEF t
<1>9. /\ u \in Seq(S) /\ Len(u) = Len(t) + 2
      /\ \A i \in 0 .. Len(t) - 1 : At(u, i) = At(t, i)
      /\ At(u, Len(t)) = At(b4, 0)
  BY <1>8, AddTwo, Zenon
<1> HIDE DEF u
<1>10. u \in Seq(S) /\ Len(u) = 8 /\ At(u, 0) = At(b1, 0) /\ At(u, 6) = At(b4, 0)
  BY <1>7, <1>9
<1>11. u \in Seq(S)
  BY <1>9
<1>12. /\ g \in Seq(S) /\ Len(g) = Len(u) + Len(src) + Len(dst)
       /\ \A i \in 0 .. Len(u) - 1 : At(g, i) = At(u, i)
       /\ \A k \in 0 .. Len(src) - 1 : At(g, k + Len(u)) = At(src, k)
       /\ \A k \in 0 .. Len(dst) - 1 : At(g, k + (Len(u) + Len(src))) = At(dst, k)
  BY <1>11, AddressesAt
<1> HIDE DEF g
<1>13. /\ g \in Seq(S) /\ Len(g) = 8 + Len(src) + Len(dst)
       /\ At(g, 0) = At(b1, 0) /\ At(g, 6) = At(b4, 0)
       /\ \A k \in 0 .. Len(src) - 1 : At(g, k + 8) = At(src, k)
       /\ \A k \in 0 .. Len(dst) - 1 : At(g, k + (8 + Len(src))) = At(dst, k)
  BY <1>10, <1>12
<1>14. Cat6(b1, b2, b3, b4, src, dst) = g
  BY Zenon DEF t, u, g, Cat6
<1> QED BY <1>13, <1>14, Zenon DEF Lies

\* The flag in inject4's header.
LEMMA DontFragment == 16384 \in Word
BY DEF Word

\* inject4's header, and inject6's, hold what they were given.
LEMMA Header4 ==
  ASSUME NEW S, Int \subseteq S, NEW src \in Seq(S), NEW dst \in Seq(S),
         Len(src) = 4, Len(dst) = 4, NEW proto \in Int, NEW ttl \in Int,
         NEW id \in Word, NEW n \in Nat, 20 + n \in Word
  PROVE  Lies(S, Bare4(src, dst, proto, ttl, id, n), 12, 69, 9, proto, src, dst)
<1>0. 69 \in S /\ 0 \in S /\ ttl \in S /\ proto \in S
  OBVIOUS
<1> DEFINE b1 == <<69, 0>>
           b2 == Be16(20 + n)
           b3 == Be16(id)
           b4 == Be16(16384)
           b5 == <<ttl, proto>>
           b6 == Zeros(2)
           g  == Cat8(b1, b2, b3, b4, b5, b6, src, dst)
<1>1. b1 \in Seq(S) /\ Len(b1) = 2 /\ At(b1, 0) = 69
  BY <1>0, TwoBytes
<1>2. b2 \in Seq(S) /\ Len(b2) = 2
  BY Be16At
<1>3. b3 \in Seq(S) /\ Len(b3) = 2
  BY Be16At
<1>4. b4 \in Seq(S) /\ Len(b4) = 2
  BY DontFragment, Be16At
<1>5. b5 \in Seq(S) /\ Len(b5) = 2 /\ At(b5, 1) = proto
  BY <1>0, TwoBytes
<1>6. b6 \in Seq(S) /\ Len(b6) = 2
  BY ZerosAre
<1>7. Bare4(src, dst, proto, ttl, id, n) = g
  BY DEF Bare4, Cat8
<1> HIDE DEF b1, b2, b3, b4, b5, b6
<1>8. Lies(S, g, 12, At(b1, 0), 9, At(b5, 1), src, dst)
  BY <1>1, <1>2, <1>3, <1>4, <1>5, <1>6, Pieces4
<1> QED BY <1>1, <1>5, <1>7, <1>8

\* The header of an IPv6 frame needs no checksum.
LEMMA Header6 ==
  ASSUME NEW S, Int \subseteq S, NEW src \in Seq(S), NEW dst \in Seq(S),
         Len(src) = 16, Len(dst) = 16, NEW proto \in Int, NEW ttl \in Int,
         NEW n \in Word
  PROVE  Lies(S, IpHeader6(src, dst, proto, ttl, n), 8, 96, 6, proto, src, dst)
<1>0. 96 \in S /\ 0 \in S /\ ttl \in S /\ proto \in S
  OBVIOUS
<1> DEFINE b1 == <<96, 0>>
           b2 == <<0, 0>>
           b3 == Be16(n)
           b4 == <<proto, ttl>>
           g  == Cat6(b1, b2, b3, b4, src, dst)
<1>1. b1 \in Seq(S) /\ Len(b1) = 2 /\ At(b1, 0) = 96
  BY <1>0, TwoBytes
<1>2. b2 \in Seq(S) /\ Len(b2) = 2
  BY <1>0, TwoBytes
<1>3. b3 \in Seq(S) /\ Len(b3) = 2
  BY Be16At
<1>4. b4 \in Seq(S) /\ Len(b4) = 2 /\ At(b4, 0) = proto
  BY <1>0, TwoBytes
<1>5. Be32(<<24576, 0>>) = b1 \o b2
  <2>1. 24576 \div 256 = 96 /\ 24576 % 256 = 0 /\ 0 \div 256 = 0 /\ 0 % 256 = 0
    OBVIOUS
  <2>2. Be16(24576) = b1 /\ Be16(0) = b2
    BY <2>1 DEF Be16
  <2>3. <<24576, 0>>[1] = 24576 /\ <<24576, 0>>[2] = 0
    OBVIOUS
  <2> HIDE DEF b1, b2
  <2> QED BY <2>2, <2>3 DEF Be32
<1>7. IpHeader6(src, dst, proto, ttl, n) = g
  <2> DEFINE z == Be32(<<24576, 0>>)
  <2>1. IpHeader6(src, dst, proto, ttl, n) = z \o b3 \o b4 \o src \o dst
    BY DEF IpHeader6
  <2>2. z = b1 \o b2
    BY <1>5
  <2> HIDE DEF b1, b2, b3, b4, z
  <2> QED BY <2>1, <2>2, Zenon DEF Cat6
<1> HIDE DEF b1, b2, b3, b4
<1>8. Lies(S, g, 8, At(b1, 0), 6, At(b4, 0), src, dst)
  BY <1>1, <1>2, <1>3, <1>4, Pieces6
<1> QED BY <1>1, <1>4, <1>7, <1>8

\* The checksums lie where nothing else is read.
LEMMA CheckedHeader ==
  ASSUME NEW S, NEW h, NEW first, NEW byte, NEW src \in Seq(S), NEW dst \in Seq(S), NEW w,
         Lies(S, h, 12, first, 9, byte, src, dst), w % 256 \in S, w \div 256 \in S
  PROVE  Lies(S, WithCheck(h, 10, w), 12, first, 9, byte, src, dst)
<1> DEFINE v == WithCheck(h, 10, w)
           m == Len(src)
           n == Len(dst)
<1>1. m \in Nat /\ n \in Nat /\ 10 \in Nat
  OBVIOUS
<1>2. /\ h \in Seq(S) /\ Len(h) = 12 + m + n /\ At(h, 0) = first /\ At(h, 9) = byte
      /\ \A k \in 0 .. m - 1 : At(h, k + 12) = At(src, k)
      /\ \A k \in 0 .. n - 1 : At(h, k + (12 + m)) = At(dst, k)
  BY DEF Lies
<1>3. h \in Seq(S) /\ 10 + 2 <= Len(h)
  BY <1>1, <1>2
<1>4. /\ v \in Seq(S) /\ Len(v) = Len(h)
      /\ \A i \in 0 .. 10 - 1 : At(v, i) = At(h, i)
      /\ \A i \in 10 + 2 .. Len(h) - 1 : At(v, i) = At(h, i)
  BY <1>1, <1>3, CheckKeeps
<1> HIDE DEF v, m, n
<1>5. At(v, 0) = first /\ At(v, 9) = byte
  BY <1>2, <1>4
<1>6. ASSUME NEW k \in 0 .. m - 1 PROVE At(v, k + 12) = At(src, k)
  <2>1. k + 12 \in 10 + 2 .. Len(h) - 1
    BY <1>1, <1>2
  <2> QED BY <1>2, <1>4, <2>1
<1>7. ASSUME NEW k \in 0 .. n - 1 PROVE At(v, k + (12 + m)) = At(dst, k)
  <2>1. k + (12 + m) \in 10 + 2 .. Len(h) - 1
    BY <1>1, <1>2
  <2> QED BY <1>2, <1>4, <2>1
<1> QED BY <1>2, <1>4, <1>5, <1>6, <1>7 DEF Lies, v, m, n

\* The same for the TCP segment.
LEMMA CheckedTcp ==
  ASSUME NEW S, NEW b, NEW sport, NEW dport, NEW seq, NEW ack, NEW flags, NEW window,
         NEW payload \in Seq(S), NEW w, w % 256 \in S, w \div 256 \in S,
         TcpLies(S, b, sport, dport, seq, ack, flags, window, payload)
  PROVE  TcpLies(S, WithCheck(b, 16, w), sport, dport, seq, ack, flags, window, payload)
<1> DEFINE v == WithCheck(b, 16, w)
           n == Len(payload)
<1>1. n \in Nat /\ 16 \in Nat
  OBVIOUS
<1>2. /\ b \in Seq(S) /\ Len(b) = 20 + n
      /\ \A k \in 0 .. n - 1 : At(b, k + 20) = At(payload, k)
  BY DEF TcpLies
<1>3. b \in Seq(S) /\ 16 + 2 <= Len(b)
  BY <1>1, <1>2
<1>4. /\ v \in Seq(S) /\ Len(v) = Len(b)
      /\ \A i \in 0 .. 16 - 1 : At(v, i) = At(b, i)
      /\ \A i \in 16 + 2 .. Len(b) - 1 : At(v, i) = At(b, i)
  BY <1>1, <1>3, CheckKeeps, SMTT(30)
<1> HIDE DEF v, n
<1>5. \A i \in 0 .. 15 : At(v, i) = At(b, i)
  BY <1>4
<1>6. \A i \in 0 .. 14 : Rd16(v, i) = Rd16(b, i)
  <2> TAKE i \in 0 .. 14
  <2>1. i \in 0 .. 15 /\ i + 1 \in 0 .. 15
    OBVIOUS
  <2>2. At(v, i) = At(b, i) /\ At(v, i + 1) = At(b, i + 1)
    BY <1>5, <2>1
  <2> QED BY <2>2 DEF Rd16
<1>7. ASSUME NEW k \in 0 .. n - 1 PROVE At(v, k + 20) = At(payload, k)
  <2>1. k + 20 \in 16 + 2 .. Len(b) - 1
    BY <1>1, <1>2
  <2> QED BY <1>2, <1>4, <2>1
<1>8. /\ Rd16(v, 0) = Rd16(b, 0) /\ Rd16(v, 2) = Rd16(b, 2) /\ Rd16(v, 4) = Rd16(b, 4)
      /\ Rd16(v, 6) = Rd16(b, 6) /\ Rd16(v, 8) = Rd16(b, 8) /\ Rd16(v, 10) = Rd16(b, 10)
      /\ Rd16(v, 14) = Rd16(b, 14) /\ At(v, 12) = At(b, 12) /\ At(v, 13) = At(b, 13)
  BY <1>5, <1>6
<1> QED BY <1>2, <1>4, <1>7, <1>8 DEF TcpLies, v, n

\* What a receiver makes of a TCP frame.
Read(family, src, dst, sport, dport, seq, ack, flags, window, payload) ==
  [family |-> family, proto |-> IPPROTO_TCP, src |-> src, dst |-> dst,
   sport |-> sport, dport |-> dport, seq |-> seq, ack |-> ack, flags |-> flags,
   window |-> window, at |-> payload, len |-> 0]

\* The fields that bd_packet_parse takes from a TCP frame.
LEMMA GotTcp ==
  ASSUME NEW f, Proto(f) = IPPROTO_TCP
  PROVE  Got(f) =
           Read(Version(f),
                IF Version(f) = 4 THEN Slice(f, 12, 4) ELSE Slice(f, 8, 16),
                IF Version(f) = 4 THEN Slice(f, 16, 4) ELSE Slice(f, 24, 16),
                Rd16(f, L4At(f)), Rd16(f, L4At(f) + 2),
                Rd32(f, L4At(f) + 4), Rd32(f, L4At(f) + 8), At(f, L4At(f) + 13),
                Rd16(f, L4At(f) + 14),
                Slice(f, L4At(f) + Doff(f), Len(f) - (L4At(f) + Doff(f))))
<1> DEFINE v  == Version(f)
           l  == L4At(f)
           at == l + Doff(f)
           n  == Len(f) - at
           a1 == IF v = 4 THEN Slice(f, 12, 4) ELSE Slice(f, 8, 16)
           a2 == IF v = 4 THEN Slice(f, 16, 4) ELSE Slice(f, 24, 16)
           a3 == Rd16(f, l)
           a4 == Rd16(f, l + 2)
           a5 == Rd32(f, l + 4)
           a6 == Rd32(f, l + 8)
           a7 == At(f, l + 13)
           a8 == Rd16(f, l + 14)
           r  == [family |-> v, proto |-> IPPROTO_TCP, src |-> a1, dst |-> a2,
                  sport |-> a3, dport |-> a4, seq |-> a5, ack |-> a6, flags |-> a7,
                  window |-> a8, at |-> at, len |-> n]
           z  == Slice(f, at, n)
<1>1. Parsed(f) = r
  BY Zenon DEF Parsed
<1>2. Got(f) = [r EXCEPT !.at = Slice(f, r.at, r.len), !.len = 0]
  BY <1>1, Zenon DEF Got
<1> HIDE DEF v, l, at, n, a1, a2, a3, a4, a5, a6, a7, a8
<1>3. r.at = at /\ r.len = n
  OBVIOUS
<1>4. Got(f) = [r EXCEPT !.at = z, !.len = 0]
  BY <1>2, <1>3
<1> HIDE DEF z
<1>5. [r EXCEPT !.at = z, !.len = 0] = Read(v, a1, a2, a3, a4, a5, a6, a7, a8, z)
  <2> DEFINE s == [family |-> v, proto |-> IPPROTO_TCP, src |-> a1, dst |-> a2,
                   sport |-> a3, dport |-> a4, seq |-> a5, ack |-> a6, flags |-> a7,
                   window |-> a8, at |-> z, len |-> n]
  <2>1. [r EXCEPT !.at = z] = s
    OBVIOUS
  <2>2. [s EXCEPT !.len = 0] = Read(v, a1, a2, a3, a4, a5, a6, a7, a8, z)
    BY DEF Read
  <2>3. [r EXCEPT !.at = z, !.len = 0] = [[r EXCEPT !.at = z] EXCEPT !.len = 0]
    <3> HIDE DEF r
    <3> QED OBVIOUS
  <2> QED BY <2>1, <2>2, <2>3
<1> QED BY <1>4, <1>5 DEF v, l, at, n, a1, a2, a3, a4, a5, a6, a7, a8, z

\* A part of a frame that has the bytes of a piece is that piece.
LEMMA PieceOf ==
  ASSUME NEW S, NEW f \in Seq(S), NEW x \in Seq(S), NEW i \in Nat, i + Len(x) <= Len(f),
         \A k \in 0 .. Len(x) - 1 : At(f, i + k) = At(x, k)
  PROVE  Slice(f, i, Len(x)) = x
<1> DEFINE n == Len(x)
           c == Slice(f, i, n)
<1>1. n \in Nat
  OBVIOUS
<1>2. c \in Seq(S) /\ Len(c) = n /\ \A k \in 0 .. n - 1 : At(c, k) = At(f, i + k)
  BY <1>1, SliceAt
<1> HIDE DEF c, n
<1>3. \A k \in 0 .. Len(c) - 1 : At(c, k) = At(x, k)
  BY <1>2 DEF n
<1>4. c \in Seq(S) /\ Len(c) = Len(x)
  BY <1>2 DEF n
<1>5. c = x
  BY <1>3, <1>4, SameBytes
<1> QED BY <1>5 DEF c, n

\* A frame f of elements of S, with a TCP segment behind an IP header h of l
\* bytes, as it is read.
FrameLies(S, h, f, l, sport, dport, seq, ack, flags, window, payload) ==
  /\ f \in Seq(S) /\ Len(f) = l + 20 + Len(payload)
  /\ \A i \in 0 .. l - 1 : At(f, i) = At(h, i)
  /\ Rd16(f, l) = sport /\ Rd16(f, l + 2) = dport
  /\ Rd32(f, l + 4) = seq /\ Rd32(f, l + 8) = ack
  /\ At(f, l + 12) = 80 /\ At(f, l + 13) = flags /\ Rd16(f, l + 14) = window
  /\ Slice(f, l + 20, Len(payload)) = payload

\* Header and segment put together are such a frame.
LEMMA Payload ==
  ASSUME NEW S, NEW h \in Seq(S), NEW b, NEW sport, NEW dport,
         NEW seq \in Word \X Word, NEW ack \in Word \X Word, NEW flags, NEW window,
         NEW payload \in Seq(S), NEW f, f = h \o b, NEW l, l = Len(h),
         TcpLies(S, b, sport, dport, seq, ack, flags, window, payload)
  PROVE  FrameLies(S, h, f, l, sport, dport, seq, ack, flags, window, payload)
<1> DEFINE n == Len(payload)
<1>1. n \in Nat /\ Len(h) \in Nat
  OBVIOUS
<1>2. /\ b \in Seq(S) /\ Len(b) = 20 + n
      /\ Rd16(b, 0) = sport /\ Rd16(b, 2) = dport
      /\ Rd16(b, 4) = seq[1] /\ Rd16(b, 6) = seq[2]
      /\ Rd16(b, 8) = ack[1] /\ Rd16(b, 10) = ack[2]
      /\ At(b, 12) = 80 /\ At(b, 13) = flags /\ Rd16(b, 14) = window
      /\ \A k \in 0 .. n - 1 : At(b, k + 20) = At(payload, k)
  BY DEF TcpLies
<1>3. b \in Seq(S)
  BY <1>2
<1>4. /\ h \o b \in Seq(S) /\ Len(h \o b) = Len(h) + Len(b)
      /\ \A i \in 0 .. Len(h) - 1 : At(h \o b, i) = At(h, i)
      /\ \A j \in Len(h) .. Len(h) + Len(b) - 1 : At(h \o b, j) = At(b, j - Len(h))
  BY <1>3, CatAt
<1>5. \A j \in Len(h) .. Len(h) + Len(b) - 2 : Rd16(h \o b, j) = Rd16(b, j - Len(h))
  BY <1>3, CatRd16
<1> HIDE DEF n
<1>6. ASSUME NEW i \in 0 .. 18 PROVE Rd16(f, l + i) = Rd16(b, i)
  <2>1. Len(h) + i \in Len(h) .. Len(h) + Len(b) - 2 /\ (Len(h) + i) - Len(h) = i
    BY <1>1, <1>2, SMTT(30)
  <2> QED BY <1>5, <2>1
<1>7. ASSUME NEW i \in 0 .. 19 + n PROVE At(f, l + i) = At(b, i)
  <2>1. Len(h) + i \in Len(h) .. Len(h) + Len(b) - 1 /\ (Len(h) + i) - Len(h) = i
    BY <1>1, <1>2
  <2> QED BY <1>4, <2>1
<1>8. f \in Seq(S) /\ Len(f) = l + 20 + n /\ \A i \in 0 .. l - 1 : At(f, i) = At(h, i)
  BY <1>1, <1>2, <1>4
<1>9. Rd16(f, l) = sport /\ Rd16(f, l + 2) = dport /\ Rd16(f, l + 14) = window
  <2>1. l + 0 = l /\ 0 \in 0 .. 18 /\ 2 \in 0 .. 18 /\ 14 \in 0 .. 18
    BY <1>1
  <2>2. Rd16(f, l + 0) = Rd16(b, 0) /\ Rd16(f, l + 2) = Rd16(b, 2)
        /\ Rd16(f, l + 14) = Rd16(b, 14)
    BY <1>6, <2>1
  <2> QED BY <1>2, <2>1, <2>2
<1>10. At(f, l + 12) = 80 /\ At(f, l + 13) = flags
  <2>1. 12 \in 0 .. 19 + n /\ 13 \in 0 .. 19 + n
    BY <1>1 DEF n
  <2> QED BY <1>2, <1>7, <2>1
<1>11. Rd32(f, l + 4) = seq /\ Rd32(f, l + 8) = ack
  <2>1. /\ 4 \in 0 .. 18 /\ 6 \in 0 .. 18 /\ 8 \in 0 .. 18 /\ 10 \in 0 .. 18
        /\ (l + 4) + 2 = l + 6 /\ (l + 8) + 2 = l + 10
    BY <1>1
  <2>2. /\ Rd16(f, l + 4) = seq[1] /\ Rd16(f, l + 6) = seq[2]
        /\ Rd16(f, l + 8) = ack[1] /\ Rd16(f, l + 10) = ack[2]
    BY <1>2, <1>6, <2>1
  <2>3. Rd32(f, l + 4) = <<seq[1], seq[2]>> /\ Rd32(f, l + 8) = <<ack[1], ack[2]>>
    BY <2>1, <2>2 DEF Rd32
  <2>4. seq = <<seq[1], seq[2]>> /\ ack = <<ack[1], ack[2]>>
    OBVIOUS
  <2> QED BY <2>3, <2>4
<1>12. Slice(f, l + 20, n) = payload
  <2>1. l + 20 \in Nat /\ (l + 20) + n <= Len(f) /\ f \in Seq(S)
    BY <1>1, <1>8
  <2>2. ASSUME NEW k \in 0 .. n - 1 PROVE At(f, (l + 20) + k) = At(payload, k)
    <3>1. k + 20 \in 0 .. 19 + n /\ (l + 20) + k = l + (k + 20)
      BY <1>1
    <3>2. At(f, l + (k + 20)) = At(b, k + 20)
      BY <1>7, <3>1
    <3> QED BY <1>2, <3>1, <3>2
  <2> QED BY <2>1, <2>2, PieceOf DEF n
<1> QED BY <1>8, <1>9, <1>10, <1>11, <1>12 DEF n, FrameLies

\* A piece of the header is where it was.
IsPiece(S, h, f, l, x, o) == Slice(f, o, Len(x)) = x

\* Addresses are such pieces.
LEMMA HeaderPiece ==
  ASSUME NEW S, NEW h, NEW f \in Seq(S), NEW l \in Nat, l <= Len(f),
         \A i \in 0 .. l - 1 : At(f, i) = At(h, i),
         NEW x \in Seq(S), NEW o \in Nat, o + Len(x) <= l,
         \A k \in 0 .. Len(x) - 1 : At(h, k + o) = At(x, k)
  PROVE  IsPiece(S, h, f, l, x, o)
<1>1. Len(x) \in Nat /\ Len(f) \in Nat
  OBVIOUS
<1>2. ASSUME NEW k \in 0 .. Len(x) - 1 PROVE At(f, o + k) = At(x, k)
  <2>1. o + k \in 0 .. l - 1 /\ o + k = k + o
    BY <1>1
  <2>2. At(f, o + k) = At(h, o + k)
    BY <2>1
  <2> QED BY <2>1, <2>2
<1>3. o + Len(x) <= Len(f)
  BY <1>1
<1> QED BY <1>2, <1>3, PieceOf DEF IsPiece

\* The whole frame, of either family.
LEMMA GotFrame4 ==
  ASSUME NEW S, NEW h, NEW b, NEW src \in Seq(S), NEW dst \in Seq(S),
         Len(src) = 4, Len(dst) = 4, NEW sport, NEW dport,
         NEW seq \in Word \X Word, NEW ack \in Word \X Word, NEW flags, NEW window,
         NEW payload \in Seq(S),
         Lies(S, h, 12, 69, 9, IPPROTO_TCP, src, dst),
         TcpLies(S, b, sport, dport, seq, ack, flags, window, payload)
  PROVE  Got(h \o b) = Read(4, src, dst, sport, dport, seq, ack, flags, window, payload)
<1> DEFINE f == h \o b
           n == Len(payload)
<1>1. /\ h \in Seq(S) /\ Len(h) = 20 /\ At(h, 0) = 69 /\ At(h, 9) = IPPROTO_TCP
      /\ \A k \in 0 .. Len(src) - 1 : At(h, k + 12) = At(src, k)
      /\ \A k \in 0 .. Len(dst) - 1 : At(h, k + 16) = At(dst, k)
  <2>1. /\ h \in Seq(S) /\ Len(h) = 12 + Len(src) + Len(dst)
        /\ At(h, 0) = 69 /\ At(h, 9) = IPPROTO_TCP
        /\ \A k \in 0 .. Len(src) - 1 : At(h, k + 12) = At(src, k)
        /\ \A k \in 0 .. Len(dst) - 1 : At(h, k + (12 + Len(src))) = At(dst, k)
    BY DEF Lies
  <2>2. 12 + Len(src) = 16 /\ 12 + Len(src) + Len(dst) = 20
    OBVIOUS
  <2> QED BY <2>1, <2>2
<1>20. h \in Seq(S) /\ 20 = Len(h) /\ f = h \o b
  BY <1>1
<1> HIDE DEF f
<1>21. FrameLies(S, h, f, 20, sport, dport, seq, ack, flags, window, payload)
  BY <1>20, Payload
<1>2. /\ f \in Seq(S) /\ Len(f) = 20 + 20 + n
      /\ \A i \in 0 .. 20 - 1 : At(f, i) = At(h, i)
      /\ Rd16(f, 20) = sport /\ Rd16(f, 20 + 2) = dport
      /\ Rd32(f, 20 + 4) = seq /\ Rd32(f, 20 + 8) = ack
      /\ At(f, 20 + 12) = 80 /\ At(f, 20 + 13) = flags /\ Rd16(f, 20 + 14) = window
      /\ Slice(f, 20 + 20, n) = payload
  BY <1>21 DEF FrameLies
<1>7. f \in Seq(S) /\ 12 \in Nat /\ 16 \in Nat /\ n \in Nat /\ 20 \in Nat
  BY <1>2
<1>3. At(f, 0) = 69 /\ At(f, 9) = IPPROTO_TCP
  BY <1>1, <1>2
<1>4. Version(f) = 4 /\ L4At(f) = 20
  <2>1. 69 \div 16 = 4 /\ 4 * (69 % 16) = 20
    OBVIOUS
  <2> QED BY <1>3, <2>1 DEF Version, Ihl, L4At
<1>5. Proto(f) = IPPROTO_TCP
  BY <1>3, <1>4 DEF Proto
<1>6. Doff(f) = 20
  <2>1. 4 * (80 \div 16) = 20
    OBVIOUS
  <2> QED BY <1>2, <1>4, <2>1 DEF Doff
<1>12. 20 <= Len(f) /\ 12 + Len(src) <= 20 /\ 16 + Len(dst) <= 20
  BY <1>2, <1>7
<1>8. Slice(f, 12, 4) = src
  <2>1. IsPiece(S, h, f, 20, src, 12)
    BY <1>1, <1>2, <1>7, <1>12, HeaderPiece
  <2> QED BY <2>1 DEF IsPiece
<1>9. Slice(f, 16, 4) = dst
  <2>1. IsPiece(S, h, f, 20, dst, 16)
    BY <1>1, <1>2, <1>7, <1>12, HeaderPiece
  <2> QED BY <2>1 DEF IsPiece
<1>10. 20 + Doff(f) = 20 + 20 /\ Len(f) - (20 + 20) = n
  BY <1>2, <1>6, <1>7
<1>11. Got(f) =
         Read(Version(f),
              IF Version(f) = 4 THEN Slice(f, 12, 4) ELSE Slice(f, 8, 16),
              IF Version(f) = 4 THEN Slice(f, 16, 4) ELSE Slice(f, 24, 16),
              Rd16(f, L4At(f)), Rd16(f, L4At(f) + 2),
              Rd32(f, L4At(f) + 4), Rd32(f, L4At(f) + 8), At(f, L4At(f) + 13),
              Rd16(f, L4At(f) + 14),
              Slice(f, L4At(f) + Doff(f), Len(f) - (L4At(f) + Doff(f))))
  BY <1>5, GotTcp
<1>13. Got(f) = Read(4, src, dst, sport, dport, seq, ack, flags, window, payload)
  BY <1>2, <1>4, <1>8, <1>9, <1>10, <1>11
<1> QED BY <1>13 DEF f

\* The same for an IPv6 frame.
LEMMA GotFrame6 ==
  ASSUME NEW S, NEW h, NEW b, NEW src \in Seq(S), NEW dst \in Seq(S),
         Len(src) = 16, Len(dst) = 16, NEW sport, NEW dport,
         NEW seq \in Word \X Word, NEW ack \in Word \X Word, NEW flags, NEW window,
         NEW payload \in Seq(S),
         Lies(S, h, 8, 96, 6, IPPROTO_TCP, src, dst),
         TcpLies(S, b, sport, dport, seq, ack, flags, window, payload)
  PROVE  Got(h \o b) = Read(6, src, dst, sport, dport, seq, ack, flags, window, payload)
<1> DEFINE f == h \o b
           n == Len(payload)
<1>1. /\ h \in Seq(S) /\ Len(h) = 40 /\ At(h, 0) = 96 /\ At(h, 6) = IPPROTO_TCP
      /\ \A k \in 0 .. Len(src) - 1 : At(h, k + 8) = At(src, k)
      /\ \A k \in 0 .. Len(dst) - 1 : At(h, k + 24) = At(dst, k)
  <2>1. /\ h \in Seq(S) /\ Len(h) = 8 + Len(src) + Len(dst)
        /\ At(h, 0) = 96 /\ At(h, 6) = IPPROTO_TCP
        /\ \A k \in 0 .. Len(src) - 1 : At(h, k + 8) = At(src, k)
        /\ \A k \in 0 .. Len(dst) - 1 : At(h, k + (8 + Len(src))) = At(dst, k)
    BY DEF Lies
  <2>2. 8 + Len(src) = 24 /\ 8 + Len(src) + Len(dst) = 40
    OBVIOUS
  <2> QED BY <2>1, <2>2
<1>20. h \in Seq(S) /\ 40 = Len(h) /\ f = h \o b
  BY <1>1
<1> HIDE DEF f
<1>21. FrameLies(S, h, f, 40, sport, dport, seq, ack, flags, window, payload)
  BY <1>20, Payload
<1>2. /\ f \in Seq(S) /\ Len(f) = 40 + 20 + n
      /\ \A i \in 0 .. 40 - 1 : At(f, i) = At(h, i)
      /\ Rd16(f, 40) = sport /\ Rd16(f, 40 + 2) = dport
      /\ Rd32(f, 40 + 4) = seq /\ Rd32(f, 40 + 8) = ack
      /\ At(f, 40 + 12) = 80 /\ At(f, 40 + 13) = flags /\ Rd16(f, 40 + 14) = window
      /\ Slice(f, 40 + 20, n) = payload
  BY <1>21 DEF FrameLies
<1>7. f \in Seq(S) /\ 8 \in Nat /\ 24 \in Nat /\ n \in Nat /\ 40 \in Nat
  BY <1>2
<1>3. At(f, 0) = 96 /\ At(f, 6) = IPPROTO_TCP
  BY <1>1, <1>2
<1>4. Version(f) = 6 /\ L4At(f) = 40
  <2>1. 96 \div 16 = 6
    OBVIOUS
  <2> QED BY <1>3, <2>1 DEF Version, L4At
<1>5. Proto(f) = IPPROTO_TCP
  BY <1>3, <1>4 DEF Proto
<1>6. Doff(f) = 20
  <2>1. 4 * (80 \div 16) = 20
    OBVIOUS
  <2> QED BY <1>2, <1>4, <2>1 DEF Doff
<1>12. 40 <= Len(f) /\ 8 + Len(src) <= 40 /\ 24 + Len(dst) <= 40
  BY <1>2, <1>7
<1>8. Slice(f, 8, 16) = src
  <2>1. IsPiece(S, h, f, 40, src, 8)
    BY <1>1, <1>2, <1>7, <1>12, HeaderPiece
  <2> QED BY <2>1 DEF IsPiece
<1>9. Slice(f, 24, 16) = dst
  <2>1. IsPiece(S, h, f, 40, dst, 24)
    BY <1>1, <1>2, <1>7, <1>12, HeaderPiece, ZenonT(30)
  <2> QED BY <2>1 DEF IsPiece
<1>10. 40 + Doff(f) = 40 + 20 /\ Len(f) - (40 + 20) = n
  BY <1>2, <1>6, <1>7
<1>11. Got(f) =
         Read(Version(f),
              IF Version(f) = 4 THEN Slice(f, 12, 4) ELSE Slice(f, 8, 16),
              IF Version(f) = 4 THEN Slice(f, 16, 4) ELSE Slice(f, 24, 16),
              Rd16(f, L4At(f)), Rd16(f, L4At(f) + 2),
              Rd32(f, L4At(f) + 4), Rd32(f, L4At(f) + 8), At(f, L4At(f) + 13),
              Rd16(f, L4At(f) + 14),
              Slice(f, L4At(f) + Doff(f), Len(f) - (L4At(f) + Doff(f))))
  BY <1>5, GotTcp
<1>13. Got(f) = Read(6, src, dst, sport, dport, seq, ack, flags, window, payload)
  BY <1>2, <1>4, <1>8, <1>9, <1>10, <1>11
<1> QED BY <1>13 DEF f

\* The 16-bit numbers.
LEMMA InWord ==
  ASSUME NEW x \in Nat, x <= 65535
  PROVE  x \in Word
<1> DEFINE N == 65535
<1>1. N \in Nat /\ x <= N /\ Word = 0 .. N
  BY DEF Word
<1> HIDE DEF N
<1>2. x \in 0 .. N
  BY <1>1
<1> QED BY <1>1, <1>2

\* Sequences over a larger set.
LEMMA SeqWider ==
  ASSUME NEW S, NEW T, S \subseteq T, NEW x \in Seq(S)
  PROVE  x \in Seq(T)
<1>1. x \in [1 .. Len(x) -> S] /\ Len(x) \in Nat
  OBVIOUS
<1>2. x \in [1 .. Len(x) -> T]
  BY <1>1
<1> QED BY <1>1, <1>2, SeqDef

\* What inject4 and inject6 assemble around bd_send_tcp's segment is read
\* back as it was given, whatever the checksums are.
ReadBack(src, dst, ttl, id, sport, dport, seq, ack, flags, window, payload) ==
  Got(Frame(src, dst, IPPROTO_TCP, ttl, id,
            build_tcp_l4(sport, dport, seq, ack, flags, window, payload)))
    = Read(IF Len(src) = 4 THEN 4 ELSE 6,
           src, dst, sport, dport, seq, ack, flags, window, payload)

\* Both families together.
LEMMA FrameGot ==
  ASSUME NEW src \in Seq(Byte), NEW dst \in Seq(Byte),
         Len(src) \in {4, 16}, Len(dst) = Len(src), NEW ttl \in Int, NEW id \in Word,
         NEW sport \in Word, NEW dport \in Word,
         NEW seq \in Word \X Word, NEW ack \in Word \X Word, NEW flags \in Int,
         NEW window \in Word, NEW payload \in Seq(Byte),
         20 + Len(payload) \in Word, 20 + (20 + Len(payload)) \in Word
  PROVE  ReadBack(src, dst, ttl, id, sport, dport, seq, ack, flags, window, payload)
<1> DEFINE l4 == build_tcp_l4(sport, dport, seq, ack, flags, window, payload)
           n  == Len(l4)
           g  == Bare4(src, dst, IPPROTO_TCP, ttl, id, n)
           w1 == csum_fold(csum_accumulate(g, 0))
           w2 == L4Check(IPPROTO_TCP, L4Checksum(src, dst, IPPROTO_TCP, l4))
           S  == Int \cup {w1 % 256, w1 \div 256, w2 % 256, w2 \div 256}
           b  == WithCheck(l4, 16, w2)
<1>1. Frame(src, dst, IPPROTO_TCP, ttl, id, l4)
        = (IF Len(src) = 4 THEN IpHeader4(src, dst, IPPROTO_TCP, ttl, id, n)
           ELSE IpHeader6(src, dst, IPPROTO_TCP, ttl, n)) \o b
  BY Zenon DEF Frame
<1>2. IpHeader4(src, dst, IPPROTO_TCP, ttl, id, n) = WithCheck(g, 10, w1)
  BY DEF IpHeader4, Bare4
<1>3. /\ Int \subseteq S /\ w1 % 256 \in S /\ w1 \div 256 \in S
      /\ w2 % 256 \in S /\ w2 \div 256 \in S
  <2> HIDE DEF w1, w2
  <2> QED BY SMT
<1> HIDE DEF S, w1, w2
<1>4. src \in Seq(S) /\ dst \in Seq(S) /\ payload \in Seq(S)
  <2>0. Byte \subseteq Int
    BY DEF Byte
  <2>1. Byte \subseteq S
    BY <1>3, <2>0, Zenon
  <2> QED BY <2>1, SeqWider
<1>5. TcpLies(S, l4, sport, dport, seq, ack, flags, window, payload)
  BY <1>3, <1>4, TcpBuilt
<1> HIDE DEF l4
<1>6. n = 20 + Len(payload) /\ Len(payload) \in Nat
  BY <1>5 DEF TcpLies
<1>7. TcpLies(S, b, sport, dport, seq, ack, flags, window, payload)
  BY <1>3, <1>4, <1>5, CheckedTcp
<1>8. n \in Nat /\ n \in Word /\ 20 + n \in Word
  <2>1. 20 + Len(payload) \in Nat
    BY <1>6
  <2> QED BY <1>6, <2>1
<1>9. IPPROTO_TCP \in Int
  BY DEF IPPROTO_TCP
<1> HIDE DEF n, b, g
<1>10. CASE Len(src) = 4
  <2>1. Lies(S, g, 12, 69, 9, IPPROTO_TCP, src, dst)
    BY <1>3, <1>4, <1>8, <1>9, <1>10, Header4 DEF g
  <2> DEFINE h == WithCheck(g, 10, w1)
  <2>2. Lies(S, h, 12, 69, 9, IPPROTO_TCP, src, dst)
    BY <1>3, <1>4, <2>1, CheckedHeader
  <2>4. Frame(src, dst, IPPROTO_TCP, ttl, id, l4) = h \o b
    BY <1>1, <1>2, <1>10
  <2> HIDE DEF h
  <2>3. Got(h \o b) = Read(4, src, dst, sport, dport, seq, ack, flags, window, payload)
    BY <1>4, <1>7, <1>10, <2>2, GotFrame4
  <2> QED BY <1>10, <2>3, <2>4 DEF l4, ReadBack
<1>11. CASE Len(src) = 16
  <2> DEFINE h == IpHeader6(src, dst, IPPROTO_TCP, ttl, n)
  <2>1. Lies(S, h, 8, 96, 6, IPPROTO_TCP, src, dst)
    BY <1>3, <1>4, <1>8, <1>9, <1>11, Header6
  <2>5. Len(src) # 4
    BY <1>11
  <2>4. Frame(src, dst, IPPROTO_TCP, ttl, id, l4) = h \o b
    BY <1>1, <2>5
  <2> HIDE DEF h
  <2>3. Got(h \o b) = Read(6, src, dst, sport, dport, seq, ack, flags, window, payload)
    BY <1>4, <1>7, <1>11, <2>1, GotFrame6
  <2> QED BY <2>3, <2>4, <2>5 DEF l4, ReadBack
<1> QED BY <1>10, <1>11

-----------------------------------------------------------------------------
(* uint32_t arithmetic.                                                    *)

\* A sum reduced to 16 bits.
LEMMA LowHalf ==
  ASSUME NEW x \in Int
  PROVE  x % 65536 \in Word
<1> DEFINE y == x % 65536
<1>1. y \in Nat /\ y <= 65535
  OBVIOUS
<1> HIDE DEF y
<1>2. y \in Word
  BY <1>1, InWord
<1> QED BY <1>2 DEF y

\* The bounds of a 16-bit number.
LEMMA WordIs ==
  ASSUME NEW x \in Word
  PROVE  x \in Nat /\ x <= 65535
BY DEF Word

\* uint32_t addition stays in 32 bits.
LEMMA Add32Type ==
  ASSUME NEW u \in Word \X Word, NEW n \in Nat
  PROVE  Add32(u, n) \in Word \X Word
<1> DEFINE x == u[1]
           y == u[2]
           a == x + (y + n) \div 65536
           b == y + n
<1>1. x \in Word /\ y \in Word
  OBVIOUS
<1>2. x \in Nat /\ y \in Nat
  BY <1>1, WordIs
<1>3. a \in Int /\ b \in Int
  <2> HIDE DEF x, y
  <2> QED BY <1>2
<1>4. Add32(u, n) = <<a % 65536, b % 65536>>
  BY DEF Add32
<1> HIDE DEF a, b
<1>5. a % 65536 \in Word /\ b % 65536 \in Word
  BY <1>3, LowHalf
<1> QED BY <1>4, <1>5

\* A number that is added and taken away again.
LEMMA Sub32Add32 ==
  ASSUME NEW u \in Word \X Word, NEW n \in Nat, n <= 65535
  PROVE  Sub32(Add32(u, n), u) = <<0, n>>
<1> DEFINE x == u[1]
           y == u[2]
           c == (y + n) \div 65536
           a == (x + c) % 65536
           b == (y + n) % 65536
           e == IF b < y THEN 1 ELSE 0
<1>1. x \in Nat /\ x <= 65535 /\ y \in Nat /\ y <= 65535
  <2>1. x \in Word /\ y \in Word
    OBVIOUS
  <2> QED BY <2>1, WordIs
<1>2. Add32(u, n) = <<a, b>>
  BY DEF Add32
<1>3. Sub32(Add32(u, n), u) = <<(a - x - e) % 65536, (b - y) % 65536>>
  <2> HIDE DEF a, b
  <2> QED BY <1>2 DEF Sub32
<1> HIDE DEF x, y
<1>4. (b - y) % 65536 = n
  BY <1>1
<1>5. CASE y + n < 65536
  <2>1. c = 0 /\ b = y + n
    BY <1>1, <1>5
  <2>2. e = 0 /\ a = x
    <3> HIDE DEF b, c
    <3> QED BY <1>1, <2>1
  <2>3. (a - x - e) % 65536 = 0
    <3> HIDE DEF a, e
    <3> QED BY <1>1, <2>2
  <2> QED BY <1>3, <1>4, <2>3
<1>6. CASE y + n >= 65536
  <2>1. c = 1 /\ b = y + n - 65536
    BY <1>1, <1>6
  <2>2. e = 1
    <3> HIDE DEF b, c
    <3> QED BY <1>1, <2>1
  <2>3. a = (x + 1) % 65536
    BY <2>1
  <2>4. (((x + 1) % 65536) - x - 1) % 65536 = 0
    BY <1>1
  <2>5. (a - x - e) % 65536 = 0
    <3> HIDE DEF a, e
    <3> QED BY <2>2, <2>3, <2>4
  <2> QED BY <1>3, <1>4, <2>5
<1> QED BY <1>1, <1>5, <1>6

-----------------------------------------------------------------------------
(* What bd_packet_parse finds in a TCP datagram.                           *)

\* Two bytes make a 16-bit number.
LEMMA Rd16Word ==
  ASSUME NEW b \in Seq(Byte), NEW i \in Int
  PROVE  Rd16(b, i) \in Word
<1> DEFINE x == At(b, i)
           y == At(b, i + 1)
<1>1. x \in 0 .. 255 /\ y \in 0 .. 255
  BY AtType
<1> HIDE DEF x, y
<1>2. 256 * x + y \in Nat /\ 256 * x + y <= 65535
  BY <1>1
<1>3. Rd16(b, i) = 256 * x + y
  BY Zenon DEF Rd16, x, y
<1> QED BY <1>2, <1>3, InWord

\* Four bytes make a uint32_t.
LEMMA Rd32Words ==
  ASSUME NEW b \in Seq(Byte), NEW i \in Int
  PROVE  Rd32(b, i) \in Word \X Word
<1> DEFINE v == Rd16(b, i)
           w == Rd16(b, i + 2)
<1>1. i + 2 \in Int
  OBVIOUS
<1>2. v \in Word /\ w \in Word
  BY <1>1, Rd16Word
<1> HIDE DEF v, w
<1>3. <<v, w>> \in Word \X Word
  BY <1>2
<1> QED BY <1>3, Zenon DEF Rd32, v, w

\* The addresses, ports and flags that bd_packet_parse finds.
LEMMA PacketEnds ==
  ASSUME NEW b \in Seq(Byte), NEW q, q = Parsed(b), IpOk(b), L4Ok(b)
  PROVE  /\ q.src \in Seq(Byte) /\ q.dst \in Seq(Byte) /\ Len(q.dst) = Len(q.src)
         /\ q.family = (IF Len(q.src) = 4 THEN 4 ELSE 6) /\ Len(q.src) \in {4, 16}
         /\ q.sport \in Word /\ q.dport \in Word /\ q.flags \in Byte
<1> DEFINE l == L4At(b)
<1>1. l \in Nat /\ Len(b) \in Nat
  BY HeaderTypes
<1>2. q.sport = Rd16(b, l) /\ q.dport = Rd16(b, l + 2)
  BY DEF Parsed
<1>11. q.flags = IF Proto(b) = IPPROTO_TCP THEN At(b, l + 13) ELSE 0
  BY DEF Parsed
<1>3. q.family = Version(b)
  BY DEF Parsed
<1>4. /\ q.src = IF Version(b) = 4 THEN Slice(b, 12, 4) ELSE Slice(b, 8, 16)
      /\ q.dst = IF Version(b) = 4 THEN Slice(b, 16, 4) ELSE Slice(b, 24, 16)
  BY DEF Parsed
<1> HIDE DEF l
<1>5. l + 2 \in Int /\ l + 13 \in Int /\ l \in Int
  BY <1>1
<1>6. q.sport \in Word /\ q.dport \in Word
  BY <1>2, <1>5, Rd16Word
<1>8. q.flags \in Byte
  <2>1. At(b, l + 13) \in Byte
    BY <1>5, AtType DEF Byte
  <2>2. 0 \in Byte
    BY DEF Byte
  <2> QED BY <1>11, <2>1, <2>2
<1>9. CASE Version(b) = 4
  <2>1. Len(b) >= 20
    BY <1>9 DEF IpOk
  <2>2. 12 + 4 <= Len(b) /\ 16 + 4 <= Len(b) /\ 12 \in Nat /\ 16 \in Nat /\ 4 \in Nat
    BY <1>1, <2>1
  <2>3. /\ Slice(b, 12, 4) \in Seq(Byte) /\ Len(Slice(b, 12, 4)) = 4
        /\ Slice(b, 16, 4) \in Seq(Byte) /\ Len(Slice(b, 16, 4)) = 4
    BY <2>2, SliceAt
  <2> QED BY <1>3, <1>4, <1>6, <1>8, <1>9, <2>3
<1>10. CASE Version(b) # 4
  <2>1. Version(b) = 6 /\ Len(b) >= 40
    BY <1>10 DEF IpOk
  <2>2. 8 + 16 <= Len(b) /\ 24 + 16 <= Len(b) /\ 8 \in Nat /\ 24 \in Nat /\ 16 \in Nat
    BY <1>1, <2>1
  <2>3. /\ Slice(b, 8, 16) \in Seq(Byte) /\ Len(Slice(b, 8, 16)) = 16
        /\ Slice(b, 24, 16) \in Seq(Byte) /\ Len(Slice(b, 24, 16)) = 16
    BY <2>2, SliceAt, ZenonT(30)
  <2>4. q.src = Slice(b, 8, 16) /\ q.dst = Slice(b, 24, 16) /\ q.family = 6
    BY <1>3, <1>4, <1>10, <2>1
  <2>5. /\ q.src \in Seq(Byte) /\ q.dst \in Seq(Byte)
        /\ Len(q.src) = 16 /\ Len(q.dst) = 16
    BY <2>3, <2>4
  <2>7. 16 # 4
    OBVIOUS
  <2>6. q.family = (IF Len(q.src) = 4 THEN 4 ELSE 6)
    BY <2>4, <2>5, <2>7, Zenon
  <2> QED BY <1>6, <1>8, <2>5, <2>6
<1> QED BY <1>9, <1>10

\* And the rest of a TCP packet.
LEMMA PacketTypes ==
  ASSUME NEW b \in Seq(Byte), NEW q, q = Parsed(b), IpOk(b), L4Ok(b),
         Proto(b) = IPPROTO_TCP
  PROVE  /\ q.src \in Seq(Byte) /\ q.dst \in Seq(Byte) /\ Len(q.dst) = Len(q.src)
         /\ q.family = (IF Len(q.src) = 4 THEN 4 ELSE 6) /\ Len(q.src) \in {4, 16}
         /\ q.sport \in Word /\ q.dport \in Word /\ q.window \in Word
         /\ q.seq \in Word \X Word /\ q.ack \in Word \X Word /\ q.flags \in Int
<1> DEFINE l == L4At(b)
<1>1. l \in Nat
  BY HeaderTypes
<1>2. q.seq = Rd32(b, l + 4) /\ q.ack = Rd32(b, l + 8) /\ q.window = Rd16(b, l + 14)
  BY DEF Parsed
<1> HIDE DEF l
<1>3. l + 4 \in Int /\ l + 8 \in Int /\ l + 14 \in Int
  BY <1>1
<1>4. q.window \in Word
  BY <1>2, <1>3, Rd16Word
<1>5. q.seq \in Word \X Word /\ q.ack \in Word \X Word
  BY <1>2, <1>3, Rd32Words
<1>6. Byte \subseteq Int
  BY DEF Byte
<1>7. /\ q.src \in Seq(Byte) /\ q.dst \in Seq(Byte) /\ Len(q.dst) = Len(q.src)
      /\ q.family = (IF Len(q.src) = 4 THEN 4 ELSE 6) /\ Len(q.src) \in {4, 16}
      /\ q.sport \in Word /\ q.dport \in Word /\ q.flags \in Byte
  BY PacketEnds
<1> QED BY <1>4, <1>5, <1>6, <1>7

\* A receiver of the datagram itself gets what bd_packet_parse got.
LEMMA GotPacket ==
  ASSUME NEW b, NEW q, q = Parsed(b), Proto(b) = IPPROTO_TCP
  PROVE  Got(b) = Read(q.family, q.src, q.dst, q.sport, q.dport, q.seq, q.ack,
                       q.flags, q.window, Slice(b, q.at, q.len))
<1>1. Got(b) =
        Read(Version(b),
             IF Version(b) = 4 THEN Slice(b, 12, 4) ELSE Slice(b, 8, 16),
             IF Version(b) = 4 THEN Slice(b, 16, 4) ELSE Slice(b, 24, 16),
             Rd16(b, L4At(b)), Rd16(b, L4At(b) + 2),
             Rd32(b, L4At(b) + 4), Rd32(b, L4At(b) + 8), At(b, L4At(b) + 13),
             Rd16(b, L4At(b) + 14),
             Slice(b, L4At(b) + Doff(b), Len(b) - (L4At(b) + Doff(b))))
  BY GotTcp
<1>2. /\ q.family = Version(b)
      /\ q.src = (IF Version(b) = 4 THEN Slice(b, 12, 4) ELSE Slice(b, 8, 16))
      /\ q.dst = (IF Version(b) = 4 THEN Slice(b, 16, 4) ELSE Slice(b, 24, 16))
      /\ q.sport = Rd16(b, L4At(b)) /\ q.dport = Rd16(b, L4At(b) + 2)
  BY DEF Parsed
<1>3. /\ q.seq = Rd32(b, L4At(b) + 4) /\ q.ack = Rd32(b, L4At(b) + 8)
      /\ q.flags = At(b, L4At(b) + 13) /\ q.window = Rd16(b, L4At(b) + 14)
      /\ q.at = L4At(b) + Doff(b) /\ q.len = Len(b) - (L4At(b) + Doff(b))
  BY DEF Parsed
<1> QED BY <1>1, <1>2, <1>3

-----------------------------------------------------------------------------
(* The frames of a request.                                                *)

\* q is what bd_packet_parse made of the TCP datagram b.
OfTcp(b, q) == IpOk(b) /\ L4Ok(b) /\ q = Parsed(b) /\ Proto(b) = IPPROTO_TCP

\* What a receiver makes of n payload bytes from i on, sent with bd_send_tcp.
Part(b, q, seq, flags, i, n) ==
  Read(q.family, q.src, q.dst, q.sport, q.dport, seq, q.ack, flags, q.window,
       Slice(b, q.at + i, n))

\* What a receiver makes of each kind of frame, the cut being at c.
Made(b, q, c, k) ==
  IF k = "fake" THEN Part(b, q, q.seq, q.flags, 0, q.len)
  ELSE IF k = "first" THEN Part(b, q, q.seq, FirstFlags(q.flags), 0, c)
  ELSE Part(b, q, Add32(q.seq, c), q.flags, c, q.len - c)

FrameMade(b, q, c, s) ==
  s.kind # "answer" =>
    /\ OfTcp(b, q) /\ c \in 1 .. q.len - 1
    /\ Got(s.bytes) = Made(b, q, c, s.kind)
    /\ s.kind = "first" => c \in Word

\* The handler of a TCP packet works on that packet, and what it sent so far
\* is read as the parts of it.
MadeInv ==
  /\ pc \notin {"ip", "l4", "port", "answer", "done"} => OfTcp(d, p)
  /\ \A i \in DOMAIN sent : FrameMade(d, p, split, sent[i])

\* BD_MAX_FRAME fits the length field of an IP header.
LEMMA MaxFrame == BD_MAX_FRAME \in Nat /\ BD_MAX_FRAME <= 65535
BY DissectAssumption, WordIs

\* bd_send_tcp sends what a receiver reads as that part of the payload, or
\* nothing.
Sends(k, i, n, seq, flags, ttl, ok) ==
  \/ sent' = sent
  \/ \E f : /\ sent' = Append(sent, [kind |-> k, bytes |-> f])
            /\ Got(f) = Part(d, p, seq, flags, i, n) /\ n \in Word

\* This holds for any part of the payload that lies inside it.
LEMMA SendTcpMakes ==
  ASSUME IInv, OfTcp(d, p), p.at + p.len = Len(d), NEW k, NEW i \in Nat, NEW n \in Nat,
         i + n <= p.len, NEW seq \in Word \X Word, NEW flags \in Int, NEW ttl \in Int,
         NEW ok \in BOOLEAN, SendTcp(k, i, n, seq, flags, ttl, ok)
  PROVE  Sends(k, i, n, seq, flags, ttl, ok)
<1> DEFINE x == Slice(d, p.at + i, n)
           l4 == build_tcp_l4(p.sport, p.dport, seq, p.ack, flags, p.window, x)
           h == IpHeaderLen
<1>1. /\ d \in Seq(Byte) /\ p.at \in Nat /\ p.len \in Nat /\ Len(d) \in Nat
  BY DEF IInv, TypeOK
<1>2. /\ p.src \in Seq(Byte) /\ p.dst \in Seq(Byte) /\ Len(p.dst) = Len(p.src)
      /\ p.family = (IF Len(p.src) = 4 THEN 4 ELSE 6) /\ Len(p.src) \in {4, 16}
      /\ p.sport \in Word /\ p.dport \in Word /\ p.window \in Word
      /\ p.seq \in Word \X Word /\ p.ack \in Word \X Word /\ p.flags \in Int
  BY <1>1, PacketTypes DEF OfTcp
<1>3. p.at + i \in Nat /\ (p.at + i) + n <= Len(d)
  BY <1>1
<1>4. x \in Seq(Byte) /\ Len(x) = n
  BY <1>1, <1>3, SliceAt, SMTT(30)
<1> HIDE DEF x
<1>5. Inject(k, p.src, p.dst, IPPROTO_TCP, ttl, l4, ok)
  BY DEF SendTcp, x
<1>6. h \in Nat /\ h >= 20
  BY DEF IpHeaderLen
<1>7. Int \subseteq Int /\ x \in Seq(Int)
  <2>1. Byte \subseteq Int
    BY DEF Byte
  <2> QED BY <1>4, <2>1, SeqWider
<1>8. TcpLies(Int, l4, p.sport, p.dport, seq, p.ack, flags, p.window, x)
  BY <1>2, <1>7, TcpBuilt
<1> HIDE DEF l4, h
<1>9. Len(l4) = 20 + n
  BY <1>4, <1>8 DEF TcpLies
<1>10. CASE ok
  <2>1. PICK id \in Ids :
          sent' = Append(sent, [kind  |-> k,
                                bytes |-> Frame(p.src, p.dst, IPPROTO_TCP, ttl, id, l4)])
    BY <1>5, <1>10 DEF Inject
  <2>2. h + Len(l4) <= BD_MAX_FRAME
    BY <1>5, <1>10 DEF Inject, h
  <2>3. h + (20 + n) <= 65535
    <3> DEFINE M == BD_MAX_FRAME
    <3>1. M \in Nat /\ M <= 65535
      BY MaxFrame
    <3> HIDE DEF M
    <3>2. h + (20 + n) <= M
      BY <1>9, <2>2 DEF M
    <3> QED BY <1>6, <3>1, <3>2
  <2>4. 20 + n \in Word /\ 20 + (20 + n) \in Word
    <3>1. 20 + n \in Nat /\ 20 + n <= 65535
      BY <1>6, <2>3
    <3>2. 20 + (20 + n) \in Nat /\ 20 + (20 + n) <= 65535
      BY <1>6, <2>3
    <3> QED BY <3>1, <3>2, InWord
  <2>5. n \in Word
    <3>1. n <= 65535
      BY <1>6, <2>3
    <3> QED BY <3>1, InWord
  <2>6. id \in Word
    BY DissectAssumption
  <2> DEFINE f == Frame(p.src, p.dst, IPPROTO_TCP, ttl, id, l4)
  <2>7. Got(f) = Read(IF Len(p.src) = 4 THEN 4 ELSE 6, p.src, p.dst, p.sport, p.dport,
                      seq, p.ack, flags, p.window, x)
    <3>1. 20 + Len(x) \in Word /\ 20 + (20 + Len(x)) \in Word
      BY <1>4, <2>4
    <3>2. ReadBack(p.src, p.dst, ttl, id, p.sport, p.dport, seq, p.ack, flags,
                   p.window, x)
      BY <1>2, <1>4, <2>6, <3>1, FrameGot
    <3> QED BY <3>2 DEF ReadBack, l4
  <2> HIDE DEF f
  <2>8. Got(f) = Part(d, p, seq, flags, i, n)
    BY <1>2, <2>7, Zenon DEF Part, x
  <2>9. sent' = Append(sent, [kind |-> k, bytes |-> f])
    BY <2>1 DEF f
  <2> QED BY <2>5, <2>8, <2>9 DEF Sends
<1>11. CASE ~ok
  <2>1. sent' = sent
    BY <1>5, <1>11 DEF Inject
  <2> QED BY <2>1 DEF Sends
<1> QED BY <1>10, <1>11, Zenon

\* A step that sends nothing before anything was sent.
LEMMA MadeQuiet ==
  ASSUME SentInv, pc \notin {"first", "second", "done"}, sent' = sent,
         pc' \notin {"ip", "l4", "port", "answer", "done"} => OfTcp(d', p')
  PROVE  MadeInv'
<1>1. Kinds = {}
  BY DEF SentInv
<1>2. DOMAIN sent = {}
  BY <1>1 DEF Kinds
<1> QED BY <1>2 DEF MadeInv

\* A step that sends one more frame, or none.
LEMMA MadeOneMore ==
  ASSUME SentInv, MadeInv, UNCHANGED <<in, p, split>>, NEW k,
         \/ sent' = sent
         \/ \E f : /\ sent' = Append(sent, [kind |-> k, bytes |-> f])
                   /\ FrameMade(d, p, split, [kind |-> k, bytes |-> f]),
         pc' \notin {"ip", "l4", "port", "answer", "done"} => OfTcp(d, p)
  PROVE  MadeInv'
<1>1. d' = d /\ p' = p /\ split' = split
  BY DEF d
<1>2. \A i \in DOMAIN sent' : FrameMade(d, p, split, sent'[i])
  <2>1. CASE sent' = sent
    BY <2>1 DEF MadeInv
  <2>2. CASE \E f : /\ sent' = Append(sent, [kind |-> k, bytes |-> f])
                    /\ FrameMade(d, p, split, [kind |-> k, bytes |-> f])
    <3>1. PICK f : /\ sent' = Append(sent, [kind |-> k, bytes |-> f])
                   /\ FrameMade(d, p, split, [kind |-> k, bytes |-> f])
      BY <2>2
    <3> DEFINE S == {sent[i] : i \in DOMAIN sent}
               r == [kind |-> k, bytes |-> f]
               T == S \cup {r}
               n == Len(sent)
    <3>2. sent \in Seq(S) /\ n \in Nat
      BY DEF SentInv
    <3>3. sent \in Seq(T) /\ r \in T /\ DOMAIN sent = 1 .. n
      <4> HIDE DEF S, r
      <4> QED BY <3>2
    <3> HIDE DEF S, T, r
    <3>4. sent' = Append(sent, r) /\ FrameMade(d, p, split, r)
      BY <3>1 DEF r
    <3>5. /\ sent' \in Seq(T) /\ Len(sent') = n + 1 /\ sent'[n + 1] = r
          /\ \A i \in 1 .. n : sent'[i] = sent[i]
      <4>1. /\ Append(sent, r) \in Seq(T) /\ Len(Append(sent, r)) = n + 1
            /\ \A i \in 1 .. n : Append(sent, r)[i] = sent[i]
            /\ Append(sent, r)[n + 1] = r
        BY <3>3
      <4> HIDE DEF n
      <4> QED BY <3>4, <4>1, Zenon
    <3>6. DOMAIN sent' = 1 .. n + 1 /\ \A i \in 1 .. n + 1 : i \in 1 .. n \/ i = n + 1
      BY <3>2, <3>5
    <3> HIDE DEF n
    <3>7. \A i \in 1 .. n : FrameMade(d, p, split, sent[i])
      BY <3>3 DEF MadeInv
    <3> QED BY <3>4, <3>5, <3>6, <3>7
  <2> QED BY <2>1, <2>2
<1> QED BY <1>1, <1>2 DEF MadeInv

\* Up to the cut nothing is sent.
LEMMA MadeParsing ==
  ASSUME IInv, DropInv, MadeInv, Parsing \/ Walking \/ HttpScan \/ Cut PROVE MadeInv'
<1> DEFINE Before == {"ip", "l4", "port", "answer", "done"}
<1>0. SentInv /\ MeantInv
  BY DEF DropInv
<1>1. CASE ParseIp \/ ParseL4
  <2>1. sent' = sent /\ pc \in {"ip", "l4"} /\ pc' \in Before
    BY <1>1 DEF ParseIp, ParseL4, Goto, Leave
  <2> QED BY <1>0, <2>1, MadeQuiet
<1>2. CASE DispatchTls \/ DispatchHttp
  <2>1. sent' = sent /\ pc = "port" /\ d' = d /\ p' = p /\ p.proto = IPPROTO_TCP
    BY <1>2 DEF DispatchTls, DispatchHttp, Branch, d
  <2>2. IpOk(d) /\ L4Ok(d) /\ p = Parsed(d)
    BY <1>0, <2>1 DEF MeantInv
  <2>3. Parsed(d).proto = Proto(d)
    BY DEF Parsed
  <2>4. OfTcp(d, p)
    BY <2>1, <2>2, <2>3 DEF OfTcp
  <2> QED BY <1>0, <2>1, <2>4, MadeQuiet
<1>3. CASE DispatchDns \/ DispatchQuic \/ DispatchNone
  <2>1. sent' = sent /\ pc = "port" /\ pc' \in Before
    BY <1>3 DEF DispatchDns, DispatchQuic, DispatchNone, Branch, Leave
  <2> QED BY <1>0, <2>1, MadeQuiet
<1>4. CASE Walking \/ HttpScan
  <2>1. /\ UNCHANGED <<in, p, sent>>
        /\ pc \in {"tls", "sid", "ciphers", "compression", "extlen", "ext", "name", "http"}
    BY <1>4 DEF Walking, TlsFixedPart, SessionId, Ciphers, Compression, Skip,
                ExtensionsLength, Extension, ServerName, HttpScan
  <2>2. OfTcp(d, p) /\ d' = d /\ p' = p
    BY <2>1 DEF MadeInv, d
  <2> QED BY <1>0, <2>1, <2>2, MadeQuiet
<1>5. CASE Cut
  <2>1. UNCHANGED <<in, p, sent>> /\ pc = "cut"
    BY <1>5 DEF Cut
  <2>2. OfTcp(d, p) /\ d' = d /\ p' = p
    BY <2>1 DEF MadeInv, d
  <2> QED BY <1>0, <2>1, <2>2, MadeQuiet
<1> QED BY <1>1, <1>2, <1>3, <1>4, <1>5 DEF Parsing, Dispatch

\* The three frames of a request.
LEMMA MadeFrames ==
  ASSUME IInv, DropInv, MadeInv, SendFake \/ SendFirst \/ SendSecond PROVE MadeInv'
<1>0. SentInv /\ pc \in {"fake", "first", "second"} /\ UNCHANGED <<in, p, split>>
  BY DEF DropInv, SendFake, SendFirst, SendSecond
<1>1. OfTcp(d, p) /\ p.at + p.len = Len(d) /\ split \in 1 .. p.len - 1
  BY <1>0 DEF MadeInv, IInv, WalkInv, SplitInside
<1>2. d \in Seq(Byte) /\ p.len \in Nat /\ 0 \in Nat /\ split \in Nat /\ p.len - split \in Nat
  BY <1>1 DEF IInv, TypeOK
<1>3. p.seq \in Word \X Word /\ p.flags \in Int
  BY <1>1, <1>2, PacketTypes DEF OfTcp
<1>4. Add32(p.seq, split) \in Word \X Word
  BY <1>2, <1>3, Add32Type
<1>5. FirstFlags(p.flags) \in Int
  BY <1>3 DEF FirstFlags, Psh
<1>6. FakeTtl \in Int /\ BD_REAL_TTL \in Int
  BY DissectAssumption DEF BD_REAL_TTL
<1>7. 0 + p.len <= p.len /\ 0 + split <= p.len /\ split + (p.len - split) <= p.len
  BY <1>1, <1>2
<1>8. ASSUME NEW k \in {"fake", "first", "second"}, NEW f,
             Got(f) = Made(d, p, split, k), k = "first" => split \in Word
      PROVE  FrameMade(d, p, split, [kind |-> k, bytes |-> f])
  <2>1. [kind |-> k, bytes |-> f].kind = k /\ [kind |-> k, bytes |-> f].bytes = f
    OBVIOUS
  <2> QED BY <1>1, <1>8, <2>1 DEF FrameMade
<1>9. CASE SendFake
  <2>1. PICK ok \in BOOLEAN : SendTcp("fake", 0, p.len, p.seq, p.flags, FakeTtl, ok)
    BY <1>9 DEF SendFake
  <2>2. \/ sent' = sent
        \/ \E f : /\ sent' = Append(sent, [kind |-> "fake", bytes |-> f])
                  /\ Got(f) = Part(d, p, p.seq, p.flags, 0, p.len) /\ p.len \in Word
    <3>1. Sends("fake", 0, p.len, p.seq, p.flags, FakeTtl, ok)
      BY <1>1, <1>2, <1>3, <1>6, <1>7, <2>1, SendTcpMakes
    <3> QED BY <3>1 DEF Sends
  <2>3. Made(d, p, split, "fake") = Part(d, p, p.seq, p.flags, 0, p.len)
    BY DEF Made
  <2>4. \/ sent' = sent
        \/ \E f : /\ sent' = Append(sent, [kind |-> "fake", bytes |-> f])
                  /\ FrameMade(d, p, split, [kind |-> "fake", bytes |-> f])
    BY <1>8, <2>2, <2>3
  <2> QED BY <1>0, <1>1, <2>4, MadeOneMore
<1>10. CASE SendFirst
  <2>1. PICK ok \in BOOLEAN :
          SendTcp("first", 0, split, p.seq, FirstFlags(p.flags), BD_REAL_TTL, ok)
    BY <1>10 DEF SendFirst
  <2>2. \/ sent' = sent
        \/ \E f : /\ sent' = Append(sent, [kind |-> "first", bytes |-> f])
                  /\ Got(f) = Part(d, p, p.seq, FirstFlags(p.flags), 0, split)
                  /\ split \in Word
    <3>1. Sends("first", 0, split, p.seq, FirstFlags(p.flags), BD_REAL_TTL, ok)
      BY <1>1, <1>2, <1>3, <1>5, <1>6, <1>7, <2>1, SendTcpMakes
    <3> QED BY <3>1 DEF Sends
  <2>3. Made(d, p, split, "first") = Part(d, p, p.seq, FirstFlags(p.flags), 0, split)
    BY DEF Made
  <2>4. \/ sent' = sent
        \/ \E f : /\ sent' = Append(sent, [kind |-> "first", bytes |-> f])
                  /\ FrameMade(d, p, split, [kind |-> "first", bytes |-> f])
    BY <1>8, <2>2, <2>3
  <2> QED BY <1>0, <1>1, <2>4, MadeOneMore
<1>11. CASE SendSecond
  <2> DEFINE m == p.len - split
             u == Add32(p.seq, split)
  <2>1. PICK ok \in BOOLEAN :
          SendTcp("second", split, m, u, p.flags, BD_REAL_TTL, ok)
    BY <1>11 DEF SendSecond
  <2>2. \/ sent' = sent
        \/ \E f : /\ sent' = Append(sent, [kind |-> "second", bytes |-> f])
                  /\ Got(f) = Part(d, p, u, p.flags, split, m) /\ m \in Word
    <3> HIDE DEF u, m
    <3>1. m \in Nat /\ split + m <= p.len /\ u \in Word \X Word
      BY <1>2, <1>4, <1>7 DEF u, m
    <3>2. Sends("second", split, m, u, p.flags, BD_REAL_TTL, ok)
      BY <1>1, <1>2, <1>3, <1>6, <2>1, <3>1, SendTcpMakes
    <3> QED BY <3>2 DEF Sends
  <2>3. Made(d, p, split, "second") = Part(d, p, u, p.flags, split, m)
    BY DEF Made
  <2>4. \/ sent' = sent
        \/ \E f : /\ sent' = Append(sent, [kind |-> "second", bytes |-> f])
                  /\ FrameMade(d, p, split, [kind |-> "second", bytes |-> f])
    BY <1>8, <2>2, <2>3
  <2> QED BY <1>0, <1>1, <2>4, MadeOneMore
<1> QED BY <1>9, <1>10, <1>11

\* The answer to a query is not a part of a request.
LEMMA MadeAnswer ==
  ASSUME DropInv, MadeInv, Answer PROVE MadeInv'
<1>0. SentInv /\ UNCHANGED <<in, p, split>> /\ pc' = "done"
  BY DEF DropInv, Answer, Leave
<1>1. \/ sent' = sent
      \/ \E f : sent' = Append(sent, [kind |-> "answer", bytes |-> f])
  BY DEF Answer, Inject
<1>2. ASSUME NEW f PROVE FrameMade(d, p, split, [kind |-> "answer", bytes |-> f])
  BY DEF FrameMade
<1> QED BY <1>0, <1>1, <1>2, MadeOneMore

\* Bytes that follow each other, and the whole of them.
Joins(b, i, c, n) ==
  /\ Slice(b, i + 0, c) \o Slice(b, i + c, n - c) = Slice(b, i, n)
  /\ Len(Slice(b, i + 0, c)) = c

\* Cut anywhere, the two parts make the payload.
LEMMA PartsJoin ==
  ASSUME NEW b \in Seq(Byte), NEW i \in Nat, NEW c \in Nat, NEW n \in Nat, c <= n,
         i + n = Len(b)
  PROVE  Joins(b, i, c, n)
<1> DEFINE m == n - c
           x == Slice(b, i, c)
           y == Slice(b, i + c, m)
           z == Slice(b, i, n)
<1>1. /\ m \in Nat /\ i + c \in Nat /\ i + c <= Len(b) /\ (i + c) + m <= Len(b)
      /\ i + n <= Len(b) /\ i + 0 = i /\ c + m = n
  OBVIOUS
<1> HIDE DEF m
<1>2. x \in Seq(Byte) /\ Len(x) = c /\ \A k \in 0 .. c - 1 : At(x, k) = At(b, i + k)
  BY <1>1, SliceAt
<1>3. y \in Seq(Byte) /\ Len(y) = m /\ \A k \in 0 .. m - 1 : At(y, k) = At(b, (i + c) + k)
  BY <1>1, SliceAt
<1>4. z \in Seq(Byte) /\ Len(z) = n /\ \A k \in 0 .. n - 1 : At(z, k) = At(b, i + k)
  BY <1>1, SliceAt
<1> HIDE DEF x, y, z
<1>9. x \in Seq(Byte) /\ y \in Seq(Byte)
  BY <1>2, <1>3
<1>5. /\ x \o y \in Seq(Byte) /\ Len(x \o y) = Len(x) + Len(y)
      /\ \A k \in 0 .. Len(x) - 1 : At(x \o y, k) = At(x, k)
      /\ \A j \in Len(x) .. Len(x) + Len(y) - 1 : At(x \o y, j) = At(y, j - Len(x))
  BY <1>9, CatAt, Zenon
<1>6. ASSUME NEW k \in 0 .. n - 1 PROVE At(x \o y, k) = At(z, k)
  <2>1. CASE k < c
    <3>1. k \in 0 .. c - 1 /\ k \in 0 .. Len(x) - 1
      BY <1>2, <2>1
    <3> QED BY <1>2, <1>4, <1>5, <3>1
  <2>2. CASE k >= c
    <3>1. k \in Len(x) .. Len(x) + Len(y) - 1 /\ k - Len(x) = k - c
      BY <1>1, <1>2, <1>3, <2>2
    <3>2. k - c \in 0 .. m - 1 /\ (i + c) + (k - c) = i + k
      BY <1>1, <2>2
    <3>3. At(x \o y, k) = At(y, k - c)
      BY <1>5, <3>1
    <3>4. At(y, k - c) = At(b, (i + c) + (k - c))
      BY <1>3, <3>2
    <3> QED BY <1>4, <3>2, <3>3, <3>4
  <2> QED BY <2>1, <2>2
<1>7. Len(x \o y) = Len(z) /\ x \o y \in Seq(Byte) /\ z \in Seq(Byte)
  BY <1>1, <1>2, <1>3, <1>4, <1>5
<1>8. x \o y = z
  <2>1. \A k \in 0 .. Len(x \o y) - 1 : At(x \o y, k) = At(z, k)
    BY <1>4, <1>6, <1>7
  <2> QED BY <1>7, <2>1, SameBytes
<1> QED BY <1>1, <1>2, <1>8 DEF x, y, z, m, Joins

\* Frames of one packet: other bytes, and other flags or another sequence
\* number.
WithFlags(r, y)  == [r EXCEPT !.at = y, !.flags = FirstFlags(@)]
WithSeq(r, y, u) == [r EXCEPT !.at = y, !.seq = u]

\* The first fragment differs from the request so.
LEMMA OtherFlags ==
  ASSUME NEW a1, NEW a2, NEW a3, NEW a4, NEW a5, NEW a6, NEW a7, NEW g, NEW a9, NEW x,
         NEW y
  PROVE  WithFlags(Read(a1, a2, a3, a4, a5, a6, a7, g, a9, x), y)
           = Read(a1, a2, a3, a4, a5, a6, a7, FirstFlags(g), a9, y)
<1> DEFINE r == Read(a1, a2, a3, a4, a5, a6, a7, g, a9, x)
           s == [r EXCEPT !.at = y]
<1>1. s = Read(a1, a2, a3, a4, a5, a6, a7, g, a9, y)
  BY DEF Read
<1>2. s.flags = g
  <2> HIDE DEF s
  <2> QED BY <1>1 DEF Read
<1> HIDE DEF r
<1>3. [r EXCEPT !.at = y, !.flags = FirstFlags(@)] = [s EXCEPT !.flags = FirstFlags(@)]
  OBVIOUS
<1> HIDE DEF s
<1>4. [s EXCEPT !.flags = FirstFlags(@)] = [s EXCEPT !.flags = FirstFlags(g)]
  BY <1>2
<1>5. [s EXCEPT !.flags = FirstFlags(g)]
        = Read(a1, a2, a3, a4, a5, a6, a7, FirstFlags(g), a9, y)
  BY <1>1 DEF Read
<1> QED BY <1>3, <1>4, <1>5 DEF WithFlags, r

\* The second fragment differs from the request so.
LEMMA OtherSeq ==
  ASSUME NEW a1, NEW a2, NEW a3, NEW a4, NEW a5, NEW a6, NEW a7, NEW a8, NEW a9, NEW x,
         NEW y, NEW u
  PROVE  WithSeq(Read(a1, a2, a3, a4, a5, a6, a7, a8, a9, x), y, u)
           = Read(a1, a2, a3, a4, a5, u, a7, a8, a9, y)
<1> DEFINE r == Read(a1, a2, a3, a4, a5, a6, a7, a8, a9, x)
           s == [r EXCEPT !.at = y]
<1>1. s = Read(a1, a2, a3, a4, a5, a6, a7, a8, a9, y)
  BY DEF Read
<1> HIDE DEF r
<1>2. [r EXCEPT !.at = y, !.seq = u] = [s EXCEPT !.seq = u]
  OBVIOUS
<1> HIDE DEF s
<1>3. [s EXCEPT !.seq = u] = Read(a1, a2, a3, a4, a5, u, a7, a8, a9, y)
  BY <1>1 DEF Read
<1> QED BY <1>2, <1>3 DEF WithSeq, r

\* The invariant says of the frames what the property does.
LEMMA MadeIsRequest ==
  ASSUME IInv, DropInv, MadeInv
  PROVE  FramesMakeTheRequest
<1> DEFINE orig    == Got(d)
           part(k) == {Got(sent[i].bytes) : i \in {j \in DOMAIN sent : sent[j].kind = k}}
<1>0. d \in Seq(Byte)
  BY DEF IInv, TypeOK
<1>1. ASSUME NEW i \in DOMAIN sent, sent[i].kind \in {"fake", "first", "second"}
      PROVE  /\ OfTcp(d, p) /\ split \in 1 .. p.len - 1
             /\ Got(sent[i].bytes) = Made(d, p, split, sent[i].kind)
             /\ sent[i].kind = "first" => split \in Word
  BY <1>1 DEF MadeInv, FrameMade
<1>2. ASSUME OfTcp(d, p)
      PROVE  /\ orig = Part(d, p, p.seq, p.flags, 0, p.len)
             /\ orig = Read(p.family, p.src, p.dst, p.sport, p.dport, p.seq, p.ack,
                            p.flags, p.window, Slice(d, p.at, p.len))
             /\ p.at \in Nat /\ p.len \in Nat /\ p.at + p.len = Len(d)
             /\ p.seq \in Word \X Word
  <2>1. IpOk(d) /\ L4Ok(d) /\ p = Parsed(d) /\ Proto(d) = IPPROTO_TCP
    BY <1>2 DEF OfTcp
  <2>2. orig = Read(p.family, p.src, p.dst, p.sport, p.dport, p.seq, p.ack,
                    p.flags, p.window, Slice(d, p.at, p.len))
    BY <2>1, GotPacket
  <2>3. p.at \in Nat /\ p.len \in Nat /\ p.at + p.len = Len(d)
    BY <1>0, <2>1, ParsedInside
  <2>4. p.seq \in Word \X Word
    BY <1>0, <2>1, PacketTypes
  <2>5. p.at + 0 = p.at
    BY <2>3
  <2> QED BY <2>2, <2>3, <2>4, <2>5 DEF Part
<1>3. ASSUME NEW a \in part("fake") PROVE a = orig
  <2>1. PICK i \in DOMAIN sent : sent[i].kind = "fake" /\ a = Got(sent[i].bytes)
    OBVIOUS
  <2>2. OfTcp(d, p) /\ Got(sent[i].bytes) = Made(d, p, split, "fake")
    BY <1>1, <2>1
  <2>3. Made(d, p, split, "fake") = Part(d, p, p.seq, p.flags, 0, p.len)
    BY DEF Made
  <2> HIDE DEF orig
  <2> QED BY <1>2, <2>1, <2>2, <2>3
<1>4. ASSUME pc = "done", verdict = "drop", in.what \in {"hello", "request"}
      PROVE  \E a \in part("first"), b \in part("second") :
               /\ a.at \o b.at = orig.at
               /\ a = [orig EXCEPT !.at = a.at, !.flags = FirstFlags(@)]
               /\ b = [orig EXCEPT !.at = b.at, !.seq = b.seq]
               /\ Sub32(b.seq, a.seq) = <<0, Len(a.at)>>
  <2>1. {"first", "second"} \subseteq {sent[i].kind : i \in DOMAIN sent}
    BY <1>4 DEF DropInv, OnlyReplacedIsDropped
  <2>2. PICK i \in DOMAIN sent, j \in DOMAIN sent :
          sent[i].kind = "first" /\ sent[j].kind = "second"
    BY <2>1
  <2>3. /\ OfTcp(d, p) /\ split \in 1 .. p.len - 1 /\ split \in Word
        /\ Got(sent[i].bytes) = Made(d, p, split, "first")
    BY <1>1, <2>2
  <2>4. Got(sent[j].bytes) = Made(d, p, split, "second")
    BY <1>1, <2>2
  <2> DEFINE a == Part(d, p, p.seq, FirstFlags(p.flags), 0, split)
             b == Part(d, p, Add32(p.seq, split), p.flags, split, p.len - split)
             x == Slice(d, p.at + 0, split)
             y == Slice(d, p.at + split, p.len - split)
             z == Slice(d, p.at, p.len)
             u == Add32(p.seq, split)
             v == FirstFlags(p.flags)
  <2>5. a \in part("first")
    <3>1. Made(d, p, split, "first") = a
      BY DEF Made
    <3> HIDE DEF a
    <3> QED BY <2>2, <2>3, <3>1
  <2>6. b \in part("second")
    <3>1. Made(d, p, split, "second") = b
      BY DEF Made
    <3> HIDE DEF b
    <3> QED BY <2>2, <2>4, <3>1
  <2>7. /\ orig = Read(p.family, p.src, p.dst, p.sport, p.dport, p.seq, p.ack,
                       p.flags, p.window, z)
        /\ p.at \in Nat /\ p.len \in Nat /\ p.at + p.len = Len(d)
        /\ p.seq \in Word \X Word
    BY <1>2, <2>3
  <2>8. split \in Nat /\ split <= p.len /\ split <= 65535
    BY <2>3, <2>7, WordIs
  <2>9. x \o y = z /\ Len(x) = split
    <3>1. Joins(d, p.at, split, p.len)
      BY <1>0, <2>7, <2>8, PartsJoin
    <3> QED BY <3>1 DEF Joins
  <2>10. Sub32(u, p.seq) = <<0, split>>
    BY <2>7, <2>8, Sub32Add32
  <2>11. /\ a = Read(p.family, p.src, p.dst, p.sport, p.dport, p.seq, p.ack, v, p.window, x)
         /\ b = Read(p.family, p.src, p.dst, p.sport, p.dport, u, p.ack, p.flags, p.window, y)
    BY DEF Part
  <2> HIDE DEF orig, a, b, x, y, z, u
  <2>12. a = [orig EXCEPT !.at = x, !.flags = FirstFlags(@)]
    <3>1. WithFlags(Read(p.family, p.src, p.dst, p.sport, p.dport, p.seq, p.ack,
                         p.flags, p.window, z), x)
            = Read(p.family, p.src, p.dst, p.sport, p.dport, p.seq, p.ack,
                   FirstFlags(p.flags), p.window, x)
      BY OtherFlags
    <3>2. WithFlags(orig, x) = a
      BY <2>7, <2>11, <3>1
    <3> QED BY <3>2 DEF WithFlags
  <2> HIDE DEF v
  <2>13. b = [orig EXCEPT !.at = y, !.seq = u]
    <3>1. WithSeq(Read(p.family, p.src, p.dst, p.sport, p.dport, p.seq, p.ack,
                       p.flags, p.window, z), y, u)
            = Read(p.family, p.src, p.dst, p.sport, p.dport, u, p.ack, p.flags,
                   p.window, y)
      BY OtherSeq
    <3>2. WithSeq(orig, y, u) = b
      BY <2>7, <2>11, <3>1
    <3> QED BY <3>2 DEF WithSeq
  <2>14. a.at = x /\ a.seq = p.seq /\ b.at = y /\ b.seq = u /\ orig.at = z
    BY <2>7, <2>11 DEF Read
  <2> HIDE DEF part
  <2>15. /\ a.at \o b.at = orig.at
         /\ a = [orig EXCEPT !.at = a.at, !.flags = FirstFlags(@)]
         /\ b = [orig EXCEPT !.at = b.at, !.seq = b.seq]
         /\ Sub32(b.seq, a.seq) = <<0, Len(a.at)>>
    BY <2>9, <2>10, <2>12, <2>13, <2>14
  <2> QED BY <2>5, <2>6, <2>15
<1> QED BY <1>3, <1>4 DEF FramesMakeTheRequest

\* MadeInv is inductive given the invariants before it.
LEMMA MadeInductive == Spec => []MadeInv
<1>1. Init => MadeInv
  <2> SUFFICES ASSUME Init PROVE MadeInv
    OBVIOUS
  <2>1. pc = "ip" /\ DOMAIN sent = {}
    BY DEF Init
  <2> QED BY <2>1 DEF MadeInv
<1>2. IInv /\ DropInv /\ MadeInv /\ [Next]_vars => MadeInv'
  <2> SUFFICES ASSUME IInv, DropInv, MadeInv, [Next]_vars PROVE MadeInv'
    OBVIOUS
  <2>1. CASE Parsing \/ Walking \/ HttpScan \/ Cut
    BY <2>1, MadeParsing
  <2>2. CASE Sending
    BY <2>2, MadeFrames, MadeAnswer DEF Sending
  <2>3. CASE UNCHANGED vars
    <3>1. pc' = pc /\ sent' = sent /\ d' = d /\ p' = p /\ split' = split
      BY <2>3 DEF vars, d
    <3> QED BY <3>1 DEF MadeInv
  <2> QED BY <2>1, <2>2, <2>3 DEF Next
<1> QED BY <1>1, <1>2, Inductive, DropInductive, PTL DEF Spec

\* The frames that bd_tcp_handle puts in a request's place are read back as
\* that request, for every datagram, cut, sequence number, checksum, address
\* family and byte order of the host: the fake is the request itself, and
\* whenever the request is dropped its two fragments join to it.
THEOREM FramesCorrect == Spec => []FramesMakeTheRequest
<1>1. IInv /\ DropInv /\ MadeInv => FramesMakeTheRequest
  BY MadeIsRequest
<1> QED BY <1>1, Inductive, DropInductive, MadeInductive, PTL

-----------------------------------------------------------------------------
(* Induction over numbers, and functions that a loop defines.              *)

\* A set of natural numbers that has a member has a smallest one.
LEMMA Smallest ==
  ASSUME NEW T \in SUBSET Nat, T # {}
  PROVE  \E n \in T : \A m \in T : n <= m
<1> DEFINE R == {ss \in Nat \X Nat : ss[1] < ss[2]}
<1>1. IsWellFoundedOn(R, Nat)
  BY NatLessThanWellFounded DEF OpToRel
<1> HIDE DEF R
<1>2. PICK n \in T : \A m \in T : <<m, n>> \notin R
  BY <1>1, WFMin
<1>3. ASSUME NEW m \in T PROVE n <= m
  <2>1. <<m, n>> \notin R
    BY <1>2
  <2>2. m \in Nat /\ n \in Nat
    OBVIOUS
  <2>3. ~(m < n)
    BY <2>1, <2>2 DEF R
  <2> QED BY <2>2, <2>3
<1> QED BY <1>3

\* Induction up to n over the members of a set T: what holds for 0 and is
\* passed on from each number to the next holds up to n.
LEMMA UpTo ==
  ASSUME NEW n \in Nat, NEW T, 0 \in T, \A i \in 1 .. n : i - 1 \in T => i \in T
  PROVE  0 .. n \subseteq T
<1> DEFINE U == {i \in 0 .. n : i \notin T}
<1> SUFFICES ASSUME U # {} PROVE FALSE
  OBVIOUS
<1>1. U \in SUBSET Nat
  OBVIOUS
<1> HIDE DEF U
<1>2. PICK i \in U : \A m \in U : i <= m
  BY <1>1, Smallest
<1>3. i \in 0 .. n /\ i \notin T
  BY DEF U
<1>4. i # 0
  BY <1>3
<1>5. i - 1 \in 0 .. n /\ i \in 1 .. n /\ ~(i <= i - 1)
  BY <1>3, <1>4
<1>6. i - 1 \in T
  BY <1>5, <1>2 DEF U
<1> QED BY <1>3, <1>5, <1>6

\* Some function over 0 .. n starts at s and takes each value from the one
\* before, by F.
Computes(n, V, s, F) ==
  \E g \in [0 .. n -> V] : g[0] = s /\ \A i \in 1 .. n : g[i] = F[<<g[i - 1], i>>]

\* There is one: a loop that adds up word by word defines its sum.
LEMMA Recursion ==
  ASSUME NEW n \in Nat, NEW V, NEW s \in V, NEW F \in [V \X (1 .. n) -> V]
  PROVE  Computes(n, V, s, F)
<1> DEFINE Is(g, k) == g[0] = s /\ \A i \in 1 .. k : g[i] = F[<<g[i - 1], i>>]
           T == {k \in 0 .. n : \E g \in [0 .. k -> V] : Is(g, k)}
<1>1. 0 \in T
  <2> DEFINE g == [i \in 0 .. 0 |-> s]
  <2>1. g \in [0 .. 0 -> V] /\ Is(g, 0)
    OBVIOUS
  <2>2. 0 \in 0 .. n
    OBVIOUS
  <2> HIDE DEF g
  <2> QED BY <2>1, <2>2
<1>2. ASSUME NEW k \in 1 .. n, k - 1 \in T PROVE k \in T
  <2>1. PICK g \in [0 .. k - 1 -> V] : Is(g, k - 1)
    BY <1>2
  <2> DEFINE h == [i \in 0 .. k |-> IF i = k THEN F[<<g[k - 1], k>>] ELSE g[i]]
  <2>0. k - 1 \in 0 .. k - 1 /\ k \in 0 .. n /\ 0 \in 0 .. k - 1
    OBVIOUS
  <2>2. g[k - 1] \in V
    BY <2>0
  <2>3. F[<<g[k - 1], k>>] \in V
    BY <2>2
  <2>4. \A i \in 0 .. k : i = k \/ i \in 0 .. k - 1
    OBVIOUS
  <2>5. h \in [0 .. k -> V]
    BY <2>3, <2>4
  <2>6. h[0] = s
    BY <2>0, <2>1
  <2>7. ASSUME NEW i \in 1 .. k PROVE h[i] = F[<<h[i - 1], i>>]
    <3>1. i - 1 \in 0 .. k - 1 /\ i - 1 \in 0 .. k /\ i - 1 # k /\ i \in 0 .. k
      OBVIOUS
    <3>2. h[i - 1] = g[i - 1]
      BY <3>1
    <3>3. CASE i = k
      BY <3>1, <3>2, <3>3
    <3>4. CASE i # k
      <4>1. i \in 1 .. k - 1
        BY <3>4
      <4>2. h[i] = g[i]
        BY <3>1, <3>4
      <4>3. g[i] = F[<<g[i - 1], i>>]
        BY <2>1, <4>1
      <4> QED BY <3>2, <4>2, <4>3
    <3> QED BY <3>3, <3>4
  <2> HIDE DEF h
  <2> QED BY <2>0, <2>5, <2>6, <2>7
<1> HIDE DEF T
<1>3. 0 .. n \subseteq T
  BY <1>1, <1>2, UpTo
<1>4. n \in T
  BY <1>3
<1> QED BY <1>4 DEF T, Computes

\* Words in b, an odd last byte counted as one.
Half(b) == (Len(b) + 1) \div 2

\* csum_accumulate's sum after each word.
Sums(b, s, g) ==
  /\ g \in [0 .. Half(b) -> Nat] /\ g[0] = s
  /\ \A i \in 1 .. Half(b) : g[i] = g[i - 1] + HostWord(b, 2 * i - 2)

\* A word fits 16 bits in either byte order.
LEMMA HostWordIs ==
  ASSUME NEW b \in Seq(Byte), NEW i \in Int
  PROVE  HostWord(b, i) \in Nat /\ HostWord(b, i) <= 65535
<1> DEFINE x == At(b, i)
           y == At(b, i + 1)
<1>1. x \in 0 .. 255 /\ y \in 0 .. 255
  BY AtType
<1>2. HostWord(b, i) = IF LittleEndian THEN x + 256 * y ELSE 256 * x + y
  BY DEF HostWord, Rd16
<1> HIDE DEF x, y
<1> QED BY <1>1, <1>2

\* The words cover b and at most one byte more.
LEMMA HalfIs ==
  ASSUME NEW b \in Seq(Byte)
  PROVE  Half(b) \in Nat /\ 2 * Half(b) <= Len(b) + 1 /\ Len(b) <= 2 * Half(b)
BY DEF Half

\* csum_accumulate is the last of its running sums.
LEMMA SumsExist ==
  ASSUME NEW b \in Seq(Byte), NEW s \in Nat
  PROVE  \E g : Sums(b, s, g) /\ csum_accumulate(b, s) = g[Half(b)]
<1> DEFINE n == Half(b)
           F == [v \in Nat \X (1 .. n) |-> v[1] + HostWord(b, 2 * v[2] - 2)]
<1>1. n \in Nat
  BY HalfIs
<1> HIDE DEF n
<1>2. F \in [Nat \X (1 .. n) -> Nat]
  <2>1. ASSUME NEW v \in Nat \X (1 .. n) PROVE v[1] + HostWord(b, 2 * v[2] - 2) \in Nat
    <3>1. v[1] \in Nat /\ 2 * v[2] - 2 \in Int
      BY <1>1
    <3>2. HostWord(b, 2 * v[2] - 2) \in Nat
      BY <3>1, HostWordIs
    <3> QED BY <3>1, <3>2
  <2> QED BY <2>1
<1> HIDE DEF F
<1>3. PICK g \in [0 .. n -> Nat] :
        g[0] = s /\ \A i \in 1 .. n : g[i] = F[<<g[i - 1], i>>]
  <2>1. Computes(n, Nat, s, F)
    BY <1>1, <1>2, Recursion
  <2> QED BY <2>1 DEF Computes
<1>4. ASSUME NEW i \in 1 .. n PROVE g[i] = g[i - 1] + HostWord(b, 2 * i - 2)
  <2>1. i - 1 \in 0 .. n
    BY <1>1
  <2>2. <<g[i - 1], i>> \in Nat \X (1 .. n)
    BY <2>1
  <2> DEFINE v == <<g[i - 1], i>>
  <2>3. v[1] = g[i - 1] /\ v[2] = i
    OBVIOUS
  <2> HIDE DEF v
  <2>4. F[v] = v[1] + HostWord(b, 2 * v[2] - 2)
    BY <2>2 DEF F, v
  <2> QED BY <1>3, <2>3, <2>4 DEF v
<1> DEFINE Eq(f) == f = [i \in 0 .. n |-> IF i = 0 THEN s ELSE f[i - 1] + HostWord(b, 2 * i - 2)]
           c == CHOOSE f : Eq(f)
<1>5. Eq(g)
  <2>1. ASSUME NEW i \in 0 .. n
        PROVE  g[i] = IF i = 0 THEN s ELSE g[i - 1] + HostWord(b, 2 * i - 2)
    <3>1. i = 0 \/ i \in 1 .. n
      BY <1>1
    <3> QED BY <1>3, <1>4, <3>1
  <2> DEFINE h == [i \in 0 .. n |-> IF i = 0 THEN s ELSE g[i - 1] + HostWord(b, 2 * i - 2)]
  <2>2. DOMAIN g = 0 .. n
    BY <1>3
  <2>3. g = h
    BY <2>1, <2>2, Zenon
  <2> QED BY <2>3
<1>6. Eq(c)
  <2> HIDE DEF Eq
  <2> QED BY <1>5, Zenon
<1>7. csum_accumulate(b, s) = c[n]
  BY DEF csum_accumulate, n, Half
<1> HIDE DEF c
<1>8. c[0] = s
  BY <1>1, <1>6
<1>9. ASSUME NEW i \in 1 .. n PROVE c[i] = c[i - 1] + HostWord(b, 2 * i - 2)
  <2>1. i \in 0 .. n /\ i # 0
    BY <1>1
  <2> QED BY <1>6, <2>1
<1> DEFINE T == {i \in 0 .. n : c[i] = g[i]}
<1>10. 0 .. n \subseteq T
  <2>1. 0 \in T
    BY <1>1, <1>3, <1>8
  <2>2. ASSUME NEW i \in 1 .. n, i - 1 \in T PROVE i \in T
    <3>1. i \in 0 .. n
      OBVIOUS
    <3> QED BY <1>4, <1>9, <2>2, <3>1
  <2> HIDE DEF T
  <2> QED BY <1>1, <2>1, <2>2, UpTo
<1>11. csum_accumulate(b, s) = g[n]
  <2>1. n \in 0 .. n
    BY <1>1
  <2> QED BY <1>7, <1>10, <2>1
<1> QED BY <1>3, <1>4, <1>11 DEF Sums, n

-----------------------------------------------------------------------------
(* Sums: pieces, byte order and the fold.                                  *)

\* A sum that starts from s is s and the sum that starts from zero, which
\* is at most 65535 for each word.
LEMMA AccAdds ==
  ASSUME NEW b \in Seq(Byte), NEW s \in Nat
  PROVE  /\ csum_accumulate(b, s) = s + csum_accumulate(b, 0)
         /\ csum_accumulate(b, 0) \in Nat
         /\ csum_accumulate(b, 0) <= 65535 * Half(b)
<1> DEFINE n == Half(b)
<1>0. n \in Nat
  BY HalfIs
<1>1. PICK g : Sums(b, s, g) /\ csum_accumulate(b, s) = g[n]
  BY SumsExist
<1>2. PICK h : Sums(b, 0, h) /\ csum_accumulate(b, 0) = h[n]
  BY SumsExist
<1> DEFINE T == {i \in 0 .. n : g[i] = s + h[i] /\ h[i] <= 65535 * i}
<1>3. /\ h \in [0 .. n -> Nat] /\ h[0] = 0 /\ g[0] = s
      /\ \A i \in 1 .. n : h[i] = h[i - 1] + HostWord(b, 2 * i - 2)
      /\ \A i \in 1 .. n : g[i] = g[i - 1] + HostWord(b, 2 * i - 2)
  BY <1>1, <1>2 DEF Sums
<1> HIDE DEF n
<1>4. 0 \in T
  BY <1>0, <1>3
<1>5. ASSUME NEW i \in 1 .. n, i - 1 \in T PROVE i \in T
  <2>1. i \in 0 .. n /\ i - 1 \in 0 .. n /\ 2 * i - 2 \in Int
    BY <1>0
  <2> DEFINE w == HostWord(b, 2 * i - 2)
  <2>2. w \in Nat /\ w <= 65535
    <3> DEFINE j == 2 * i - 2
    <3>1. j \in Int
      BY <2>1
    <3> HIDE DEF j
    <3>2. HostWord(b, j) \in Nat /\ HostWord(b, j) <= 65535
      BY <3>1, HostWordIs, SMTT(30)
    <3> QED BY <3>2 DEF j
  <2>6. h[i - 1] \in Nat
    BY <1>3, <2>1
  <2>3. h[i] = h[i - 1] + w /\ g[i] = g[i - 1] + w
    BY <1>3
  <2> HIDE DEF w
  <2>4. g[i] = s + h[i]
    BY <1>5, <2>2, <2>3, <2>6
  <2>5. h[i] <= 65535 * i
    BY <1>5, <2>1, <2>2, <2>3, <2>6
  <2> QED BY <2>1, <2>4, <2>5
<1>6. 0 .. n \subseteq T
  <2> HIDE DEF T
  <2> QED BY <1>0, <1>4, <1>5, UpTo
<1>7. n \in T
  BY <1>0, <1>6
<1> QED BY <1>0, <1>1, <1>2, <1>3, <1>7 DEF n

\* The words of two pieces of which the first has an even length.
LEMMA Halves ==
  ASSUME NEW x \in Nat, NEW y \in Nat, x % 2 = 0
  PROVE  /\ (x + 1) \div 2 \in Nat /\ x = 2 * ((x + 1) \div 2)
         /\ ((x + y) + 1) \div 2 = ((x + 1) \div 2) + ((y + 1) \div 2)
         /\ (y + 1) \div 2 \in Nat /\ y <= 2 * ((y + 1) \div 2)
         /\ 2 * ((y + 1) \div 2) <= y + 1
<1>1. PICK k \in Nat : x = 2 * k
  <2>1. x \div 2 \in Nat /\ x = 2 * (x \div 2)
    OBVIOUS
  <2> QED BY <2>1
<1>2. (x + 1) \div 2 = k
  BY <1>1
<1>3. ((x + y) + 1) \div 2 = k + ((y + 1) \div 2)
  BY <1>1
<1>4. /\ (y + 1) \div 2 \in Nat /\ y <= 2 * ((y + 1) \div 2)
      /\ 2 * ((y + 1) \div 2) <= y + 1
  OBVIOUS
<1> QED BY <1>1, <1>2, <1>3, <1>4

\* The sum over two pieces is the sum of their sums if the first has an even
\* length: l4_checksum4 and l4_checksum6 sum up the pseudo header first.
LEMMA CatSum ==
  ASSUME NEW a \in Seq(Byte), NEW b \in Seq(Byte), Len(a) % 2 = 0
  PROVE  csum_accumulate(a \o b, 0) = csum_accumulate(a, 0) + csum_accumulate(b, 0)
<1> DEFINE c == a \o b
           m == Half(a)
           n == Half(b)
<1>1. /\ c \in Seq(Byte) /\ Len(c) = Len(a) + Len(b) /\ Len(a) \in Nat /\ Len(b) \in Nat
  OBVIOUS
<1>2. m \in Nat /\ n \in Nat /\ Len(a) = 2 * m /\ Half(c) = m + n
      /\ Len(b) <= 2 * n /\ 2 * n <= Len(b) + 1
  <2>1. m = (Len(a) + 1) \div 2 /\ n = (Len(b) + 1) \div 2 /\ Half(c) = (Len(c) + 1) \div 2
    BY DEF Half
  <2> HIDE DEF c, m, n
  <2> QED BY <1>1, <2>1, Halves
<1>3. ASSUME NEW i \in 0 .. Len(a) - 1 PROVE At(c, i) = At(a, i)
  <2>1. i \in 0 .. Len(c) - 1 /\ i + 1 \in 1 .. Len(a)
    BY <1>1
  <2> DEFINE k == i + 1
  <2>2. c[k] = a[k]
    <3>1. k \in 1 .. Len(a) /\ Len(a) \in Nat
      BY <1>1, <2>1
    <3> HIDE DEF k
    <3> QED BY <1>1, <3>1
  <2> QED BY <2>1, <2>2 DEF At
<1>4. ASSUME NEW i \in Nat PROVE At(c, 2 * m + i) = At(b, i)
  <2>1. CASE i \in 0 .. Len(b) - 1
    <3>1. /\ 2 * m + i \in 0 .. Len(c) - 1
          /\ (2 * m + i) + 1 \in Len(a) + 1 .. Len(a) + Len(b)
          /\ (2 * m + i) + 1 - Len(a) = i + 1
      <4> HIDE DEF m, n, c
      <4> QED BY <1>1, <1>2, <2>1
    <3>2. c[(2 * m + i) + 1] = b[i + 1]
      <4> DEFINE k == (2 * m + i) + 1
      <4>1. k \in Len(a) + 1 .. Len(a) + Len(b) /\ k - Len(a) = i + 1
        BY <3>1
      <4> HIDE DEF k
      <4>2. (a \o b)[k] = b[k - Len(a)]
        BY <1>1, <4>1
      <4> QED BY <4>1, <4>2 DEF k
    <3> QED BY <2>1, <3>1, <3>2 DEF At
  <2>2. CASE i \notin 0 .. Len(b) - 1
    <3> HIDE DEF m, n, c
    <3>1. 2 * m + i \notin 0 .. Len(c) - 1
      BY <1>1, <1>2, <2>2
    <3> QED BY <2>2, <3>1 DEF At
  <2> QED BY <2>1, <2>2
<1>5. PICK f : Sums(a, 0, f) /\ csum_accumulate(a, 0) = f[m]
  BY SumsExist
<1>6. PICK g : Sums(b, 0, g) /\ csum_accumulate(b, 0) = g[n]
  BY SumsExist
<1>7. PICK h : Sums(c, 0, h) /\ csum_accumulate(c, 0) = h[m + n]
  BY <1>1, <1>2, SumsExist
<1>8. /\ f \in [0 .. m -> Nat] /\ f[0] = 0
      /\ \A i \in 1 .. m : f[i] = f[i - 1] + HostWord(a, 2 * i - 2)
      /\ g \in [0 .. n -> Nat] /\ g[0] = 0
      /\ \A i \in 1 .. n : g[i] = g[i - 1] + HostWord(b, 2 * i - 2)
  BY <1>5, <1>6 DEF Sums
<1>9. /\ h[0] = 0 /\ \A i \in 1 .. m + n : h[i] = h[i - 1] + HostWord(c, 2 * i - 2)
  BY <1>2, <1>7 DEF Sums
<1> HIDE DEF m, n, c
<1> DEFINE T == {i \in 0 .. m : h[i] = f[i]}
           U == {i \in 0 .. n : h[m + i] = f[m] + g[i]}
<1>10. 0 .. m \subseteq T
  <2>1. 0 \in T
    BY <1>2, <1>8, <1>9
  <2>2. ASSUME NEW i \in 1 .. m, i - 1 \in T PROVE i \in T
    <3> DEFINE j == 2 * i - 2
    <3>1. /\ j \in 0 .. Len(a) - 1 /\ j + 1 \in 0 .. Len(a) - 1
          /\ i \in 1 .. m + n /\ i \in 0 .. m
      BY <1>2
    <3>2. At(c, j) = At(a, j) /\ At(c, j + 1) = At(a, j + 1)
      BY <1>3, <3>1
    <3> HIDE DEF j
    <3>3. HostWord(c, j) = HostWord(a, j)
      BY <3>2 DEF HostWord, Rd16
    <3>4. h[i] = h[i - 1] + HostWord(c, j) /\ f[i] = f[i - 1] + HostWord(a, j)
      BY <1>8, <1>9, <3>1 DEF j
    <3> QED BY <2>2, <3>1, <3>3, <3>4
  <2> HIDE DEF T
  <2> QED BY <1>2, <2>1, <2>2, UpTo
<1>11. h[m] = f[m] /\ f[m] \in Nat
  BY <1>2, <1>8, <1>10
<1>12. 0 .. n \subseteq U
  <2>1. 0 \in U
    BY <1>2, <1>8, <1>11
  <2>2. ASSUME NEW i \in 1 .. n, i - 1 \in U PROVE i \in U
    <3> DEFINE j == 2 * i - 2
               k == m + i
    <3>1. /\ j \in Nat /\ j + 1 \in Nat /\ k \in 1 .. m + n /\ i \in 0 .. n /\ i - 1 \in 0 .. n
          /\ 2 * k - 2 = 2 * m + j /\ (2 * m + j) + 1 = 2 * m + (j + 1) /\ k - 1 = m + (i - 1)
      BY <1>2
    <3>2. At(c, 2 * m + j) = At(b, j) /\ At(c, 2 * m + (j + 1)) = At(b, j + 1)
      BY <1>4, <3>1
    <3> HIDE DEF j
    <3>3. HostWord(c, 2 * m + j) = HostWord(b, j)
      BY <3>1, <3>2 DEF HostWord, Rd16
    <3>4. h[k] = h[k - 1] + HostWord(c, 2 * k - 2)
      <4> HIDE DEF k
      <4> QED BY <1>9, <3>1
    <3>5. h[m + i] = h[m + (i - 1)] + HostWord(b, j)
      BY <3>1, <3>3, <3>4
    <3>6. g[i] = g[i - 1] + HostWord(b, j) /\ g[i - 1] \in Nat
      BY <1>8, <3>1 DEF j
    <3>7. h[m + (i - 1)] = f[m] + g[i - 1]
      BY <2>2
    <3>8. HostWord(b, j) \in Nat
      BY <3>1, HostWordIs
    <3>9. h[m + i] = f[m] + g[i]
      BY <1>11, <3>5, <3>6, <3>7, <3>8
    <3> QED BY <3>1, <3>9
  <2> HIDE DEF U
  <2> QED BY <1>2, <2>1, <2>2, UpTo
<1>13. h[m + n] = f[m] + g[n]
  BY <1>2, <1>12
<1> QED BY <1>5, <1>6, <1>7, <1>13 DEF c

\* What a sum in the host's byte order is multiplied by to have it in
\* network order, up to multiples of 65535.
Factor == IF LittleEndian THEN 256 ELSE 1

\* Reducing after each word or once at the end is the same.
LEMMA ModAdds ==
  ASSUME NEW x \in Nat, NEW r \in Nat, NEW t \in Nat
  PROVE  ((x % 65535) + r) % 65535 = (x + (r + 65535 * t)) % 65535
OBVIOUS

\* The word at offset i in either order, up to a multiple of 65535.
Orders(b, i) == \E t \in Nat : Factor * HostWord(b, i) = Rd16(b, i) + 65535 * t

\* So it is for every word.
LEMMA WordOrders ==
  ASSUME NEW b \in Seq(Byte), NEW i \in Int
  PROVE  Orders(b, i)
<1> DEFINE x == At(b, i)
           y == At(b, i + 1)
<1>1. x \in 0 .. 255 /\ y \in 0 .. 255
  BY AtType
<1>2. HostWord(b, i) = (IF LittleEndian THEN x + 256 * y ELSE 256 * x + y)
      /\ Rd16(b, i) = 256 * x + y
  BY DEF HostWord, Rd16
<1> HIDE DEF x, y
<1>3. CASE LittleEndian
  <2>1. Factor * HostWord(b, i) = 256 * (x + 256 * y)
    BY <1>2, <1>3 DEF Factor
  <2>2. 256 * (x + 256 * y) = (256 * x + y) + 65535 * y /\ y \in Nat
    BY <1>1
  <2> QED BY <1>2, <2>1, <2>2 DEF Orders
<1>4. CASE ~LittleEndian
  <2>1. Factor * HostWord(b, i) = 1 * (256 * x + y)
    BY <1>2, <1>4 DEF Factor
  <2>2. 1 * (256 * x + y) = (256 * x + y) + 65535 * 0 /\ 0 \in Nat
    BY <1>1
  <2> QED BY <1>2, <2>1, <2>2 DEF Orders
<1> QED BY <1>3, <1>4

\* A receiver's sum in network order is the host's sum times the factor:
\* summing and swapping bytes may change places.
LEMMA ReceiverIs ==
  ASSUME NEW b \in Seq(Byte)
  PROVE  ReceiverSum(b) = (Factor * csum_accumulate(b, 0)) % 65535
<1> DEFINE n == Half(b)
           Red(u) == u % 65535
           F == [v \in Nat \X (1 .. n) |-> Red(v[1] + Rd16(b, 2 * v[2] - 2))]
<1>1. n \in Nat
  BY HalfIs
<1>0. Factor \in Nat
  BY DEF Factor
<1>20. ASSUME NEW i \in 1 .. n
       PROVE  Rd16(b, 2 * i - 2) \in Nat /\ HostWord(b, 2 * i - 2) \in Nat
  <2> DEFINE j == 2 * i - 2
  <2>1. j \in Int
    BY <1>1
  <2> HIDE DEF j
  <2>2. Rd16(b, j) \in Nat
    BY <2>1, Rd16Type
  <2>3. HostWord(b, j) \in Nat
    BY <2>1, HostWordIs, SMTT(30)
  <2> QED BY <2>2, <2>3 DEF j
<1> HIDE DEF n
<1>2. F \in [Nat \X (1 .. n) -> Nat]
  <2>1. ASSUME NEW v \in Nat \X (1 .. n) PROVE Red(v[1] + Rd16(b, 2 * v[2] - 2)) \in Nat
    <3>1. v[1] \in Nat /\ v[2] \in 1 .. n
      BY <1>1
    <3>2. Rd16(b, 2 * v[2] - 2) \in Nat
      BY <1>20, <3>1
    <3> QED BY <3>1, <3>2
  <2> QED BY <2>1
<1> HIDE DEF F, Red
<1>3. PICK g \in [0 .. n -> Nat] :
        g[0] = 0 /\ \A i \in 1 .. n : g[i] = F[<<g[i - 1], i>>]
  <2>1. Computes(n, Nat, 0, F)
    BY <1>1, <1>2, Recursion
  <2> QED BY <2>1 DEF Computes
<1>4. ASSUME NEW i \in 1 .. n PROVE g[i] = Red(g[i - 1] + Rd16(b, 2 * i - 2))
  <2>1. i - 1 \in 0 .. n
    BY <1>1
  <2>2. <<g[i - 1], i>> \in Nat \X (1 .. n)
    BY <2>1
  <2> DEFINE v == <<g[i - 1], i>>
  <2>3. v[1] = g[i - 1] /\ v[2] = i
    OBVIOUS
  <2> HIDE DEF v
  <2>4. F[v] = Red(v[1] + Rd16(b, 2 * v[2] - 2))
    BY <2>2 DEF F, v
  <2> QED BY <1>3, <2>3, <2>4 DEF v
<1> DEFINE Eq(f) == f = [i \in 0 .. n |-> IF i = 0 THEN 0 ELSE Red(f[i - 1] + Rd16(b, 2 * i - 2))]
           c == CHOOSE f : Eq(f)
<1>5. Eq(g)
  <2>1. ASSUME NEW i \in 0 .. n
        PROVE  g[i] = IF i = 0 THEN 0 ELSE Red(g[i - 1] + Rd16(b, 2 * i - 2))
    <3>1. i = 0 \/ i \in 1 .. n
      BY <1>1
    <3> QED BY <1>3, <1>4, <3>1
  <2> DEFINE h == [i \in 0 .. n |-> IF i = 0 THEN 0 ELSE Red(g[i - 1] + Rd16(b, 2 * i - 2))]
  <2>2. DOMAIN g = 0 .. n
    BY <1>3
  <2>3. g = h
    BY <2>1, <2>2, Zenon
  <2> QED BY <2>3
<1>6. Eq(c)
  <2> HIDE DEF Eq
  <2> QED BY <1>5, Zenon
<1>7. ReceiverSum(b) = c[n]
  BY DEF ReceiverSum, n, Half, Red
<1> HIDE DEF c
<1>8. c[0] = 0
  BY <1>1, <1>6
<1>9. ASSUME NEW i \in 1 .. n PROVE c[i] = Red(c[i - 1] + Rd16(b, 2 * i - 2))
  <2>1. i \in 0 .. n /\ i # 0
    BY <1>1
  <2> QED BY <1>6, <2>1
<1>10. PICK h : Sums(b, 0, h) /\ csum_accumulate(b, 0) = h[n]
  BY SumsExist DEF n
<1>11. /\ h \in [0 .. n -> Nat] /\ h[0] = 0
       /\ \A i \in 1 .. n : h[i] = h[i - 1] + HostWord(b, 2 * i - 2)
  BY <1>10 DEF Sums, n
<1> DEFINE T == {i \in 0 .. n : c[i] = (Factor * h[i]) % 65535}
<1>12. 0 .. n \subseteq T
  <2>1. 0 \in T
    <3>1. (Factor * 0) % 65535 = 0
      BY <1>0
    <3> QED BY <1>1, <1>8, <1>11, <3>1
  <2>2. ASSUME NEW i \in 1 .. n, i - 1 \in T PROVE i \in T
    <3> DEFINE j == 2 * i - 2
               x == Factor * h[i - 1]
               r == Rd16(b, j)
               w == HostWord(b, j)
    <3>1. i \in 0 .. n /\ i - 1 \in 0 .. n /\ j \in Int
      BY <1>1
    <3>2. r \in Nat /\ w \in Nat
      BY <1>20
    <3>3. h[i - 1] \in Nat
      BY <1>11, <3>1
    <3>4. h[i] = h[i - 1] + w /\ c[i] = Red(c[i - 1] + r)
      BY <1>9, <1>11
    <3>5. c[i - 1] = x % 65535
      BY <2>2
    <3> HIDE DEF j
    <3>6. PICK t \in Nat : Factor * w = r + 65535 * t
      <4>1. Orders(b, j)
        BY <3>1, WordOrders
      <4> QED BY <4>1 DEF Orders
    <3> HIDE DEF w, r
    <3>7. x \in Nat
      BY <1>0, <3>3
    <3>8. Factor * h[i] = x + Factor * w
      BY <1>0, <3>2, <3>3, <3>4
    <3> HIDE DEF x
    <3>9. c[i] = (x + (r + 65535 * t)) % 65535
      BY <3>2, <3>4, <3>5, <3>7, ModAdds DEF Red
    <3> QED BY <3>1, <3>6, <3>8, <3>9
  <2> HIDE DEF T
  <2> QED BY <1>1, <2>1, <2>2, UpTo
<1>13. n \in T
  BY <1>1, <1>12
<1> QED BY <1>7, <1>10, <1>13

\* The word f makes the sum s a multiple of 65535.
Evens(s, f) == f \in Word /\ \E k \in Nat : s + f = 65535 * k

\* The word that csum_fold returns does, for every sum over a frame that
\* fits BD_MAX_FRAME: its loop ends after two turns.
LEMMA FoldIs ==
  ASSUME NEW s \in Nat, s <= 65535 * 65535
  PROVE  Evens(s, csum_fold(s))
<1> DEFINE q == s \div 65536
           t == (s % 65536) + q
           e == t \div 65536
           u == (t % 65536) + e
<1>1. q \in Nat /\ q <= 65535 /\ t \in Nat /\ t <= 131070 /\ s = t + 65535 * q
  BY SMT
<1>2. csum_fold(s) = 65535 - u
  BY DEF csum_fold
<1> HIDE DEF q, t
<1>3. e \in Nat /\ u \in Nat /\ u <= 65535 /\ t = u + 65535 * e
  BY <1>1, SMT
<1> HIDE DEF e, u
<1>4. s + (65535 - u) = 65535 * (q + e + 1) /\ q + e + 1 \in Nat
  BY <1>1, <1>3, SMT
<1>5. 65535 - u \in Nat /\ 65535 - u <= 65535
  BY <1>3, SMT
<1>6. 65535 - u \in Word
  BY <1>5, InWord, SMT
<1> QED BY <1>2, <1>4, <1>6, SMT DEF Evens

\* A multiple of 65535 stays one in either byte order, and 65535 does for a
\* sum where zero does.
LEMMA OtherForm ==
  ASSUME NEW s \in Nat, NEW w \in Nat, NEW k \in Nat, s + w = 65535 * k
  PROVE  /\ (s + w) % 65535 = 0 /\ (256 * (s + w)) % 65535 = 0 /\ (1 * (s + w)) % 65535 = 0
         /\ w = 0 => s + 65535 = 65535 * (k + 1)
BY SMT

\* A receiver accepts bytes whose sum, checksum included, is such a multiple.
LEMMA Sound ==
  ASSUME NEW b \in Seq(Byte), NEW s \in Nat, NEW w, Evens(s, w), csum_accumulate(b, 0) = s + w
  PROVE  ReceiverSum(b) = 0
<1>4. w \in Word
  BY DEF Evens
<1>5. w \in Nat
  BY <1>4, WordIs, SMT
<1>0. PICK k \in Nat : s + w = 65535 * k
  BY SMT DEF Evens
<1>1. ReceiverSum(b) = (Factor * (s + w)) % 65535
  BY ReceiverIs, SMT
<1>2. Factor = 256 \/ Factor = 1
  BY SMT DEF Factor
<1>3. (256 * (s + w)) % 65535 = 0 /\ (1 * (s + w)) % 65535 = 0
  BY <1>0, <1>5, OtherForm, SMT
<1> QED BY <1>1, <1>2, <1>3, SMT

\* The sum over two bytes is their word.
LEMMA PairSum ==
  ASSUME NEW b \in Seq(Byte), Len(b) = 2
  PROVE  csum_accumulate(b, 0) = HostWord(b, 0)
<1>1. Half(b) = 1
  BY DEF Half
<1>2. PICK g : Sums(b, 0, g) /\ csum_accumulate(b, 0) = g[Half(b)]
  BY SumsExist
<1>3. HostWord(b, 0) \in Nat
  BY HostWordIs, SMT
<1>4. g[0] = 0 /\ g[1] = g[1 - 1] + HostWord(b, 2 * 1 - 2)
  <2>1. \A i \in 1 .. 1 : g[i] = g[i - 1] + HostWord(b, 2 * i - 2)
    BY <1>1, <1>2 DEF Sums
  <2> QED BY <1>2, <2>1 DEF Sums
<1>5. 1 - 1 = 0 /\ 2 * 1 - 2 = 0
  OBVIOUS
<1> QED BY <1>1, <1>2, <1>3, <1>4, <1>5

\* A checksum stored in memory adds its own value to the sum, and is not
\* read as zero unless it is.
LEMMA StoredSum ==
  ASSUME NEW w \in Word
  PROVE  /\ Stored(w) \in Seq(Byte) /\ Len(Stored(w)) = 2
         /\ csum_accumulate(Stored(w), 0) = w
         /\ w # 0 => Rd16(Stored(w), 0) # 0
<1> DEFINE x == w % 256
           y == w \div 256
           b == Stored(w)
<1>1. x \in 0 .. 255 /\ y \in 0 .. 255 /\ x + 256 * y = w
  BY WordIs, SMT
<1>2. b = IF LittleEndian THEN <<x, y>> ELSE <<y, x>>
  BY DEF Stored, Be16
<1> HIDE DEF x, y, b
<1>3. x \in Byte /\ y \in Byte
  BY <1>1 DEF Byte
<1>4. /\ b \in Seq(Byte) /\ Len(b) = 2
      /\ At(b, 0) = (IF LittleEndian THEN x ELSE y)
      /\ At(b, 1) = (IF LittleEndian THEN y ELSE x)
  BY <1>2, <1>3, TwoBytes
<1>5. 0 + 1 = 1
  OBVIOUS
<1>6. HostWord(b, 0) = w
  BY <1>1, <1>4, <1>5, SMT DEF HostWord, Rd16
<1>7. w # 0 => Rd16(b, 0) # 0
  BY <1>1, <1>4, <1>5, SMT DEF Rd16
<1>8. csum_accumulate(b, 0) = w
  BY <1>4, <1>6, PairSum
<1> QED BY <1>4, <1>7, <1>8 DEF b

\* A checksum field that is still zero adds nothing.
LEMMA NullSum ==
  /\ Zeros(2) \in Seq(Byte) /\ Len(Zeros(2)) = 2
  /\ csum_accumulate(Zeros(2), 0) = 0
<1>1. Zeros(2) \in Seq(Byte) /\ Len(Zeros(2)) = 2 /\ Zeros(2)[1] = 0 /\ Zeros(2)[2] = 0
  <2>1. 0 \in Byte
    BY DEF Byte
  <2>2. Zeros(2) \in [1 .. 2 -> Byte] /\ Zeros(2)[1] = 0 /\ Zeros(2)[2] = 0
    BY <2>1 DEF Zeros
  <2>3. Zeros(2) \in Seq(Byte)
    BY <2>2, SeqDef
  <2> QED BY <2>2, <2>3
<1>2. At(Zeros(2), 0) = 0 /\ At(Zeros(2), 1) = 0 /\ 0 + 1 = 1
  BY <1>1 DEF At
<1>3. HostWord(Zeros(2), 0) = 0
  BY <1>2, SMT DEF HostWord, Rd16
<1> QED BY <1>1, <1>3, PairSum

\* Bytes put together.
LEMMA Cat ==
  ASSUME NEW a \in Seq(Byte), NEW b \in Seq(Byte)
  PROVE  a \o b \in Seq(Byte) /\ Len(a \o b) = Len(a) + Len(b)
OBVIOUS

\* Brackets do not matter.
LEMMA CatMoves ==
  ASSUME NEW a \in Seq(Byte), NEW b \in Seq(Byte), NEW c \in Seq(Byte)
  PROVE  (a \o b) \o c = a \o (b \o c)
BY ConcatAssociative

\* The two pieces that bytes were put together from, cut out again.
LEMMA SliceOf ==
  ASSUME NEW a \in Seq(Byte), NEW b \in Seq(Byte)
  PROVE  Slice(a \o b, 0, Len(a)) = a /\ Slice(a \o b, Len(a), Len(b)) = b
<1> DEFINE c == a \o b
<1>1. /\ c \in Seq(Byte) /\ Len(c) = Len(a) + Len(b) /\ Len(a) \in Nat /\ Len(b) \in Nat
      /\ \A i \in 0 .. Len(a) - 1 : At(c, i) = At(a, i)
      /\ \A j \in Len(a) .. Len(a) + Len(b) - 1 : At(c, j) = At(b, j - Len(a))
  BY CatAt
<1> HIDE DEF c
<1>2. \A k \in 0 .. Len(a) - 1 : At(c, 0 + k) = At(a, k)
  BY <1>1
<1>3. ASSUME NEW k \in 0 .. Len(b) - 1 PROVE At(c, Len(a) + k) = At(b, k)
  <2>1. Len(a) + k \in Len(a) .. Len(a) + Len(b) - 1 /\ (Len(a) + k) - Len(a) = k
    BY <1>1
  <2> QED BY <1>1, <2>1
<1>4. Slice(c, 0, Len(a)) = a
  <2>1. 0 + Len(a) <= Len(c) /\ 0 \in Nat /\ c \in Seq(Byte)
    BY <1>1
  <2> QED BY <1>2, <2>1, PieceOf
<1>5. Slice(c, Len(a), Len(b)) = b
  <2>1. Len(a) + Len(b) <= Len(c) /\ Len(a) \in Nat /\ c \in Seq(Byte)
    BY <1>1
  <2> QED BY <1>3, <2>1, PieceOf
<1> QED BY <1>4, <1>5 DEF c

-----------------------------------------------------------------------------
(* A checksum filled in.                                                   *)

\* A header whose checksum field, between a and c, is still zero.
Blank(a, c) == (a \o Zeros(2)) \o c

\* The header h with the word w in its checksum field is v.
IsFilled(a, c, h, v, w) ==
  /\ h \in Seq(Byte) /\ Len(h) = Len(a) + 2 + Len(c)
  /\ v \in Seq(Byte) /\ Len(v) = Len(h)
  /\ csum_accumulate(v, 0) = csum_accumulate(h, 0) + w
  /\ w # 0 => Rd16(v, Len(a)) # 0

\* WithCheck fills the field in, and the word joins the sum.
LEMMA Filled ==
  ASSUME NEW a \in Seq(Byte), NEW c \in Seq(Byte), Len(a) % 2 = 0, NEW w \in Word
  PROVE  IsFilled(a, c, Blank(a, c), WithCheck(Blank(a, c), Len(a), w), w)
<1> DEFINE z == Zeros(2)
           y == Stored(w)
           n == Len(a)
           az == a \o z
           ay == a \o y
           zc == z \o c
           h == az \o c
           v == ay \o c
<1>1. z \in Seq(Byte) /\ Len(z) = 2 /\ csum_accumulate(z, 0) = 0
  BY NullSum
<1>2. /\ y \in Seq(Byte) /\ Len(y) = 2 /\ csum_accumulate(y, 0) = w
      /\ w # 0 => Rd16(y, 0) # 0
  BY StoredSum
<1>3. Blank(a, c) = h
  BY DEF Blank
<1>4. WithCheck(Blank(a, c), n, w)
        = Slice(h, 0, n) \o y \o Slice(h, n + 2, Len(h) - n - 2)
  BY <1>3 DEF WithCheck
<1> HIDE DEF z, y
<1>5. z \in Seq(Byte) /\ y \in Seq(Byte) /\ n \in Nat /\ Len(c) \in Nat
  BY <1>1, <1>2
<1>6. az \in Seq(Byte) /\ Len(az) = n + Len(z)
  BY <1>5, Cat
<1>7. ay \in Seq(Byte) /\ Len(ay) = n + Len(y)
  BY <1>5, Cat
<1>8. zc \in Seq(Byte)
  BY <1>5, Cat
<1>9. h = a \o zc
  <2>1. z \in Seq(Byte)
    BY <1>5
  <2>2. (a \o z) \o c = a \o (z \o c)
    BY <2>1, CatMoves
  <2> QED BY <2>2
<1>18. csum_accumulate(az, 0) = csum_accumulate(a, 0) + csum_accumulate(z, 0)
  BY <1>5, CatSum
<1>19. csum_accumulate(ay, 0) = csum_accumulate(a, 0) + csum_accumulate(y, 0)
  BY <1>5, CatSum
<1>10. Rd16(ay, n) = Rd16(y, 0)
  <2>1. \A j \in n .. n + Len(y) - 2 : Rd16(ay, j) = Rd16(y, j - n)
    BY <1>5, CatRd16
  <2>2. n \in n .. n + Len(y) - 2 /\ n - n = 0
    BY <1>2, <1>5
  <2> QED BY <2>1, <2>2
<1> HIDE DEF az, ay, zc
<1>11. Len(az) = n + 2 /\ Len(ay) = n + 2
  BY <1>1, <1>2, <1>6, <1>7
<1>12. Len(az) % 2 = 0 /\ Len(ay) % 2 = 0
  BY <1>5, <1>11
<1>13. h \in Seq(Byte) /\ Len(h) = Len(az) + Len(c)
  BY <1>6, Cat
<1>14. v \in Seq(Byte) /\ Len(v) = Len(ay) + Len(c)
  BY <1>7, Cat
<1>15. Slice(h, 0, n) = a
  BY <1>8, <1>9, SliceOf
<1>16. Slice(h, Len(az), Len(c)) = c
  BY <1>6, SliceOf
<1>20. csum_accumulate(h, 0) = csum_accumulate(az, 0) + csum_accumulate(c, 0)
  BY <1>6, <1>12, CatSum
<1>21. csum_accumulate(v, 0) = csum_accumulate(ay, 0) + csum_accumulate(c, 0)
  BY <1>7, <1>12, CatSum
<1>22. Rd16(v, n) = Rd16(ay, n)
  <2>1. \A i \in 0 .. Len(ay) - 2 : Rd16(v, i) = Rd16(ay, i)
    BY <1>7, CatRd16
  <2>2. n \in 0 .. Len(ay) - 2
    BY <1>5, <1>11
  <2> QED BY <2>1, <2>2
<1>17. WithCheck(Blank(a, c), n, w) = v
  <2>1. Len(h) - n - 2 = Len(c) /\ n + 2 = Len(az)
    <3> HIDE DEF h
    <3> QED BY <1>5, <1>11, <1>13
  <2>2. Slice(h, n + 2, Len(h) - n - 2) = c
    BY <1>16, <2>1
  <2> QED BY <1>4, <1>15, <2>2 DEF ay
<1> HIDE DEF h, v
<1>23. csum_accumulate(a, 0) \in Nat /\ csum_accumulate(c, 0) \in Nat
  BY AccAdds, SMT
<1>26. w \in Nat
  BY WordIs, SMT
<1>24. csum_accumulate(v, 0) = csum_accumulate(h, 0) + w
  BY <1>1, <1>2, <1>18, <1>19, <1>20, <1>21, <1>23, <1>26
<1>25. Len(h) = n + 2 + Len(c) /\ Len(v) = Len(h)
  BY <1>5, <1>11, <1>13, <1>14
<1>27. w # 0 => Rd16(v, n) # 0
  BY <1>2, <1>10, <1>22
<1>28. IsFilled(a, c, h, v, w)
  BY <1>13, <1>14, <1>24, <1>25, <1>27 DEF IsFilled
<1> QED BY <1>3, <1>17, <1>28

\* What a receiver sums up over x and the header h with its checksum w filled
\* in is zero, and the checksum of a UDP packet is there.
IsChecked(x, h, a, proto, w) ==
  LET v == WithCheck(h, Len(a), L4Check(proto, w)) IN
  /\ v \in Seq(Byte) /\ Len(v) = Len(h) /\ ReceiverSum(x \o v) = 0
  /\ proto = IPPROTO_UDP => Rd16(v, Len(a)) # 0

\* The form in which a checksum is sent does as well as the checksum.
LEMMA CheckForms ==
  ASSUME NEW s \in Nat, NEW f, Evens(s, f), NEW proto
  PROVE  Evens(s, L4Check(proto, f)) /\ (proto = IPPROTO_UDP => L4Check(proto, f) # 0)
<1> DEFINE w == L4Check(proto, f)
<1>1. CASE proto = IPPROTO_UDP /\ f = 0
  <2>1. w = 65535
    BY <1>1 DEF L4Check
  <2>2. PICK k \in Nat : s + f = 65535 * k
    BY SMT DEF Evens
  <2> DEFINE m == k + 1
  <2>3. s + 65535 = 65535 * m /\ m \in Nat
    BY <1>1, <2>2, SMT
  <2> HIDE DEF m
  <2>4. 65535 \in Word
    BY InWord, SMT
  <2>5. s + w = 65535 * m
    BY <2>1, <2>3, SMT
  <2>6. w \in Word
    BY <2>1, <2>4, SMT
  <2>7. w # 0
    BY <2>1, SMT
  <2> HIDE DEF w
  <2>8. Evens(s, w)
    BY <2>3, <2>5, <2>6, SMT DEF Evens
  <2> QED BY <2>7, <2>8, SMT DEF w
<1>2. CASE ~(proto = IPPROTO_UDP /\ f = 0)
  <2>1. w = f
    BY <1>2 DEF L4Check
  <2> QED BY <1>2, <2>1
<1> QED BY <1>1, <1>2

\* The checksum over x and h, computed while the field was zero, is right
\* once it is filled in.  No sum over 65535 bytes and a pseudo header needs a
\* third turn of csum_fold's loop.
LEMMA Checked ==
  ASSUME NEW x \in Seq(Byte), Len(x) % 2 = 0, Len(x) <= 40, NEW a \in Seq(Byte),
         Len(a) % 2 = 0, NEW c \in Seq(Byte), NEW h, h = Blank(a, c),
         Len(h) \in Word, NEW proto
  PROVE  IsChecked(x, h, a, proto, csum_fold(csum_accumulate(h, csum_accumulate(x, 0))))
<1> DEFINE sx == csum_accumulate(x, 0)
           sh == csum_accumulate(h, 0)
           s  == csum_accumulate(h, sx)
           f  == csum_fold(s)
           w  == L4Check(proto, f)
           v  == WithCheck(h, Len(a), w)
<1>1. h \in Seq(Byte)
  <2> DEFINE z == Zeros(2)
  <2>1. z \in Seq(Byte)
    BY NullSum, Zenon
  <2> HIDE DEF z
  <2>2. a \o z \in Seq(Byte)
    BY <2>1, Cat
  <2>3. (a \o z) \o c \in Seq(Byte)
    BY <2>2, Cat
  <2> QED BY <2>3 DEF z, Blank
<1>2. sx \in Nat /\ sx <= 65535 * Half(x) /\ sh \in Nat /\ sh <= 65535 * Half(h)
  BY <1>1, AccAdds, SMT
<1> HIDE DEF sx
<1>3. s = sx + sh
  BY <1>1, <1>2, AccAdds, SMT
<1>20. f = csum_fold(s)
  OBVIOUS
<1> HIDE DEF sh, s, f
<1>4. s \in Nat /\ s <= 65535 * 65535
  <2>1. Half(x) \in Nat /\ 2 * Half(x) <= Len(x) + 1 /\ Half(h) \in Nat /\ 2 * Half(h) <= Len(h) + 1
    BY <1>1, HalfIs
  <2>3. Len(h) <= 65535 /\ Len(h) \in Nat
    BY WordIs, SMT
  <2>4. Len(x) \in Nat
    OBVIOUS
  <2>2. Half(x) + Half(h) <= 65535
    <3> DEFINE i == Half(x)
               j == Half(h)
               k == Len(x)
               l == Len(h)
    <3>1. /\ i \in Nat /\ j \in Nat /\ k \in Nat /\ l \in Nat
          /\ k <= 40 /\ l <= 65535 /\ 2 * i <= k + 1 /\ 2 * j <= l + 1
      BY <2>1, <2>3, <2>4, SMT
    <3> HIDE DEF i, j, k, l
    <3>2. i + j <= 65535
      BY <3>1, SMT
    <3> QED BY <3>2, SMT DEF i, j
  <2> QED BY <1>2, <1>3, <2>1, <2>2, SMTT(30)
<1>21. s \in Nat
  BY <1>4, SMT
<1>5. Evens(s, f)
  BY <1>4, <1>20, FoldIs, SMT
<1>6. Evens(s, w) /\ (proto = IPPROTO_UDP => w # 0)
  BY <1>5, <1>21, CheckForms
<1> HIDE DEF w
<1>22. w \in Word
  BY <1>6 DEF Evens
<1>7. IsFilled(a, c, h, v, w)
  BY <1>22, Filled
<1> HIDE DEF v
<1>8. v \in Seq(Byte) /\ Len(v) = Len(h) /\ csum_accumulate(v, 0) = sh + w
      /\ (w # 0 => Rd16(v, Len(a)) # 0)
  BY <1>7 DEF IsFilled, sh
<1>23. v \in Seq(Byte)
  BY <1>8
<1>9. csum_accumulate(x \o v, 0) = s + w
  <2>1. csum_accumulate(x \o v, 0) = sx + csum_accumulate(v, 0)
    BY <1>23, CatSum DEF sx
  <2>2. w \in Nat
    BY <1>22, WordIs, SMT
  <2>3. sx \in Nat /\ sh \in Nat
    BY <1>2, SMT
  <2> DEFINE t == csum_accumulate(x \o v, 0)
             u == csum_accumulate(v, 0)
  <2>4. t = sx + u /\ u = sh + w
    BY <1>8, <2>1
  <2> HIDE DEF t, u
  <2>5. t = s + w
    BY <1>3, <2>2, <2>3, <2>4
  <2> QED BY <2>5 DEF t
<1>10. ReceiverSum(x \o v) = 0
  <2> DEFINE b == x \o v
  <2>1. b \in Seq(Byte)
    BY <1>23, Cat
  <2>2. csum_accumulate(b, 0) = s + w
    BY <1>9
  <2> HIDE DEF b
  <2>3. ReceiverSum(b) = 0
    BY <1>6, <1>21, <2>1, <2>2, Sound
  <2> QED BY <2>3 DEF b
<1>11. /\ v \in Seq(Byte) /\ Len(v) = Len(h) /\ ReceiverSum(x \o v) = 0
       /\ proto = IPPROTO_UDP => Rd16(v, Len(a)) # 0
  BY <1>6, <1>8, <1>10
<1> QED BY <1>11 DEF IsChecked, v, w, f, s, sx

-----------------------------------------------------------------------------
(* The headers that net.c assembles.                                       *)

\* A word as two bytes.
LEMMA Be16Bytes ==
  ASSUME NEW w \in Word
  PROVE  Be16(w) \in Seq(Byte) /\ Len(Be16(w)) = 2
<1> DEFINE x == w \div 256
           y == w % 256
<1>1. x \in 0 .. 255 /\ y \in 0 .. 255
  BY WordIs, SMT
<1>2. Be16(w) = <<x, y>>
  BY DEF Be16
<1> HIDE DEF x, y
<1>3. x \in Byte /\ y \in Byte
  BY <1>1 DEF Byte
<1> QED BY <1>2, <1>3, TwoBytes

\* Two words as four bytes.
LEMMA Be32Bytes ==
  ASSUME NEW u \in Word \X Word
  PROVE  Be32(u) \in Seq(Byte) /\ Len(Be32(u)) = 4
<1> DEFINE a == Be16(u[1])
           b == Be16(u[2])
<1>1. u[1] \in Word /\ u[2] \in Word
  OBVIOUS
<1>2. a \in Seq(Byte) /\ Len(a) = 2
  BY <1>1, Be16Bytes
<1>3. b \in Seq(Byte) /\ Len(b) = 2
  BY <1>1, Be16Bytes
<1>4. Be32(u) = a \o b
  BY DEF Be32
<1> HIDE DEF a, b
<1>5. a \in Seq(Byte) /\ b \in Seq(Byte)
  BY <1>2, <1>3
<1>6. a \o b \in Seq(Byte) /\ Len(a \o b) = Len(a) + Len(b)
  BY <1>5, Cat
<1> QED BY <1>2, <1>3, <1>4, <1>6

\* s is n bytes.
Bytes(s, n) == s \in Seq(Byte) /\ Len(s) = n

\* The lengths of pieces add up.
LEMMA Longer ==
  ASSUME NEW s, NEW m \in Nat, Bytes(s, m), NEW t, NEW n \in Nat, Bytes(t, n)
  PROVE  Bytes(s \o t, m + n)
<1>1. s \in Seq(Byte) /\ t \in Seq(Byte)
  BY DEF Bytes
<1>2. s \o t \in Seq(Byte) /\ Len(s \o t) = Len(s) + Len(t)
  BY <1>1, Cat
<1> QED BY <1>2 DEF Bytes

\* inject4's header before its checksum is filled in: the field follows the
\* first ten bytes.
LEMMA Blank4 ==
  ASSUME NEW src \in Seq(Byte), NEW dst \in Seq(Byte), NEW proto \in Byte,
         NEW ttl \in Byte, NEW id \in Word, NEW n \in Nat, 20 + n \in Word
  PROVE  \E a : /\ a \in Seq(Byte) /\ Len(a) = 10
                /\ Bare4(src, dst, proto, ttl, id, n) = Blank(a, src \o dst)
<1> DEFINE b1 == <<69, 0>>
           b2 == Be16(20 + n)
           b3 == Be16(id)
           b4 == Be16(16384)
           b5 == <<ttl, proto>>
           z  == Zeros(2)
           a  == b1 \o b2 \o b3 \o b4 \o b5
<1>1. Bytes(b1, 2)
  <2>1. 69 \in Byte /\ 0 \in Byte
    BY DEF Byte
  <2> QED BY <2>1, TwoBytes DEF Bytes
<1>2. Bytes(b2, 2) /\ Bytes(b3, 2) /\ Bytes(b4, 2)
  BY DontFragment, Be16Bytes DEF Bytes
<1>3. Bytes(b5, 2)
  BY TwoBytes DEF Bytes
<1>4. z \in Seq(Byte)
  BY NullSum
<1>5. Bare4(src, dst, proto, ttl, id, n) = ((a \o z) \o src) \o dst
  BY DEF Bare4
<1> HIDE DEF b1, b2, b3, b4, b5, z
<1>6. Bytes(a, 10)
  <2>1. Bytes(b1 \o b2, 4)
    <3>1. Bytes(b1 \o b2, 2 + 2)
      BY <1>1, <1>2, Longer
    <3> QED BY <3>1
  <2>2. Bytes((b1 \o b2) \o b3, 6)
    <3>1. Bytes((b1 \o b2) \o b3, 4 + 2)
      BY <1>2, <2>1, Longer
    <3> QED BY <3>1
  <2>3. Bytes(((b1 \o b2) \o b3) \o b4, 8)
    <3>1. Bytes(((b1 \o b2) \o b3) \o b4, 6 + 2)
      BY <1>2, <2>2, Longer
    <3> QED BY <3>1
  <2>4. Bytes((((b1 \o b2) \o b3) \o b4) \o b5, 8 + 2)
    BY <1>3, <2>3, Longer
  <2> QED BY <2>4
<1> HIDE DEF a
<1>7. a \in Seq(Byte) /\ Len(a) = 10
  BY <1>6 DEF Bytes
<1>8. a \o z \in Seq(Byte)
  BY <1>4, <1>7, Cat
<1>9. ((a \o z) \o src) \o dst = (a \o z) \o (src \o dst)
  BY <1>8, CatMoves
<1> QED BY <1>5, <1>7, <1>9 DEF Blank, z

\* The checksum and the urgent pointer of build_tcp_l4.
LEMMA FourZeros == Zeros(4) = Zeros(2) \o Zeros(2)
<1> DEFINE z == Zeros(2)
           y == Zeros(4)
<1>1. z \in Seq(Byte) /\ Len(z) = 2 /\ z[1] = 0 /\ z[2] = 0
  BY NullSum DEF Zeros
<1>2. 0 \in Byte
  BY DEF Byte
<1>3. y \in Seq(Byte) /\ Len(y) = 4
  <2>1. y \in [1 .. 4 -> Byte]
    BY <1>2 DEF Zeros
  <2> HIDE DEF y
  <2>2. y \in Seq(Byte)
    BY <2>1, SeqDef
  <2> QED BY <2>1, <2>2
<1>4. \A i \in 1 .. 4 : y[i] = 0
  BY DEF Zeros
<1> HIDE DEF z, y
<1>5. z \in Seq(Byte)
  BY <1>1
<1>6. /\ z \o z \in Seq(Byte) /\ Len(z \o z) = 4
      /\ \A i \in 1 .. 4 : (z \o z)[i] = 0
  <2>1. z \o z \in Seq(Byte) /\ Len(z \o z) = Len(z) + Len(z)
    BY <1>5, Cat
  <2>2. ASSUME NEW i \in 1 .. 4 PROVE (z \o z)[i] = 0
    <3>1. CASE i <= 2
      <4>1. i \in 1 .. Len(z) /\ (i = 1 \/ i = 2)
        BY <1>1, <3>1
      <4>2. (z \o z)[i] = z[i]
        BY <1>5, <4>1
      <4> QED BY <1>1, <4>1, <4>2
    <3>2. CASE ~(i <= 2)
      <4>1. i \in Len(z) + 1 .. Len(z) + Len(z) /\ (i - Len(z) = 1 \/ i - Len(z) = 2)
        BY <1>1, <3>2
      <4>2. (z \o z)[i] = z[i - Len(z)]
        BY <1>5, <4>1
      <4> QED BY <1>1, <4>1, <4>2
    <3> QED BY <3>1, <3>2
  <2> QED BY <1>1, <2>1, <2>2
<1> DEFINE x == z \o z
<1>7. x \in Seq(Byte) /\ Len(x) = Len(y) /\ \A i \in 1 .. Len(x) : x[i] = y[i]
  BY <1>3, <1>4, <1>6
<1> HIDE DEF x
<1>8. x = y
  BY <1>3, <1>7, SeqEqual
<1> QED BY <1>8 DEF x, y, z

\* l4 is a and c with two zeros between them, where its checksum belongs.
IsL4(l4, a, c, proto) ==
  /\ a \in Seq(Byte) /\ Len(a) = (IF proto = IPPROTO_TCP THEN 16 ELSE 6)
  /\ c \in Seq(Byte) /\ l4 = Blank(a, c)

\* build_tcp_l4 leaves the checksum field zero, 16 bytes into the header.
LEMMA BlankTcp ==
  ASSUME NEW sport \in Word, NEW dport \in Word, NEW seq \in Word \X Word,
         NEW ack \in Word \X Word, NEW flags \in Byte, NEW window \in Word,
         NEW payload \in Seq(Byte)
  PROVE  \E a, c : IsL4(build_tcp_l4(sport, dport, seq, ack, flags, window, payload),
                        a, c, IPPROTO_TCP)
<1> DEFINE b1 == Be16(sport)
           b2 == Be16(dport)
           b3 == Be32(seq)
           b4 == Be32(ack)
           b5 == <<80, flags>>
           b6 == Be16(window)
           z  == Zeros(2)
           y  == Zeros(4)
           a  == b1 \o b2 \o b3 \o b4 \o b5 \o b6
           l4 == build_tcp_l4(sport, dport, seq, ack, flags, window, payload)
<1>1. Bytes(b1, 2) /\ Bytes(b2, 2) /\ Bytes(b6, 2)
  BY Be16Bytes DEF Bytes
<1>2. Bytes(b3, 4) /\ Bytes(b4, 4)
  BY Be32Bytes DEF Bytes
<1>3. Bytes(b5, 2)
  <2>1. 80 \in Byte
    BY DEF Byte
  <2> QED BY <2>1, TwoBytes DEF Bytes
<1>4. z \in Seq(Byte)
  BY NullSum
<1>5. l4 = (a \o y) \o payload
  BY DEF build_tcp_l4
<1>6. y = z \o z
  BY FourZeros
<1> HIDE DEF b1, b2, b3, b4, b5, b6, z, y, l4
<1>7. Bytes(a, 16)
  <2>1. Bytes(b1 \o b2, 4)
    <3>1. Bytes(b1 \o b2, 2 + 2)
      BY <1>1, Longer
    <3> QED BY <3>1
  <2>2. Bytes((b1 \o b2) \o b3, 8)
    <3>1. Bytes((b1 \o b2) \o b3, 4 + 4)
      BY <1>2, <2>1, Longer
    <3> QED BY <3>1
  <2>3. Bytes(((b1 \o b2) \o b3) \o b4, 12)
    <3>1. Bytes(((b1 \o b2) \o b3) \o b4, 8 + 4)
      BY <1>2, <2>2, Longer
    <3> QED BY <3>1
  <2>4. Bytes((((b1 \o b2) \o b3) \o b4) \o b5, 14)
    <3>1. Bytes((((b1 \o b2) \o b3) \o b4) \o b5, 12 + 2)
      BY <1>3, <2>3, Longer
    <3> QED BY <3>1
  <2>5. Bytes(((((b1 \o b2) \o b3) \o b4) \o b5) \o b6, 14 + 2)
    BY <1>1, <2>4, Longer
  <2> QED BY <2>5
<1> HIDE DEF a
<1>8. a \in Seq(Byte) /\ Len(a) = 16
  BY <1>7 DEF Bytes
<1>9. a \o z \in Seq(Byte)
  BY <1>4, <1>8, Cat
<1>10. a \o (z \o z) = (a \o z) \o z
  BY <1>4, <1>8, CatMoves
<1>11. ((a \o z) \o z) \o payload = (a \o z) \o (z \o payload)
  BY <1>4, <1>9, CatMoves
<1>12. l4 = Blank(a, z \o payload)
  BY <1>5, <1>6, <1>10, <1>11 DEF Blank, z
<1>13. z \o payload \in Seq(Byte)
  BY <1>4, Cat
<1>14. IsL4(l4, a, z \o payload, IPPROTO_TCP)
  BY <1>8, <1>12, <1>13, Zenon DEF IsL4
<1> QED BY <1>14 DEF l4

\* build_udp_l4 leaves it zero, 6 bytes into the header.
LEMMA BlankUdp ==
  ASSUME NEW sport \in Word, NEW dport \in Word, NEW payload \in Seq(Byte),
         8 + Len(payload) \in Word
  PROVE  \E a, c : IsL4(build_udp_l4(sport, dport, payload), a, c, IPPROTO_UDP)
<1> DEFINE b1 == Be16(sport)
           b2 == Be16(dport)
           b3 == Be16(8 + Len(payload))
           z  == Zeros(2)
           a  == b1 \o b2 \o b3
           l4 == build_udp_l4(sport, dport, payload)
<1>1. Bytes(b1, 2) /\ Bytes(b2, 2) /\ Bytes(b3, 2)
  BY Be16Bytes DEF Bytes
<1>2. l4 = (a \o z) \o payload
  BY DEF build_udp_l4
<1> HIDE DEF b1, b2, b3, z, l4
<1>3. Bytes(a, 6)
  <2>1. Bytes(b1 \o b2, 4)
    <3>1. Bytes(b1 \o b2, 2 + 2)
      BY <1>1, Longer
    <3> QED BY <3>1
  <2>2. Bytes((b1 \o b2) \o b3, 4 + 2)
    BY <1>1, <2>1, Longer
  <2> QED BY <2>2
<1> HIDE DEF a
<1>4. a \in Seq(Byte) /\ Len(a) = 6
  BY <1>3 DEF Bytes
<1>5. IPPROTO_UDP # IPPROTO_TCP
  BY DEF IPPROTO_UDP, IPPROTO_TCP
<1>6. IsL4(l4, a, payload, IPPROTO_UDP)
  BY <1>2, <1>4, <1>5, Zenon DEF IsL4, Blank, z
<1> QED BY <1>6 DEF l4

\* Nothing sums up to zero.
LEMMA EmptySum == csum_accumulate(<<>>, 0) = 0
<1> DEFINE e == <<>>
<1>1. e \in Seq(Byte) /\ Half(e) = 0
  BY DEF Half
<1> HIDE DEF e
<1>2. PICK g : Sums(e, 0, g) /\ csum_accumulate(e, 0) = g[Half(e)]
  BY <1>1, SumsExist
<1>3. csum_accumulate(e, 0) = 0
  BY <1>1, <1>2 DEF Sums
<1> QED BY <1>3 DEF e

\* inject4's header is accepted.
LEMMA HeaderSums ==
  ASSUME NEW src \in Seq(Byte), NEW dst \in Seq(Byte), Len(src) = 4, Len(dst) = 4,
         NEW proto \in Byte, NEW ttl \in Byte, NEW id \in Word, NEW n \in Nat, 20 + n \in Word,
         NEW h, h = IpHeader4(src, dst, proto, ttl, id, n)
  PROVE  h \in Seq(Byte) /\ Len(h) = 20 /\ ReceiverSum(h) = 0
<1> DEFINE g == Bare4(src, dst, proto, ttl, id, n)
           c == src \o dst
           w == csum_fold(csum_accumulate(g, 0))
           e == <<>>
<1>1. PICK a : a \in Seq(Byte) /\ Len(a) = 10 /\ g = Blank(a, c)
  BY Blank4
<1>2. h = WithCheck(g, 10, w)
  BY DEF IpHeader4, Bare4
<1> HIDE DEF g
<1>3. c \in Seq(Byte) /\ Len(c) = 8
  <2>1. c \in Seq(Byte) /\ Len(c) = Len(src) + Len(dst)
    BY Cat
  <2> QED BY <2>1
<1>4. a \in Seq(Byte) /\ Len(a) % 2 = 0
  BY <1>1
<1> HIDE DEF c
<1>5. g \in Seq(Byte) /\ Len(g) = 20
  <2> DEFINE z == Zeros(2)
  <2>1. z \in Seq(Byte) /\ Len(z) = 2
    BY NullSum
  <2>2. g = (a \o z) \o c
    BY <1>1 DEF Blank
  <2> HIDE DEF z
  <2>3. z \in Seq(Byte)
    BY <2>1
  <2>4. a \o z \in Seq(Byte) /\ Len(a \o z) = Len(a) + Len(z)
    BY <1>4, <2>3, Cat
  <2>5. a \o z \in Seq(Byte)
    BY <2>4
  <2>6. (a \o z) \o c \in Seq(Byte) /\ Len((a \o z) \o c) = Len(a \o z) + Len(c)
    BY <1>3, <2>5, Cat
  <2> QED BY <1>1, <1>3, <2>1, <2>2, <2>4, <2>6
<1>6. Len(g) \in Word
  <2>1. 20 \in Word
    BY InWord, SMT
  <2> QED BY <1>5, <2>1
<1>7. e \in Seq(Byte) /\ Len(e) % 2 = 0 /\ Len(e) <= 40 /\ csum_accumulate(e, 0) = 0
  BY EmptySum
<1> HIDE DEF e, w
<1>8. IsChecked(e, g, a, 0, csum_fold(csum_accumulate(g, csum_accumulate(e, 0))))
  BY <1>1, <1>3, <1>4, <1>6, <1>7, Checked
<1>9. IsChecked(e, g, a, 0, w)
  BY <1>7, <1>8 DEF w
<1>10. L4Check(0, w) = w
  BY DEF L4Check, IPPROTO_UDP
<1>11. h \in Seq(Byte) /\ Len(h) = 20 /\ ReceiverSum(e \o h) = 0
  BY <1>1, <1>2, <1>5, <1>9, <1>10 DEF IsChecked
<1>12. e \o h = h
  BY <1>11, ConcatEmptySeq DEF e
<1> QED BY <1>11, <1>12

\* A pseudo header has an even length and at most 40 bytes.
LEMMA PseudoBytes ==
  ASSUME NEW src \in Seq(Byte), NEW dst \in Seq(Byte), Len(src) \in {4, 16},
         Len(dst) = Len(src), NEW proto \in Byte, NEW n \in Word,
         NEW x, x = PseudoHeader(src, dst, proto, n)
  PROVE  x \in Seq(Byte) /\ Len(x) % 2 = 0 /\ Len(x) <= 40
<1> DEFINE b1 == <<0, proto>>
           b2 == Be16(n)
           b3 == Be32(<<0, n>>)
           b4 == <<0, 0, 0, proto>>
<1>0. 0 \in Byte /\ 0 \in Word
  BY InWord, SMT DEF Byte
<1>1. Bytes(b1, 2)
  BY <1>0, TwoBytes DEF Bytes
<1>2. Bytes(b2, 2)
  BY Be16Bytes DEF Bytes
<1>3. Bytes(b3, 4)
  <2>1. <<0, n>> \in Word \X Word
    BY <1>0
  <2> QED BY <2>1, Be32Bytes DEF Bytes
<1>4. Bytes(b4, 4)
  BY <1>0 DEF Bytes
<1>5. Bytes(src \o dst, Len(src) + Len(dst)) /\ Len(src) \in Nat
  BY Cat DEF Bytes
<1>6. x = IF Len(src) = 4 THEN (src \o dst) \o (b1 \o b2) ELSE (src \o dst) \o (b3 \o b4)
  BY DEF PseudoHeader
<1> HIDE DEF b1, b2, b3, b4
<1>7. Bytes(b1 \o b2, 2 + 2)
  BY <1>1, <1>2, Longer
<1>8. Bytes(b3 \o b4, 4 + 4)
  BY <1>3, <1>4, Longer
<1>9. CASE Len(src) = 4
  <2>1. Bytes(src \o dst, 8) /\ Bytes(b1 \o b2, 4)
    BY <1>5, <1>7, <1>9
  <2>2. Bytes((src \o dst) \o (b1 \o b2), 8 + 4)
    BY <2>1, Longer
  <2>3. x \in Seq(Byte) /\ Len(x) = 12
    BY <1>6, <1>9, <2>2 DEF Bytes
  <2> QED BY <2>3
<1>10. CASE Len(src) = 16
  <2>1. Bytes(src \o dst, 32) /\ Bytes(b3 \o b4, 8)
    BY <1>5, <1>8, <1>10
  <2>2. Bytes((src \o dst) \o (b3 \o b4), 32 + 8)
    BY <2>1, Longer
  <2>3. Len(src) # 4
    BY <1>10
  <2>4. x \in Seq(Byte) /\ Len(x) = 40
    BY <1>6, <2>2, <2>3 DEF Bytes
  <2> QED BY <2>4
<1> QED BY <1>9, <1>10

\* inject6's header is 40 bytes.
LEMMA Bytes6 ==
  ASSUME NEW src \in Seq(Byte), NEW dst \in Seq(Byte), Len(src) = 16, Len(dst) = 16,
         NEW proto \in Byte, NEW ttl \in Byte, NEW n \in Word,
         NEW h, h = IpHeader6(src, dst, proto, ttl, n)
  PROVE  h \in Seq(Byte) /\ Len(h) = 40
<1> DEFINE b1 == Be32(<<24576, 0>>)
           b2 == Be16(n)
           b3 == <<proto, ttl>>
<1>1. Bytes(b1, 4)
  <2>1. 24576 \in Word /\ 0 \in Word
    BY InWord, SMT
  <2>2. <<24576, 0>> \in Word \X Word
    BY <2>1, SMT
  <2> QED BY <2>2, Be32Bytes, SMT DEF Bytes
<1>2. h = (((b1 \o b2) \o b3) \o src) \o dst
  BY SMT DEF IpHeader6
<1> HIDE DEF b1
<1>3. Bytes(b2, 2)
  BY Be16Bytes DEF Bytes
<1>4. Bytes(b3, 2)
  BY TwoBytes DEF Bytes
<1>5. Bytes(src, 16) /\ Bytes(dst, 16)
  BY DEF Bytes
<1> HIDE DEF b2, b3
<1>6. Bytes(b1 \o b2, 6)
  <2>1. Bytes(b1 \o b2, 4 + 2)
    BY <1>1, <1>3, Longer
  <2> QED BY <2>1
<1>7. Bytes((b1 \o b2) \o b3, 8)
  <2>1. Bytes((b1 \o b2) \o b3, 6 + 2)
    BY <1>4, <1>6, Longer
  <2> QED BY <2>1
<1>8. Bytes(((b1 \o b2) \o b3) \o src, 24)
  <2>1. Bytes(((b1 \o b2) \o b3) \o src, 8 + 16)
    BY <1>5, <1>7, Longer
  <2> QED BY <2>1
<1>9. Bytes((((b1 \o b2) \o b3) \o src) \o dst, 24 + 16)
  BY <1>5, <1>8, Longer
<1> QED BY <1>2, <1>9 DEF Bytes

\* What is read of the IP header h in a frame f.
Heads(f, h, src, dst, proto) ==
  /\ L4At(f) = Len(h) /\ Parsed(f).src = src /\ Parsed(f).dst = dst
  /\ Parsed(f).proto = proto

\* inject4's header is read back as it was written.
LEMMA Heads4 ==
  ASSUME NEW h \in Seq(Int), NEW b \in Seq(Int), NEW src \in Seq(Int), NEW dst \in Seq(Int),
         Len(src) = 4, Len(dst) = 4, NEW proto, Lies(Int, h, 12, 69, 9, proto, src, dst)
  PROVE  Heads(h \o b, h, src, dst, proto)
<1> DEFINE f == h \o b
<1>1. /\ Len(h) = 20 /\ At(h, 0) = 69 /\ At(h, 9) = proto
      /\ \A k \in 0 .. Len(src) - 1 : At(h, k + 12) = At(src, k)
      /\ \A k \in 0 .. Len(dst) - 1 : At(h, k + 16) = At(dst, k)
  <2>1. /\ Len(h) = 12 + Len(src) + Len(dst) /\ At(h, 0) = 69 /\ At(h, 9) = proto
        /\ \A k \in 0 .. Len(src) - 1 : At(h, k + 12) = At(src, k)
        /\ \A k \in 0 .. Len(dst) - 1 : At(h, k + (12 + Len(src))) = At(dst, k)
    BY DEF Lies
  <2>2. 12 + Len(src) = 16 /\ 12 + Len(src) + Len(dst) = 20
    OBVIOUS
  <2> QED BY <2>1, <2>2
<1>2. /\ f \in Seq(Int) /\ Len(f) = Len(h) + Len(b)
      /\ \A i \in 0 .. Len(h) - 1 : At(f, i) = At(h, i)
  BY CatAt
<1> HIDE DEF f
<1>3. f \in Seq(Int) /\ 20 <= Len(f) /\ \A i \in 0 .. 20 - 1 : At(f, i) = At(h, i)
  <2>1. Len(b) \in Nat
    OBVIOUS
  <2> QED BY <1>1, <1>2, <2>1
<1>4. At(f, 0) = 69 /\ At(f, 9) = proto
  BY <1>1, <1>3
<1>5. Version(f) = 4 /\ L4At(f) = 20
  <2>1. 69 \div 16 = 4 /\ 4 * (69 % 16) = 20
    OBVIOUS
  <2> QED BY <1>4, <2>1 DEF Version, Ihl, L4At
<1>6. Proto(f) = proto
  BY <1>4, <1>5 DEF Proto
<1>7. 12 + Len(src) <= 20 /\ 16 + Len(dst) <= 20 /\ f \in Seq(Int)
  BY <1>3
<1>8. Slice(f, 12, 4) = src
  <2>1. IsPiece(Int, h, f, 20, src, 12)
    BY <1>1, <1>3, <1>7, HeaderPiece
  <2> QED BY <2>1 DEF IsPiece
<1>9. Slice(f, 16, 4) = dst
  <2>1. IsPiece(Int, h, f, 20, dst, 16)
    BY <1>1, <1>3, <1>7, HeaderPiece
  <2> QED BY <2>1 DEF IsPiece
<1>10. /\ Parsed(f).proto = Proto(f)
       /\ Parsed(f).src = (IF Version(f) = 4 THEN Slice(f, 12, 4) ELSE Slice(f, 8, 16))
       /\ Parsed(f).dst = (IF Version(f) = 4 THEN Slice(f, 16, 4) ELSE Slice(f, 24, 16))
  BY DEF Parsed
<1>11. Heads(f, h, src, dst, proto)
  BY <1>1, <1>5, <1>6, <1>8, <1>9, <1>10 DEF Heads
<1> QED BY <1>11 DEF f

\* So is inject6's.
LEMMA Heads6 ==
  ASSUME NEW h \in Seq(Int), NEW b \in Seq(Int), NEW src \in Seq(Int), NEW dst \in Seq(Int),
         Len(src) = 16, Len(dst) = 16, NEW proto, Lies(Int, h, 8, 96, 6, proto, src, dst)
  PROVE  Heads(h \o b, h, src, dst, proto) /\ Version(h \o b) = 6
<1> DEFINE f == h \o b
<1>1. /\ Len(h) = 40 /\ At(h, 0) = 96 /\ At(h, 6) = proto
      /\ \A k \in 0 .. Len(src) - 1 : At(h, k + 8) = At(src, k)
      /\ \A k \in 0 .. Len(dst) - 1 : At(h, k + 24) = At(dst, k)
  <2>1. /\ Len(h) = 8 + Len(src) + Len(dst) /\ At(h, 0) = 96 /\ At(h, 6) = proto
        /\ \A k \in 0 .. Len(src) - 1 : At(h, k + 8) = At(src, k)
        /\ \A k \in 0 .. Len(dst) - 1 : At(h, k + (8 + Len(src))) = At(dst, k)
    BY DEF Lies
  <2>2. 8 + Len(src) = 24 /\ 8 + Len(src) + Len(dst) = 40
    OBVIOUS
  <2> QED BY <2>1, <2>2
<1>2. /\ f \in Seq(Int) /\ Len(f) = Len(h) + Len(b)
      /\ \A i \in 0 .. Len(h) - 1 : At(f, i) = At(h, i)
  BY CatAt
<1> HIDE DEF f
<1>3. f \in Seq(Int) /\ 40 <= Len(f) /\ \A i \in 0 .. 40 - 1 : At(f, i) = At(h, i)
  <2>1. Len(b) \in Nat
    OBVIOUS
  <2> QED BY <1>1, <1>2, <2>1
<1>4. At(f, 0) = 96 /\ At(f, 6) = proto
  BY <1>1, <1>3
<1>5. Version(f) = 6 /\ L4At(f) = 40
  <2>1. 96 \div 16 = 6
    OBVIOUS
  <2> QED BY <1>4, <2>1 DEF Version, L4At
<1>6. Proto(f) = proto
  BY <1>4, <1>5 DEF Proto
<1>7. 8 + Len(src) <= 40 /\ 24 + Len(dst) <= 40 /\ f \in Seq(Int)
  BY <1>3
<1>8. Slice(f, 8, 16) = src
  <2>1. IsPiece(Int, h, f, 40, src, 8)
    BY <1>1, <1>3, <1>7, HeaderPiece, ZenonT(30)
  <2> QED BY <2>1 DEF IsPiece
<1>9. Slice(f, 24, 16) = dst
  <2>1. IsPiece(Int, h, f, 40, dst, 24)
    BY <1>1, <1>3, <1>7, HeaderPiece
  <2> QED BY <2>1 DEF IsPiece
<1>10. /\ Parsed(f).proto = Proto(f)
       /\ Parsed(f).src = (IF Version(f) = 4 THEN Slice(f, 12, 4) ELSE Slice(f, 8, 16))
       /\ Parsed(f).dst = (IF Version(f) = 4 THEN Slice(f, 16, 4) ELSE Slice(f, 24, 16))
  BY DEF Parsed
<1>11. Heads(f, h, src, dst, proto)
  BY <1>1, <1>5, <1>6, <1>8, <1>9, <1>10 DEF Heads
<1> QED BY <1>5, <1>11 DEF f

\* A receiver accepts the frame f.
Verifies(f) ==
  LET l == L4At(f)
      q == Parsed(f)
  IN  /\ Version(f) = 4 => ReceiverSum(Slice(f, 0, l)) = 0
      /\ ReceiverSum(PseudoHeader(q.src, q.dst, q.proto, L4Len(f))
                       \o Slice(f, l, L4Len(f))) = 0
      /\ q.proto = IPPROTO_UDP => Rd16(f, l + 6) # 0

\* It does if the IP header and the L4 part, with its pseudo header, are both
\* right.
LEMMA PartsVerify ==
  ASSUME NEW h \in Seq(Byte), NEW b \in Seq(Byte), 8 <= Len(b), NEW src, NEW dst, NEW proto,
         Heads(h \o b, h, src, dst, proto),
         Version(h \o b) = 4 => ReceiverSum(h) = 0,
         ReceiverSum(PseudoHeader(src, dst, proto, Len(b)) \o b) = 0,
         proto = IPPROTO_UDP => Rd16(b, 6) # 0
  PROVE  Verifies(h \o b)
<1> DEFINE f == h \o b
           l == Len(h)
           n == Len(b)
<1>1. L4At(f) = l /\ Parsed(f).src = src /\ Parsed(f).dst = dst /\ Parsed(f).proto = proto
  BY DEF Heads
<1>2. Slice(f, 0, l) = h /\ Slice(f, l, n) = b
  BY SliceOf
<1>3. Len(f) = l + n /\ l \in Nat /\ n \in Nat
  BY Cat
<1>4. Rd16(f, l + 6) = Rd16(b, 6)
  <2>1. \A j \in l .. l + n - 2 : Rd16(f, j) = Rd16(b, j - l)
    BY CatRd16
  <2>2. l + 6 \in l .. l + n - 2 /\ (l + 6) - l = 6
    BY <1>3
  <2> QED BY <2>1, <2>2
<1> HIDE DEF f, l, n
<1>5. L4Len(f) = n
  BY <1>1, <1>3 DEF L4Len
<1>6. Version(f) = 4 => ReceiverSum(h) = 0
  BY DEF f
<1>7. ReceiverSum(PseudoHeader(src, dst, proto, n) \o b) = 0
  BY DEF n
<1>8. Verifies(f)
  BY <1>1, <1>2, <1>4, <1>5, <1>6, <1>7, Zenon DEF Verifies
<1> QED BY <1>8 DEF f

\* inject4 and inject6 assemble frames that are accepted.
LEMMA FrameSums ==
  ASSUME NEW src \in Seq(Byte), NEW dst \in Seq(Byte), Len(src) \in {4, 16},
         Len(dst) = Len(src), NEW proto \in {IPPROTO_TCP, IPPROTO_UDP}, NEW ttl \in Byte,
         NEW id \in Word, NEW l4, NEW a, NEW c, IsL4(l4, a, c, proto),
         20 + Len(l4) \in Word, Len(l4) \in Word
  PROVE  Verifies(Frame(src, dst, proto, ttl, id, l4))
<1> DEFINE n == Len(l4)
           x == PseudoHeader(src, dst, proto, n)
           o == Len(a)
           w == L4Checksum(src, dst, proto, l4)
           b == WithCheck(l4, o, L4Check(proto, w))
           h4 == IpHeader4(src, dst, proto, ttl, id, n)
           h6 == IpHeader6(src, dst, proto, ttl, n)
<1>1. a \in Seq(Byte) /\ o = (IF proto = IPPROTO_TCP THEN 16 ELSE 6) /\ c \in Seq(Byte)
      /\ l4 = Blank(a, c)
  BY DEF IsL4
<1>2. proto \in Byte /\ proto \in Int
  BY DEF IPPROTO_TCP, IPPROTO_UDP, Byte
<1>3. x \in Seq(Byte) /\ Len(x) % 2 = 0 /\ Len(x) <= 40
  BY <1>2, PseudoBytes
<1>4. IsChecked(x, l4, a, proto, csum_fold(csum_accumulate(l4, csum_accumulate(x, 0))))
  <2>1. a \in Seq(Byte) /\ c \in Seq(Byte) /\ Len(a) % 2 = 0
    <3>1. o = 16 \/ o = 6
      BY <1>1
    <3>2. o % 2 = 0
      <4> HIDE DEF o
      <4> QED BY <3>1
    <3> QED BY <1>1, <3>2
  <2> HIDE DEF x
  <2> QED BY <1>1, <1>3, <2>1, Checked
<1>5. w = csum_fold(csum_accumulate(l4, csum_accumulate(x, 0)))
  BY DEF L4Checksum
<1>6. b \in Seq(Byte) /\ Len(b) = n /\ ReceiverSum(x \o b) = 0
      /\ (proto = IPPROTO_UDP => Rd16(b, o) # 0)
  <2> HIDE DEF x, w
  <2>1. IsChecked(x, l4, a, proto, w)
    BY <1>4, <1>5
  <2> QED BY <2>1 DEF IsChecked
<1>7. Frame(src, dst, proto, ttl, id, l4) = (IF Len(src) = 4 THEN h4 ELSE h6) \o b
  <2>1. o = IF proto = IPPROTO_TCP THEN 16 ELSE 6
    BY <1>1
  <2> QED BY <2>1, Zenon DEF Frame
<1>8. n \in Nat /\ 8 <= n
  <2> DEFINE z == Zeros(2)
  <2>1. z \in Seq(Byte) /\ Len(z) = 2
    BY NullSum
  <2>2. l4 = (a \o z) \o c
    BY <1>1 DEF Blank
  <2> HIDE DEF z
  <2>3. a \in Seq(Byte) /\ z \in Seq(Byte) /\ c \in Seq(Byte)
    BY <1>1, <2>1
  <2>4. a \o z \in Seq(Byte) /\ Len(a \o z) = Len(a) + Len(z)
    BY <2>3, Cat
  <2>5. a \o z \in Seq(Byte)
    BY <2>4
  <2>6. Len((a \o z) \o c) = Len(a \o z) + Len(c)
    BY <2>3, <2>5, Cat
  <2>7. Len(c) \in Nat /\ (o = 16 \/ o = 6)
    BY <1>1
  <2> DEFINE t == Len(a \o z)
             u == Len(c)
  <2>8. n = t + u /\ t = o + 2 /\ u \in Nat
    BY <2>1, <2>2, <2>4, <2>6, <2>7
  <2> HIDE DEF n, t, u, o
  <2> QED BY <2>7, <2>8
<1>9. ReceiverSum(PseudoHeader(src, dst, proto, Len(b)) \o b) = 0
  BY <1>6
<1>10. proto = IPPROTO_UDP => Rd16(b, 6) # 0
  <2>1. IPPROTO_UDP # IPPROTO_TCP
    BY DEF IPPROTO_UDP, IPPROTO_TCP
  <2> HIDE DEF b
  <2> QED BY <1>1, <1>6, <2>1
<1>11. src \in Seq(Int) /\ dst \in Seq(Int)
  <2>1. Byte \subseteq Int
    BY DEF Byte
  <2> QED BY <2>1, SeqWider
<1>12. ttl \in Int /\ Int \subseteq Int
  BY DEF Byte
<1> HIDE DEF b
<1>13. b \in Seq(Byte) /\ 8 <= Len(b)
  BY <1>6, <1>8
<1>14. b \in Seq(Int)
  <2>1. Byte \subseteq Int
    BY DEF Byte
  <2> QED BY <1>13, <2>1, SeqWider
<1>15. CASE Len(src) = 4
  <2> DEFINE g == Bare4(src, dst, proto, ttl, id, n)
             u == csum_fold(csum_accumulate(g, 0))
  <2>0. Len(dst) = 4
    BY <1>15
  <2>1. h4 \in Seq(Byte) /\ Len(h4) = 20 /\ ReceiverSum(h4) = 0
    BY <1>2, <1>8, <1>15, <2>0, HeaderSums
  <2>2. h4 = WithCheck(g, 10, u)
    BY DEF IpHeader4, Bare4
  <2>3. Lies(Int, g, 12, 69, 9, proto, src, dst)
    BY <1>2, <1>8, <1>11, <1>12, <1>15, <2>0, Header4
  <2>4. u % 256 \in Int /\ u \div 256 \in Int
    <3>1. csum_accumulate(g, 0) \in Nat
      <4>1. PICK e : e \in Seq(Byte) /\ Len(e) = 10 /\ g = Blank(e, src \o dst)
        BY <1>2, <1>8, Blank4
      <4> DEFINE s == src \o dst
                 z == Zeros(2)
      <4>2. s \in Seq(Byte) /\ z \in Seq(Byte)
        BY Cat, NullSum
      <4>3. g = (e \o z) \o s
        BY <4>1 DEF Blank
      <4> HIDE DEF s, z, g
      <4>4. e \o z \in Seq(Byte)
        BY <4>1, <4>2, Cat
      <4>5. g \in Seq(Byte)
        BY <4>2, <4>3, <4>4, Cat
      <4> QED BY <4>5, AccAdds, SMT
    <3> HIDE DEF g
    <3>2. u \in Int
      <4> DEFINE s == csum_accumulate(g, 0)
      <4> HIDE DEF s
      <4>1. s \in Nat
        BY <3>1 DEF s
      <4>2. csum_fold(s) \in Int
        BY <4>1, SMT DEF csum_fold
      <4> QED BY <4>2 DEF s
    <3> HIDE DEF u
    <3> QED BY <3>2
  <2> HIDE DEF g, u
  <2>5. Lies(Int, h4, 12, 69, 9, proto, src, dst)
    <3>1. Lies(Int, WithCheck(g, 10, u), 12, 69, 9, proto, src, dst)
      BY <1>11, <2>3, <2>4, CheckedHeader
    <3> QED BY <2>2, <3>1
  <2> HIDE DEF h4
  <2>6. h4 \in Seq(Int) /\ h4 \in Seq(Byte)
    BY <2>1, <2>5 DEF Lies
  <2>7. Heads(h4 \o b, h4, src, dst, proto)
    BY <1>11, <1>14, <1>15, <2>0, <2>5, <2>6, Heads4
  <2>8. Verifies(h4 \o b)
    BY <1>9, <1>10, <1>13, <2>1, <2>6, <2>7, PartsVerify
  <2> QED BY <1>7, <1>15, <2>8
<1>16. CASE Len(src) = 16
  <2>0. Len(dst) = 16 /\ Len(src) # 4
    BY <1>16
  <2>1. h6 \in Seq(Byte)
    BY <1>2, <1>16, <2>0, Bytes6
  <2>2. Lies(Int, h6, 8, 96, 6, proto, src, dst)
    BY <1>2, <1>11, <1>12, <1>16, <2>0, Header6
  <2> HIDE DEF h6
  <2>3. h6 \in Seq(Int)
    BY <2>2 DEF Lies
  <2>4. Heads(h6 \o b, h6, src, dst, proto) /\ Version(h6 \o b) = 6
    BY <1>11, <1>14, <1>16, <2>0, <2>2, <2>3, Heads6
  <2>5. Verifies(h6 \o b)
    BY <1>9, <1>10, <1>13, <2>1, <2>4, PartsVerify
  <2> QED BY <1>7, <2>0, <2>5
<1> QED BY <1>15, <1>16

-----------------------------------------------------------------------------
(* Every frame sent is accepted.                                           *)

\* build_udp_l4's length.
LEMMA UdpLength ==
  ASSUME NEW sport \in Word, NEW dport \in Word, NEW payload \in Seq(Byte)
  PROVE  Len(build_udp_l4(sport, dport, payload)) = 8 + Len(payload)
<1> DEFINE n  == 8 + Len(payload)
           b1 == Be16(sport)
           b2 == Be16(dport)
           b3 == Be16(n)
           z  == Zeros(2)
<1>1. b1 \in Seq(Int) /\ Len(b1) = 2
  BY Be16At
<1>2. b2 \in Seq(Int) /\ Len(b2) = 2
  BY Be16At
<1>3. b3 \in Seq(Int) /\ Len(b3) = 2
  <2>1. n \div 256 \in Int /\ n % 256 \in Int
    OBVIOUS
  <2> HIDE DEF n
  <2> QED BY <2>1, TwoBytes DEF Be16
<1>4. z \in Seq(Int) /\ Len(z) = 2
  BY ZerosAre
<1>5. payload \in Seq(Int)
  <2>1. Byte \subseteq Int
    BY DEF Byte
  <2> QED BY <2>1, SeqWider
<1>6. build_udp_l4(sport, dport, payload) = (((b1 \o b2) \o b3) \o z) \o payload
  BY DEF build_udp_l4
<1> HIDE DEF b1, b2, b3, z
<1>7. b1 \in Seq(Int) /\ b2 \in Seq(Int) /\ b3 \in Seq(Int) /\ z \in Seq(Int)
  BY <1>1, <1>2, <1>3, <1>4
<1> DEFINE c2 == b1 \o b2
           c3 == c2 \o b3
           c4 == c3 \o z
           c5 == c4 \o payload
<1>8. c2 \in Seq(Int) /\ Len(c2) = Len(b1) + Len(b2)
  BY <1>7, CatAt
<1> HIDE DEF c2
<1>9. c3 \in Seq(Int) /\ Len(c3) = Len(c2) + Len(b3)
  BY <1>7, <1>8, CatAt
<1> HIDE DEF c3
<1>10. c4 \in Seq(Int) /\ Len(c4) = Len(c3) + Len(z)
  BY <1>7, <1>9, CatAt
<1> HIDE DEF c4
<1>11. c5 \in Seq(Int) /\ Len(c5) = Len(c4) + Len(payload)
  BY <1>5, <1>10, CatAt
<1> HIDE DEF c5
<1>12. Len(c5) = 8 + Len(payload)
  BY <1>1, <1>2, <1>3, <1>4, <1>8, <1>9, <1>10, <1>11
<1> QED BY <1>6, <1>12 DEF c2, c3, c4, c5

\* A step sends a frame that is accepted, or none.
SendsVerified(k) ==
  \/ sent' = sent
  \/ \E f : sent' = Append(sent, [kind |-> k, bytes |-> f]) /\ Verifies(f)

\* Inject is such a step: a frame it sends fits BD_MAX_FRAME.
LEMMA InjectVerifies ==
  ASSUME NEW src \in Seq(Byte), NEW dst \in Seq(Byte), Len(src) \in {4, 16},
         Len(dst) = Len(src), p.family = (IF Len(src) = 4 THEN 4 ELSE 6),
         NEW k, NEW proto \in {IPPROTO_TCP, IPPROTO_UDP}, NEW ttl \in Byte, NEW l4,
         Len(l4) \in Nat, NEW ok \in BOOLEAN, Inject(k, src, dst, proto, ttl, l4, ok),
         Len(l4) \in Word => \E a, c : IsL4(l4, a, c, proto)
  PROVE  SendsVerified(k)
<1>1. CASE ok
  <2>1. PICK id \in Ids :
          sent' = Append(sent, [kind  |-> k, bytes |-> Frame(src, dst, proto, ttl, id, l4)])
    BY <1>1 DEF Inject
  <2>2. 20 + Len(l4) \in Word /\ Len(l4) \in Word
    <3> DEFINE M == BD_MAX_FRAME
               n == Len(l4)
               h == IpHeaderLen
    <3>1. M \in Nat /\ M <= 65535
      BY MaxFrame, SMT
    <3>2. h + n <= M
      BY <1>1 DEF Inject
    <3>3. h \in Nat /\ h >= 20 /\ n \in Nat
      BY DEF IpHeaderLen
    <3> HIDE DEF M, n, h
    <3>4. 20 + n \in Nat /\ 20 + n <= 65535 /\ n <= 65535
      BY <3>1, <3>2, <3>3, SMT
    <3>5. 20 + n \in Word /\ n \in Word
      BY <3>3, <3>4, InWord, SMT
    <3> QED BY <3>5 DEF n
  <2>3. PICK a, c : IsL4(l4, a, c, proto)
    BY <2>2
  <2>4. id \in Word
    BY DissectAssumption
  <2>5. Verifies(Frame(src, dst, proto, ttl, id, l4))
    BY <2>2, <2>3, <2>4, FrameSums
  <2> QED BY <2>1, <2>5 DEF SendsVerified
<1>2. CASE ~ok
  <2>1. sent' = sent
    BY <1>2 DEF Inject
  <2> QED BY <2>1 DEF SendsVerified
<1> QED BY <1>1, <1>2, Zenon

\* The sending steps work on what was parsed, and what they sent is accepted.
SumInv ==
  /\ pc \notin {"ip", "l4", "done"} => IpOk(d) /\ L4Ok(d) /\ p = Parsed(d)
  /\ ChecksumsVerify

\* The property, frame by frame.
LEMMA VerifyAll == ChecksumsVerify <=> \A i \in DOMAIN sent : Verifies(sent[i].bytes)
BY DEF ChecksumsVerify, Verifies

\* One more frame.
LEMMA VerifyMore ==
  ASSUME SentInv, ChecksumsVerify, NEW k, SendsVerified(k) PROVE ChecksumsVerify'
<1>1. \A i \in DOMAIN sent : Verifies(sent[i].bytes)
  BY VerifyAll
<1> SUFFICES \A i \in DOMAIN sent' : Verifies(sent'[i].bytes)
  BY DEF ChecksumsVerify, Verifies
<1>2. CASE sent' = sent
  BY <1>1, <1>2
<1>3. CASE \E f : sent' = Append(sent, [kind |-> k, bytes |-> f]) /\ Verifies(f)
  <2>1. PICK f : sent' = Append(sent, [kind |-> k, bytes |-> f]) /\ Verifies(f)
    BY <1>3
  <2> DEFINE S == {sent[i] : i \in DOMAIN sent}
             r == [kind |-> k, bytes |-> f]
             T == S \cup {r}
             n == Len(sent)
  <2>2. sent \in Seq(S) /\ n \in Nat
    BY DEF SentInv
  <2>3. sent \in Seq(T) /\ r \in T /\ DOMAIN sent = 1 .. n
    <3> HIDE DEF S, r
    <3> QED BY <2>2
  <2>8. r.bytes = f
    OBVIOUS
  <2> HIDE DEF S, T, r
  <2>4. sent' = Append(sent, r) /\ Verifies(r.bytes)
    BY <2>1, <2>8 DEF r
  <2>5. /\ sent' \in Seq(T) /\ Len(sent') = n + 1 /\ sent'[n + 1] = r
        /\ \A i \in 1 .. n : sent'[i] = sent[i]
    <3>1. /\ Append(sent, r) \in Seq(T) /\ Len(Append(sent, r)) = n + 1
          /\ \A i \in 1 .. n : Append(sent, r)[i] = sent[i]
          /\ Append(sent, r)[n + 1] = r
      BY <2>3
    <3> HIDE DEF n
    <3> QED BY <2>4, <3>1, Zenon
  <2>6. DOMAIN sent' = 1 .. n + 1 /\ \A i \in 1 .. n + 1 : i \in 1 .. n \/ i = n + 1
    BY <2>2, <2>5
  <2> HIDE DEF n
  <2> QED BY <1>1, <2>3, <2>4, <2>5, <2>6
<1> QED BY <1>2, <1>3 DEF SendsVerified

\* The steps that send nothing.
LEMMA SumQuiet ==
  ASSUME IInv, DropInv, SumInv, Parsing \/ Walking \/ HttpScan \/ Cut PROVE SumInv'
<1>0. SentInv /\ MeantInv /\ ChecksumsVerify
  BY DEF DropInv, SumInv
<1>1. sent' = sent /\ d' = d
  BY DEF Parsing, Walking, ParseIp, ParseL4, Dispatch, DispatchTls, DispatchHttp, DispatchDns,
         DispatchQuic, DispatchNone, Branch, TlsFixedPart, SessionId, Ciphers, Compression,
         Skip, ExtensionsLength, Extension, ServerName, HttpScan, Cut, d
<1>2. ChecksumsVerify'
  BY <1>0, <1>1 DEF ChecksumsVerify
<1>3. CASE ParseIp
  <2>1. pc' \in {"ip", "l4", "done"}
    BY <1>3 DEF ParseIp, Goto, Leave
  <2> QED BY <1>2, <2>1 DEF SumInv
<1>4. CASE ParseL4
  <2>1. pc = "l4" /\ IpOk(d)
    BY <1>4 DEF ParseL4, IInv, WalkInv
  <2>2. CASE L4Ok(d)
    <3>1. p' = Parsed(d)
      BY <1>4, <2>2 DEF ParseL4
    <3> QED BY <1>1, <1>2, <2>1, <2>2, <3>1 DEF SumInv
  <2>3. CASE ~L4Ok(d)
    <3>1. pc' = "done"
      BY <1>4, <2>3 DEF ParseL4, Leave
    <3> QED BY <1>2, <3>1 DEF SumInv
  <2> QED BY <2>2, <2>3
<1>5. CASE Dispatch \/ Walking \/ HttpScan \/ Cut
  <2>1. p' = p /\ pc \notin {"ip", "l4", "done"}
    BY <1>5 DEF Walking, Dispatch, DispatchTls, DispatchHttp, DispatchDns,
         DispatchQuic, DispatchNone, Branch, TlsFixedPart, SessionId, Ciphers, Compression,
         Skip, ExtensionsLength, Extension, ServerName, HttpScan, Cut
  <2>2. IpOk(d) /\ L4Ok(d) /\ p = Parsed(d)
    BY <2>1 DEF SumInv
  <2> QED BY <1>1, <1>2, <2>1, <2>2 DEF SumInv
<1> QED BY <1>3, <1>4, <1>5 DEF Parsing

\* bd_send_tcp.
LEMMA SendTcpVerifies ==
  ASSUME IInv, OfTcp(d, p), p.at + p.len = Len(d), NEW k, NEW i \in Nat, NEW n \in Nat,
         i + n <= p.len, NEW seq \in Word \X Word, NEW flags \in Byte, NEW ttl \in Byte,
         NEW ok \in BOOLEAN, SendTcp(k, i, n, seq, flags, ttl, ok)
  PROVE  SendsVerified(k)
<1> DEFINE x == Slice(d, p.at + i, n)
           l4 == build_tcp_l4(p.sport, p.dport, seq, p.ack, flags, p.window, x)
<1>1. /\ d \in Seq(Byte) /\ p.at \in Nat /\ p.len \in Nat /\ Len(d) \in Nat
  BY DEF IInv, TypeOK
<1>2. /\ p.src \in Seq(Byte) /\ p.dst \in Seq(Byte) /\ Len(p.dst) = Len(p.src)
      /\ p.family = (IF Len(p.src) = 4 THEN 4 ELSE 6) /\ Len(p.src) \in {4, 16}
      /\ p.sport \in Word /\ p.dport \in Word /\ p.window \in Word /\ p.ack \in Word \X Word
  BY <1>1, PacketTypes DEF OfTcp
<1>3. p.at + i \in Nat /\ (p.at + i) + n <= Len(d)
  BY <1>1
<1>4. x \in Seq(Byte) /\ Len(x) = n
  BY <1>1, <1>3, SliceAt
<1> HIDE DEF x
<1>5. Inject(k, p.src, p.dst, IPPROTO_TCP, ttl, l4, ok)
  BY DEF SendTcp, x
<1>6. \E a, c : IsL4(l4, a, c, IPPROTO_TCP)
  BY <1>2, <1>4, BlankTcp
<1>7. Len(l4) \in Nat
  <2>1. x \in Seq(Int) /\ Int \subseteq Int /\ flags \in Int
    <3>1. Byte \subseteq Int
      BY DEF Byte
    <3> QED BY <1>4, <3>1, SeqWider
  <2>2. TcpLies(Int, l4, p.sport, p.dport, seq, p.ack, flags, p.window, x)
    BY <1>2, <2>1, TcpBuilt
  <2> HIDE DEF l4
  <2>3. l4 \in Seq(Int)
    BY <2>2 DEF TcpLies
  <2> QED BY <2>3
<1> HIDE DEF l4
<1> QED BY <1>2, <1>5, <1>6, <1>7, InjectVerifies

\* The fake, the two fragments and the answer to a query.
LEMMA SumSending ==
  ASSUME IInv, DropInv, MadeInv, SumInv, Sending PROVE SumInv'
<1>0. SentInv /\ ChecksumsVerify /\ UNCHANGED <<in, p>>
      /\ pc \in {"fake", "first", "second", "answer"}
  BY DEF DropInv, SumInv, Sending, SendFake, SendFirst, SendSecond, Answer
<1>1. d' = d /\ p' = p /\ IpOk(d) /\ L4Ok(d) /\ p = Parsed(d)
  BY <1>0 DEF SumInv, d
<1>2. d \in Seq(Byte) /\ p.len \in Nat /\ 0 \in Nat /\ p.at + p.len = Len(d)
  BY <1>0 DEF IInv, TypeOK, WalkInv
<1>3. /\ p.src \in Seq(Byte) /\ p.dst \in Seq(Byte) /\ Len(p.dst) = Len(p.src)
      /\ p.family = (IF Len(p.src) = 4 THEN 4 ELSE 6) /\ Len(p.src) \in {4, 16}
      /\ p.sport \in Word /\ p.dport \in Word /\ p.flags \in Byte
  BY <1>1, <1>2, PacketEnds
<1>4. FakeTtl \in Byte /\ BD_REAL_TTL \in Byte
  BY DissectAssumption DEF BD_REAL_TTL, Byte
<1>5. \E k : SendsVerified(k)
  <2>1. CASE SendFake \/ SendFirst \/ SendSecond
    <3>1. pc \in {"fake", "first", "second"}
      BY <2>1 DEF SendFake, SendFirst, SendSecond
    <3>2. OfTcp(d, p) /\ split \in 1 .. p.len - 1
      BY <3>1 DEF MadeInv, IInv, SplitInside
    <3>3. split \in Nat /\ p.len - split \in Nat
      BY <1>2, <3>2
    <3>4. 0 + p.len <= p.len /\ 0 + split <= p.len /\ split + (p.len - split) <= p.len
      BY <1>2, <3>2
    <3>5. p.seq \in Word \X Word
      BY <1>2, <3>2, PacketTypes DEF OfTcp
    <3>6. Add32(p.seq, split) \in Word \X Word
      BY <3>3, <3>5, Add32Type
    <3>7. FirstFlags(p.flags) \in Byte
      <4> DEFINE x == p.flags
      <4>1. x \in 0 .. 255
        BY <1>3 DEF Byte
      <4> HIDE DEF x
      <4>2. (IF (x \div 8) % 2 = 1 THEN x - 8 ELSE x) \in 0 .. 255
        BY <4>1
      <4> QED BY <4>2 DEF x, FirstFlags, Psh, Byte
    <3>8. CASE SendFake
      <4>1. PICK ok \in BOOLEAN : SendTcp("fake", 0, p.len, p.seq, p.flags, FakeTtl, ok)
        BY <3>8 DEF SendFake
      <4>2. SendsVerified("fake")
        BY <1>2, <1>3, <1>4, <3>2, <3>4, <3>5, <4>1, SendTcpVerifies
      <4> QED BY <4>2
    <3>9. CASE SendFirst
      <4> DEFINE e == FirstFlags(p.flags)
      <4>1. PICK ok \in BOOLEAN : SendTcp("first", 0, split, p.seq, e, BD_REAL_TTL, ok)
        BY <3>9 DEF SendFirst
      <4> HIDE DEF e
      <4>2. e \in Byte
        BY <3>7 DEF e
      <4>3. SendsVerified("first")
        BY <1>2, <1>4, <3>2, <3>3, <3>4, <3>5, <4>1, <4>2, SendTcpVerifies
      <4> QED BY <4>3
    <3>10. CASE SendSecond
      <4> DEFINE m == p.len - split
                 u == Add32(p.seq, split)
      <4>1. PICK ok \in BOOLEAN : SendTcp("second", split, m, u, p.flags, BD_REAL_TTL, ok)
        BY <3>10 DEF SendSecond
      <4>2. m \in Nat /\ split + m <= p.len /\ u \in Word \X Word
        BY <3>3, <3>4, <3>6
      <4> HIDE DEF m, u
      <4>3. SendsVerified("second")
        BY <1>2, <1>3, <1>4, <3>2, <3>3, <4>1, <4>2, SendTcpVerifies
      <4> QED BY <4>3
    <3> QED BY <2>1, <3>8, <3>9, <3>10
  <2>2. CASE Answer
    <3>1. CASE sent' = sent
      BY <3>1 DEF SendsVerified
    <3>2. CASE sent' # sent
      <4>1. PICK r \in Replies, ok \in BOOLEAN :
              Inject("answer", p.dst, p.src, IPPROTO_UDP, BD_REAL_TTL,
                     build_udp_l4(p.dport, p.sport, r), ok)
        BY <2>2, <3>2 DEF Answer
      <4> DEFINE l4 == build_udp_l4(p.dport, p.sport, r)
      <4>2. r \in Seq(Byte)
        BY DissectAssumption
      <4>3. Len(l4) = 8 + Len(r)
        BY <1>3, <4>2, UdpLength
      <4>4. Len(l4) \in Nat
        BY <4>2, <4>3
      <4>5. Len(l4) \in Word => \E a, c : IsL4(l4, a, c, IPPROTO_UDP)
        <5>1. SUFFICES ASSUME Len(l4) \in Word PROVE \E a, c : IsL4(l4, a, c, IPPROTO_UDP)
          OBVIOUS
        <5>2. 8 + Len(r) \in Word
          BY <4>3, <5>1
        <5> QED BY <1>3, <4>2, <5>2, BlankUdp
      <4> HIDE DEF l4
      <4>6. p.family = (IF Len(p.dst) = 4 THEN 4 ELSE 6) /\ Len(p.dst) \in {4, 16}
            /\ Len(p.src) = Len(p.dst)
        BY <1>3
      <4>7. Inject("answer", p.dst, p.src, IPPROTO_UDP, BD_REAL_TTL, l4, ok)
        BY <4>1 DEF l4
      <4>8. SendsVerified("answer")
        BY <1>3, <1>4, <4>4, <4>5, <4>6, <4>7, InjectVerifies
      <4> QED BY <4>8
    <3> QED BY <3>1, <3>2
  <2> QED BY <2>1, <2>2 DEF Sending
<1>6. ChecksumsVerify'
  BY <1>0, <1>5, VerifyMore
<1> QED BY <1>1, <1>6 DEF SumInv

\* SumInv is inductive given the invariants before it.
LEMMA SumInductive == Spec => []SumInv
<1>1. Init => SumInv
  <2> SUFFICES ASSUME Init PROVE SumInv
    OBVIOUS
  <2>1. pc = "ip" /\ DOMAIN sent = {}
    BY DEF Init
  <2> QED BY <2>1 DEF SumInv, ChecksumsVerify
<1>2. IInv /\ DropInv /\ MadeInv /\ SumInv /\ [Next]_vars => SumInv'
  <2> SUFFICES ASSUME IInv, DropInv, MadeInv, SumInv, [Next]_vars PROVE SumInv'
    OBVIOUS
  <2>1. CASE Parsing \/ Walking \/ HttpScan \/ Cut
    BY <2>1, SumQuiet
  <2>2. CASE Sending
    BY <2>2, SumSending
  <2>3. CASE UNCHANGED vars
    <3>1. pc' = pc /\ sent' = sent /\ d' = d /\ p' = p
      BY <2>3 DEF vars, d
    <3> QED BY <3>1 DEF SumInv, ChecksumsVerify
  <2> QED BY <2>1, <2>2, <2>3 DEF Next
<1> QED BY <1>1, <1>2, Inductive, DropInductive, MadeInductive, PTL DEF Spec

\* Every frame that inject4 and inject6 assemble is accepted by a receiver
\* that sums in network order, for every payload and length, odd ones
\* included, either address family and either byte order of the host, and no
\* UDP frame goes out without a checksum.
THEOREM ChecksumsCorrect == Spec => []ChecksumsVerify
BY SumInductive, PTL DEF SumInv

-----------------------------------------------------------------------------
(* The name is cut.                                                        *)

\* Where the parsers stand in a message that has a name: in a ClientHello at
\* the field that comes next, or at an extension up to the server name; in a
\* request not past the Host header.  Then the split is inside the name.
LayoutInv ==
  /\ pc \in {"ip", "l4", "port"} => pos = 0
  /\ in.to - in.from >= 2 =>
       /\ pc \in {"tls", "sid", "ciphers", "compression", "extlen", "ext", "name"}
            => NamesServer(in)
       /\ pc = "sid" => pos = 43
       /\ pc = "ciphers" => pos = CiphersAt(d)
       /\ pc = "compression" => pos = CompressionAt(d)
       /\ pc = "extlen" => pos = ExtensionsAt(d)
       /\ pc = "ext" => pos \in in.exts
       /\ pc = "name" => pos = in.from - 9
       /\ pc \in {"ext", "name"} => end >= in.to
       /\ pc = "http" => NamesHost(in) /\ pos <= in.from
       /\ pc \in {"cut", "fake"} => split \in in.from + 1 .. in.to - 1 /\ in.to <= p.len

\* What the handlers read of a packet is what anyone reads of it.
LEMMA DataSays ==
  ASSUME p = Parsed(d), NEW i
  PROVE  Data(i) = Says(d, i) /\ Data16(i) = Says16(d, i)
BY DEF Data, Data16, Says, Says16

\* And it is a number.
LEMMA SaysType ==
  ASSUME NEW b \in Seq(Byte), IpOk(b), L4Ok(b), NEW i \in Int
  PROVE  Says(b, i) \in Nat /\ Says16(b, i) \in Nat
<1> DEFINE j == Parsed(b).at + i
<1>1. j \in Int
  <2>1. Parsed(b).at \in Nat
    BY ParsedInside
  <2> QED BY <2>1
<1>2. Says(b, i) = At(b, j) /\ Says16(b, i) = Rd16(b, j)
  BY DEF Says, Says16
<1> HIDE DEF j
<1>3. At(b, j) \in 0 .. 255 /\ Rd16(b, j) \in Nat
  BY <1>1, AtType, Rd16Type
<1>4. 0 .. 255 \subseteq Nat
  OBVIOUS
<1> QED BY <1>2, <1>3, <1>4

\* The fields of a ClientHello lie one behind the other.
InOrder(x) ==
  LET b == x.bytes IN
  /\ CiphersAt(b) \in Nat /\ CompressionAt(b) \in Nat /\ ExtensionsAt(b) \in Nat
  /\ 44 <= CiphersAt(b) /\ CiphersAt(b) + 2 <= CompressionAt(b)
  /\ CompressionAt(b) + 1 <= ExtensionsAt(b) /\ ExtensionsAt(b) + 2 <= x.from - 9

\* They do.
LEMMA FieldsInOrder ==
  ASSUME NEW x \in Inputs, IpOk(x.bytes), L4Ok(x.bytes), NamesServer(x)
  PROVE  InOrder(x)
<1> DEFINE b == x.bytes
           c == CiphersAt(b)
           k == CompressionAt(b)
           e == ExtensionsAt(b)
<1>1. b \in Seq(Byte) /\ x.from \in Nat
  BY DissectAssumption
<1>2. \A i \in Int : Says(b, i) \in Nat /\ Says16(b, i) \in Nat
  BY <1>1, SaysType
<1>3. c \in Nat /\ 44 <= c
  <2>1. Says(b, 43) \in Nat
    BY <1>2
  <2> QED BY <2>1 DEF CiphersAt
<1>4. k \in Nat /\ c + 2 <= k
  <2>1. Says16(b, c) \in Nat /\ k = c + 2 + Says16(b, c)
    BY <1>2, <1>3 DEF CompressionAt
  <2> HIDE DEF c, k
  <2> QED BY <1>3, <2>1
<1>5. e \in Nat /\ k + 1 <= e
  <2>1. Says(b, k) \in Nat /\ e = k + 1 + Says(b, k)
    BY <1>2, <1>4 DEF ExtensionsAt
  <2> HIDE DEF k, e
  <2> QED BY <1>4, <2>1
<1>6. e + 2 \in e + 2 .. x.from - 9
  BY DEF NamesServer
<1>7. e + 2 <= x.from - 9
  <2> HIDE DEF e
  <2> QED BY <1>1, <1>5, <1>6
<1> QED BY <1>3, <1>4, <1>5, <1>7 DEF InOrder

\* A field that is whole in the segment is passed.
LEMMA Passed ==
  ASSUME NEW here, NEW w \in {1, 2}, NEW next, Skip(here, w, next),
         pos \in Nat, p.len \in Nat, NEW n \in Nat,
         n = (IF w = 1 THEN Data(pos) ELSE Data16(pos)), pos + w + n <= p.len
  PROVE  pos' = pos + w + n /\ pc' = next
<1>1. pos + w <= p.len /\ ~(pos + w > p.len) /\ ~(pos + w + n > p.len)
  OBVIOUS
<1>2. pos' = pos + w + n /\ Goto(next)
  BY <1>1 DEF Skip
<1> QED BY <1>2 DEF Goto

\* The walk up to the extensions.
LEMMA FieldsWalked ==
  ASSUME IInv, DropInv, SumInv, LayoutInv, TlsFixedPart \/ SessionId \/ Ciphers \/ Compression
  PROVE  LayoutInv'
<1> SUFFICES ASSUME in.to - in.from >= 2 PROVE LayoutInv'
  <2>1. in' = in /\ pc' \notin {"ip", "l4", "port"}
    BY DEF TlsFixedPart, SessionId, Ciphers, Compression, Skip, NotFound, Found, Goto
  <2> QED BY <2>1 DEF LayoutInv
<1> DEFINE c == CiphersAt(d)
           k == CompressionAt(d)
           e == ExtensionsAt(d)
<1>1. /\ in' = in /\ p' = p /\ d' = d /\ pc \in {"tls", "sid", "ciphers", "compression"}
  BY DEF TlsFixedPart, SessionId, Ciphers, Compression, Skip, d
<1>2. NamesServer(in) /\ in \in Inputs /\ IpOk(d) /\ L4Ok(d) /\ p = Parsed(d) /\ d = in.bytes
  BY <1>1 DEF LayoutInv, DropInv, MeantInv, SumInv, d
<1>3. InOrder(in)
  BY <1>2, FieldsInOrder
<1>4. /\ c \in Nat /\ k \in Nat /\ e \in Nat /\ 44 <= c /\ c + 2 <= k /\ k + 1 <= e
      /\ e + 2 <= in.from - 9
  BY <1>2, <1>3 DEF InOrder
<1>5. in.from \in Nat /\ in.to \in Nat /\ in.to <= p.len /\ p.len \in Nat
  BY <1>2, DissectAssumption DEF NamesServer, IInv, TypeOK
<1>6. d \in Seq(Byte)
  BY DEF IInv, TypeOK
<1>7. c = 44 + Says(d, 43) /\ k = c + 2 + Says16(d, c) /\ e = k + 1 + Says(d, k)
  BY DEF CiphersAt, CompressionAt, ExtensionsAt
<1> HIDE DEF c, k, e
<1>8. Says(d, 43) \in Nat /\ Says16(d, c) \in Nat /\ Says(d, k) \in Nat
  <2>1. 43 \in Int /\ c \in Int /\ k \in Int
    BY <1>4
  <2>2. \A i \in Int : Says(d, i) \in Nat /\ Says16(d, i) \in Nat
    BY <1>2, <1>6, SaysType
  <2> QED BY <2>1, <2>2
<1>9. NamesServer(in)' /\ c' = c /\ k' = k /\ e' = e
  BY <1>1, <1>2 DEF c, k, e
<1>10. CASE TlsFixedPart
  <2>1. ~(p.len < 43)
    BY <1>4, <1>5
  <2>2. pos' = 43 /\ pc' = "sid"
    BY <1>10, <2>1 DEF TlsFixedPart, Goto
  <2> QED BY <1>9, <2>2 DEF LayoutInv
<1>11. CASE SessionId
  <2>1. pos = 43 /\ Skip("sid", 1, "ciphers")
    BY <1>11 DEF SessionId, Skip, LayoutInv
  <2> DEFINE n == Says(d, 43)
  <2>2. n = (IF 1 = 1 THEN Data(pos) ELSE Data16(pos)) /\ n \in Nat
    BY <1>2, <1>8, <2>1, DataSays
  <2> HIDE DEF n
  <2>3. pos + 1 + n = c
    BY <1>7, <2>1, <2>2 DEF n
  <2>4. pos + 1 + n <= p.len
    BY <1>4, <1>5, <2>3
  <2>5. pos' = pos + 1 + n /\ pc' = "ciphers"
    BY <1>5, <2>1, <2>2, <2>4, Passed
  <2> QED BY <1>9, <2>3, <2>5 DEF LayoutInv, c
<1>12. CASE Ciphers
  <2>1. pos = c /\ Skip("ciphers", 2, "compression")
    BY <1>12 DEF Ciphers, Skip, LayoutInv, c
  <2> DEFINE n == Says16(d, c)
  <2>2. n = (IF 2 = 1 THEN Data(pos) ELSE Data16(pos)) /\ n \in Nat
    BY <1>2, <1>8, <2>1, DataSays
  <2> HIDE DEF n
  <2>3. pos + 2 + n = k
    BY <1>7, <2>1, <2>2 DEF n
  <2>4. pos + 2 + n <= p.len
    BY <1>4, <1>5, <2>3
  <2>5. pos' = pos + 2 + n /\ pc' = "compression"
    BY <1>4, <1>5, <2>1, <2>2, <2>4, Passed
  <2> QED BY <1>9, <2>3, <2>5 DEF LayoutInv, k
<1>13. CASE Compression
  <2>1. pos = k /\ Skip("compression", 1, "extlen")
    BY <1>13 DEF Compression, Skip, LayoutInv, k
  <2> DEFINE n == Says(d, k)
  <2>2. n = (IF 1 = 1 THEN Data(pos) ELSE Data16(pos)) /\ n \in Nat
    BY <1>2, <1>8, <2>1, DataSays
  <2> HIDE DEF n
  <2>3. pos + 1 + n = e
    BY <1>7, <2>1, <2>2 DEF n
  <2>4. pos + 1 + n <= p.len
    BY <1>4, <1>5, <2>3
  <2>5. pos' = pos + 1 + n /\ pc' = "extlen"
    BY <1>4, <1>5, <2>1, <2>2, <2>4, Passed
  <2> QED BY <1>9, <2>3, <2>5 DEF LayoutInv, e
<1> QED BY <1>10, <1>11, <1>12, <1>13

\* The walk through the extensions, to the server name: the clamped end lies
\* behind the name, and no extension before it is taken for it.
LEMMA ExtensionsWalked ==
  ASSUME IInv, DropInv, SumInv, LayoutInv, ExtensionsLength \/ Extension \/ ServerName
  PROVE  LayoutInv'
<1> SUFFICES ASSUME in.to - in.from >= 2 PROVE LayoutInv'
  <2>1. in' = in /\ pc' \notin {"ip", "l4", "port"}
    BY DEF ExtensionsLength, Extension, ServerName, NotFound, Found, Goto
  <2> QED BY <2>1 DEF LayoutInv
<1> DEFINE e == ExtensionsAt(d)
           sni == in.from - 9
           n == in.to - in.from
<1>1. /\ in' = in /\ p' = p /\ d' = d /\ pc \in {"extlen", "ext", "name"}
  BY DEF ExtensionsLength, Extension, ServerName, d
<1>2. NamesServer(in) /\ in \in Inputs /\ IpOk(d) /\ L4Ok(d) /\ p = Parsed(d) /\ d = in.bytes
  BY <1>1 DEF LayoutInv, DropInv, MeantInv, SumInv, d
<1>3. InOrder(in)
  BY <1>2, FieldsInOrder
<1>4. e \in Nat /\ e + 2 <= sni
  BY <1>2, <1>3 DEF InOrder
<1>5. in.from \in Nat /\ in.to \in Nat /\ p.len \in Nat /\ in.exts \subseteq Nat
      /\ pos \in Nat /\ end \in Nat /\ d \in Seq(Byte)
  BY <1>2, DissectAssumption DEF IInv, TypeOK
<1>6. /\ in.to <= p.len /\ in.to <= (e + 2) + Says16(d, (e + 2) - 2)
      /\ Says16(d, sni) = 0 /\ Says16(d, sni + 2) = 5 + n /\ Says16(d, sni + 7) = n
      /\ e + 2 \in in.exts /\ in.exts \subseteq e + 2 .. sni
      /\ \A i \in in.exts \ {sni} :
           Says16(d, i) # 0 /\ i + 4 + Says16(d, i + 2) \in in.exts
  BY <1>2 DEF NamesServer
<1>7. \A i \in Int : Says16(d, i) \in Nat
  BY <1>2, <1>5, SaysType
<1>8. \A i : Data16(i) = Says16(d, i)
  BY <1>2, DataSays
<1>9. NamesServer(in)'
  BY <1>1, <1>2
<1>10. sni \in Int /\ n \in Nat /\ 2 <= n /\ sni + 9 = in.from /\ in.from + n = in.to
  BY <1>5
<1> HIDE DEF e, sni, n
<1>11. CASE ExtensionsLength
  <2>1. pc = "extlen" /\ pos = e
    BY <1>11 DEF ExtensionsLength, LayoutInv, e
  <2>2. ~(pos + 2 > p.len)
    <3>1. in.to <= p.len
      BY <1>6
    <3> QED BY <1>4, <1>5, <1>10, <2>1, <3>1, SMTT(30)
  <2>3. end' = ExtEnd(pos + 2, Data16(pos)) /\ pos' = pos + 2 /\ pc' = "ext"
    BY <1>11, <2>2 DEF ExtensionsLength, Goto
  <2> DEFINE t == Says16(d, e)
  <2>4. (e + 2) - 2 = e
    BY <1>4
  <2>5. in.to <= (e + 2) + t /\ t \in Nat /\ Data16(pos) = t
    BY <1>4, <1>6, <1>7, <1>8, <2>1, <2>4
  <2> HIDE DEF t
  <2>6. end' >= in.to
    BY <1>4, <1>5, <1>6, <2>1, <2>3, <2>5 DEF ExtEnd
  <2>7. pos' \in in.exts
    BY <1>6, <2>1, <2>3
  <2> QED BY <1>1, <1>9, <2>3, <2>6, <2>7 DEF LayoutInv
<1>12. CASE Extension
  <2>1. pc = "ext" /\ pos \in in.exts /\ end >= in.to
    BY <1>12 DEF Extension, LayoutInv
  <2>2. pos \in Int /\ pos + 2 \in Int
    BY <1>5
  <2> DEFINE t == Says16(d, pos + 2)
  <2>3. t \in Nat /\ Data16(pos + 2) = t
    BY <1>7, <1>8, <2>2
  <2>4. pos = sni => t = 5 + n
    BY <1>6
  <2>5. pos # sni => Data16(pos) # 0 /\ pos + 4 + t \in in.exts
    BY <1>6, <1>8, <2>1
  <2>6. \A i \in in.exts : i <= sni
    BY <1>4, <1>6, <1>10
  <2> HIDE DEF t
  <2>7. pos + 4 + t <= in.to
    <3>1. CASE pos = sni
      BY <1>5, <1>10, <2>3, <2>4, <3>1
    <3>2. CASE pos # sni
      <4>1. pos + 4 + t <= sni
        BY <2>5, <2>6, <3>2
      <4> QED BY <1>5, <1>10, <2>3, <4>1
    <3> QED BY <3>1, <3>2
  <2>8. ~(pos + 4 > end) /\ ~(pos + 4 + Data16(pos + 2) > end)
    BY <1>5, <2>1, <2>3, <2>7
  <2>9. /\ IF Data16(pos) = 0 THEN Goto("name") /\ UNCHANGED pos
           ELSE Goto("ext") /\ pos' = NextExtension(pos, Data16(pos + 2))
        /\ end' = end
    BY <1>12, <2>8 DEF Extension
  <2>10. CASE Data16(pos) = 0
    <3>1. pos = sni /\ pc' = "name" /\ pos' = pos /\ end' = end
      BY <2>5, <2>9, <2>10 DEF Goto
    <3> QED BY <1>1, <1>9, <2>1, <3>1 DEF LayoutInv, sni
  <2>11. CASE Data16(pos) # 0
    <3>1. pc' = "ext" /\ pos' = pos + 4 + t /\ end' = end
      BY <2>3, <2>9, <2>11 DEF Goto, NextExtension
    <3>2. pos # sni
      BY <1>6, <1>8, <2>11
    <3>3. pos' \in in.exts
      BY <2>5, <3>1, <3>2
    <3> QED BY <1>1, <1>9, <2>1, <3>1, <3>3 DEF LayoutInv
  <2> QED BY <2>10, <2>11
<1>13. CASE ServerName
  <2>1. pc = "name" /\ pos = sni
    BY <1>13 DEF ServerName, LayoutInv, sni
  <2>2. Data16(pos + 2) = 5 + n /\ Data16(pos + 7) = n /\ pos + 9 = in.from
    BY <1>6, <1>8, <1>10, <2>1
  <2> DEFINE q == pos + 9
  <2>8. in.to <= p.len /\ q = in.from
    BY <1>6, <2>2
  <2>4. ~(Data16(pos + 2) < 5)
           => Found(IF q + Data16(pos + 7) > p.len \/ Data16(pos + 7) <= 0
                    THEN -1 ELSE NameSplit(q))
    BY <1>13 DEF ServerName
  <2> HIDE DEF q
  <2>3. ~(Data16(pos + 2) < 5) /\ ~(q + Data16(pos + 7) > p.len \/ Data16(pos + 7) <= 0)
    BY <1>5, <1>10, <2>2, <2>8
  <2>5. NameSplit(q) = in.from + 1
    BY <1>5, <1>10, <2>8 DEF NameSplit
  <2>6. split' = in.from + 1 /\ pc' = "cut"
    BY <2>3, <2>4, <2>5 DEF Found, Goto
  <2>7. split' \in in.from + 1 .. in.to - 1
    <3> DEFINE f == in.from
               t == in.to
    <3>1. f \in Nat /\ t \in Nat /\ t - f >= 2 /\ split' = f + 1
      BY <1>5, <2>6
    <3> HIDE DEF f, t
    <3>2. split' \in f + 1 .. t - 1
      BY <3>1
    <3> QED BY <3>2 DEF f, t
  <2> QED BY <1>1, <1>6, <2>6, <2>7 DEF LayoutInv
<1> QED BY <1>11, <1>12, <1>13

\* The parse, and the branch that takes the message.
LEMMA LayoutParsing ==
  ASSUME IInv, DropInv, SumInv, LayoutInv, Parsing PROVE LayoutInv'
<1>0. in' = in /\ d' = d /\ pos' = pos /\ pos = 0 /\ in \in Inputs /\ in.from \in Nat
  <2>1. in' = in /\ pos' = pos /\ pc \in {"ip", "l4", "port"}
    BY DEF Parsing, ParseIp, ParseL4, Dispatch, DispatchTls, DispatchHttp, DispatchDns,
           DispatchQuic, DispatchNone, Branch, walk
  <2>2. in \in Inputs
    BY DEF DropInv, MeantInv
  <2> QED BY <2>1, <2>2, DissectAssumption DEF LayoutInv, d
<1>1. CASE pc' \in {"ip", "l4", "port", "answer", "done"}
  BY <1>0, <1>1 DEF LayoutInv
<1>2. CASE pc' \notin {"ip", "l4", "port", "answer", "done"}
  <2>1. DispatchTls \/ DispatchHttp
    BY <1>2 DEF Parsing, ParseIp, ParseL4, Dispatch, DispatchDns, DispatchQuic, DispatchNone,
                Goto, Leave
  <2>2. pc = "port" /\ p.proto = IPPROTO_TCP
    BY <2>1 DEF DispatchTls, DispatchHttp, Branch
  <2>3. IpOk(d) /\ L4Ok(d) /\ p = Parsed(d) /\ d = in.bytes
    BY <2>2 DEF SumInv, d
  <2>4. CASE DispatchTls
    <3>1. p.dport = 443 /\ bd_tls_is_clienthello /\ pc' = "tls"
      BY <1>2, <2>4 DEF DispatchTls, Branch, Goto, Leave
    <3>2. IsHello(in.bytes)
      BY <2>2, <2>3, <3>1, TakenIs
    <3>3. in.to - in.from >= 2 => NamesServer(in)
      BY <1>0, <3>2, NameAssumption
    <3> QED BY <1>0, <3>1, <3>3 DEF LayoutInv
  <2>5. CASE DispatchHttp
    <3>1. p.dport = 80 /\ bd_http_is_request /\ pc' = "http"
      BY <1>2, <2>5 DEF DispatchHttp, Branch, Goto, Leave
    <3>2. IsRequest(in.bytes)
      BY <2>2, <2>3, <3>1, TakenIs
    <3>3. in.to - in.from >= 2 => NamesHost(in)
      BY <1>0, <3>2, NameAssumption
    <3>4. pos' <= in.from
      BY <1>0
    <3> QED BY <1>0, <3>1, <3>3, <3>4 DEF LayoutInv
  <2> QED BY <2>1, <2>4, <2>5
<1> QED BY <1>1, <1>2

\* The scan meets the header that was meant, and no other line before it.
LEMMA LayoutScan ==
  ASSUME IInv, DropInv, SumInv, LayoutInv, HttpScan PROVE LayoutInv'
<1> SUFFICES ASSUME in.to - in.from >= 2 PROVE LayoutInv'
  <2>1. in' = in /\ pc' \notin {"ip", "l4", "port"}
    BY DEF HttpScan, NotFound, Found, Goto
  <2> QED BY <2>1 DEF LayoutInv
<1> DEFINE f == in.from
           t == in.to
<1>1. in' = in /\ p' = p /\ d' = d /\ pc = "http"
  BY DEF HttpScan, d
<1>2. NamesHost(in) /\ pos <= f /\ in \in Inputs /\ p = Parsed(d) /\ d = in.bytes
  BY <1>1 DEF LayoutInv, DropInv, MeantInv, SumInv, d
<1>3. f \in Nat /\ t \in Nat /\ p.len \in Nat /\ pos \in Nat
  BY <1>2, DissectAssumption DEF IInv, TypeOK
<1>4. /\ t = f + 5 /\ t <= p.len /\ HostAt(d, f)
      /\ \A i \in 0 .. f - 1 : ~HostAt(d, i)
  BY <1>2 DEF NamesHost
<1>5. LineStart(pos) /\ MatchesNeedle(pos) <=> HostAt(d, pos)
  <2>1. \A i : Data(i) = Says(d, i)
    BY <1>2, DataSays
  <2> QED BY <2>1 DEF LineStart, MatchesNeedle, HostAt
<1> HIDE DEF f, t
<1>6. ~(pos + 5 > p.len)
  BY <1>2, <1>3, <1>4
<1>7. IF LineStart(pos) /\ MatchesNeedle(pos)
      THEN Found(IF pos + 2 < p.len THEN pos + 2 ELSE -1)
      ELSE pos' = pos + 1 /\ Goto("http")
  BY <1>6 DEF HttpScan
<1>8. CASE HostAt(d, pos)
  <2>1. pos = f
    <3>1. pos \notin 0 .. f - 1
      BY <1>4, <1>8
    <3> QED BY <1>2, <1>3, <3>1
  <2>2. pos + 2 < p.len
    BY <1>3, <1>4, <2>1
  <2>3. split' = f + 2 /\ pc' = "cut"
    BY <1>5, <1>7, <1>8, <2>1, <2>2 DEF Found, Goto
  <2>4. split' \in f + 1 .. t - 1
    BY <1>3, <1>4, <2>3
  <2> QED BY <1>1, <1>4, <2>3, <2>4 DEF LayoutInv, f, t
<1>9. CASE ~HostAt(d, pos)
  <2>1. pos' = pos + 1 /\ pc' = "http"
    BY <1>5, <1>7, <1>9 DEF Goto
  <2>2. pos # f
    BY <1>4, <1>9
  <2>3. pos' <= f
    BY <1>2, <1>3, <2>1, <2>2
  <2>4. NamesHost(in)'
    BY <1>1, <1>2
  <2> QED BY <1>1, <2>1, <2>3, <2>4 DEF LayoutInv, f
<1> QED BY <1>8, <1>9

\* The offset that a parser found is used.
LEMMA LayoutCut ==
  ASSUME IInv, DropInv, LayoutInv, Cut PROVE LayoutInv'
<1>0. in' = in /\ p' = p /\ pc = "cut" /\ pc' \in {"fake", "done"} /\ in \in Inputs
  BY DEF Cut, Leave, Goto, DropInv, MeantInv
<1> SUFFICES ASSUME in.to - in.from >= 2 PROVE LayoutInv'
  BY <1>0 DEF LayoutInv
<1> DEFINE f == in.from
           t == in.to
           n == p.len
<1>1. f \in Nat /\ t \in Nat /\ n \in Nat
  BY <1>0, DissectAssumption DEF IInv, TypeOK
<1>2. split \in f + 1 .. t - 1 /\ t <= n
  BY <1>0 DEF LayoutInv
<1>3. split' = IF split <= 0 \/ split >= n THEN Fallback(n) ELSE split
  BY DEF Cut
<1> HIDE DEF f, t, n
<1>4. ~(split <= 0 \/ split >= n)
  BY <1>1, <1>2
<1>5. split' = split
  BY <1>3, <1>4
<1> QED BY <1>0, <1>2, <1>5 DEF LayoutInv, f, t, n

\* bd_tls_split_offset and bd_http_split_offset find the name for every
\* message laid out as NameAssumption says: whatever the session id, the
\* cipher suites and the extensions before the server name, wherever the
\* segment ends behind the name, and whatever lines come before the Host
\* header and in whatever case it is written, the fragments that
\* bd_tcp_handle sends have a part of the name each.
THEOREM NameCutCorrect == Spec => []NameCut
<1>1. Init => LayoutInv
  BY DEF Init, LayoutInv
<1>2. IInv /\ DropInv /\ SumInv /\ LayoutInv /\ [Next]_vars => LayoutInv'
  <2> SUFFICES ASSUME IInv, DropInv, SumInv, LayoutInv, [Next]_vars PROVE LayoutInv'
    OBVIOUS
  <2>1. CASE Parsing
    BY <2>1, LayoutParsing
  <2>2. CASE Walking
    BY <2>2, FieldsWalked, ExtensionsWalked DEF Walking
  <2>3. CASE HttpScan
    BY <2>3, LayoutScan
  <2>4. CASE Cut
    BY <2>4, LayoutCut
  <2>5. CASE Sending
    <3>1. in' = in /\ pc' \in {"first", "second", "done"}
      BY <2>5 DEF Sending, SendFake, SendFirst, SendSecond, Answer, Goto, Leave
    <3> QED BY <3>1 DEF LayoutInv
  <2>6. CASE UNCHANGED vars
    <3>1. UNCHANGED <<in, pc, p, pos, end, split>> /\ d' = d
      BY <2>6 DEF vars, walk, d
    <3> QED BY <3>1 DEF LayoutInv
  <2> QED BY <2>1, <2>2, <2>3, <2>4, <2>5, <2>6 DEF Next
<1>3. LayoutInv => NameCut
  BY DEF LayoutInv, NameCut
<1> QED BY <1>1, <1>2, <1>3, Inductive, DropInductive, SumInductive, PTL DEF Spec

-----------------------------------------------------------------------------
(* Every walk ends.                                                        *)

\* How many places of the code may still come.
Stage(l) ==
  CASE l = "ip" -> 16 [] l = "l4" -> 15 [] l = "port" -> 14 [] l = "tls" -> 13
    [] l = "sid" -> 12 [] l = "ciphers" -> 11 [] l = "compression" -> 10
    [] l = "extlen" -> 9 [] l \in {"ext", "http"} -> 8 [] l = "name" -> 7
    [] l = "cut" -> 6 [] l = "fake" -> 5 [] l = "first" -> 4
    [] l \in {"second", "answer"} -> 3 [] OTHER -> 0

\* What the two loops have before them, and what the handlers have left to do
\* as a number: the place counts for more than the payload.
Ahead == IF pc \in {"ext", "http"} THEN Len(d) + 1 - pos ELSE 0
Left  == Stage(pc) * (Len(d) + 2) + Ahead

\* The loops stay inside the payload.
PosInv ==
  /\ pc \in {"ip", "l4", "port"} => pos = 0
  /\ pc \in {"ext", "http"} => pos <= p.len

\* A step leaves less to do.
Shrinks == Left \in Nat /\ Left' \in Nat /\ Left' < Left

\* The places in order.
LEMMA StageIs ==
  /\ \A l \in Places : Stage(l) \in Nat
  /\ Stage("ip") = 16 /\ Stage("l4") = 15 /\ Stage("port") = 14 /\ Stage("tls") = 13
  /\ Stage("sid") = 12 /\ Stage("ciphers") = 11 /\ Stage("compression") = 10
  /\ Stage("extlen") = 9 /\ Stage("ext") = 8 /\ Stage("http") = 8 /\ Stage("name") = 7
  /\ Stage("cut") = 6 /\ Stage("fake") = 5 /\ Stage("first") = 4
  /\ Stage("second") = 3 /\ Stage("answer") = 3 /\ Stage("done") = 0
BY DEF Stage, Places

\* An earlier place outweighs whatever is ahead at a later one.
LEMMA Outweighs ==
  ASSUME NEW k \in Nat, NEW s \in Nat, NEW u \in Nat, u < s, NEW r \in Nat,
         NEW v \in Nat, v < k
  PROVE  u * k + v < s * k + r
<1> DEFINE j == s - u - 1
<1>1. j \in Nat /\ s = u + 1 + j
  OBVIOUS
<1> HIDE DEF j
<1>2. s * k = u * k + k + j * k
  BY <1>1
<1>3. j * k \in Nat /\ u * k \in Nat /\ s * k \in Nat
  BY <1>1
<1> QED BY <1>2, <1>3

\* It does if the place moves on, or the loop that stays at its place moves on
\* in the payload.
LEMMA Advances ==
  ASSUME IInv, IInv', PosInv, PosInv', d' = d, p' = p \/ pc' \notin {"ext", "http"},
         \/ Stage(pc') < Stage(pc)
         \/ pc' = pc /\ pc \in {"ext", "http"} /\ pos < pos'
  PROVE  Shrinks
<1> DEFINE k == Len(d) + 2
           s == Stage(pc)
           u == Stage(pc')
           r == Ahead
           v == Ahead'
<1>1. s \in Nat /\ u \in Nat /\ Len(d) \in Nat /\ Len(d)' = Len(d)
  <2>1. pc \in Places /\ pc' \in Places /\ d \in Seq(Byte)
    BY DEF IInv, TypeOK
  <2> QED BY <2>1, StageIs
<1>2. r \in Nat /\ r < k
  <2>1. CASE pc \in {"ext", "http"}
    <3>1. pos \in Nat /\ pos <= p.len /\ p.len \in Nat /\ p.at \in Nat /\ p.at + p.len = Len(d)
      BY <2>1 DEF IInv, TypeOK, WalkInv, PosInv
    <3>2. r = Len(d) + 1 - pos
      BY <2>1 DEF Ahead
    <3> HIDE DEF r
    <3> QED BY <1>1, <3>1, <3>2
  <2>2. CASE pc \notin {"ext", "http"}
    <3>1. r = 0
      BY <2>2 DEF Ahead
    <3> QED BY <1>1, <3>1
  <2> QED BY <2>1, <2>2
<1>3. v \in Nat /\ v < k
  <2>1. CASE pc' \in {"ext", "http"}
    <3>1. pos' \in Nat /\ pos' <= p'.len /\ p'.len \in Nat /\ p'.at \in Nat
          /\ p'.at + p'.len = Len(d)'
      BY <2>1 DEF IInv, TypeOK, WalkInv, PosInv
    <3>2. v = Len(d) + 1 - pos'
      BY <1>1, <2>1 DEF Ahead
    <3> HIDE DEF v
    <3> QED BY <1>1, <3>1, <3>2, SMTT(30)
  <2>2. CASE pc' \notin {"ext", "http"}
    <3>1. v = 0
      BY <2>2 DEF Ahead
    <3> QED BY <1>1, <3>1
  <2> QED BY <2>1, <2>2
<1>4. Left = s * k + r /\ Left' = u * k + v /\ k \in Nat
  BY <1>1 DEF Left
<1>5. CASE u < s
  <2> HIDE DEF k, s, u, r, v
  <2>1. u * k + v < s * k + r
    BY <1>1, <1>2, <1>3, <1>4, <1>5, Outweighs
  <2>2. s * k \in Nat /\ u * k \in Nat
    BY <1>1, <1>4
  <2> QED BY <1>2, <1>3, <1>4, <2>1, <2>2 DEF Shrinks
<1>6. CASE pc' = pc /\ pc \in {"ext", "http"} /\ pos < pos'
  <2>1. r = Len(d) + 1 - pos /\ v = Len(d) + 1 - pos' /\ u = s
    BY <1>1, <1>6 DEF Ahead
  <2>2. pos \in Nat /\ pos' \in Nat
    BY DEF IInv, TypeOK
  <2> HIDE DEF k, s, u, r, v
  <2>3. s * k \in Nat /\ u * k = s * k
    BY <1>1, <1>4, <2>1
  <2>4. v < r
    BY <1>1, <1>6, <2>1, <2>2
  <2> DEFINE m == s * k
  <2>5. Left = m + r /\ Left' = m + v /\ m \in Nat
    BY <1>4, <2>3
  <2> HIDE DEF m
  <2> QED BY <1>2, <1>3, <2>4, <2>5 DEF Shrinks
<1> QED BY <1>5, <1>6

\* Every step does: the extension loop by its four bytes of header at least.
LEMMA StepAdvances ==
  ASSUME IInv, PosInv, Next
  PROVE  /\ PosInv' /\ d' = d /\ (p' = p \/ pc' \notin {"ext", "http"})
         /\ \/ Stage(pc') < Stage(pc)
            \/ pc' = pc /\ pc \in {"ext", "http"} /\ pos < pos'
<1>0. pos \in Nat /\ end \in Nat /\ p.len \in Nat
  BY DEF IInv, TypeOK
<1>1. CASE ParseIp \/ ParseL4
  <2>1. d' = d /\ pos' = pos /\ pos = 0 /\ (pc = "ip" \/ pc = "l4")
        /\ (pc = "ip" => pc' = "l4" \/ pc' = "done") /\ (pc = "l4" => pc' = "port" \/ pc' = "done")
    BY <1>1 DEF ParseIp, ParseL4, Goto, Leave, walk, d, PosInv
  <2> QED BY <2>1, StageIs DEF PosInv
<1>2. CASE Dispatch
  <2>1. d' = d /\ p' = p /\ pos' = pos /\ pos = 0 /\ pc = "port"
        /\ pc' \in {"tls", "http", "answer", "done"}
    BY <1>2 DEF Dispatch, DispatchTls, DispatchHttp, DispatchDns, DispatchQuic, DispatchNone,
                Branch, Goto, Leave, walk, d, PosInv
  <2>2. pos' <= p'.len
    BY <1>0, <2>1
  <2> QED BY <2>1, <2>2, StageIs DEF PosInv
<1>3. CASE TlsFixedPart \/ SessionId \/ Ciphers \/ Compression \/ ServerName
  <2>1. d' = d /\ p' = p
    BY <1>3 DEF TlsFixedPart, SessionId, Ciphers, Compression, ServerName, Skip, d
  <2>2. \/ pc = "tls" /\ pc' \in {"sid", "cut"}
        \/ pc = "sid" /\ pc' \in {"ciphers", "cut"}
        \/ pc = "ciphers" /\ pc' \in {"compression", "cut"}
        \/ pc = "compression" /\ pc' \in {"extlen", "cut"}
        \/ pc = "name" /\ pc' = "cut"
    BY <1>3 DEF TlsFixedPart, SessionId, Ciphers, Compression, ServerName, Skip, NotFound,
                Found, Goto
  <2> QED BY <2>1, <2>2, StageIs DEF PosInv
<1>4. CASE ExtensionsLength
  <2>1. d' = d /\ p' = p /\ pc = "extlen"
        /\ \/ pc' = "cut"
           \/ pc' = "ext" /\ pos' = pos + 2 /\ ~(pos + 2 > p.len)
    BY <1>4 DEF ExtensionsLength, NotFound, Found, Goto, d
  <2>2. pc' = "ext" => pos' <= p'.len
    BY <1>0, <2>1
  <2> QED BY <2>1, <2>2, StageIs DEF PosInv
<1>5. CASE Extension
  <2> DEFINE t == Data16(pos + 2)
  <2>1. d' = d /\ p' = p /\ pc = "ext" /\ end <= p.len
        /\ \/ pc' = "cut"
           \/ pc' = "name"
           \/ pc' = "ext" /\ pos' = pos + 4 + t /\ ~(pos + 4 + t > end)
    BY <1>5 DEF Extension, NotFound, Found, Goto, d, NextExtension, IInv, WalkInv
  <2>2. t \in Nat
    <3>1. pos + 2 \in Int
      BY <1>0
    <3> QED BY <3>1, DataType, Zenon
  <2> HIDE DEF t
  <2>3. pc' = "ext" => pos' <= p'.len /\ pos < pos'
    BY <1>0, <2>1, <2>2
  <2> QED BY <2>1, <2>3, StageIs DEF PosInv
<1>6. CASE HttpScan
  <2>1. d' = d /\ p' = p /\ pc = "http"
        /\ \/ pc' = "cut"
           \/ pc' = "http" /\ pos' = pos + 1 /\ ~(pos + 5 > p.len)
    BY <1>6 DEF HttpScan, NotFound, Found, Goto, d
  <2>2. pc' = "http" => pos' <= p'.len /\ pos < pos'
    BY <1>0, <2>1
  <2> QED BY <2>1, <2>2, StageIs DEF PosInv
<1>7. CASE Cut \/ Sending
  <2>1. d' = d /\ p' = p
    BY <1>7 DEF Cut, Sending, SendFake, SendFirst, SendSecond, Answer, d
  <2>2. \/ pc = "cut" /\ pc' \in {"fake", "done"}
        \/ pc = "fake" /\ pc' = "first"
        \/ pc = "first" /\ pc' = "second"
        \/ pc \in {"second", "answer"} /\ pc' = "done"
    BY <1>7 DEF Cut, Sending, SendFake, SendFirst, SendSecond, Answer, Goto, Leave
  <2> QED BY <2>1, <2>2, StageIs DEF PosInv
<1> QED BY <1>1, <1>2, <1>3, <1>4, <1>5, <1>6, <1>7 DEF Next, Parsing, Walking

\* packet_cb ends for every datagram: no step, whatever lengths the datagram
\* claims, leaves as much to do as there was, so none of its loops stands
\* still or goes round, and it takes fewer than 17 steps for each byte and two
\* more.  (Terminates, but for the assumption that the thread goes on.)
THEOREM EveryStepShrinks == Spec => [][Shrinks]_vars
<1>1. Init => PosInv
  BY DEF Init, PosInv
<1>2. IInv /\ PosInv /\ [Next]_vars => PosInv'
  <2>1. ASSUME IInv, PosInv, Next PROVE PosInv'
    BY <2>1, StepAdvances
  <2>2. ASSUME PosInv, UNCHANGED vars PROVE PosInv'
    BY <2>2 DEF PosInv, vars, walk
  <2> QED BY <2>1, <2>2
<1>3. IInv /\ IInv' /\ PosInv /\ PosInv' /\ [Next]_vars => [Shrinks]_vars
  <2>1. ASSUME IInv, IInv', PosInv, PosInv', Next PROVE Shrinks
    BY <2>1, StepAdvances, Advances
  <2> QED BY <2>1
<1> QED BY <1>1, <1>2, <1>3, Inductive, PTL DEF Spec

=============================================================================
