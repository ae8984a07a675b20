----------------------------- MODULE MCDissect ------------------------------
(***************************************************************************)
(* Dissect for TLC.  The datagrams are written the way a client writes     *)
(* them, so that the place of the name is known without parsing: complete  *)
(* messages, the same cut off at every length, and the same with single    *)
(* bytes overwritten so that length fields lie.                            *)
(***************************************************************************)
EXTENDS Dissect, SequencesExt

Src4 == <<10, 0, 0, 1>>
Dst4 == <<255, 255, 8, 8>>
Src6 == <<253>> \o Zeros(14) \o <<1>>
Dst6 == <<32, 1>> \o Zeros(13) \o <<255>>

\* Near the end of the 32-bit sequence space.
Seq0 == <<65535, 65500>>

\* The client's own datagrams; ihl and doff in 32-bit words.
Ip4(ihl, proto, l4) ==
  <<64 + ihl, 0>> \o Be16(4 * ihl + Len(l4)) \o <<0, 1, 64, 0, 64, proto, 0, 0>>
    \o Src4 \o Dst4 \o Zeros(IF ihl > 5 THEN 4 * (ihl - 5) ELSE 0) \o l4
Ip6(proto, l4) ==
  <<96, 0, 0, 0>> \o Be16(Len(l4)) \o <<proto, 64>> \o Src6 \o Dst6 \o l4
Tcp(port, doff, flags, data) ==
  Be16(40000) \o Be16(port) \o Be32(Seq0) \o Be32(<<1, 2>>) \o <<16 * doff, flags>>
    \o Be16(500) \o Zeros(4) \o Zeros(IF doff > 5 THEN 4 * (doff - 5) ELSE 0) \o data
Udp(port, data) ==
  Be16(5353) \o Be16(port) \o Be16(8 + Len(data)) \o <<0, 0>> \o data

Input(bytes, what) ==
  [bytes |-> bytes, what |-> what, from |-> 0, to |-> 0, exts |-> {}]

\* A payload of n bytes at most, carried as the case may be; what is cut off
\* before its name ends, or too short to be recognised, promises nothing.
Prefix(m, n) ==
  LET whole == n >= m.to IN
  [m EXCEPT !.bytes = SubSeq(m.bytes, 1, n),
            !.what  = IF n >= m.min THEN m.what ELSE "other",
            !.from  = IF whole THEN m.from ELSE 0, !.to = IF whole THEN m.to ELSE 0]

\* A ClientHello: session id, a sequence of extensions before the name, the
\* name, and what comes after it.
Extn(type, body) == Be16(type) \o Be16(Len(body)) \o body
Hello(sid, before, name, after) ==
  LET sni  == Be16(0) \o Be16(5 + Len(name)) \o Be16(3 + Len(name)) \o <<0>> \o Be16(Len(name))
      exts == FlattenSeq(before) \o sni \o name \o after
      body == <<3, 3>> \o Zeros(32) \o <<Len(sid)>> \o sid \o Be16(2) \o <<19, 1>>
                \o <<1, 0>> \o Be16(Len(exts)) \o exts
      all  == <<22, 3, 1>> \o Be16(4 + Len(body)) \o <<1, 0>> \o Be16(Len(body)) \o body
      end0 == Len(all) - Len(after)
      exts0 == Len(all) - Len(exts)
  IN  [bytes |-> all, what |-> "hello", min |-> 6, from |-> end0 - Len(name), to |-> end0,
       exts |-> {exts0 + Len(FlattenSeq(SubSeq(before, 1, k))) : k \in 0 .. Len(before)}]

Hellos ==
  {Hello(sid, before, name, after) :
     sid \in {<<>>, <<7>>}, before \in {<<>>, <<Extn(23, <<>>)>>, <<Extn(43, <<2>>), Extn(10, <<3, 4>>)>>},
     name \in {<<>>, <<97>>, <<97, 98>>, <<97, 46, 98>>}, after \in {<<>>, Extn(21, <<0>>)}}

\* A request: its first line, then header lines.  The Host header, if there
\* is one, is the first line that starts with it.
Crlf == <<13, 10>>
Host == <<72, 79, 115, 84, 58>>       \* "HOsT:"
Request(method, before, host, after) ==
  LET head == method \o <<47>> \o Crlf \o before IN
  [bytes |-> head \o host \o after, what |-> "request",
   min  |-> IF Len(method) < 5 THEN 5 ELSE Len(method),
   exts |-> {}, from |-> IF host = <<>> THEN 0 ELSE Len(head),
   to   |-> IF host = <<>> THEN 0 ELSE Len(head) + 5]

Requests ==
  {Request(m, before, host, after) :
     m \in {<<71, 69, 84, 32>>, <<67, 79, 78, 78, 69, 67, 84, 32>>},
     before \in {<<>>, <<88>> \o Host \o Crlf},   \* "XHOsT:" is another header
     host \in {<<>>, Host}, after \in {<<>>, <<97>> \o Crlf \o Crlf}}

Overwrite(m, i, b) == [m EXCEPT !.bytes[i] = b, !.from = 0, !.to = 0]
Lies ==
  LET m == Hello(<<>>, <<Extn(43, <<2>>)>>, <<97, 98>>, Extn(21, <<0>>)) IN
  {Prefix(Overwrite(m, i, b), n) :
     i \in 44 .. Len(m.bytes), b \in {0, 1, 3, 255}, n \in 52 .. Len(m.bytes)}

Cuts(S) == UNION {{Prefix(m, n) : n \in 0 .. Len(m.bytes)} : m \in S}

Carry4(m, port, flags) ==
  [m EXCEPT !.bytes = Ip4(5, IPPROTO_TCP, Tcp(port, 5, flags, m.bytes))]
Carry6(m, port, flags) ==
  [m EXCEPT !.bytes = Ip6(IPPROTO_TCP, Tcp(port, 6, flags, m.bytes))]

OneHello   == Hello(<<7>>, <<>>, <<97, 98>>, <<>>)
OneRequest == Request(<<71, 69, 84, 32>>, <<>>, Host, <<97>>)
TlsInputs  == {Carry4(m, 443, 24) : m \in Cuts(Hellos) \cup Lies}
                \cup {Carry6(m, 443, 16) : m \in Cuts({OneHello})}
HttpInputs == {Carry4(m, 80, 24) : m \in Cuts(Requests)}
                \cup {Carry6(m, 80, 24) : m \in Requests}

\* Flags that must keep the handler away, ports that are none of its business.
OtherTcp == {Carry4(OneHello, 443, f) : f \in {2, 17, 20}}
              \cup {Carry4([OneHello EXCEPT !.what = "other"], 80, 24),
                    Carry4([OneRequest EXCEPT !.what = "other"], 443, 24),
                    Carry4([OneRequest EXCEPT !.what = "other"], 8080, 24)}

\* QUIC: first byte, version, length.
QuicInputs ==
  {Input(Ip4(5, IPPROTO_UDP, Udp(port, SubSeq(<<b, 0, 0, 0, v, 9>>, 1, n))),
         IF b \in 192 .. 207 /\ v # 0 /\ n >= 5 /\ port = 443 THEN "initial" ELSE "other") :
     b \in {195, 208, 224, 240, 64, 128}, v \in {0, 1}, n \in {0, 4, 5, 6}, port \in {443, 444}}

DnsInputs == {Input(Ip4(5, IPPROTO_UDP, Udp(53, q)), "query") : q \in {<<>>, <<1, 2, 3>>}}
               \cup {Input(Ip6(IPPROTO_UDP, Udp(53, <<1>>)), "query")}

\* Headers that lie about their length, other protocols, other versions, all
\* of it cut off anywhere.
OddHeaders ==
  {Ip4(ihl, pr, Tcp(443, doff, 24, <<22, 3>>)) :
     ihl \in {0, 4, 5, 6, 15}, doff \in {4, 5, 6, 15}, pr \in {1, 6, 17}}
  \cup {Ip6(6, Tcp(443, doff, 24, <<22, 3>>)) : doff \in {4, 5, 15}}
  \cup {<<80>> \o Zeros(60)}

HeaderCuts == {0, 1, 19, 20, 23, 24, 27, 28, 39, 40, 41, 47, 48, 59, 60, 62}

HeaderInputs ==
  {Input(SubSeq(h, 1, IF n < Len(h) THEN n ELSE Len(h)), "other") :
     h \in OddHeaders, n \in HeaderCuts}

MCInputs ==
  TlsInputs \cup HttpInputs \cup OtherTcp \cup QuicInputs \cup DnsInputs \cup HeaderInputs

\* With the last two the UDP sum comes out as zero (over IPv4, over IPv6).
MCReplies == {<<5, 6, 7>>, <<216, 179>>, <<204, 186>>}
=============================================================================
