----------------------------- MODULE DnsProofs ------------------------------
(***************************************************************************)
(* Proofs about DNS interception, for every number of applications and     *)
(* workers, every set of resolvers, every message size and every mixture   *)
(* of failures.                                                            *)
(***************************************************************************)
EXTENDS Dns, TLAPS

\* A query in the queue, in the receive thread's hands or in a worker's job
\* is an application's.  (DnsInv also says what the types leave out: that
\* the queue holds at most one packet, which pair the GUI thread is writing
\* and that a reader of the fallback always sees something.)
QueueInv == queue = <<>> \/ \E p \in Packets : queue = <<p>> /\ p.from # Self
CurInv   == rx # "idle" => cur.from # Self
JobInv   == \A j \in Jobs : job[j].at # "none" => job[j].from # Self

DnsInv == QueueInv /\ CurInv /\ JobInv

GuiRecord == [at : {"idle", "addr", "gap", "fallback", "custom"}, pair : Addrs \X Addrs]
CurRecord == [from : Clients \cup {Self}, upstream : Addrs, fallback : Addrs]
JobRecord == [at : {"none", "ask1", "wait1", "ask2", "wait2", "inject"},
              from : Clients \cup {Self}, upstream : Addrs,
              fallback : Addrs, rlen : 0 .. DnsMax]

-----------------------------------------------------------------------------
(* Types, one part for each thread.                                        *)

CfgType ==
  /\ faults \subseteq Faults
  /\ dns_addr \in SUBSET Addrs /\ dns_fallback \in (SUBSET Addrs) \ {{}}
  /\ gui \in GuiRecord /\ switches \in 0 .. MaxSwitch

RxType == rx \in {"idle", "addr", "fallback", "spawn"} /\ cur \in CurRecord

JobType == job \in [Jobs -> JobRecord]

ServedType == served \subseteq Clients

IInv == CfgType /\ RxType /\ JobType /\ ServedType /\ DnsInv

\* The invariant implies what the runs check.
LEMMA IInvSuffices == IInv => TypeOK /\ NoSelfInterception
<1> SUFFICES ASSUME IInv PROVE TypeOK /\ NoSelfInterception
  OBVIOUS
<1>1. /\ Len(queue) <= 1
      /\ \A i \in DOMAIN queue : queue[i] \in Packets /\ queue[i].from # Self
  <2>1. CASE queue = <<>>
    BY <2>1
  <2>2. ASSUME NEW p \in Packets, queue = <<p>>, p.from # Self
        PROVE  /\ Len(queue) <= 1
               /\ \A i \in DOMAIN queue : queue[i] \in Packets /\ queue[i].from # Self
    BY <2>2
  <2> QED BY <2>1, <2>2 DEF IInv, DnsInv, QueueInv
<1>2. gui.at \in {"idle", "addr", "gap", "fallback", "custom"}
  BY DEF IInv, CfgType, GuiRecord
<1>3. TypeOK
  BY <1>1, <1>2 DEF IInv, CfgType, RxType, JobType, ServedType, TypeOK, CurRecord,
                    JobRecord
<1>4. NoSelfInterception
  BY <1>1 DEF IInv, DnsInv, JobInv, NoSelfInterception
<1> QED BY <1>3, <1>4

\* An engine whose queue is bound and whose workers do not exist yet.
LEMMA InitInv == Init => IInv
<1> SUFFICES ASSUME Init PROVE IInv
  OBVIOUS
<1>0. PICK pair \in Starts : dns_addr = {pair[1]} /\ dns_fallback = {pair[2]}
  BY DEF Init
<1>1. pair[1] \in Addrs /\ pair[2] \in Addrs /\ Empty \in Addrs
  BY DnsAssumption DEF Addrs
<1>2. faults \subseteq Faults
  BY DEF Init
<1>3. gui \in GuiRecord
  BY <1>1 DEF Init, NoWrite, GuiRecord
<1>4. CfgType
  BY <1>0, <1>1, <1>2, <1>3, DnsAssumption DEF Init, CfgType
<1>5. RxType
  BY <1>1 DEF Init, RxType, Nothing, CurRecord
<1>6. NoJob \in JobRecord
  BY <1>1, DnsAssumption DEF NoJob, JobRecord
<1>7. JobType
  BY <1>6 DEF Init, JobType
<1>8. JobInv
  BY DEF Init, JobInv, NoJob
<1> QED BY <1>4, <1>5, <1>7, <1>8 DEF Init, IInv, DnsInv, QueueInv, CurInv, ServedType

-----------------------------------------------------------------------------
(* The GUI thread and the applications.                                    *)

\* Whatever on_dns_selected and apply_custom_dns write, the fields hold
\* addresses, and nothing of a query changes.
LEMMA GuiStepInv == IInv /\ (SelectPair \/ TypeCustom \/ Writing) => IInv'
<1> SUFFICES ASSUME IInv, SelectPair \/ TypeCustom \/ Writing PROVE IInv'
  OBVIOUS
<1>1. UNCHANGED <<faults, queue, rx, cur, job, served>>
  BY DEF SelectPair, TypeCustom, Writing, AddrWritten, FallbackBegins,
         FallbackWritten, CustomWritten, rxVars
<1>2. CfgType'
  <2> USE DEF CfgType
  <2>1. /\ CfgType /\ Mixed \in Addrs /\ Empty \in Addrs /\ Servers \subseteq Addrs
    BY DEF IInv, Addrs
  <2>2. gui.pair \in Addrs \X Addrs
    BY <2>1 DEF GuiRecord
  <2>3. gui.pair[1] \in Addrs /\ gui.pair[2] \in Addrs
    BY <2>2
  <2>4. NoWrite \in GuiRecord
    BY <2>1 DEF NoWrite, GuiRecord
  <2>5. \A old \in SUBSET Addrs, new \in Addrs :
          Torn(old, new) \in SUBSET Addrs /\ Torn(old, new) # {}
    BY <2>1 DEF Torn
  <2>6. CASE SelectPair
    <3>1. PICK pair \in Selections :
            gui' = [at |-> "addr", pair |-> pair] /\ dns_addr' = Torn(dns_addr, pair[1])
      BY <2>6 DEF SelectPair
    <3>2. pair \in Addrs \X Addrs /\ pair[1] \in Addrs
      BY <2>1, DnsAssumption
    <3>3. gui' \in GuiRecord
      BY <3>1, <3>2 DEF GuiRecord
    <3>4. dns_addr' \in SUBSET Addrs
      BY <2>1, <2>5, <3>1, <3>2
    <3>5. switches' \in 0 .. MaxSwitch
      BY <2>1, <2>6, DnsAssumption DEF SelectPair
    <3> QED BY <1>1, <2>1, <2>6, <3>3, <3>4, <3>5 DEF SelectPair
  <2>7. CASE TypeCustom
    <3>1. switches' \in 0 .. MaxSwitch
      BY <2>1, <2>7, DnsAssumption DEF TypeCustom
    <3>2. dns_fallback' = dns_fallback
      BY <2>7 DEF TypeCustom
    <3>3. gui' \in GuiRecord /\ dns_addr' \in SUBSET Addrs
      <4>1. PICK t \in Customs :
              IF t \in ValidIps
              THEN LET pair == <<t, CHOOSE f \in dns_fallback : TRUE>> IN
                   /\ gui' = [at |-> "custom", pair |-> pair]
                   /\ dns_addr' = Torn(dns_addr, t) /\ chosen' = chosen \cup {pair}
              ELSE UNCHANGED <<gui, dns_addr, chosen>>
        BY <2>7 DEF TypeCustom
      <4>2. CASE t \in ValidIps
        <5> DEFINE f == CHOOSE x \in dns_fallback : TRUE
        <5>1. f \in dns_fallback
          BY <2>1
        <5>2. f \in Addrs /\ t \in Addrs
          BY <2>1, <4>2, <5>1, DnsAssumption
        <5>3. gui' = [at |-> "custom", pair |-> <<t, f>>] /\ dns_addr' = Torn(dns_addr, t)
          BY <4>1, <4>2
        <5> HIDE DEF f
        <5> QED BY <2>1, <2>5, <5>2, <5>3 DEF GuiRecord
      <4> QED BY <2>1, <4>1, <4>2
    <3> QED BY <1>1, <2>1, <3>1, <3>2, <3>3
  <2>8. CASE AddrWritten
    <3>1. gui' \in GuiRecord
      BY <2>1, <2>8 DEF AddrWritten, GuiRecord
    <3> QED BY <1>1, <2>1, <2>3, <2>8, <3>1 DEF AddrWritten
  <2>9. CASE FallbackBegins
    <3>1. gui' \in GuiRecord
      BY <2>1, <2>9 DEF FallbackBegins, GuiRecord
    <3> QED BY <1>1, <2>1, <2>3, <2>5, <2>9, <3>1 DEF FallbackBegins
  <2>10. CASE FallbackWritten
    BY <1>1, <2>1, <2>3, <2>4, <2>10 DEF FallbackWritten
  <2>11. CASE CustomWritten
    BY <1>1, <2>1, <2>3, <2>4, <2>11 DEF CustomWritten
  <2> QED BY <2>6, <2>7, <2>8, <2>9, <2>10, <2>11 DEF Writing
<1> QED BY <1>1, <1>2 DEF IInv, RxType, JobType, ServedType, DnsInv, QueueInv, CurInv,
                          JobInv

\* An application's query is its own.
LEMMA ClientInv == ASSUME IInv, NEW c \in Clients, ClientAsk(c) PROVE IInv'
<1>1. PICK n \in QuerySizes : queue' = <<[from |-> c, len |-> n]>>
  BY DEF ClientAsk
<1>2. [from |-> c, len |-> n] \in Packets /\ c # Self
  BY DnsAssumption DEF Packets
<1>3. QueueInv'
  BY <1>1, <1>2 DEF QueueInv
<1>4. UNCHANGED <<faults, dns_addr, dns_fallback, gui, switches, rx, cur, job, served>>
  BY DEF ClientAsk, cfgVars, rxVars
<1> QED BY <1>3, <1>4 DEF IInv, CfgType, RxType, JobType, ServedType, DnsInv, CurInv,
                          JobInv

-----------------------------------------------------------------------------
(* The receive thread.                                                     *)

LEMMA ReceivingInv == IInv /\ Receiving => IInv'
<1> SUFFICES ASSUME IInv, Receiving PROVE IInv'
  OBVIOUS
<1>0. UNCHANGED <<faults, dns_addr, dns_fallback, gui, switches>>
  BY DEF Receiving, Take, CallocFails, CopyAddr, CopyFallback, SpawnFails, Spawn, cfgVars
<1>1. CfgType'
  BY <1>0 DEF IInv, CfgType
<1>2. /\ RxType /\ JobType /\ ServedType /\ QueueInv /\ CurInv /\ JobInv
      /\ cur \in CurRecord /\ Empty \in Addrs
  BY DEF IInv, RxType, DnsInv, Addrs
<1>3. Nothing \in CurRecord
  BY <1>2 DEF Nothing, CurRecord
<1> USE DEF IInv, DnsInv
<1>4. CASE Take
  <2>1. queue' = <<>> /\ UNCHANGED job
    BY <1>4 DEF Take
  <2>2. PICK p \in Packets : queue = <<p>> /\ p.from # Self
    BY <1>2, <1>4 DEF Take, QueueInv
  <2>3. Head(queue) = p /\ p.from \in Clients
    BY <2>2 DEF Packets
  <2>4. CASE Accept(p.from) /\ UNCHANGED rxVars
    BY <1>1, <1>2, <2>1, <2>3, <2>4
       DEF Accept, rxVars, RxType, JobType, ServedType, QueueInv, CurInv, JobInv
  <2>5. CASE rx' = "addr" /\ cur' = [Nothing EXCEPT !.from = p.from] /\ UNCHANGED served
    <3>1. cur' \in CurRecord /\ cur'.from = p.from
      BY <1>3, <2>3, <2>5 DEF CurRecord
    <3> QED BY <1>1, <1>2, <2>1, <2>2, <2>5, <3>1
            DEF RxType, JobType, ServedType, QueueInv, CurInv, JobInv
  <2> QED BY <1>4, <2>3, <2>4, <2>5 DEF Take
<1>5. CASE CopyAddr
  <2>1. PICK v \in dns_addr : cur' = [cur EXCEPT !.upstream = v]
    BY <1>5 DEF CopyAddr
  <2>2. v \in Addrs
    BY DEF CfgType
  <2>3. cur' \in CurRecord /\ cur'.from = cur.from
    BY <1>2, <2>1, <2>2 DEF CurRecord
  <2> QED BY <1>1, <1>2, <1>5, <2>3
          DEF CopyAddr, RxType, JobType, ServedType, QueueInv, CurInv, JobInv
<1>6. CASE CopyFallback
  <2>1. PICK v \in dns_fallback : cur' = [cur EXCEPT !.fallback = v]
    BY <1>6 DEF CopyFallback
  <2>2. v \in Addrs
    BY DEF CfgType
  <2>3. cur' \in CurRecord /\ cur'.from = cur.from
    BY <1>2, <2>1, <2>2 DEF CurRecord
  <2> QED BY <1>1, <1>2, <1>6, <2>3
          DEF CopyFallback, RxType, JobType, ServedType, QueueInv, CurInv, JobInv
<1>7. CASE CallocFails \/ SpawnFails
  <2>1. served' \subseteq Clients
    <3>1. cur.from \in Clients \cup {Self}
      BY <1>2 DEF CurRecord
    <3> QED BY <1>2, <1>7, <3>1 DEF CallocFails, SpawnFails, Accept, ServedType
  <2> QED BY <1>1, <1>2, <1>3, <1>7, <2>1
          DEF CallocFails, SpawnFails, RxType, JobType, ServedType, QueueInv, CurInv, JobInv
<1>8. CASE Spawn
  <2> DEFINE j == CHOOSE i \in Jobs : job[i] = NoJob
             new == [at |-> "ask1", from |-> cur.from, upstream |-> cur.upstream,
                     fallback |-> cur.fallback, rlen |-> 0]
  <2>1. j \in Jobs
    BY <1>8 DEF Spawn
  <2>2. job' = [job EXCEPT ![j] = new] /\ rx' = "idle" /\ cur' = Nothing
    BY <1>8 DEF Spawn
  <2>3. new \in JobRecord /\ new.from # Self
    <3>1. 0 \in 0 .. DnsMax
      BY DnsAssumption
    <3>2. cur.from # Self
      BY <1>2, <1>8 DEF Spawn, CurInv
    <3> QED BY <1>2, <3>1, <3>2 DEF CurRecord, JobRecord
  <2> HIDE DEF j, new
  <2>4. JobType' /\ JobInv'
    BY <1>2, <2>1, <2>2, <2>3 DEF JobType, JobInv
  <2>5. UNCHANGED <<queue, served>>
    BY <1>8 DEF Spawn
  <2> QED BY <1>1, <1>2, <1>3, <2>2, <2>4, <2>5 DEF RxType, ServedType, QueueInv, CurInv
<1> QED BY <1>4, <1>5, <1>6, <1>7, <1>8 DEF Receiving

-----------------------------------------------------------------------------
(* The workers.                                                            *)

\* A worker that changes only its own job, to one of the same client or to
\* none, and hands over no query.
LEMMA JobStep ==
  ASSUME IInv, NEW j \in Jobs, NEW v \in JobRecord, job' = [job EXCEPT ![j] = v],
         v.at # "none" => v.from # Self,
         UNCHANGED <<cfgVars, queue, rxVars>>, served' \subseteq Clients
  PROVE  IInv'
<1>1. JobType' /\ JobInv'
  BY DEF IInv, DnsInv, JobType, JobInv
<1> QED BY <1>1 DEF IInv, CfgType, RxType, ServedType, DnsInv, QueueInv, CurInv, cfgVars,
                    rxVars

LEMMA WorkerInv == ASSUME IInv, NEW j \in Jobs, Worker(j) PROVE IInv'
<1>1. /\ job[j] \in JobRecord /\ (job[j].at # "none" => job[j].from # Self)
      /\ Empty \in Addrs /\ served \subseteq Clients
  BY DEF IInv, JobType, DnsInv, JobInv, Addrs, ServedType
<1>2. NoJob \in JobRecord /\ NoJob.at = "none"
  BY <1>1, DnsAssumption DEF NoJob, JobRecord
<1>3. ASSUME AfterFailure(j), Asks(j) \/ Waits(j),
             UNCHANGED <<cfgVars, queue, rxVars, served>>
      PROVE  IInv'
  <2>1. CASE job' = [job EXCEPT ![j] = NoJob]
    BY <1>1, <1>2, <1>3, <2>1, JobStep
  <2>2. CASE job' = [job EXCEPT ![j].at = "ask2", ![j].upstream = Empty]
    <3> DEFINE v == [job[j] EXCEPT !.at = "ask2", !.upstream = Empty]
    <3>1. job' = [job EXCEPT ![j] = v]
      BY <2>2 DEF IInv, JobType
    <3>2. /\ [job[j] EXCEPT !.at = "ask2"] \in JobRecord
          /\ [job[j] EXCEPT !.at = "ask2"].from = job[j].from
      BY <1>1 DEF JobRecord
    <3>3. v \in JobRecord /\ v.from = job[j].from
      BY <1>1, <3>2 DEF JobRecord
    <3>4. job[j].from # Self
      BY <1>1, <1>3 DEF Asks, Waits
    <3> HIDE DEF v
    <3> QED BY <1>1, <1>3, <3>1, <3>3, <3>4, JobStep
  <2> QED BY <1>3, <2>1, <2>2 DEF AfterFailure
<1>4. CASE AskFails(j)
  BY <1>3, <1>4 DEF AskFails
<1>5. CASE Ask(j)
  <2>1. Asks(j) /\ UNCHANGED <<cfgVars, rxVars, served>>
    BY <1>5 DEF Ask
  <2>2. PICK marked \in {TRUE} \cup {"mark" \notin faults} :
          IF MayAsk(marked)
          THEN /\ Goto(j, IF job[j].at = "ask1" THEN "wait1" ELSE "wait2")
               /\ Leaves(marked)
          ELSE AfterFailure(j) /\ UNCHANGED queue
    BY <1>5 DEF Ask
  <2>3. CASE marked
    <3>1. UNCHANGED queue
      BY <2>2, <2>3 DEF MayAsk, Leaves
    <3>2. PICK at \in {"wait1", "wait2"} : Goto(j, at)
      BY <2>2, <2>3 DEF MayAsk
    <3> DEFINE v == [job[j] EXCEPT !.at = at]
    <3>3. job' = [job EXCEPT ![j] = v]
      BY <3>2 DEF Goto, IInv, JobType
    <3>4. v \in JobRecord /\ v.from = job[j].from
      BY <1>1 DEF JobRecord
    <3>5. job[j].from # Self
      BY <1>1, <2>1 DEF Asks
    <3> HIDE DEF v
    <3> QED BY <1>1, <2>1, <3>1, <3>3, <3>4, <3>5, JobStep
  <2>4. CASE ~marked
    BY <1>3, <2>1, <2>2, <2>4 DEF MayAsk
  <2> QED BY <2>3, <2>4
<1>6. CASE Reply(j)
  <2>1. PICK n \in ReplySizes : job' = [job EXCEPT ![j] = [NoJob EXCEPT
          !.at = "inject", !.from = job[j].from,
          !.rlen = IF n > DnsMax THEN DnsMax ELSE n]]
    BY <1>6 DEF Reply
  <2> DEFINE r == IF n > DnsMax THEN DnsMax ELSE n
             v == [NoJob EXCEPT !.at = "inject", !.from = job[j].from, !.rlen = r]
  <2>2. r \in 0 .. DnsMax
    BY DnsAssumption
  <2> HIDE DEF r
  <2>3. [NoJob EXCEPT !.at = "inject", !.from = job[j].from] \in JobRecord
    <3>1. [NoJob EXCEPT !.at = "inject"] \in JobRecord /\ job[j].from \in Clients \cup {Self}
      BY <1>1, <1>2 DEF JobRecord
    <3> QED BY <3>1 DEF JobRecord
  <2>4. v \in JobRecord /\ v.from = job[j].from
    <3>1. [NoJob EXCEPT !.at = "inject", !.from = job[j].from].from = job[j].from
      BY <1>2 DEF JobRecord
    <3> QED BY <2>2, <2>3, <3>1 DEF JobRecord
  <2>5. job[j].from # Self
    BY <1>1, <1>6 DEF Reply, Waits
  <2>6. job' = [job EXCEPT ![j] = v]
    BY <2>1 DEF r
  <2> HIDE DEF v
  <2> QED BY <1>1, <1>6, <2>4, <2>5, <2>6, JobStep DEF Reply
<1>7. CASE TimesOut(j)
  BY <1>3, <1>7 DEF TimesOut
<1>8. CASE Inject(j) \/ InjectFails(j)
  <2>1. job' = [job EXCEPT ![j] = NoJob] /\ UNCHANGED <<cfgVars, queue, rxVars>>
    BY <1>8 DEF Inject, InjectFails
  <2>2. served' \subseteq Clients
    <3>1. job[j].from \in Clients \cup {Self}
      BY <1>1 DEF JobRecord
    <3> QED BY <1>1, <1>8, <3>1 DEF Inject, InjectFails
  <2> QED BY <1>2, <2>1, <2>2, JobStep
<1> QED BY <1>4, <1>5, <1>6, <1>7, <1>8 DEF Worker

-----------------------------------------------------------------------------
LEMMA NextInv == IInv /\ [Next]_vars => IInv'
<1> SUFFICES ASSUME IInv, [Next]_vars PROVE IInv'
  OBVIOUS
<1>1. CASE UNCHANGED vars
  BY <1>1 DEF vars, cfgVars, rxVars, IInv, CfgType, RxType, JobType, ServedType, DnsInv,
              QueueInv, CurInv, JobInv
<1> QED BY <1>1, GuiStepInv, ClientInv, ReceivingInv, WorkerInv DEF Next

LEMMA Inductive == Spec => []IInv
BY InitInv, NextInv, PTL DEF Spec

\* Every variable keeps its type, for every pair of resolvers, however the
\* GUI thread's writing is torn.
THEOREM TypeCorrect == Spec => []TypeOK
BY Inductive, IInvSuffices, PTL

\* Whatever fails on the machine, SO_MARK included: no query of ours comes
\* back through the queue, and every worker serves an application.
THEOREM NoSelfInterceptionCorrect == Spec => []NoSelfInterception
BY Inductive, IInvSuffices, PTL

=============================================================================
