-------------------------------- MODULE Dns ---------------------------------
(***************************************************************************)
(* DNS interception: the receive thread copies a query and the two server  *)
(* addresses into a job (bd_dns_handle), a detached worker asks the        *)
(* primary and then the fallback and injects the answer (dns_worker), the  *)
(* application repeats its query until something comes back, and the GUI   *)
(* thread rewrites the two addresses while all this runs.                  *)
(*                                                                         *)
(* The addresses are C strings without a lock.  A field is therefore the   *)
(* set of values a reader can see in it: one value, or, while snprintf is  *)
(* writing, the old one, the new one or a mixture of both.                 *)
(***************************************************************************)
EXTENDS Integers, Sequences, FiniteSets

CONSTANTS
  Clients,       \* sockets of applications, each waiting for one answer
  Self,          \* origin of a query a worker sent without our mark
  Jobs,          \* bound: workers at one time (the code has none)
  Servers,       \* upstream resolvers
  Mixed,         \* an address made of parts of two others
  Empty,         \* the empty string
  Junk,          \* a string that is no address: --dns-addr takes any
  Starts,        \* the pairs <<primary, fallback>> it may be started with
  Selections,    \* the pairs on_dns_selected writes
  Customs,       \* the addresses a user types (valid or not)
  ValidIps,      \* those is_valid_ip accepts
  Alive,         \* resolvers that answer
  DnsMax,        \* BD_DNS_MAX
  FrameMax,      \* BD_MAX_FRAME
  Headers,       \* IP and UDP headers of an injected answer
  QuerySizes, ReplySizes,
  MaxSwitch,     \* bound: how often the user changes the resolver
  Faults         \* what may go wrong on the machine: "mark": SO_MARK is
                 \* refused; "job": calloc or pthread_create fail; "send":
                 \* socket or sendto fail

ASSUME DnsAssumption ==
  /\ DnsMax \in Nat /\ FrameMax \in Nat /\ Headers \in Nat
  /\ QuerySizes \subseteq Nat /\ ReplySizes \subseteq Nat \ {0}
  /\ Alive \subseteq Servers /\ ValidIps \subseteq Servers
  /\ Faults \subseteq {"mark", "job", "send"} /\ MaxSwitch \in Nat
  /\ Self \notin Clients /\ Servers \cap {Mixed, Empty, Junk} = {}
  /\ Mixed \notin {Empty, Junk}
  /\ Starts \subseteq (Servers \cup {Empty, Junk}) \X (Servers \cup {Empty, Junk})
  /\ Selections \subseteq Servers \X Servers

VARIABLES
  faults,                  \* what goes wrong, now and then, on this machine
  dns_addr, dns_fallback,  \* cfg: what a reader may see in each field
  gui,                     \* the writing in progress
  switches,                \* how often the user has changed the resolver
  chosen,                  \* ghost: the pairs the user has ever set up
  queue,                   \* UDP/53 packets in the netfilter queue
  rx,                      \* the receive thread's place in bd_dns_handle
  cur,                     \* its packet and what it has copied so far
  job,                     \* the workers
  served                   \* clients whose query was answered or let through

cfgVars == <<faults, dns_addr, dns_fallback, gui, switches, chosen>>
rxVars  == <<rx, cur>>
vars    == <<cfgVars, queue, rxVars, job, served>>

Addrs   == Servers \cup {Mixed, Empty, Junk}
Packets == [from : Clients \cup {Self}, len : QuerySizes]
NoWrite == [at |-> "idle", pair |-> <<Empty, Empty>>]
Nothing == [from |-> Self, upstream |-> Empty, fallback |-> Empty]
NoJob   == [at |-> "none", from |-> Self, upstream |-> Empty,
            fallback |-> Empty, rlen |-> 0]

TypeOK ==
  /\ faults \subseteq Faults
  /\ dns_addr \in SUBSET Addrs /\ dns_fallback \in SUBSET Addrs
  /\ gui.at \in {"idle", "addr", "gap", "fallback", "custom"}
  /\ switches \in 0 .. MaxSwitch
  /\ Len(queue) <= 1 /\ \A i \in DOMAIN queue : queue[i] \in Packets
  /\ rx \in {"idle", "addr", "fallback", "spawn"}
  /\ cur \in [from : Clients \cup {Self}, upstream : Addrs, fallback : Addrs]
  /\ job \in [Jobs -> [at : {"none", "ask1", "wait1", "ask2", "wait2", "inject"},
                       from : Clients \cup {Self}, upstream : Addrs,
                       fallback : Addrs, rlen : 0 .. DnsMax]]
  /\ served \subseteq Clients

Init ==
  /\ faults \in {{"job"} \cap Faults, Faults}  \* no fault has to happen
  /\ \E pair \in Starts :
       dns_addr = {pair[1]} /\ dns_fallback = {pair[2]} /\ chosen = {pair}
  /\ gui = NoWrite /\ switches = 0
  /\ queue = <<>> /\ rx = "idle" /\ cur = Nothing
  /\ job = [j \in Jobs |-> NoJob] /\ served = {}

-----------------------------------------------------------------------------
(* The GUI thread: on_dns_selected and apply_custom_dns.                   *)

Torn(old, new) == old \cup {new, Mixed}

\* Cloudflare or Google: the primary is written first.
SelectPair ==
  /\ gui.at = "idle" /\ switches < MaxSwitch
  /\ \E pair \in Selections :
       /\ gui' = [at |-> "addr", pair |-> pair]
       /\ dns_addr' = Torn(dns_addr, pair[1])
       /\ chosen' = chosen \cup {pair}
  /\ switches' = switches + 1
  /\ UNCHANGED <<faults, dns_fallback, queue, rxVars, job, served>>

AddrWritten ==
  /\ gui.at = "addr"
  /\ dns_addr' = {gui.pair[1]} /\ gui' = [gui EXCEPT !.at = "gap"]
  /\ UNCHANGED <<faults, dns_fallback, switches, chosen, queue, rxVars, job, served>>

FallbackBegins ==
  /\ gui.at = "gap"
  /\ dns_fallback' = Torn(dns_fallback, gui.pair[2])
  /\ gui' = [gui EXCEPT !.at = "fallback"]
  /\ UNCHANGED <<faults, dns_addr, switches, chosen, queue, rxVars, job, served>>

FallbackWritten ==
  /\ gui.at = "fallback"
  /\ dns_fallback' = {gui.pair[2]} /\ gui' = NoWrite
  /\ UNCHANGED <<faults, dns_addr, switches, chosen, queue, rxVars, job, served>>

\* A custom server replaces the primary only; an invalid one is not stored.
TypeCustom ==
  /\ gui.at = "idle" /\ switches < MaxSwitch
  /\ switches' = switches + 1
  /\ \E t \in Customs :
       IF t \in ValidIps
       THEN LET pair == <<t, CHOOSE f \in dns_fallback : TRUE>> IN
            /\ gui' = [at |-> "custom", pair |-> pair]
            /\ dns_addr' = Torn(dns_addr, t) /\ chosen' = chosen \cup {pair}
       ELSE UNCHANGED <<gui, dns_addr, chosen>>
  /\ UNCHANGED <<faults, dns_fallback, queue, rxVars, job, served>>

CustomWritten ==
  /\ gui.at = "custom"
  /\ dns_addr' = {gui.pair[1]} /\ gui' = NoWrite
  /\ UNCHANGED <<faults, dns_fallback, switches, chosen, queue, rxVars, job, served>>

Writing == AddrWritten \/ FallbackBegins \/ FallbackWritten \/ CustomWritten

-----------------------------------------------------------------------------
(* Applications (external): ask, and ask again until something comes back. *)

ClientAsk(c) ==
  /\ c \notin served /\ queue = <<>>
  /\ \E n \in QuerySizes : queue' = <<[from |-> c, len |-> n]>>
  /\ UNCHANGED <<cfgVars, rxVars, job, served>>

-----------------------------------------------------------------------------
(* The receive thread: packet_cb and bd_dns_handle.                        *)

\* NF_ACCEPT; NF_DROP leaves `served' as it is.
Accept(from) == served' = served \cup ({from} \ {Self})

\* enable_dns is off, the length is out of range, or an IPv6 query without an
\* IPv6 socket: the query goes on to where it was sent.
Take ==
  /\ rx = "idle" /\ queue # <<>> /\ queue' = <<>>
  /\ LET p == Head(queue) IN
     \/ Accept(p.from) /\ UNCHANGED rxVars
     \/ /\ p.len \in 1 .. DnsMax
        /\ rx' = "addr" /\ cur' = [Nothing EXCEPT !.from = p.from]
        /\ UNCHANGED served
  /\ UNCHANGED <<cfgVars, job>>

\* No memory for the job.
CallocFails ==
  /\ rx = "addr" /\ "job" \in faults
  /\ Accept(cur.from) /\ rx' = "idle" /\ cur' = Nothing
  /\ UNCHANGED <<cfgVars, queue, job>>

CopyAddr ==
  /\ rx = "addr" /\ rx' = "fallback"
  /\ \E v \in dns_addr : cur' = [cur EXCEPT !.upstream = v]
  /\ UNCHANGED <<cfgVars, queue, job, served>>

CopyFallback ==
  /\ rx = "fallback" /\ rx' = "spawn"
  /\ \E v \in dns_fallback : cur' = [cur EXCEPT !.fallback = v]
  /\ UNCHANGED <<cfgVars, queue, job, served>>

\* mutant of SpawnFails: the query is dropped although no worker exists
SpawnFailsDrops ==
  /\ rx = "spawn" /\ "job" \in faults
  /\ rx' = "idle" /\ cur' = Nothing
  /\ UNCHANGED <<cfgVars, queue, job, served>>

SpawnFails ==
  /\ rx = "spawn" /\ "job" \in faults
  /\ Accept(cur.from) /\ rx' = "idle" /\ cur' = Nothing
  /\ UNCHANGED <<cfgVars, queue, job>>

Spawn ==
  /\ rx = "spawn" /\ \E j \in Jobs : job[j] = NoJob
  /\ LET j == CHOOSE j \in Jobs : job[j] = NoJob   \* slots are only names
     IN  job' = [job EXCEPT ![j] =
           [at |-> "ask1", from |-> cur.from, upstream |-> cur.upstream,
            fallback |-> cur.fallback, rlen |-> 0]]
  /\ rx' = "idle" /\ cur' = Nothing
  /\ UNCHANGED <<cfgVars, queue, served>>

Receiving == Take \/ CallocFails \/ CopyAddr \/ CopyFallback \/ SpawnFails \/ Spawn

-----------------------------------------------------------------------------
(* dns_worker.                                                             *)

Asks(j)   == job[j].at \in {"ask1", "ask2"}
Waits(j)  == job[j].at \in {"wait1", "wait2"}
Server(j) == IF job[j].at \in {"ask1", "wait1"}
             THEN job[j].upstream ELSE job[j].fallback

Goto(j, at) == job' = [job EXCEPT ![j].at = at]

\* mutant of AfterFailure: the fallback is never tried
AfterFailureGivesUp(j) == job' = [job EXCEPT ![j] = NoJob]

\* rlen < 0: on to the fallback if there is one, else give up.  (Here and
\* in Reply the job forgets the addresses that are not read again.)
AfterFailure(j) ==
  IF job[j].at \in {"ask1", "wait1"} /\ job[j].fallback # Empty
  THEN job' = [job EXCEPT ![j].at = "ask2", ![j].upstream = Empty]
  ELSE job' = [job EXCEPT ![j] = NoJob]

\* An address that does not parse, no socket, or a failing sendto.
AskFails(j) ==
  /\ Asks(j) /\ ("send" \in faults \/ Server(j) \notin Servers)
  /\ AfterFailure(j)
  /\ UNCHANGED <<cfgVars, queue, rxVars, served>>

\* mutant of MayAsk: a failing SO_MARK is only reported
MayAskAnyway(marked) == TRUE

\* The socket must carry our mark.
MayAsk(marked) == marked

\* The mark rule accepts a marked query; any other is queued like the
\* applications' own (the queue of the model holds one packet).
Leaves(marked) ==
  IF marked \/ queue # <<>>
  THEN UNCHANGED queue
  ELSE \E n \in QuerySizes : queue' = <<[from |-> Self, len |-> n]>>

Ask(j) ==
  /\ Asks(j) /\ Server(j) \notin {Empty, Junk}
  /\ \E marked \in {TRUE} \cup {"mark" \notin faults} :
       IF MayAsk(marked)
       THEN /\ Goto(j, IF job[j].at = "ask1" THEN "wait1" ELSE "wait2")
            /\ Leaves(marked)
       ELSE AfterFailure(j) /\ UNCHANGED queue
  /\ UNCHANGED <<cfgVars, rxVars, served>>

\* mutant of Reply: the length of the datagram, not of what was stored
ReplyUncut(j) ==
  /\ Waits(j) /\ Server(j) \in Alive
  /\ \E n \in ReplySizes :
       job' = [job EXCEPT ![j] = [NoJob EXCEPT
         !.at = "inject", !.from = job[j].from, !.rlen = n]]
  /\ UNCHANGED <<cfgVars, queue, rxVars, served>>

\* An answer in time; what does not fit in the buffer is cut off.
Reply(j) ==
  /\ Waits(j) /\ Server(j) \in Alive
  /\ \E n \in ReplySizes :
       job' = [job EXCEPT ![j] = [NoJob EXCEPT
         !.at = "inject", !.from = job[j].from,
         !.rlen = IF n > DnsMax THEN DnsMax ELSE n]]
  /\ UNCHANGED <<cfgVars, queue, rxVars, served>>

\* mutant of TimesOut: select without a timeout only ends with an answer
TimesOutNever(j) ==
  /\ Waits(j) /\ Server(j) \in Alive
  /\ AfterFailure(j)
  /\ UNCHANGED <<cfgVars, queue, rxVars, served>>

\* 900 ms without one, or recv fails.
TimesOut(j) ==
  /\ Waits(j)
  /\ AfterFailure(j)
  /\ UNCHANGED <<cfgVars, queue, rxVars, served>>

\* bd_send_udp, which refuses a frame longer than BD_MAX_FRAME.
Fits(j) == Headers + job[j].rlen <= FrameMax

Inject(j) ==
  /\ job[j].at = "inject" /\ Fits(j)
  /\ served' = served \cup ({job[j].from} \ {Self})
  /\ job' = [job EXCEPT ![j] = NoJob]
  /\ UNCHANGED <<cfgVars, queue, rxVars>>

InjectFails(j) ==
  /\ job[j].at = "inject" /\ (~Fits(j) \/ "send" \in faults)
  /\ job' = [job EXCEPT ![j] = NoJob]
  /\ UNCHANGED <<cfgVars, queue, rxVars, served>>

Worker(j) ==
  \/ AskFails(j) \/ Ask(j) \/ Reply(j) \/ TimesOut(j)
  \/ Inject(j) \/ InjectFails(j)

-----------------------------------------------------------------------------
Next ==
  \/ SelectPair \/ TypeCustom \/ Writing
  \/ \E c \in Clients : ClientAsk(c)
  \/ Receiving
  \/ \E j \in Jobs : Worker(j)

Spec == Init /\ [][Next]_vars

\* Every thread goes on, an application repeats its query, and of the
\* answers of a resolver that is alive not every one is late or too long.
Fairness ==
  /\ WF_vars(Writing) /\ WF_vars(Receiving)
  /\ \A c \in Clients : SF_vars(ClientAsk(c))
  /\ \A j \in Jobs : WF_vars(Worker(j)) /\ SF_vars(Reply(j) /\ Fits(j)')

FairSpec == Spec /\ Fairness

-----------------------------------------------------------------------------
(* Properties.                                                             *)

\* Our own upstream queries never come back through the queue, where each
\* would become a new job: a socket that cannot be marked sends nothing.
NoSelfInterception ==
  /\ \A i \in DOMAIN queue : queue[i].from # Self
  /\ \A j \in Jobs : job[j].at # "none" => job[j].from # Self

\* Whatever the upstreams do, a worker ends (two queries, each with its
\* timeout), so its thread, its socket and its job are given back.
WorkersEnd == \A j \in Jobs : job[j].at # "none" ~> job[j].at = "none"

\* As long as one of the two resolvers answers and sockets work, an
\* application that repeats its query is served in the end: by a worker, or by
\* having the query let through.  Neither a primary that is no address nor a
\* calloc or pthread_create that fails, however often, makes a query vanish.
ClientServed == faults \subseteq {"job"} => \A c \in Clients : <>(c \in served)

\* What byedpi.h says: only fields marked "live" change while the engine
\* runs, so a job's pair of servers is one the user had set up.
PairConfigured ==
  \A j \in Jobs : job[j].at = "ask1" =>
    <<job[j].upstream, job[j].fallback>> \in chosen

=============================================================================
