# TLA+ verification of Passewall (byedpi)

Passewall is a Linux program that inserts `iptables` rules sending some outgoing
packets to netfilter queue 100, reads that queue in a thread, splits the first
request of TCP connections, answers DNS queries through a resolver of the user's
choice, drops QUIC Initials, and is driven either headless or by a GTK window
with a tray item. This directory models it in TLA+, model-checks the models with
TLC and proves the central safety results with TLAPS.

Paths below are relative to the repository (`src/src/queue.c` is the file
`src/queue.c` of the program). `PROJECT.json` maps every definition to the lines
it models and lists the runs, the mutants of the properties, the findings, the
hazards and the theorems.

## 1. Inventory

| Component | State it keeps | Operations | Talks to | Hard behaviour |
|---|---|---|---|---|
| Engine (`queue.c`) | handle, fd, queue, injector, flags `running`, `thread_started`, `rules_applied` | new, start, stop, free, receive loop | firewall, injector, TCP, DNS; called by `main` and the GUI | seven steps of start that can fail; thread against stop; join |
| Firewall rules (`iptables.c`) | the kernel's OUTPUT chains | apply (with two rollbacks), revert: one child process per rule | engine; reads `cfg->ipv6` | failure in the middle; rules already there; other programs' rules |
| Process (`main.c`, `gui/window.c`) | signal mask, mode, build | `parse_args`, `run_headless`, `bd_gui_run`, exit | engine | signals at any moment; death between two steps |
| TCP path (`tcp.c`, `queue.c`) | none of its own; the connection around it | classify, fake, two fragments, verdict | injector, queue | partial failure of three sends; loss, reordering, retransmission; wrapping sequence numbers |
| DNS (`dns.c`) | one job per query, detached threads | copy and spawn; primary, fallback, inject | config written by the GUI, injector | unlocked strings; timeouts; repeated queries; workers outliving the engine |
| Injection (`net.c`) | raw sockets with a mark | open, close, `bd_send_tcp`, `bd_send_udp`, checksums | TCP, DNS | failing `SO_MARK`; frame limit; odd lengths, byte order |
| Parsers (`tls.c`, `http.c`, `net.c`, `queue.c`) | none | split offset, header parsing, Initial test | TCP path | lengths in bytes that may be cut off or wrong |
| Window (`gui/window.c`) | switch, status, test button and label, preferences | toggle, test, close, quit, DNS selector | engine, tray, autostart, log | callbacks of overlapping tests; failing start; re-entrant switch |
| Tray (`gui/tray.c`) | active flag, menu revision, bus connection | register, layout, events | window, a tray host over D-Bus | the host's copy is stale; no host at all |
| Autostart (`gui/autostart.c`) | one file | enable, disable, is-enabled | window | failing and short writes; several switches, one file |
| Logger (`log.c`) | sink under a mutex, level without one; posted lines; 200 lines of text | log, set sink, set level, append | all threads, live log of the window | sink called outside the lock; trimming |

What makes each correct, in short: a start succeeds entirely or leaves nothing,
a stop gives everything back, rules of others survive (engine, firewall); ending
by a signal is ending by stop (process); a connection stays a byte pipe and loses
nothing (TCP); a query is either let through or owned by a worker that ends
(DNS); no byte outside the datagram is read, the name is cut, and what is sent
is the request again (parsers, injection); what the window and the
tray say is what the engine is (GUI); the live log shows every
line, each thread's in order (logger).

The hazards, each at its line, are in `PROJECT.json`.

## 2. Modules

| Module | Models | Extends |
|---|---|---|
| `Firewall` | rule table, `iptables -I`/`-D` on a chain, the kernel's traversal; operators only | |
| `Engine` | `bd_engine_*`, `bd_iptables_apply/revert`, `bd_injector_open/close`, `recv_loop`, the part of a DNS worker that touches the engine | `Firewall` |
| `Switch` | abstract specification: rules that go in and out in one step each | |
| `Process` | `main`, `parse_args`, `run_headless`, signals, SIGKILL, one process after another, `bd_gui_run` as a caller of the engine | `Engine` |
| `Pipe` | abstract specification: a stream that delivers a prefix of what was written | |
| `TcpPath` | one connection: client, queue, `packet_cb`/`bd_tcp_handle`, network, server | instantiates `Pipe` |
| `Packet` | `net.c`: parsing a datagram, checksums, assembling a frame; operators only | |
| `Dissect` | one datagram through `packet_cb`, byte by byte: dispatch, `tls.c`, `http.c`, QUIC, the sends of `bd_tcp_handle` and `dns_worker` | `Packet` |
| `Dns` | `bd_dns_handle`, `dns_worker`, `dns_query_upstream`, `on_dns_selected`, `apply_custom_dns` | |
| `Gui` | main switch, status, connection test, tray item and host, closing, quitting, autostart | |
| `Console` | `bd_log`, the sink, `append_log_idle` | |
| `FirewallProofs` | lemmas about chains | `Firewall`, TLAPS |
| `EngineProofs` | the theorems about the engine | `Engine`, `FirewallProofs` |
| `ProcessProofs` | the theorems about a process | `Process`, `EngineProofs` |
| `TcpPathProofs`, `DissectProofs`, `DnsProofs`, `GuiProofs`, `ConsoleProofs` | the theorems about the module of their name | that module, TLAPS |
| `MC*` | the constants of the TLC runs | the module of their name |

### Engine and Firewall

The control thread's place in a call is `pc`; every call that can fail, every
single `iptables` child process and every assignment another thread can see is a
step. `bin` and `idx` are the program name and the loop index of `apply_for` and
`revert_for`; `caller` says whether `revert_for` was called from the middle of
`bd_iptables_apply` or from the engine. Insertion goes to the top of the chain;
deletion takes the first equal rule, which need not be the one inserted: a chain
may already hold copies left by a process that was killed. `base` is a ghost: the
chains at the beginning of the current start. The exit status of a deletion is
ignored by the code; `DeleteMayFail` lets present rules survive it.

`start` on a running engine and `stop` on a stopped one return at once and are no
actions. `ToggleIpv6` is the GUI's switch, which changes `cfg->ipv6` but not the
rules; the GTK thread that owns it also makes the engine calls, so it cannot fall
between two steps of a call. The receive thread is `enter`, `check` (reads
`running`), `serve` (poll, recv, verdict) and may exit by itself on a recv error.
A worker is reduced to its four places because the only question asked here is
whether it outlives the engine; `Dns` has the whole of it.

`Switch` is what a user of the engine sees. Its state is the chain and whether
the engine is up; turning on puts all of our rules above what is there, turning
off takes exactly them away. `Engine` implements it (`AtomicSwitch`): the mapping
shows the IPv4 chain as it is while the engine rests and as `start` found it
while a call is under way, so a failing start must look as if nothing had
happened.

### Process

`place` is where `main` is; `parse_args` chooses the mode and IPv6 or ends the
program, and a build without the GUI runs headless in every mode. `Dies` is what the kernel does for a dead process:
everything but the rules goes. `found` is a ghost: the chains at launch. In
headless mode SIGINT and SIGTERM are blocked before the engine exists and taken
by `sigwait`; in GUI mode they have their default action. `Kill` is SIGKILL or a
crash.

### TcpPath and Pipe

Payload bytes are numbered by their place in the stream, a segment is an interval
and a sequence number is kept modulo `SeqSpace`. The client retransmits from its
first unacknowledged byte with any cut; the queue drops when full; a frame in
`net` can be delivered repeatedly and in any order until it is lost. The parsers
are abstracted to "no offset, or any offset inside the payload", which contains
what they return; whether a packet is a request at all depends on its first
bytes, so on where it starts (`RequestStarts`). That the offset used lies inside
the payload is `SplitInside` of `Dissect`, proved. The fake copy may or may not reach
the server. If `SO_MARK` failed on the raw socket (`marked` is FALSE) what is
sent meets the NFQUEUE rules and goes to the end of the queue, fakes and
fragments included, where they are classified again. The server places a byte by its sequence number and keeps the first
one that came. `Pipe` is the specification it must implement, with `written` the
client's `nxt` and `read` the server's contiguous prefix. The ghost `left` holds
the bytes that, since the client last sent them, went out with a normal TTL or met
the full queue; `NothingSwallowed` is the balance: every byte sent is in `left`, in
the queue or in the packet being handled.

### Packet and Dissect

The same handlers once more, with the bytes and without the network. `Packet` has
the operators of `net.c`: reading a datagram, the Internet checksum in the host's
byte order, assembling a frame. `Dissect` takes one datagram through `packet_cb`:
the headers, the dispatch (the switches in `cfg` are live, so each may be found
off), the walk through a ClientHello one field and one extension at a time, the
scan for `Host:` one position at a time, the choice of the split, and the sends,
each of which may fail. `touched` is the set of offsets the last step read. A
`uint32_t` is a pair of halves.

Each input says what its sender meant by it (`what`, the place of the name
`from`, `to`, and in a ClientHello the extensions up to the server name, `exts`),
because it was written, not parsed: the properties compare what
the code found with what was there. Two of them, `ChecksumsVerify` and
`FramesMakeTheRequest`, look at the frames as a receiver does. The receiver's
sum is written independently of `csum_accumulate`, in network order.
`FramesMakeTheRequest` compares what a stream is made of: addresses, ports, numbers,
flags and bytes. TCP options are not compared: the code always writes a data offset
of 5 and so sends the fragments without the options of the original.

### Dns

An address field of the configuration is the set of values a reader can see: one,
or, during the `snprintf` of the GUI thread, the old one, the new one or a
mixture, since the strings have no lock. The receive thread copies the two fields
in two steps. An unmarked query would be queued again as if an application had
sent it (origin `Self`). Sizes are small numbers with the relation of the code's:
the receive buffer and the frame limit are equal (2048), so an answer that fills
the buffer does not fit in a frame with its headers: it is received, cannot be
injected, and the fallback is not asked (`InjectFails`). `faults` says which of
the calls that hardly ever fail may fail in a behaviour: the mark; `calloc` and
`pthread_create` for a new job (`CallocFails`, `SpawnFails`); the sockets and sends
of a worker. It is chosen at the beginning, so that one run asks both what happens
when everything may fail and whether clients are served when only jobs cannot be
made. The program may be started with a `--dns-addr` that is no address (`Junk`):
`parse_args` takes any string.

### Gui

GTK and D-Bus callbacks run on one loop, so a callback is one action, including
everything it calls (`set_status_ui`, `bd_tray_set_active`, `refresh_autostart`).
The tests are threads. The host (external) holds a copy of the menu with its
revision; `changed` and `clicks` are messages under way in both directions. The
engine is its `running` flag here: a start blocks the loop and succeeds or not,
which is what `CompletelyUp` and `Restored` say of `Engine`.

### Console

`bd_log` is three steps of the calling thread: the unlocked look at the level,
the section under `g_lock` (print, copy the sink), and the call of the sink after
the unlock. The sink posts to the main loop; `append_log_idle` trims and appends.
A line is the thread that logged it and its number there. `g_idle_add` and the
text buffer's line count are GLib's and GTK's (external): callbacks of one
priority run in the order in which they were added, and the buffer counts the
empty line after the last line end. A thread that copied the sink before
`bd_gui_run` took it away still posts; the callback then never runs, because the
loop has ended.

## 3. Runs

Passing runs:

| Run | Checks | Shows |
|---|---|---|
| `engine_lifecycle` | `TypeOK`, `ControlInv`, `ChainShape` | the inductive invariant of the proofs: what is open at each place of each path, and which of our rules each chain holds at every iptables invocation |
| | `Restored`, `CompletelyUp`, `ThreadHasHandles`, `MarkSkipsQueue` | start is all or nothing, stop restores, the thread never outlives a handle, marked packets are not queued |
| | `CallsReturn`, `BlackholeEnds` | every call returns and the join never hangs; rules without a queue behind them, which drop traffic, never stay |
| | `AtomicSwitch` | seen from outside, the engine is `Switch` |
| `engine_faults` | `ForeignRulesKept` | with deletions that fail unnoticed, rules we did not insert still stay, in order |
| `process_life` | `HeadlessLeavesNoRules`, `LeftoversSurvive` | a process that runs headless, asked to or for want of a GUI, signalled at any moment leaves the chains as it found them; rules left by killed processes are never removed |
| | `SignalEnds` | a signal during start is not lost |
| `tcp_stream` | `TypeOK`, `NothingSwallowed`, `PipeKept` | splitting implements a pipe, and no byte the client sends vanishes between the queue and the network, whichever sends fail and also when injected frames come back for want of a mark |
| | `EverythingArrives` | with the mark, no failing send, full queue or oversized payload stalls a connection |
| `dissect` | `TypeOK`, `ReadsInside`, `SplitInside` | the inductive invariant's parts: offsets are offsets, nothing outside the datagram is read, no fragment is empty |
| | `NameCut`, `OnlyReplacedIsDropped` | the host name (or the word Host) ends up in both fragments; only an Initial, a query taken over and a request sent in two are dropped, and the counters say which |
| | `FramesMakeTheRequest`, `ChecksumsVerify` | a receiver reads the request again and accepts every frame |
| | `Terminates` | every datagram gets its verdict |
| `dns` | `TypeOK`, `NoSelfInterception` | none of the program's own queries comes back through the queue, also when `SO_MARK` fails |
| | `WorkersEnd`, `ClientServed` | workers end; a client that repeats its query is served, also when the primary is no address and when threads or memory for jobs are refused |
| `gui_loop` | `TypeOK`, `UiAgrees`, `TestButtonRight`, `MenuIsCurrent` | window, tray and button follow the engine |
| | `TestEnds` | "Testing..." is always followed by a result |
| `console` | `ThreadOrderKept`, `NewestKept` | each thread's lines in order and once; the buffer holds exactly the newest lines it may hold |
| | `EveryLineShown` | a line printed while the sink was set reaches the live log, unless the program ends first |

Runs that must be violated, each a statement of the repository's text that the
code does not keep (quoted under `findings`):

| Run | Statement | What TLC shows |
|---|---|---|
| `engine_ipv6_toggle` | `RevertsExactly` | IPv6 switched off while running: stop leaves the ip6tables rules |
| `engine_workers` | `WorkersShutDown` | a detached DNS worker is still in its query when the engine is freed |
| `process_gui_signal` | `RemovedOnSignal` | SIGTERM to a GUI process after `bd_engine_start` has returned, the receive thread running, leaves the rules |
| `dns_torn` | `PairConfigured` | a query during a change of resolver goes to a pair nobody chose |

`Restored` and `HeadlessLeavesNoRules` are stated around the first and the third: the former
promises the IPv6 chain only if the switch was left alone, the latter only speaks
of headless processes.

### Bounds, and why they are enough

- **Engine**: the code's own table of four rules; chains found empty, cut short,
  and complete with the rules of another program below, so that deletion meets
  copies both of single rules and of whole sets. One worker: workers do not
  interact. `MaxChain` only stops leaked rules (after an IPv6 toggle) from
  growing without end; it lets a second set be inserted over a leaked one. The
  run with failing deletions uses two rules, since the subsets of rules left
  behind multiply.
- **Process**: two rules are enough for a process to die between two insertions;
  `MaxChain` 4 lets a second process start over the whole set of a killed one.
  Both builds and all three modes occur, one process after another.
- **TcpPath**: four bytes give every cut of a request in two and every cut of its
  retransmission; requests may begin at two places of the stream; a space of
  eight numbers from 6 wraps inside the request; `FrameCap` 3 makes the whole
  payload too long for a frame while its fragments fit; `QueueMax` 1 makes the
  queue overflow, both by the client's segments and by unmarked frames. `NetMax` 0 lets the client send only while nothing is under
  way, but what it sends then waits in the queue behind the packet being handled:
  the fakes and fragments of two packets, cut differently, are under way together.
- **Dissect**: real header sizes. The inputs (`MCDissect`) are ClientHellos with
  and without session id, other extensions before and after, names of 0 to 3
  bytes; requests with the shortest and the longest method, with and without a
  Host header, with one that only ends in "host"; every prefix of each; one
  ClientHello with every byte behind the random overwritten by 0, 1, 3 and 255,
  at every length; IPv4 and IPv6, TCP options; headers with every kind of wrong
  length, cut at each boundary; QUIC first bytes of every type with and without
  a version. `BD_MAX_FRAME` 112 lies between the lengths of the requests, so that
  a fake is too long while its fragments fit; `BD_DNS_MAX` 3 is the length of one
  of the queries. Sequence numbers begin close to 2^32 and wrap inside the longer
  requests; two of the replies make the UDP sum come out as zero. The run is made
  for a little-endian host, where the order of the bytes matters; the theorems
  are for both.
- **Dns**: one client, two workers (a client that repeats its query is served by
  either), one change of resolver (a query sees at most one write per field of
  it), query lengths inside and above the accepted range, answers that fit a frame
  and answers above the buffer, one resolver of two that answers; started with the
  dead resolver first or with a string that is no address. No fault has to happen
  in a behaviour where it may, so a healthy machine is among them. Workers share only
  the configuration, so a second client adds no kind of interaction.
- **Gui**: two tests, because one can be started while an earlier one runs only
  once the engine was switched off and on; three revisions and two messages each
  way, so that a host can be two changes behind.
- **Console**: three threads with two lines each and a buffer of two lines, so
  that the buffer overflows several times, lines of one thread are posted while
  another is between the unlock and the sink, and the sink is taken away in
  between.

### Fairness, and why the code justifies it

- **Engine, Process**: a call that has begun goes on (no step of it waits for
  another thread, except the join); the receive loop wakes up every 200 ms at the
  latest (`poll`) and then re-reads `running`; the steps of a worker are bounded
  by two `select` timeouts of 900 ms. Nobody has to call, signal or launch.
- **TcpPath**: the receive thread goes on; a TCP client retransmits; the network
  does not lose everything for ever and keeps nothing for ever. The last three
  are the environment's, without which TCP promises nothing either.
- **Dissect**: the receive thread goes on; nothing in it waits.
- **Dns**: all threads go on, an application repeats its query, and a resolver
  that is alive is not late, and its answer not too long for a frame, every time.
  The second half is an assumption the code needs: an answer near 2048 bytes is
  received and cannot be injected.
- **Gui**: a test ends by its socket timeouts; GLib runs idle callbacks.
- **Console**: a call of `bd_log` goes on; GLib runs idle callbacks.

Deadlock is checked for `Engine`. It is switched off
where the system may stop: a dead process need not be launched again (`Process`),
the stream is finished (`TcpPath`), the datagram has its verdict (`Dissect`),
every client is served (`Dns`), the program was closed (`Gui`, `Console`).

## 4. Proofs

Every invariant and action property of the passing runs is also a theorem, for
every value of the constants. A proof
module `XProofs` extends `X`; the inductive invariants were checked by TLC on the
constants of the runs before they were proved.

| Module | Theorems: property |
|---|---|
| `EngineProofs` | `TypeCorrect`: `TypeOK`; `ControlCorrect`: `ControlInv`; `ThreadSafe`: `ThreadHasHandles`; `ForeignKeptCorrect`: `ForeignRulesKept`; `EveryCallShrinks` |
| `EngineProofs`, if deletions of present rules succeed | `ChainCorrect`: `ChainShape`; `RestoredCorrect`: `Restored`; `CompletelyUpCorrect`: `CompletelyUp`; `MarkSkipsCorrect`: `MarkSkipsQueue`; `ImplementsSwitch`: `AtomicSwitch` |
| `ProcessProofs`, under the same condition | `HeadlessCorrect`: `HeadlessLeavesNoRules`; `LeftoversCorrect`: `LeftoversSurvive` |
| `TcpPathProofs` | `TypeCorrect`: `TypeOK`; `NothingSwallowedCorrect`: `NothingSwallowed`; `ImplementsPipe`: `PipeKept` |
| `DissectProofs` | `TypeCorrect`: `TypeOK`; `ReadsStayInside`: `ReadsInside`; `SplitStaysInside`: `SplitInside`; `DropsAreReplaced`: `OnlyReplacedIsDropped`; `FramesCorrect`: `FramesMakeTheRequest`; `ChecksumsCorrect`: `ChecksumsVerify`; `NameCutCorrect`: `NameCut`; `EveryStepShrinks` |
| `DnsProofs` | `TypeCorrect`: `TypeOK`; `NoSelfInterceptionCorrect`: `NoSelfInterception` |
| `GuiProofs` | `TypeCorrect`: `TypeOK`; `UiAgreesCorrect`: `UiAgrees`; `TestButtonCorrect`: `TestButtonRight`; `MenuCorrect`: `MenuIsCurrent` |
| `ConsoleProofs` | `ThreadOrderCorrect`: `ThreadOrderKept`; `NewestCorrect`: `NewestKept` |

### Engine

Assumptions: `RuleTableAssumption` (the table holds no rule twice, the mark rule
is not in it, other programs' rules are other rules) and `EngineAssumption` (the
types of the constants); where the table says so also `~DeleteMayFail`,
which is necessary there: a deletion that fails unnoticed leaves a rule.

None of the properties is inductive by itself. `Restored` speaks of the moments
between calls; to prove it one needs to know what every moment inside a call
holds. That is `TypeOK /\ ControlInv /\ ChainShape`:

- `ControlInv` says which resources are open and which flags are set at each
  place of each path. From it alone follows `ThreadHasHandles`: a thread exists
  only where the handle, the queue and the socket do.
- `ChainShape` says, for each place and loop index, that each chain is a certain
  consecutive part of `OurRules` above the chain found (`Above(lo, n, base)`):
  the part grows at its top during `apply`, shrinks from the top in the downward
  rollback and in the first deletion of `revert_for`, and from the bottom in the
  upward rollback and the rest of `revert_for`.

The difficulty is that `iptables -D` removes the first equal rule and the chain
found may contain copies of ours. The lemmas of `FirewallProofs` settle it
(`AboveInsert`, `AboveDeleteTop`, `AboveDeleteBottom`): since our rules lie above
whatever was found and differ from each other, the first copy is always ours.
The rest is one lemma per group of actions and conjunct (`Type*`, `Control*`,
`Shape*`), with one step per action.

`ImplementsSwitch` follows from `Restored` and `CompletelyUp`. A start begins with
the chain it found, so the IPv4 part of `base` never changes at all (`FoundKept`);
what the mapping shows is always `base`, with our rules above it exactly while the
engine is up (`RulesSeen`); so every step is a stutter, `TurnOn` or `TurnOff`.

`ForeignKeptCorrect` makes no assumption on deletions, so the exact shape is not
known: what lies above the rules found depends on which deletions failed. What is
invariant (`KeptInv`) is a set: the rules that were inserted and whose deletion
has not been tried yet are certainly in the part above (`KeptAbove`). A deletion
is tried once per inserted rule, so the first equal rule lies in that part and a
rule found is never the one removed.

`EveryCallShrinks` is the part of `CallsReturn` that is not about fairness. `CallLeft`
counts what a call may still have to do: the rest of the table for the program that
runs, the whole table for the one that may follow, the fixed steps behind it and,
in the join, what the receive thread still does. Within a call every step lowers it,
except a DNS worker's, for which nothing waits; it begins at
`5 * kRuleCount + 18`. That the receive thread lowers it needs `ControlInv`: the
thread exists inside a call only while stop waits for it, and `running` is false then,
so the next look at the loop condition is the last.

### Process

`HeadlessLeavesNoRules` compares the end of a process with its beginning, across
whatever killed predecessors left. In a process that has not called
`bd_engine_start` the engine's ghost `base` is still the dead predecessor's, so
`ChainShape` says nothing; the invariant `ProcInv` therefore splits the life of
a process at its first start: before it (`Fresh`) the chains are what was found,
after it (`Used`) `ChainShape` holds and `base` is what was found: for IPv4
always, for both families in headless mode, where nothing toggles `cfg->ipv6`.
A headless process cannot die of SIGINT or SIGTERM in between because they are
blocked from `main`'s switch on (`MaskInv`); this is where GUI mode differs, and
the run `Process_gui_signal` shows what happens there.

### TcpPath

A packet is `Genuine` if its sequence number and flags are those of an interval
of the stream that the client has already sent. Packets in the queue, in the handler's hands and in the
network are, fakes and fragments included, and every byte the server holds is
the byte written at its offset (`BufInv`). The argument rests on arithmetic modulo
`SeqSpace` (`ModAround` and the lemmas after it): the distance to the server's
next byte determines the offset as long as the stream is at most half of the
space, which `TcpAssumption` says and TCP's window guarantees. `ImplementsPipe`
then needs only that the contiguous prefix never shrinks.

`NothingSwallowed` is not inductive by itself: the last send drops the packet in
hand, so one must know where the bytes before the split are. That is `FirstSent`:
between the two sends, if the first succeeded, its bytes are out, dropped by the
full queue or waiting in it; nothing takes them from the queue meanwhile, because
the thread that would is the one in the handler. A retransmission takes its bytes
out of `left` and puts them into the queue or, if it is full, back into `left`; that
it leaves no byte below `nxt` unaccounted needs `una <= nxt`, which rests on the
server never holding a byte the client has not sent (`ReadIsPrefix`).

### Dissect

`DissectAssumption`: a datagram is a sequence of bytes, `BD_MAX_FRAME` and the
identifications are 16-bit numbers (2048 in the code; `rand() & 0xffff`) and the
fake's TTL is in 1 .. 10, as `parse_args` and the window keep it.
`KindAssumption` says what `what` means for a datagram (`IsInitial`,
`IsQuery`, `IsHello`, `IsRequest`): the port and the first bytes that define such
a message in its protocol. It excludes no datagram, only a wrong label.
`NameAssumption` says the same of `from`, `to` and `exts` where an input gives
a name to cut: a ClientHello has it there as the only name of the first server name
extension, whole in this segment, behind fields and extensions each of which ends
where the next begins; a request has the word of its first Host line there. An
input that gives no name of two bytes or more is not restricted, so no datagram is
excluded here either. The constants of the run satisfy it because `MCDissect`
builds its messages from their parts.

The inductive invariant of the first three theorems is
`TypeOK /\ ReadsInside /\ SplitInside /\ WalkInv`, where `WalkInv` says that the
payload ends with the datagram once the headers are parsed, that `ext_end` lies inside the payload, and that the extension found to be the server
name lies inside `ext_end`. Every other bound is checked by the code in the step
that reads; these three are established in one step and relied on in a later one.
The clamp of `ext_end` to the end of the segment is what keeps them true for a
length field that lies. `DropsAreReplaced` adds what may have been sent and
counted at each place (`SentInv`) and which message the handler at that place has
before it (`MeantInv`); the latter is carried from the dispatch to the verdict.

`FramesCorrect` first proves, about `Packet` alone, that a frame is read back as it
was assembled (`FrameGot`): `build_tcp_l4` writes the fields where
`bd_packet_parse` reads them (`TcpBuilt`), so do both IP headers (`Header4`,
`Header6`), filling in a checksum touches none of the bytes that are looked at
(`CheckedHeader`, `CheckedTcp`), and the pieces keep their places when they are put
together (`GotFrame4`, `GotFrame6`). The checksums are left arbitrary there, even
as to whether they are numbers; they have a theorem of their own. Then
`MadeInv` says of every state that a TCP handler works on the parse of the
datagram before it, and that each frame sent so far is read as the part of that
datagram its kind stands for, with the cut where `split` is now (TLC found no
counterexample to it on the datagrams of the run `dissect`). At the verdict the
parts join: the bytes by `PartsJoin`, the sequence numbers, which may wrap, by `Sub32Add32`. That a frame
longer than `BD_MAX_FRAME` is refused matters here: it keeps the lengths in 16
bits, and with them the first fragment shorter than the distance
`Sub32` can tell.

`ChecksumsCorrect` is about sums over sequences of any length, so it needs induction,
and the library's induction theorems take an operator that the provers cannot
instantiate. A set can take its place: a set of numbers that has a member has a
smallest one (`Smallest`, from the library's `WFMin`), so what holds at 0 and is passed
on holds up to n (`UpTo`), and a function defined by recursion over `0 .. n` exists
(`Recursion`). With these:

- `csum_accumulate` computes a number, the sum of the words (`SumsExist`), and sums of
  pieces of even length add up (`CatSum`);
- the sum in the host's order, times 1 or 256, is the receiver's sum in network order
  modulo 65535 (`ReceiverIs`), because a word with its bytes swapped is 256 times
  itself there (`WordOrders`);
- two turns of `csum_fold`'s loop bring the sum of at most 65535 bytes and a pseudo
  header into 16 bits without changing it modulo 65535 (`FoldIs`), which is where the
  frame limit is needed;
- a piece whose checksum field is zero, filled with the complement, then sums to a
  multiple of 65535, which is what a receiver accepts (`Filled`, `Checked`); so it
  does where UDP's 0 is sent as 0xffff (`OtherForm`). That the field is zero while
  the sum is taken, in each of the three headers that have one, is `Blank4`,
  `BlankTcp` and `BlankUdp`.

`SumInv` carries this through the sends, with the lengths the frames have.

`NameCutCorrect` rests on `LayoutInv`: in a message with a name the walk stands, at
each place of the code, at the field that comes next, and in the loop at a member of
`exts`. One step leads from an extension that is not the server name to the next
member, so no induction over the list is needed; `FieldsInOrder` says that every field
ends before the name, so no early return is taken (`Passed`). In a request the scan
never gets past the Host line because no line before it matches.

`EveryStepShrinks` is the part of `Terminates` that is not about fairness. `Left` counts
the places of the code still to come and, in the two loops, the payload ahead; a
place outweighs all of the payload (`Outweighs`), so leaving a loop lowers it as well
as going round. An extension advances by at least its 4-byte header, whatever length it
claims.

### Dns, Gui, Console

`DnsAssumption` includes that the pairs offered by the window are resolvers; what the
program is started with may also be the empty string or no address. The invariant says of the
queue, the receive thread's query and every job that their sender is an
application; it holds through a failing `SO_MARK` because an unmarked
socket is closed before anything is sent.

The invariants of `Gui` are stated from `bd_gui_run` on, not only for the running
loop (`UiInv`, `TestInv`), and `MenuInv` adds that no host is ahead of the item's
revision, so that a change always gets a number no host holds. Overlapping tests
need no more: every end of a test and every switch of the engine recomputes the
button from `running`.

For `ThreadOrderKept` a thread's line must be followed through three places:
the numbers of lines in the buffer are below those waiting in the main loop's queue,
these in order, all of them below the one the thread is just logging (`OrderInv`).
`NewestKept` is inductive: trimming removes one line less than the count of the
text buffer, which counts the empty last line, suggests.

### Only model-checked

The liveness properties, because fairness and `ENABLED` are outside this prover's
reach: `CallsReturn`, `BlackholeEnds`, `SignalEnds`, `EverythingArrives`, `Terminates`,
`WorkersEnd`, `ClientServed`, `TestEnds`, `EveryLineShown`. Of `CallsReturn` and
`Terminates` the decreasing measure is proved; what is left to TLC is that some step is
always possible and that the thread takes it.

## 5. Not modelled

- Option texts and usage, `preflight`'s warnings about other services, the text
  of log lines, construction and styling of widgets, the about dialog and links,
  the icon, D-Bus introspection. None of it keeps state that another part reads.
- The values of the statistics counters over time. A datagram raises each at most
  once, under the lock; which ones it raises is in `Dissect`.
- Unaligned access and aliasing in the casts of `net.c`, and the locale in
  `strncasecmp` (the program itself never calls `setlocale`).
- A receive thread that dies of a `recv` error leaves the rules and the queue in
  place with nobody reading. `Engine` has the step (`ThreadFails`), and stop
  still works (`CallsReturn`), but nothing in the code or its documents promises
  to notice, so no property is stated.
- An `iptables` child that inserts its rule and is killed before it reports
  success; a firewall edited by another program during a call.
- Four disagreements of the code with its comments and the program's README are
  reachable in the models and not stated as runs:
  - closing the window hides it also where no tray host exists
    (`on_close_request` looks at `a->tray` only; `Gui`, `CloseRequest`);
  - the startup switches are set from the command line and from the entry's
    existence (window.c:943 on), so that both can be on while the entry has no
    `--tray`, or the other way round; the README says "When "Start minimized to
    tray" is also enabled, the autostart entry's `Exec` line passes `--tray`"
    (`Gui`, `Init`);
  - `bd_autostart_enable` checks neither `fprintf` nor `fclose`, so an entry cut
    short by a full disk is reported as written, and a failed `fopen` returns -1
    where gui.h:27 only says "Returns 0"; the switch stays on in both cases
    (`Gui`, `RefreshAutostart`);
  - dpi.h:47-48 says that `bd_dns_handle` "Always returns BD_VERDICT_DROP for a
    valid query (BD_VERDICT_ACCEPT if the packet is not a forwardable query)". It
    lets a valid query pass where `calloc` (dns.c:146-148) or `pthread_create`
    (dns.c:163-165) fails. The code is the better of the two: `ClientServed` depends on it (`Dns`,
    `CallocFails`, `SpawnFails`).
- Two programs running at the same time. (The second fails to bind queue 100 and
  reverts by content; the model runs processes one after another.)

## 6. Plan

Done in this order: `Firewall`, `Engine`, their proofs, `Process`, `Pipe` and
`TcpPath`, `Dns`, `Gui`; then `Packet` and `Dissect` with their proofs, unmarked
sockets in `TcpPath`, `Switch` and its refinement with proof, `parse_args` and
builds in `Process`, `Console`; then the theorems of `Process`, `TcpPath` with its
refinement of `Pipe`, `Dns`, `Gui` and `Console`, `ForeignRulesKept` without an
assumption on deletions, `OnlyReplacedIsDropped` and `FramesMakeTheRequest`; then
`ChecksumsVerify`, `NameCut` and the measures of `Dissect` and `Engine`. Left: the
counterpart of `FrameGot` for the answers to DNS queries (`build_udp_l4`), which no
property states yet.
