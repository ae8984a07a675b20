------------------------------- MODULE Engine -------------------------------
(***************************************************************************)
(* The engine's lifecycle (queue.c): bd_engine_start, bd_engine_stop and   *)
(* bd_engine_free run by one control thread, the firewall procedures they  *)
(* call (iptables.c: one child process per rule, so other threads run      *)
(* between any two of them), the raw sockets (net.c), the receive thread   *)
(* and the detached DNS workers that hold a pointer to the engine.         *)
(*                                                                         *)
(* Every step of a call that can fail does so nondeterministically.  The   *)
(* early return of bd_engine_start on a running engine and of              *)
(* bd_engine_stop on a stopped one change nothing and are not actions.     *)
(***************************************************************************)
EXTENDS Firewall

CONSTANTS
  Workers,        \* bound: DNS workers alive at the same time
  Ipv6Toggle,     \* the GUI's IPv6 switch exists (FALSE when headless)
  DeleteMayFail,  \* an "iptables -D" of a rule that is present may fail
  MarkMayFail,    \* setsockopt(SO_MARK) may fail on a raw socket
  Leftovers,      \* chains a process may find when it starts
  MaxChain        \* bound: no start once leaked rules made a chain longer

ASSUME EngineAssumption ==
  /\ Ipv6Toggle \in BOOLEAN /\ DeleteMayFail \in BOOLEAN
  /\ MarkMayFail \in BOOLEAN
  /\ Leftovers \subseteq Seq(Rules) /\ MaxChain \in Nat

VARIABLES
  chain,          \* kernel: OUTPUT chain of each iptables program
  base,           \* ghost: the chains as bd_engine_start found them
  ipv6,           \* cfg->ipv6
  toggled,        \* ghost: ipv6 differs from what the rules were applied with
  pc, bin, idx,   \* control thread: place in the call, bin and loop index
  caller,         \* who called revert_for: "apply" or "engine"
  freeing,        \* the running bd_engine_stop was called by bd_engine_free
  inj,            \* the raw sockets of struct bd_injector
  h, qh,          \* the nfq handle (and its fd) is open; queue 100 is bound
  rulesApplied, running, threadStarted,   \* the flags of struct bd_engine
  thr,            \* the receive thread
  wk              \* the DNS worker threads

fwVars  == <<chain, base, ipv6, toggled>>
ctlVars == <<pc, bin, idx, caller, freeing>>
engVars == <<inj, h, qh, rulesApplied, running, threadStarted>>
vars    == <<fwVars, ctlVars, engVars, thr, wk>>

PCs == {"idle", "injector", "apply", "rollback_down", "rollback_up",
        "nfq_open", "create_queue", "set_mode", "set_running",
        "create_thread", "join", "destroy_queue", "close_handle", "revert",
        "close_injector", "freed"}

Sockets     == {"closed", "marked", "unmarked"}
ThreadState == {"none", "enter", "check", "serve", "exited"}
WorkerState == {"none", "primary", "fallback", "inject", "note"}

TypeOK ==
  /\ chain \in [Bins -> Seq(Rules)] /\ base \in [Bins -> Seq(Rules)]
  /\ ipv6 \in BOOLEAN /\ toggled \in BOOLEAN
  /\ pc \in PCs /\ bin \in Bins /\ idx \in 0 .. kRuleCount + 1
  /\ caller \in {"apply", "engine"} /\ freeing \in BOOLEAN
  /\ inj \in [{"fd4", "fd6"} -> Sockets]
  /\ h \in BOOLEAN /\ qh \in BOOLEAN
  /\ rulesApplied \in BOOLEAN /\ running \in BOOLEAN
  /\ threadStarted \in BOOLEAN
  /\ thr \in ThreadState /\ wk \in [Workers -> WorkerState]

\* bd_engine_new: nothing open, nothing started.
NewEngine ==
  /\ pc = "idle" /\ bin = "iptables" /\ idx = 0 /\ caller = "engine"
  /\ freeing = FALSE
  /\ inj = [fd4 |-> "closed", fd6 |-> "closed"]
  /\ h = FALSE /\ qh = FALSE
  /\ rulesApplied = FALSE /\ running = FALSE /\ threadStarted = FALSE
  /\ thr = "none" /\ wk = [w \in Workers |-> "none"]

Init ==
  /\ chain \in [Bins -> Leftovers]
  /\ base = chain
  /\ ipv6 \in BOOLEAN
  /\ toggled = FALSE
  /\ NewEngine

-----------------------------------------------------------------------------
(* Calls into the engine, made by main() or by the GTK thread.             *)

StartCall ==
  /\ pc = "idle" /\ ~running
  /\ \A b \in Bins : Len(chain[b]) <= MaxChain
  /\ pc' = "injector"
  /\ base' = chain /\ toggled' = FALSE
  /\ UNCHANGED <<chain, ipv6, bin, idx, caller, freeing, engVars, thr, wk>>

StopCall ==
  /\ pc = "idle" /\ (running \/ threadStarted)
  /\ running' = FALSE
  /\ pc' = "join"
  /\ UNCHANGED <<fwVars, bin, idx, caller, freeing, inj, h, qh, rulesApplied,
                 threadStarted, thr, wk>>

\* bd_engine_free stops a running engine first.
FreeCall ==
  /\ pc = "idle"
  /\ IF running \/ threadStarted
     THEN running' = FALSE /\ pc' = "join" /\ freeing' = TRUE
     ELSE pc' = "freed" /\ UNCHANGED <<running, freeing>>
  /\ UNCHANGED <<fwVars, bin, idx, caller, inj, h, qh, rulesApplied,
                 threadStarted, thr, wk>>

\* on_ipv6_toggled: the flag changes at once, the installed rules do not.
ToggleIpv6 ==
  /\ Ipv6Toggle /\ pc = "idle"
  /\ ipv6' = ~ipv6
  /\ toggled' = IF rulesApplied THEN ~toggled ELSE toggled
  /\ UNCHANGED <<chain, base, ctlVars, engVars, thr, wk>>

\* The process has ended after bd_engine_free, its threads with it, and a
\* new one has called bd_engine_new with its own --no-ipv6 choice.
Relaunch ==
  /\ pc = "freed"
  /\ pc' = "idle" /\ freeing' = FALSE
  /\ wk' = [w \in Workers |-> "none"]
  /\ ipv6' \in BOOLEAN
  /\ UNCHANGED <<chain, base, toggled, bin, idx, caller, engVars, thr>>

-----------------------------------------------------------------------------
(* bd_engine_start, step by step.                                          *)

\* bd_injector_open: without IPv4 socket (or IP_HDRINCL) start fails; a
\* failing IPv6 socket or SO_MARK is only logged.
OpenInjector ==
  /\ pc = "injector"
  /\ LET Opened == IF MarkMayFail THEN {"marked", "unmarked"} ELSE {"marked"}
     IN  \/ /\ \E s4 \in Opened,
                  s6 \in {"closed"} \cup (IF ipv6 THEN Opened ELSE {}) :
                 inj' = [fd4 |-> s4, fd6 |-> s6]
            /\ pc' = "apply" /\ bin' = "iptables" /\ idx' = 1
         \/ /\ inj' = [fd4 |-> "closed", fd6 |-> "closed"]
            /\ pc' = "idle" /\ UNCHANGED <<bin, idx>>
  /\ UNCHANGED <<fwVars, caller, freeing, h, qh, rulesApplied, running,
                 threadStarted, thr, wk>>

\* apply_for inserts the table in order and the mark rule last.
RuleAt(i) == IF i <= kRuleCount THEN kRules[i] ELSE MarkRule

\* apply_for(bin) has installed everything: IPv6 next, or the rest of start.
Applied ==
  IF bin = "iptables" /\ ipv6
  THEN bin' = "ip6tables" /\ idx' = 1 /\ UNCHANGED <<pc, rulesApplied>>
  ELSE rulesApplied' = TRUE /\ pc' = "nfq_open" /\ UNCHANGED <<bin, idx>>

InsertRule ==
  /\ pc = "apply"
  /\ chain' = [chain EXCEPT ![bin] = Insert(@, RuleAt(idx))]
  /\ IF idx <= kRuleCount
     THEN idx' = idx + 1 /\ UNCHANGED <<pc, bin, rulesApplied>>
     ELSE Applied
  /\ UNCHANGED <<base, ipv6, toggled, caller, freeing, inj, h, qh, running,
                 threadStarted, thr, wk>>

\* mutant of InsertFails: the rollback starts one rule too low
InsertFailsOffByOne ==
  /\ pc = "apply"
  /\ IF idx <= kRuleCount
     THEN pc' = "rollback_down" /\ idx' = idx - 2
     ELSE pc' = "rollback_up" /\ idx' = 1
  /\ UNCHANGED <<fwVars, bin, caller, freeing, engVars, thr, wk>>

\* mutant of InsertFails: the upward rollback skips the first rule
InsertFailsSkipsFirst ==
  /\ pc = "apply"
  /\ IF idx <= kRuleCount
     THEN pc' = "rollback_down" /\ idx' = idx - 1
     ELSE pc' = "rollback_up" /\ idx' = 2
  /\ UNCHANGED <<fwVars, bin, caller, freeing, engVars, thr, wk>>

\* A failed rule_op rolls back downwards from the rule before it; a failed
\* mark_op rolls back upwards over the whole table.
InsertFails ==
  /\ pc = "apply"
  /\ IF idx <= kRuleCount
     THEN pc' = "rollback_down" /\ idx' = idx - 1
     ELSE pc' = "rollback_up" /\ idx' = 1
  /\ UNCHANGED <<fwVars, bin, caller, freeing, engVars, thr, wk>>

\* One "iptables -D" of the current bin; the exit status is ignored.
DeleteRule(r) ==
  /\ \/ chain' = [chain EXCEPT ![bin] = Delete(@, r)]
     \/ DeleteMayFail /\ UNCHANGED chain
  /\ UNCHANGED <<base, ipv6, toggled>>

RollbackRule ==
  /\ \/ pc = "rollback_down" /\ idx > 0 /\ idx' = idx - 1
     \/ pc = "rollback_up" /\ idx <= kRuleCount /\ idx' = idx + 1
  /\ DeleteRule(kRules[idx])
  /\ UNCHANGED <<pc, bin, caller, freeing, engVars, thr, wk>>

\* mutant of ApplyFails: IPv4 is not reverted when IPv6 fails
ApplyFailsKeepsIpv4 ==
  /\ \/ pc = "rollback_down" /\ idx = 0
     \/ pc = "rollback_up" /\ idx = kRuleCount + 1
  /\ pc' = "close_injector"
  /\ UNCHANGED <<fwVars, bin, idx, caller, freeing, engVars, thr, wk>>

\* apply_for failed: bd_iptables_apply keeps IPv4 clean if IPv6 failed.
ApplyFails ==
  /\ \/ pc = "rollback_down" /\ idx = 0
     \/ pc = "rollback_up" /\ idx = kRuleCount + 1
  /\ IF bin = "ip6tables"
     THEN pc' = "revert" /\ bin' = "iptables" /\ idx' = 0 /\ caller' = "apply"
     ELSE pc' = "close_injector" /\ UNCHANGED <<bin, idx, caller>>
  /\ UNCHANGED <<fwVars, freeing, engVars, thr, wk>>

\* nfq_open, nfq_create_queue and nfq_set_mode: on failure "goto fail".
NfqOpen ==
  /\ pc = "nfq_open"
  /\ \/ h' = TRUE /\ pc' = "create_queue"
     \/ pc' = "destroy_queue" /\ UNCHANGED h
  /\ UNCHANGED <<fwVars, bin, idx, caller, freeing, inj, qh, rulesApplied,
                 running, threadStarted, thr, wk>>

CreateQueue ==
  /\ pc = "create_queue"
  /\ \/ qh' = TRUE /\ pc' = "set_mode"
     \/ pc' = "destroy_queue" /\ UNCHANGED qh
  /\ UNCHANGED <<fwVars, bin, idx, caller, freeing, inj, h, rulesApplied,
                 running, threadStarted, thr, wk>>

SetMode ==
  /\ pc = "set_mode"
  /\ pc' \in {"set_running", "destroy_queue"}
  /\ UNCHANGED <<fwVars, bin, idx, caller, freeing, engVars, thr, wk>>

\* running is set before the thread exists, which reads it at once.
SetRunning ==
  /\ pc = "set_running"
  /\ running' = TRUE
  /\ pc' = "create_thread"
  /\ UNCHANGED <<fwVars, bin, idx, caller, freeing, inj, h, qh, rulesApplied,
                 threadStarted, thr, wk>>

\* mutant of CreateThread: a failure leaves running set
CreateThreadForgets ==
  /\ pc = "create_thread"
  /\ \/ thr' = "enter" /\ threadStarted' = TRUE /\ pc' = "idle"
     \/ pc' = "destroy_queue" /\ UNCHANGED <<thr, threadStarted>>
  /\ UNCHANGED <<fwVars, bin, idx, caller, freeing, inj, h, qh, rulesApplied,
                 running, wk>>

CreateThread ==
  /\ pc = "create_thread"
  /\ \/ thr' = "enter" /\ threadStarted' = TRUE /\ pc' = "idle"
        /\ UNCHANGED running
     \/ running' = FALSE /\ pc' = "destroy_queue"
        /\ UNCHANGED <<thr, threadStarted>>
  /\ UNCHANGED <<fwVars, bin, idx, caller, freeing, inj, h, qh, rulesApplied,
                 wk>>

-----------------------------------------------------------------------------
(* bd_engine_stop, and the "fail:" path of bd_engine_start, which share    *)
(* everything after the join.                                              *)

\* mutants of Join: it does not wait; the rules go before the queue does
JoinNoWait ==
  /\ pc = "join"
  /\ threadStarted' = FALSE
  /\ pc' = "destroy_queue"
  /\ UNCHANGED <<fwVars, bin, idx, caller, freeing, inj, h, qh, rulesApplied,
                 running, thr, wk>>

JoinThenRevert ==
  /\ pc = "join"
  /\ threadStarted => thr = "exited"
  /\ thr' = "none" /\ threadStarted' = FALSE
  /\ pc' = "revert" /\ bin' = "iptables" /\ idx' = 0 /\ caller' = "engine"
  /\ UNCHANGED <<fwVars, freeing, inj, h, qh, rulesApplied, running, wk>>

Join ==
  /\ pc = "join"
  /\ threadStarted => thr = "exited"
  /\ thr' = "none" /\ threadStarted' = FALSE
  /\ pc' = "destroy_queue"
  /\ UNCHANGED <<fwVars, bin, idx, caller, freeing, inj, h, qh, rulesApplied,
                 running, wk>>

DestroyQueue ==
  /\ pc = "destroy_queue"
  /\ qh' = FALSE
  /\ pc' = "close_handle"
  /\ UNCHANGED <<fwVars, bin, idx, caller, freeing, inj, h, rulesApplied,
                 running, threadStarted, thr, wk>>

CloseHandle ==
  /\ pc = "close_handle"
  /\ h' = FALSE
  /\ IF rulesApplied
     THEN pc' = "revert" /\ bin' = "iptables" /\ idx' = 0 /\ caller' = "engine"
     ELSE pc' = "close_injector" /\ UNCHANGED <<bin, idx, caller>>
  /\ UNCHANGED <<fwVars, freeing, inj, qh, rulesApplied, running,
                 threadStarted, thr, wk>>

\* revert_for deletes the mark rule first, then the table in order.
RevertRule ==
  /\ pc = "revert" /\ idx <= kRuleCount
  /\ DeleteRule(IF idx = 0 THEN MarkRule ELSE kRules[idx])
  /\ idx' = idx + 1
  /\ UNCHANGED <<pc, bin, caller, freeing, engVars, thr, wk>>

\* mutant of RevertDone: rules_applied is not cleared
RevertDoneForgets ==
  /\ pc = "revert" /\ idx = kRuleCount + 1
  /\ IF caller = "engine" /\ bin = "iptables" /\ ipv6
     THEN bin' = "ip6tables" /\ idx' = 0 /\ UNCHANGED pc
     ELSE pc' = "close_injector" /\ UNCHANGED <<bin, idx>>
  /\ UNCHANGED <<fwVars, caller, freeing, engVars, thr, wk>>

\* bd_iptables_revert goes on with ip6tables if cfg->ipv6 says so now.
RevertDone ==
  /\ pc = "revert" /\ idx = kRuleCount + 1
  /\ IF caller = "engine" /\ bin = "iptables" /\ ipv6
     THEN bin' = "ip6tables" /\ idx' = 0 /\ UNCHANGED <<pc, rulesApplied>>
     ELSE pc' = "close_injector" /\ rulesApplied' = FALSE
          /\ UNCHANGED <<bin, idx>>
  /\ UNCHANGED <<fwVars, caller, freeing, inj, h, qh, running, threadStarted,
                 thr, wk>>

\* bd_injector_close, the last step of every path out of start and stop.
CloseInjector ==
  /\ pc = "close_injector"
  /\ inj' = [fd4 |-> "closed", fd6 |-> "closed"]
  /\ pc' = IF freeing THEN "freed" ELSE "idle"
  /\ UNCHANGED <<fwVars, bin, idx, caller, freeing, h, qh, rulesApplied,
                 running, threadStarted, thr, wk>>

-----------------------------------------------------------------------------
(* recv_loop.  "serve" is one pass of the loop body: poll, recv and        *)
(* nfq_handle_packet.                                                      *)

ThreadEnter ==
  /\ thr = "enter"
  /\ thr' \in {"check", "exited"}     \* malloc of the packet buffer
  /\ UNCHANGED <<fwVars, ctlVars, engVars, wk>>

\* mutant of ThreadCheck: the loop condition does not re-read running
ThreadCheckForever ==
  /\ thr = "check"
  /\ thr' = "serve"
  /\ UNCHANGED <<fwVars, ctlVars, engVars, wk>>

ThreadCheck ==
  /\ thr = "check"
  /\ thr' = IF running THEN "serve" ELSE "exited"
  /\ UNCHANGED <<fwVars, ctlVars, engVars, wk>>

\* Timeout, EINTR, ENOBUFS or a packet without a worker; or an
\* intercepted DNS query starts a detached worker.
ThreadServe ==
  /\ thr = "serve"
  /\ thr' = "check"
  /\ \/ UNCHANGED wk
     \/ \E w \in Workers : wk[w] = "none" /\ wk' = [wk EXCEPT ![w] = "primary"]
  /\ UNCHANGED <<fwVars, ctlVars, engVars>>

\* poll or recv fails, or recv returns 0: the loop ends, running stays.
ThreadFails ==
  /\ thr = "serve"
  /\ thr' = "exited"
  /\ UNCHANGED <<fwVars, ctlVars, engVars, wk>>

(* dns_worker: the two upstream queries (each bounded by a timeout), the   *)
(* injection through engine->inj and the statistics update.                *)

WorkerStep(w) ==
  /\ \/ wk[w] = "primary"  /\ wk' = [wk EXCEPT ![w] = "inject"]
     \/ wk[w] = "primary"  /\ wk' = [wk EXCEPT ![w] = "fallback"]
     \/ wk[w] = "fallback" /\ wk' = [wk EXCEPT ![w] = "inject"]
     \/ wk[w] = "fallback" /\ wk' = [wk EXCEPT ![w] = "none"]
     \/ wk[w] = "inject" /\ (\E f \in DOMAIN inj : inj[f] # "closed")
                           /\ wk' = [wk EXCEPT ![w] = "note"]
     \/ wk[w] = "inject"   /\ wk' = [wk EXCEPT ![w] = "none"]
     \/ wk[w] = "note"     /\ wk' = [wk EXCEPT ![w] = "none"]
  /\ UNCHANGED <<fwVars, ctlVars, engVars, thr>>

-----------------------------------------------------------------------------
Calls == StartCall \/ StopCall \/ FreeCall \/ ToggleIpv6 \/ Relaunch

Starting == OpenInjector \/ InsertRule \/ InsertFails \/ RollbackRule
            \/ ApplyFails \/ NfqOpen \/ CreateQueue \/ SetMode \/ SetRunning
            \/ CreateThread

Stopping == Join \/ DestroyQueue \/ CloseHandle \/ RevertRule \/ RevertDone
            \/ CloseInjector

Receiving == ThreadEnter \/ ThreadCheck \/ ThreadServe \/ ThreadFails

Next == Calls \/ Starting \/ Stopping \/ Receiving
        \/ \E w \in Workers : WorkerStep(w)

\* A call that has begun goes on; the receive loop wakes up at least every
\* 200 ms (poll); both upstream queries time out (select).  Nobody has to
\* call the engine.
Fairness ==
  /\ WF_vars(Starting \/ Stopping)
  /\ WF_vars(Receiving)
  /\ \A w \in Workers : WF_vars(WorkerStep(w))

Spec     == Init /\ [][Next]_vars
FairSpec == Spec /\ Fairness

-----------------------------------------------------------------------------
(* Properties.                                                             *)

Resources == h \/ qh \/ rulesApplied \/ (\E f \in DOMAIN inj : inj[f] # "closed")

\* The families whose rules the running start/stop cycle installed.
Installed == {"iptables"} \cup
             (IF (ipv6 /\ ~toggled) \/ (~ipv6 /\ toggled)
              THEN {"ip6tables"} ELSE {})

\* Places of a call.
Working == pc \in {"nfq_open", "create_queue", "set_mode", "set_running",
                   "create_thread", "join", "destroy_queue", "close_handle"}
Serving == (pc = "idle" /\ running) \/ pc = "join"
Filling == pc \in {"apply", "rollback_down", "rollback_up"}

\* What is held at each place of a call: a resource is open, and a flag set,
\* at exactly these places (every error path of bd_engine_start included).
ControlInv ==
  /\ running => pc \in {"idle", "create_thread"}
  /\ pc = "create_thread" => running
  /\ threadStarted <=> Serving
  /\ thr # "none" <=> Serving
  /\ rulesApplied <=> \/ Working \/ Serving
                      \/ (pc = "revert" /\ caller = "engine")
  /\ qh => Serving \/ pc \in {"set_mode", "set_running", "create_thread",
                              "destroy_queue"}
  /\ Serving \/ pc \in {"set_mode", "set_running", "create_thread"} => qh
  /\ h => Serving \/ (Working /\ pc # "nfq_open")
  /\ qh \/ pc = "create_queue" => h
  /\ inj["fd4"] # "closed" <=> Serving \/ pc \notin {"idle", "injector", "freed"}
  /\ ~Serving /\ pc \in {"idle", "injector", "freed"} => inj["fd6"] = "closed"
  /\ Filling \/ (pc = "revert" /\ caller = "apply") \/ pc = "injector"
       => ~toggled
  /\ Filling \/ pc = "revert" => (bin = "ip6tables" => ipv6)
  /\ pc = "revert" /\ caller = "apply" => bin = "iptables"
  /\ pc = "apply" => idx >= 1
  /\ pc = "rollback_down" => idx <= kRuleCount
  /\ pc = "rollback_up" => idx >= 1

\* Chain b holds n of our rules, from number lo on, above what start found.
Holds(b, lo, n) == chain[b] = Above(lo, n, base[b])
Tracked(b)      == b = "iptables" \/ ~toggled \/ (rulesApplied /\ pc # "revert")

InPlace(b) == IF rulesApplied /\ b \in Installed THEN kRuleCount + 1 ELSE 0

BinShape(b) ==
  /\ pc = "apply" /\ b = bin         => Holds(b, kRuleCount + 3 - idx, idx - 1)
  /\ pc = "rollback_down" /\ b = bin => Holds(b, kRuleCount + 2 - idx, idx)
  /\ pc = "rollback_up" /\ b = bin   => Holds(b, 2, kRuleCount + 1 - idx)
  /\ Filling /\ b # bin =>
       Holds(b, 1, IF b = "iptables" THEN kRuleCount + 1 ELSE 0)
  /\ pc = "revert" /\ b = bin =>
       IF idx = 0 THEN Holds(b, 1, kRuleCount + 1)
                  ELSE Holds(b, 2, kRuleCount + 1 - idx)
  /\ pc = "revert" /\ b # bin =>
       Holds(b, 1, IF b = "iptables" THEN 0 ELSE InPlace(b))
  /\ ~Filling /\ pc # "revert" => Holds(b, 1, InPlace(b))

\* Which of our rules each chain holds above what start found there, at
\* every single iptables invocation of apply_for, its two rollbacks and
\* revert_for.  (The IPv6 chain is not tracked once a revert runs with
\* another cfg->ipv6 than the rules were applied with.)
ChainShape == \A b \in Bins : Tracked(b) => BinShape(b)

\* Outside a call a stopped engine has given everything back: the sockets,
\* the queue, the thread, and both OUTPUT chains are exactly as
\* bd_engine_start found them, whichever step of start failed -- unless
\* cfg->ipv6 was changed while the rules were in place, when only the IPv4
\* chain is certain (bd_iptables_revert, iptables.c).
Restored ==
  pc \in {"idle", "freed"} /\ ~running =>
    /\ ~Resources /\ ~threadStarted /\ thr = "none"
    /\ chain["iptables"] = base["iptables"]
    /\ ~toggled => chain["ip6tables"] = base["ip6tables"]

\* Outside a call a running engine is completely up: handle, queue, socket
\* and thread exist and the whole rule set, mark rule on top, lies above
\* what was there in every family it intercepts (bd_engine_start succeeds
\* entirely or not at all).
CompletelyUp ==
  pc = "idle" /\ running =>
    /\ h /\ qh /\ rulesApplied /\ threadStarted /\ thr # "none"
    /\ inj["fd4"] # "closed"
    /\ \A b \in Installed :
         chain[b] = Above(1, kRuleCount + 1, base[b])

\* The receive thread only ever runs over an open handle, a bound queue and
\* open sockets: stop joins it before closing anything it uses.
ThreadHasHandles ==
  thr \in {"enter", "check", "serve"} =>
    h /\ qh /\ inj["fd4"] # "closed" /\ threadStarted

\* While queue 100 is bound, a packet that carries our mark is accepted
\* before it reaches an NFQUEUE rule, in every family we intercept: the
\* mark rule goes in before the queue opens and goes out after it closes.
MarkSkipsQueue ==
  qh => \A b \in Installed, r \in NfqRules : ~Queued(chain[b], r, TRUE)

\* Even when deletions fail, start and stop never remove or reorder a rule
\* they did not insert: what was there before is still the chain's tail.
ForeignRulesKept ==
  \A b \in Bins : b = "iptables" \/ ~toggled =>
    \E n \in 0 .. kRuleCount + 1 :
      /\ Len(chain[b]) = n + Len(base[b])
      /\ \A i \in 1 .. Len(base[b]) : chain[b][n + i] = base[b][i]

\* bd_engine_start and bd_engine_stop always return: in particular the join
\* in stop is never stuck, because the receive loop re-reads `running'.
CallsReturn == pc \notin {"idle", "freed"} ~> pc \in {"idle", "freed"}

\* Our rules lie in a chain while nobody is bound to queue 100, so the
\* kernel drops every packet that matches one: from the first insertion of
\* apply_for to nfq_create_queue, and from nfq_destroy_queue to the last
\* deletion of revert_for.
Blackhole(b) == ~qh /\ chain[b] # base[b] /\ (b = "iptables" \/ ~toggled)

\* That window always closes by itself, with the queue bound or our rules
\* gone, on every error path of bd_engine_start and in bd_engine_stop.
BlackholeEnds == \A b \in Bins : Blackhole(b) ~> ~Blackhole(b)

\* Seen between two calls, the engine is one switch: the IPv4 chain gets the
\* whole rule set in one step and loses exactly that again, and a start that
\* fails, at whichever step, changes nothing.
AtRest    == pc \in {"idle", "freed"}
SwitchOut == INSTANCE Switch WITH
  Ours  <- OurRules,
  on    <- pc = "idle" /\ running,
  rules <- IF AtRest THEN chain["iptables"] ELSE base["iptables"]

AtomicSwitch == SwitchOut!SwitchSpec

\* What iptables.h promises of bd_iptables_revert: "Remove exactly the
\* rules installed by bd_iptables_apply()", in every stopped state.
RevertsExactly == pc = "idle" /\ ~running => chain = base

\* What run_headless promises: "so the engine (and its worker threads) shut
\* down cleanly" -- no worker is left when the engine is freed.
WorkersShutDown == pc = "freed" => \A w \in Workers : wk[w] = "none"

=============================================================================
