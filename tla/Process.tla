------------------------------ MODULE Process -------------------------------
(***************************************************************************)
(* One Passewall process after another on one machine: main() and its two  *)
(* modes around the engine.  run_headless blocks SIGINT and SIGTERM before *)
(* it creates the engine and waits for them; bd_gui_run leaves them to     *)
(* their default action and calls the engine from GTK callbacks.  A        *)
(* process that dies takes its threads, sockets and queue with it (the     *)
(* kernel closes them), but not its rules.                                 *)
(***************************************************************************)
EXTENDS Engine

CONSTANTS
  Modes,     \* the values of cfg.mode the command lines ask for
  Builds,    \* the builds on the machine: HAVE_GUI or not
  KillMayHappen   \* a process may be killed outright (SIGKILL, a crash)

ASSUME ProcessAssumption ==
  /\ Modes \subseteq {"nogui", "gui", "tray"} /\ "gui" \in Modes
  /\ Builds \subseteq BOOLEAN /\ KillMayHappen \in BOOLEAN

VARIABLES
  have_gui,  \* the build of the running (or last) process
  mode,      \* its cfg.mode
  place,     \* where main() is ("loop": in bd_gui_run's main loop)
  masked,    \* SIGINT and SIGTERM are blocked
  pending,   \* one of them is pending
  found,     \* ghost: the chains when the process was launched
  killed     \* ghost: the process was ended by SIGKILL

procVars == <<have_gui, mode, place, masked, pending, found, killed>>
allVars  == <<vars, procVars>>

ProcessInit ==
  /\ Init
  /\ ipv6 = TRUE /\ have_gui \in Builds /\ mode = "gui" /\ place = "main"
  /\ masked = FALSE /\ pending = FALSE /\ killed = FALSE
  /\ found = chain

-----------------------------------------------------------------------------
(* Signals.                                                                *)

\* The process is gone: its engine's memory and descriptors with it.
Dies ==
  /\ place' = "dead" /\ pending' = FALSE
  /\ pc' = "idle" /\ bin' = "iptables" /\ idx' = 0 /\ caller' = "engine"
  /\ freeing' = FALSE /\ inj' = [fd4 |-> "closed", fd6 |-> "closed"]
  /\ h' = FALSE /\ qh' = FALSE /\ rulesApplied' = FALSE /\ running' = FALSE
  /\ threadStarted' = FALSE /\ thr' = "none"
  /\ wk' = [w \in Workers |-> "none"]
  /\ UNCHANGED <<chain, base, ipv6, toggled, have_gui, mode, masked, found>>

\* SIGINT or SIGTERM: pending while blocked, fatal otherwise.
Signal ==
  /\ place # "dead"
  /\ IF masked
     THEN pending' = TRUE /\ UNCHANGED <<vars, have_gui, mode, place, masked, found>>
     ELSE Dies
  /\ UNCHANGED killed

Kill ==
  /\ KillMayHappen /\ place # "dead"
  /\ Dies /\ killed' = TRUE

\* The next process on this machine: set_defaults.  (bd_engine_new is part of Dies.)
Launch ==
  /\ place = "dead"
  /\ \A b \in Bins : Len(chain[b]) <= MaxChain
  /\ place' = "main" /\ have_gui' \in Builds /\ mode' = "gui"
  /\ masked' = FALSE /\ pending' = FALSE /\ killed' = FALSE
  /\ found' = chain /\ ipv6' = TRUE
  /\ UNCHANGED <<chain, base, toggled, ctlVars, engVars, thr, wk>>

-----------------------------------------------------------------------------
(* main and run_headless.                                                  *)

\* parse_args: the options in the order given, the last mode winning; or
\* --help, --version, an unknown option or a --ttl out of range, which end
\* the program before it has touched anything.
ParseArgs ==
  /\ place = "main"
  /\ \/ mode' \in Modes /\ ipv6' \in {ipv6, FALSE} /\ place' = "switch"
     \/ place' = "dead" /\ UNCHANGED <<mode, ipv6>>
  /\ UNCHANGED <<chain, base, toggled, ctlVars, engVars, thr, wk, have_gui,
                 masked, pending, found, killed>>

\* A build without the GUI falls back to run_headless.
RunsHeadless == mode = "nogui" \/ ~have_gui

\* mutant of Main: the signals are not blocked
MainUnmasked ==
  /\ place = "switch"
  /\ place' = IF RunsHeadless THEN "new" ELSE "loop"
  /\ UNCHANGED <<vars, have_gui, mode, masked, pending, found, killed>>

\* preflight only prints; then the mode.
Main ==
  /\ place = "switch"
  /\ IF RunsHeadless
     THEN masked' = TRUE /\ place' = "new"
     ELSE place' = "loop" /\ UNCHANGED masked
  /\ UNCHANGED <<vars, have_gui, mode, pending, found, killed>>

\* bd_engine_new may fail: return 1.
EngineNew ==
  /\ place = "new"
  /\ place' \in {"start", "dead"}
  /\ UNCHANGED <<vars, have_gui, mode, masked, pending, found, killed>>

HeadlessStart ==
  /\ place = "start"
  /\ StartCall
  /\ place' = "starting"
  /\ UNCHANGED <<have_gui, mode, masked, pending, found, killed>>

\* mutant of StartReturned: a signal that came during the start is lost
StartReturnedForgets ==
  /\ place = "starting" /\ pc = "idle"
  /\ place' = IF running THEN "sigwait" ELSE "free"
  /\ pending' = FALSE
  /\ UNCHANGED <<vars, have_gui, mode, masked, found, killed>>

StartReturned ==
  /\ place = "starting" /\ pc = "idle"
  /\ place' = IF running THEN "sigwait" ELSE "free"
  /\ UNCHANGED <<vars, have_gui, mode, masked, pending, found, killed>>

\* sigwait consumes the signal; later ones stay pending.
SigWait ==
  /\ place = "sigwait" /\ pending
  /\ pending' = FALSE
  /\ place' = "stop"
  /\ UNCHANGED <<vars, have_gui, mode, masked, found, killed>>

HeadlessStop ==
  /\ place = "stop"
  /\ StopCall
  /\ place' = "stopping"
  /\ UNCHANGED <<have_gui, mode, masked, pending, found, killed>>

StopReturned ==
  /\ place \in {"stopping", "quitting"} /\ pc = "idle"
  /\ place' = "free"
  /\ UNCHANGED <<vars, have_gui, mode, masked, pending, found, killed>>

Free ==
  /\ place = "free"
  /\ FreeCall
  /\ place' = "exiting"
  /\ UNCHANGED <<have_gui, mode, masked, pending, found, killed>>

Exit ==
  /\ place = "exiting" /\ pc = "freed"
  /\ Dies
  /\ UNCHANGED killed

-----------------------------------------------------------------------------
(* bd_gui_run: while no engine call is under way the GTK thread may get    *)
(* any of these.                                                           *)

GuiSwitch ==
  /\ place = "loop"
  /\ StartCall \/ StopCall
  /\ UNCHANGED procVars

GuiIpv6 ==
  /\ place = "loop"
  /\ ToggleIpv6
  /\ UNCHANGED procVars

\* do_quit: stop the engine if it runs, leave the main loop.
GuiQuit ==
  /\ place = "loop" /\ pc = "idle"
  /\ IF running
     THEN StopCall /\ place' = "quitting"
     ELSE place' = "free" /\ UNCHANGED vars
  /\ UNCHANGED <<have_gui, mode, masked, pending, found, killed>>

-----------------------------------------------------------------------------
EngineSteps == Starting \/ Stopping \/ Receiving
               \/ \E w \in Workers : WorkerStep(w)

Headless == ParseArgs \/ Main \/ EngineNew \/ HeadlessStart \/ StartReturned \/ SigWait
            \/ HeadlessStop \/ StopReturned \/ Free \/ Exit

ProcessNext ==
  \/ Signal \/ Kill \/ Launch
  \/ Headless \/ GuiSwitch \/ GuiIpv6 \/ GuiQuit
  \/ EngineSteps /\ UNCHANGED procVars

\* The process's own steps go on; nobody has to send a signal, launch a
\* process or touch the window.
ProcessSpec == ProcessInit /\ [][ProcessNext]_allVars

ProcessFairSpec ==
  /\ ProcessSpec
  /\ WF_allVars(Headless)
  /\ WF_allVars((Starting \/ Stopping) /\ UNCHANGED procVars)
  /\ WF_allVars(Receiving /\ UNCHANGED procVars)

-----------------------------------------------------------------------------
(* Properties.                                                             *)

\* A headless process that ends -- by a signal at any moment, by a failed
\* start, by a second signal during the shutdown, anything but SIGKILL --
\* leaves both OUTPUT chains exactly as it found them.
HeadlessLeavesNoRules ==
  place = "dead" /\ RunsHeadless /\ ~killed => chain = found

\* Whatever processes were killed before and whatever rules they left, a
\* process that is not killed never removes a rule it found: what it found
\* stays the tail of the IPv4 chain.
LeftoversSurvive ==
  ~killed => \E n \in 0 .. kRuleCount + 1 :
    /\ Len(chain["iptables"]) = n + Len(found["iptables"])
    /\ \A i \in 1 .. Len(found["iptables"]) :
         chain["iptables"][n + i] = found["iptables"][i]

\* SIGINT or SIGTERM, once sent to a headless process, ends it: a signal
\* during bd_engine_start stays pending until sigwait takes it.
SignalEnds == masked /\ pending ~> place = "dead"

\* What CHANGELOG.md says of the program: it "removes exactly those rules on
\* exit (SIGINT/SIGTERM) or when the bypass is toggled off".  So a process
\* whose bypass is on, all of bd_engine_start done, and that ends otherwise
\* than by SIGKILL has its chain as it found it.
RemovedOnSignal ==
  [][running /\ pc = "idle" /\ place' = "dead" /\ ~killed'
     => chain'["iptables"] = found["iptables"]]_allVars

=============================================================================
