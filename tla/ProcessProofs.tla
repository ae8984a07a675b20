---------------------------- MODULE ProcessProofs ---------------------------
(***************************************************************************)
(* Proofs about whole processes, one after the other on one machine, for   *)
(* every rule table and every chain the first of them finds: what a        *)
(* process that was not killed leaves in the OUTPUT chains.  Deletions of  *)
(* rules that are present are assumed to succeed; processes may be killed  *)
(* at any moment and leave any part of their rules behind.                 *)
(***************************************************************************)
EXTENDS Process, EngineProofs

-----------------------------------------------------------------------------
(* The inductive invariant.                                                *)

\* No call of the engine is under way and nothing runs.
Quiet == pc \in {"idle", "freed"} /\ ~running

\* This process has not called bd_engine_start yet.  (The ghost `base' may
\* still be that of a process killed before, so ChainShape need not hold.)
Fresh == Quiet /\ chain = found

\* It has: the chains have the shape of the place reached above what the
\* start found, which is what the process found, in the IPv4 chain at least.
Used ==
  /\ ChainShape
  /\ base["iptables"] = found["iptables"]
  /\ RunsHeadless => base = found /\ ~toggled

\* The places of main() before the engine is called for the first time.
Before == {"main", "switch", "new", "start"}

\* The conjuncts of the invariant that speak of the process.  A headless
\* process has the signals blocked from main()'s switch on.
DeadInv   == place = "dead" => Quiet /\ HeadlessLeavesNoRules /\ LeftoversSurvive
BeforeInv == place \in Before => Fresh
LiveInv   == place # "dead" => Fresh \/ Used
MaskInv   == place \notin {"main", "switch", "dead"} /\ RunsHeadless => masked
LoopInv   == place = "loop" => ~RunsHeadless

ProcInv == DeadInv /\ BeforeInv /\ LiveInv /\ MaskInv /\ LoopInv

-----------------------------------------------------------------------------
(* What the invariant says of the chains.                                  *)

\* Wherever a call of the engine is, the IPv4 chain is a run of our rules
\* above what the start found.
LEMMA RunAboveBase ==
  ASSUME TypeOK, ControlInv, ChainShape
  PROVE  \E lo \in Nat \ {0}, n \in 0 .. kRuleCount + 1 :
           lo + n <= kRuleCount + 2 /\ Holds("iptables", lo, n)
<1> DEFINE b == "iptables"
<1>1. BinShape(b) /\ kRuleCount \in Nat /\ idx \in 0 .. kRuleCount + 1 /\ b \in Bins
  BY RuleTypes DEF ChainShape, Tracked, Bins, TypeOK
<1>2. CASE pc = "apply" /\ b = bin
  <2>1. idx >= 1
    BY <1>2 DEF ControlInv
  <2> QED BY <1>1, <1>2, <2>1 DEF BinShape
<1>3. CASE pc = "rollback_down" /\ b = bin
  <2>1. idx <= kRuleCount
    BY <1>3 DEF ControlInv
  <2> QED BY <1>1, <1>3, <2>1 DEF BinShape
<1>4. CASE pc = "rollback_up" /\ b = bin
  <2>1. idx >= 1
    BY <1>4 DEF ControlInv
  <2> QED BY <1>1, <1>4, <2>1 DEF BinShape
<1>5. CASE Filling /\ b # bin
  BY <1>1, <1>5 DEF BinShape
<1>6. CASE pc = "revert" /\ b = bin
  BY <1>1, <1>6 DEF BinShape
<1>7. CASE pc = "revert" /\ b # bin
  BY <1>1, <1>7 DEF BinShape
<1>8. CASE ~Filling /\ pc # "revert"
  BY <1>1, <1>8 DEF BinShape, InPlace
<1> QED BY <1>2, <1>3, <1>4, <1>5, <1>6, <1>7, <1>8 DEF Filling

\* What LeftoversSurvive says of a process that is not killed.
FoundIsTail ==
  \E n \in 0 .. kRuleCount + 1 :
    /\ Len(chain["iptables"]) = n + Len(found["iptables"])
    /\ \A i \in 1 .. Len(found["iptables"]) :
         chain["iptables"][n + i] = found["iptables"][i]

\* So what a living process found is the tail of the IPv4 chain.
LEMMA LiveTail ==
  ASSUME TypeOK, ControlInv, Fresh \/ Used PROVE FoundIsTail
<1> DEFINE c == chain["iptables"]
           f == found["iptables"]
<1>1. c \in Seq(Rules) /\ base["iptables"] \in Seq(Rules) /\ kRuleCount \in Nat
  BY RuleTypes DEF TypeOK, Bins
<1>2. \E n \in 0 .. kRuleCount + 1 :
        Len(c) = n + Len(f) /\ \A i \in 1 .. Len(f) : c[n + i] = f[i]
  <2>1. CASE Fresh
    <3>1. f = c /\ Len(c) \in Nat
      BY <1>1, <2>1 DEF Fresh
    <3>2. 0 \in 0 .. kRuleCount + 1
      BY <1>1
    <3>3. Len(c) = 0 + Len(f) /\ \A i \in 1 .. Len(f) : c[0 + i] = f[i]
      BY <3>1
    <3> HIDE DEF c, f
    <3> QED BY <3>2, <3>3
  <2>2. CASE Used
    <3>1. PICK lo \in Nat \ {0}, n \in 0 .. kRuleCount + 1 :
            lo + n <= kRuleCount + 2 /\ Holds("iptables", lo, n)
      BY <2>2, RunAboveBase DEF Used
    <3>2. f \in Seq(Rules) /\ c = Above(lo, n, f) /\ n \in Nat /\ Len(f) \in Nat
      BY <1>1, <2>2, <3>1 DEF Used, Holds
    <3> HIDE DEF c, f
    <3>3. /\ Len(c) = n + Len(f)
          /\ \A i \in n + 1 .. n + Len(f) : c[i] = f[i - n]
      BY <3>1, <3>2, AboveShape
    <3>4. ASSUME NEW i \in 1 .. Len(f) PROVE c[n + i] = f[i]
      <4>1. n + i \in n + 1 .. n + Len(f) /\ (n + i) - n = i
        BY <3>2
      <4> QED BY <3>3, <4>1
    <3> QED BY <3>3, <3>4
  <2> QED BY <2>1, <2>2
<1> QED BY <1>2 DEF FoundIsTail

\* Between two calls a stopped engine's process has the IPv4 chain it found,
\* and both chains if it is headless.
LEMMA QuietChains ==
  ASSUME TypeOK, ControlInv, Quiet, Fresh \/ Used
  PROVE  /\ chain["iptables"] = found["iptables"]
         /\ RunsHeadless => chain = found
<1>1. CASE Fresh
  BY <1>1 DEF Fresh
<1>2. CASE Used
  <2>1. Restored
    BY <1>2, ShapeRestores DEF Used
  <2>2. /\ chain["iptables"] = base["iptables"]
        /\ ~toggled => chain["ip6tables"] = base["ip6tables"]
    BY <2>1 DEF Restored, Quiet
  <2>3. ~toggled => chain = base
    BY <2>2 DEF TypeOK, Bins
  <2> QED BY <1>2, <2>2, <2>3 DEF Used
<1> QED BY <1>1, <1>2

-----------------------------------------------------------------------------
(* The engine's steps within a process.                                    *)

\* On a quiet engine only a DNS worker can move: it touches no chain.
LEMMA QuietSteps ==
  ASSUME TypeOK, ControlInv, Quiet, EngineSteps
  PROVE  UNCHANGED <<fwVars, ctlVars, engVars>>
<1>1. ~Starting /\ ~Stopping
  BY DEF Quiet, Starting, Stopping, OpenInjector, InsertRule, InsertFails,
     RollbackRule, ApplyFails, NfqOpen, CreateQueue, SetMode, SetRunning,
     CreateThread, Join, DestroyQueue, CloseHandle, RevertRule, RevertDone,
     CloseInjector
<1>2. thr = "none"
  BY DEF Quiet, ControlInv, Serving
<1>3. ~Receiving
  BY <1>2 DEF Receiving, ThreadEnter, ThreadCheck, ThreadServe, ThreadFails
<1>4. PICK w \in Workers : WorkerStep(w)
  BY <1>1, <1>3 DEF EngineSteps
<1> QED BY <1>4 DEF WorkerStep

\* A step of a call or of a thread keeps the shape; the chains the start
\* found are remembered.
LEMMA StepShape ==
  ASSUME ~DeleteMayFail, TypeOK, ControlInv, ChainShape, EngineSteps
  PROVE  ChainShape' /\ UNCHANGED <<base, toggled>>
<1>1. ChainShape'
  BY ShapeStarting, ShapeStopping, ShapeThreads DEF EngineSteps
<1>2. UNCHANGED <<base, toggled>>
  BY DEF EngineSteps, Starting, Stopping, Receiving, OpenInjector, InsertRule,
     InsertFails, RollbackRule, DeleteRule, ApplyFails, NfqOpen, CreateQueue,
     SetMode, SetRunning, CreateThread, Join, DestroyQueue, CloseHandle,
     RevertRule, RevertDone, CloseInjector, ThreadEnter, ThreadCheck,
     ThreadServe, ThreadFails, WorkerStep, fwVars
<1> QED BY <1>1, <1>2

\* bd_engine_start makes a new record of the chains, so the shape holds from
\* there on whatever an earlier process left behind.
LEMMA StartShape ==
  ASSUME TypeOK, ControlInv, StartCall
  PROVE  ChainShape' /\ base' = chain /\ ~toggled'
<1> SUFFICES ASSUME NEW b \in Bins PROVE BinShape(b)'
  BY DEF ChainShape, StartCall
<1>1. ~rulesApplied /\ ~rulesApplied'
  BY DEF StartCall, ControlInv, Serving, Working, engVars
<1>2. /\ Len(chain[b]) \in Nat /\ chain[b] \in Seq(Rules) /\ kRuleCount \in Nat
      /\ 1 \in 1 .. kRuleCount + 2
  BY RuleTypes DEF TypeOK
<1>3. Above(1, 0, chain[b]) = chain[b]
  BY <1>2, AboveNone
<1> QED BY <1>1, <1>3 DEF StartCall, BinShape, Holds, InPlace, Filling

\* A dying process's engine is a new one to the next process.
LEMMA DiesControl ==
  ASSUME TypeOK, Dies PROVE TypeOK' /\ ControlInv' /\ Quiet'
<1>1. inj' \in [{"fd4", "fd6"} -> Sockets] /\ wk' \in [Workers -> WorkerState]
  BY DEF Dies, Sockets, WorkerState
<1>2. TypeOK'
  BY <1>1, RuleTypes DEF Dies, TypeOK, PCs, Bins, ThreadState
<1>3. ControlInv'
  BY DEF Dies, ControlInv, Serving, Working, Filling
<1> QED BY <1>2, <1>3 DEF Dies, Quiet

\* The engine's types and what it holds where are kept by every step of
\* every process.
LEMMA ProcessControl ==
  ASSUME TypeOK, ControlInv, ProcInv, [ProcessNext]_allVars
  PROVE  TypeOK' /\ ControlInv'
<1> USE DEF procVars, allVars
<1>1. CASE Dies
  BY <1>1, DiesControl
<1>2. CASE Next \/ UNCHANGED vars
  BY <1>2, ControlStep
<1>3. CASE Launch
  <2>1. Quiet
    BY <1>3 DEF Launch, ProcInv, DeadInv
  <2> QED BY <1>3, <2>1 DEF Launch, Quiet, TypeOK, ControlInv, Serving, Working,
                            Filling, ctlVars, engVars
<1>4. CASE ParseArgs
  <2>1. Quiet
    BY <1>4 DEF ParseArgs, ProcInv, BeforeInv, Before, Fresh
  <2> QED BY <1>4, <2>1 DEF ParseArgs, Quiet, TypeOK, ControlInv, Serving, Working,
                            Filling, ctlVars, engVars
<1>5. Dies \/ Next \/ UNCHANGED vars \/ Launch \/ ParseArgs
  BY DEF ProcessNext, Headless, EngineSteps, Signal, Kill, Main, EngineNew,
     HeadlessStart, StartReturned, SigWait, HeadlessStop, StopReturned, Free,
     Exit, GuiSwitch, GuiIpv6, GuiQuit, Next, Calls
<1> QED BY <1>1, <1>2, <1>3, <1>4, <1>5

-----------------------------------------------------------------------------
(* The process's own steps.                                                *)

\* The first process of the machine.
LEMMA ProcessInitInv == ProcessInit => TypeOK /\ ControlInv /\ ProcInv
<1> SUFFICES ASSUME ProcessInit PROVE TypeOK /\ ControlInv /\ ProcInv
  OBVIOUS
<1>1. TypeOK /\ ControlInv
  BY TypeInit, ControlInit DEF ProcessInit
<1>2. Fresh
  BY DEF ProcessInit, Init, NewEngine, Fresh, Quiet
<1>3. place = "main"
  BY DEF ProcessInit
<1> QED BY <1>1, <1>2, <1>3
        DEF ProcInv, DeadInv, BeforeInv, LiveInv, MaskInv, LoopInv

\* A process that ends has kept the promises about dead processes, if it was
\* killed, or runs the GUI, or leaves the chains it found.
LEMMA EndsWell ==
  ASSUME TypeOK, ControlInv, ProcInv, place # "dead",
         killed' \/ (RunsHeadless => chain = found),
         place' = "dead", Quiet', UNCHANGED <<chain, found, have_gui, mode>>
  PROVE  ProcInv'
<1>1. FoundIsTail
  BY LiveTail DEF ProcInv, LiveInv
<1>2. LeftoversSurvive'
  BY <1>1 DEF FoundIsTail, LeftoversSurvive
<1>3. HeadlessLeavesNoRules'
  BY DEF HeadlessLeavesNoRules, RunsHeadless
<1> QED BY <1>2, <1>3
        DEF ProcInv, DeadInv, BeforeInv, LiveInv, MaskInv, LoopInv, Before

\* bd_engine_start begins from the chain the process found: nothing of an
\* earlier start of its own is left in it.
LEMMA StartUsed ==
  ASSUME TypeOK, ControlInv, Fresh \/ Used, StartCall,
         UNCHANGED <<found, have_gui, mode>>
  PROVE  Used'
<1>1. Quiet
  BY DEF StartCall, Quiet
<1>2. /\ chain["iptables"] = found["iptables"]
      /\ RunsHeadless => chain = found
  BY <1>1, QuietChains
<1>3. ChainShape' /\ base' = chain /\ ~toggled'
  BY StartShape
<1> QED BY <1>2, <1>3 DEF Used, RunsHeadless

\* The other calls leave a process before its first start, or after it.
LEMMA CallLive ==
  ASSUME TypeOK, ControlInv, Fresh \/ Used,
         StopCall \/ FreeCall \/ (ToggleIpv6 /\ ~RunsHeadless),
         UNCHANGED <<found, have_gui, mode>>
  PROVE  (Fresh \/ Used)'
<1>1. CASE Fresh
  <2>1. ~threadStarted /\ ~running
    BY <1>1 DEF Fresh, Quiet, ControlInv, Serving
  <2>2. ~StopCall
    BY <2>1 DEF StopCall
  <2> QED BY <1>1, <2>1, <2>2
          DEF Fresh, Quiet, FreeCall, ToggleIpv6, fwVars, ctlVars, engVars
<1>2. CASE Used
  <2>1. ChainShape'
    BY <1>2, ShapeCalls DEF Used, Calls
  <2>2. UNCHANGED base
    BY DEF StopCall, FreeCall, ToggleIpv6, fwVars
  <2>3. RunsHeadless => UNCHANGED toggled
    BY DEF StopCall, FreeCall, fwVars
  <2> QED BY <1>2, <2>1, <2>2, <2>3 DEF Used, RunsHeadless
<1> QED BY <1>1, <1>2

\* So do the steps of a call and of the threads.
LEMMA StepLive ==
  ASSUME ~DeleteMayFail, TypeOK, ControlInv, EngineSteps, UNCHANGED procVars
  PROVE  /\ Quiet => Quiet' /\ chain' = chain
         /\ Fresh => Fresh'
         /\ Used => Used'
<1>1. ASSUME Quiet PROVE Quiet' /\ chain' = chain
  BY <1>1, QuietSteps DEF Quiet, fwVars, ctlVars, engVars
<1>2. ASSUME Fresh PROVE Fresh'
  BY <1>1, <1>2 DEF Fresh, procVars
<1>3. ASSUME Used PROVE Used'
  BY <1>3, StepShape DEF Used, RunsHeadless, procVars
<1> QED BY <1>1, <1>2, <1>3

\* A signal, a kill or the end of main().
LEMMA EndingInv ==
  ASSUME TypeOK, ControlInv, ProcInv, Signal \/ Kill \/ Exit
  PROVE  ProcInv'
<1> USE DEF ProcInv, DeadInv, BeforeInv, LiveInv, MaskInv, LoopInv
<1>1. CASE Signal /\ masked
  <2>1. UNCHANGED <<vars, have_gui, mode, place, masked, found, killed>>
    BY <1>1 DEF Signal
  <2>2. /\ Quiet' = Quiet /\ Fresh' = Fresh /\ RunsHeadless' = RunsHeadless
        /\ LeftoversSurvive' = LeftoversSurvive
        /\ HeadlessLeavesNoRules' = HeadlessLeavesNoRules
    BY <2>1 DEF vars, fwVars, ctlVars, engVars, Quiet, Fresh, RunsHeadless,
                LeftoversSurvive, HeadlessLeavesNoRules
  <2>3. Used' = Used
    BY <2>1 DEF vars, fwVars, ctlVars, engVars, Used, RunsHeadless, ChainShape,
                BinShape, Holds, Tracked, InPlace, Installed, Filling
  <2> QED BY <2>1, <2>2, <2>3
<1>2. CASE Signal /\ ~masked
  <2>1. /\ place # "dead" /\ Dies
    BY <1>2 DEF Signal
  <2>2. RunsHeadless => chain = found
    BY <1>2, <2>1 DEF Before, Fresh
  <2> QED BY <2>1, <2>2, DiesControl, EndsWell DEF Dies
<1>3. CASE Kill
  BY <1>3, DiesControl, EndsWell DEF Kill, Dies
<1>4. CASE Exit
  <2>1. Quiet
    BY <1>4 DEF Exit, ControlInv, Quiet
  <2>2. place # "dead" /\ (RunsHeadless => chain = found)
    BY <1>4, <2>1, QuietChains DEF Exit
  <2> QED BY <1>4, <2>2, DiesControl, EndsWell DEF Exit, Dies
<1> QED BY <1>1, <1>2, <1>3, <1>4

\* The steps of main() up to the first call of the engine.
LEMMA BeginningInv ==
  ASSUME TypeOK, ControlInv, ProcInv, Launch \/ ParseArgs \/ Main \/ EngineNew
  PROVE  ProcInv'
<1> USE DEF ProcInv, DeadInv, BeforeInv, LiveInv, MaskInv, LoopInv, Before
<1>1. CASE Launch
  BY <1>1 DEF Launch, Quiet, Fresh, ctlVars, engVars
<1>2. CASE ParseArgs
  <2>1. Fresh /\ place = "main"
    BY <1>2 DEF ParseArgs
  <2>2. Fresh'
    BY <1>2, <2>1 DEF ParseArgs, Fresh, Quiet, ctlVars, engVars
  <2>3. CASE place' = "switch"
    BY <2>2, <2>3
  <2>4. CASE place' = "dead" /\ UNCHANGED mode
    <3>1. UNCHANGED <<chain, found, have_gui>>
      BY <1>2 DEF ParseArgs
    <3> QED BY <2>1, <2>2, <2>4, <3>1, EndsWell DEF Fresh
  <2> QED BY <1>2, <2>3, <2>4 DEF ParseArgs
<1>3. CASE Main
  <2>1. Fresh /\ place = "switch"
    BY <1>3 DEF Main
  <2>2. Fresh' /\ RunsHeadless' = RunsHeadless
    BY <1>3, <2>1 DEF Main, Fresh, Quiet, RunsHeadless, vars, fwVars, ctlVars,
                      engVars
  <2> QED BY <1>3, <2>2 DEF Main
<1>4. CASE EngineNew
  <2>1. Fresh /\ place = "new"
    BY <1>4 DEF EngineNew
  <2>2. Fresh' /\ RunsHeadless' = RunsHeadless
    BY <1>4, <2>1 DEF EngineNew, Fresh, Quiet, RunsHeadless, vars, fwVars,
                      ctlVars, engVars
  <2>3. CASE place' = "start"
    BY <1>4, <2>1, <2>2, <2>3 DEF EngineNew
  <2>4. CASE place' = "dead"
    <3>1. UNCHANGED <<chain, found, have_gui, mode>>
      BY <1>4 DEF EngineNew, vars, fwVars
    <3> QED BY <2>1, <2>2, <2>4, <3>1, EndsWell DEF Fresh
  <2> QED BY <1>4, <2>3, <2>4 DEF EngineNew
<1> QED BY <1>1, <1>2, <1>3, <1>4

\* The steps of main() that only wait for the engine.
Waiting == StartReturned \/ SigWait \/ StopReturned

\* The rest of run_headless and the GUI's callbacks.
LEMMA RunningInv ==
  ASSUME TypeOK, ControlInv, ProcInv,
         \/ HeadlessStart \/ HeadlessStop \/ Free \/ Waiting
         \/ GuiSwitch \/ GuiIpv6 \/ GuiQuit
  PROVE  ProcInv'
<1>1. /\ place \notin {"main", "switch", "new", "dead"}
      /\ place' \notin {"main", "switch", "new", "start", "dead"}
      /\ UNCHANGED <<have_gui, mode, masked, found>>
      /\ place' = "loop" => place = "loop"
  BY DEF HeadlessStart, HeadlessStop, Free, Waiting, StartReturned, SigWait,
         StopReturned, GuiSwitch, GuiIpv6, GuiQuit, procVars
<1>2. Fresh \/ Used
  BY <1>1 DEF ProcInv, LiveInv
<1>3. (Fresh \/ Used)'
  <2>1. CASE StartCall
    BY <1>1, <1>2, <2>1, StartUsed
  <2>2. CASE StopCall \/ FreeCall
    BY <1>1, <1>2, <2>2, CallLive
  <2>3. CASE GuiIpv6
    <3>1. ToggleIpv6 /\ ~RunsHeadless
      BY <2>3 DEF GuiIpv6, ProcInv, LoopInv
    <3> QED BY <1>1, <1>2, <3>1, CallLive
  <2>4. CASE UNCHANGED vars
    <3>1. Fresh' = Fresh
      BY <1>1, <2>4 DEF vars, fwVars, ctlVars, engVars, Fresh, Quiet
    <3>2. Used' = Used
      BY <1>1, <2>4 DEF vars, fwVars, ctlVars, engVars, Used, RunsHeadless,
         ChainShape, BinShape, Holds, Tracked, InPlace, Installed, Filling
    <3> QED BY <1>2, <3>1, <3>2
  <2> QED BY <2>1, <2>2, <2>3, <2>4
          DEF HeadlessStart, HeadlessStop, Free, Waiting, StartReturned, SigWait,
              StopReturned, GuiSwitch, GuiQuit
<1>4. RunsHeadless' = RunsHeadless
  BY <1>1 DEF RunsHeadless
<1> QED BY <1>1, <1>3, <1>4
        DEF ProcInv, DeadInv, BeforeInv, LiveInv, MaskInv, LoopInv, Before

\* The steps of the engine's own threads and calls.
LEMMA EngineStepInv ==
  ASSUME ~DeleteMayFail, TypeOK, ControlInv, ProcInv, EngineSteps,
         UNCHANGED procVars
  PROVE  ProcInv'
<1>1. RunsHeadless' = RunsHeadless
  BY DEF RunsHeadless, procVars
<1>2. DeadInv'
  <2> SUFFICES ASSUME place = "dead"
               PROVE  Quiet' /\ HeadlessLeavesNoRules' /\ LeftoversSurvive'
    BY DEF DeadInv, procVars
  <2>1. Quiet' /\ chain' = chain
    BY StepLive DEF ProcInv, DeadInv
  <2> QED BY <1>1, <2>1 DEF ProcInv, DeadInv, HeadlessLeavesNoRules,
                            LeftoversSurvive, procVars
<1>3. BeforeInv' /\ LiveInv'
  BY StepLive DEF ProcInv, BeforeInv, LiveInv, procVars
<1>4. MaskInv' /\ LoopInv'
  BY <1>1 DEF ProcInv, MaskInv, LoopInv, procVars
<1> QED BY <1>2, <1>3, <1>4 DEF ProcInv

\* A step that changes nothing.
LEMMA StutterInv ==
  ASSUME ProcInv, UNCHANGED allVars PROVE ProcInv'
<1>1. /\ Quiet' = Quiet /\ Fresh' = Fresh /\ RunsHeadless' = RunsHeadless
      /\ LeftoversSurvive' = LeftoversSurvive
      /\ HeadlessLeavesNoRules' = HeadlessLeavesNoRules
  BY DEF allVars, procVars, vars, fwVars, ctlVars, engVars, Quiet, Fresh,
         RunsHeadless, LeftoversSurvive, HeadlessLeavesNoRules
<1>2. Used' = Used
  BY DEF allVars, procVars, vars, fwVars, ctlVars, engVars, Used, RunsHeadless,
         ChainShape, BinShape, Holds, Tracked, InPlace, Installed, Filling
<1> QED BY <1>1, <1>2 DEF allVars, procVars, ProcInv, DeadInv, BeforeInv, LiveInv,
                          MaskInv, LoopInv

\* Every step of every process keeps the invariant.
LEMMA ProcessStep ==
  ASSUME ~DeleteMayFail, TypeOK, ControlInv, ProcInv, [ProcessNext]_allVars
  PROVE  TypeOK' /\ ControlInv' /\ ProcInv'
<1>1. TypeOK' /\ ControlInv'
  BY ProcessControl
<1>2. CASE ProcessNext
  BY <1>1, <1>2, EndingInv, BeginningInv, RunningInv, EngineStepInv
     DEF ProcessNext, Headless, Waiting
<1>3. CASE UNCHANGED allVars
  BY <1>1, <1>3, StutterInv
<1> QED BY <1>1, <1>2, <1>3

\* It is an invariant of every sequence of processes.
LEMMA ProcessInductive ==
  ASSUME ~DeleteMayFail
  PROVE  ProcessSpec => [](TypeOK /\ ControlInv /\ ProcInv)
<1>1. (TypeOK /\ ControlInv /\ ProcInv) /\ [ProcessNext]_allVars
        => (TypeOK /\ ControlInv /\ ProcInv)'
  BY ProcessStep
<1> QED BY <1>1, ProcessInitInv, PTL DEF ProcessSpec

-----------------------------------------------------------------------------
(* The theorems.                                                           *)

\* A headless process that ends, by a signal at any moment, a failed start
\* or a second signal during the shutdown, but not by SIGKILL, leaves both
\* OUTPUT chains as it found them (run_headless, main.c).
THEOREM HeadlessCorrect ==
  ASSUME ~DeleteMayFail PROVE ProcessSpec => []HeadlessLeavesNoRules
<1>1. ProcInv => HeadlessLeavesNoRules
  BY DEF ProcInv, DeadInv, HeadlessLeavesNoRules
<1> QED BY <1>1, ProcessInductive, PTL

\* Whatever rules killed processes left, a process that is not killed never
\* removes a rule it found from the IPv4 chain (revert_for deletes by
\* content, and the newest equal rule is its own).
THEOREM LeftoversCorrect ==
  ASSUME ~DeleteMayFail PROVE ProcessSpec => []LeftoversSurvive
<1>1. TypeOK /\ ControlInv /\ ProcInv => LeftoversSurvive
  <2> SUFFICES ASSUME TypeOK, ControlInv, ProcInv, place # "dead"
               PROVE  LeftoversSurvive
    BY DEF ProcInv, DeadInv
  <2>1. FoundIsTail
    BY LiveTail DEF ProcInv, LiveInv
  <2> QED BY <2>1 DEF FoundIsTail, LeftoversSurvive
<1> QED BY <1>1, ProcessInductive, PTL

=============================================================================
