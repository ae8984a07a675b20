---------------------------- MODULE EngineProofs ----------------------------
(***************************************************************************)
(* Proofs about the engine's lifecycle, for every rule table, every number *)
(* of DNS workers and every chain a process may find.                      *)
(***************************************************************************)
EXTENDS Engine, FirewallProofs

\* The rules that apply_for and revert_for name are known rules.
LEMMA RuleTypes ==
  /\ kRuleCount \in Nat /\ 0 \in 0 .. kRuleCount + 1
  /\ MarkRule \in Rules
  /\ \A i \in 1 .. kRuleCount : kRules[i] \in Rules
BY RuleTableAssumption DEF Rules, kRuleCount

\* A new engine (bd_engine_new) has every variable in its type.
LEMMA TypeInit == Init => TypeOK
<1> SUFFICES ASSUME Init PROVE TypeOK
  OBVIOUS
<1>1. chain \in [Bins -> Seq(Rules)] /\ base \in [Bins -> Seq(Rules)]
  BY EngineAssumption DEF Init
<1>2. inj \in [{"fd4", "fd6"} -> Sockets]
  BY DEF Init, NewEngine, Sockets
<1>3. wk \in [Workers -> WorkerState]
  BY DEF Init, NewEngine, WorkerState
<1> QED BY <1>1, <1>2, <1>3, RuleTypes
        DEF Init, NewEngine, TypeOK, PCs, Bins, ThreadState

\* So has one whose functions are called, or whose cfg->ipv6 is switched.
LEMMA TypeCalls == TypeOK /\ Calls => TypeOK'
<1> SUFFICES ASSUME TypeOK, Calls PROVE TypeOK'
  OBVIOUS
<1> USE DEF TypeOK, vars, fwVars, ctlVars, engVars
<1>1. CASE StartCall BY <1>1 DEF StartCall, PCs
<1>2. CASE StopCall BY <1>2 DEF StopCall, PCs
<1>3. CASE FreeCall BY <1>3 DEF FreeCall, PCs
<1>4. CASE ToggleIpv6 BY <1>4 DEF ToggleIpv6
<1>5. CASE Relaunch BY <1>5 DEF Relaunch, PCs, WorkerState
<1> QED BY <1>1, <1>2, <1>3, <1>4, <1>5 DEF Calls

\* One "iptables -D" leaves chains of known rules.
LEMMA TypeDelete ==
  ASSUME TypeOK, NEW r, DeleteRule(r)
  PROVE  /\ chain' \in [Bins -> Seq(Rules)] /\ base' \in [Bins -> Seq(Rules)]
         /\ ipv6' \in BOOLEAN /\ toggled' \in BOOLEAN
<1>1. chain \in [Bins -> Seq(Rules)] /\ bin \in Bins
  BY DEF TypeOK
<1>2. Delete(chain[bin], r) \in Seq(Rules)
  BY <1>1, DeleteType
<1>3. chain' \in [Bins -> Seq(Rules)]
  BY <1>1, <1>2 DEF DeleteRule
<1> QED BY <1>3 DEF DeleteRule, TypeOK

\* Every step of bd_engine_start keeps every variable in its type.
LEMMA TypeStarting == TypeOK /\ ControlInv /\ Starting => TypeOK'
<1> SUFFICES ASSUME TypeOK, ControlInv, Starting PROVE TypeOK'
  OBVIOUS
<1>1. CASE OpenInjector
  BY <1>1, RuleTypes DEF TypeOK, OpenInjector, PCs, Bins, Sockets, fwVars
<1>2. CASE InsertRule
  <2>1. RuleAt(idx) \in Rules
    BY <1>2, RuleTypes DEF TypeOK, ControlInv, RuleAt, InsertRule
  <2>2. Insert(chain[bin], RuleAt(idx)) \in Seq(Rules)
    BY <2>1, InsertsOnTop DEF TypeOK
  <2>3. chain' \in [Bins -> Seq(Rules)]
    BY <1>2, <2>2 DEF InsertRule, TypeOK
  <2>4. CASE idx <= kRuleCount
    BY <1>2, <2>3, <2>4, RuleTypes DEF TypeOK, InsertRule
  <2>5. CASE ~(idx <= kRuleCount) /\ bin = "iptables" /\ ipv6
    BY <1>2, <2>3, <2>5, RuleTypes DEF TypeOK, InsertRule, Applied, Bins
  <2>6. CASE ~(idx <= kRuleCount) /\ ~(bin = "iptables" /\ ipv6)
    BY <1>2, <2>3, <2>6 DEF TypeOK, InsertRule, Applied, PCs
  <2> QED BY <2>4, <2>5, <2>6
<1>3. CASE InsertFails
  BY <1>3, RuleTypes DEF TypeOK, ControlInv, InsertFails, PCs, fwVars, engVars
<1>4. CASE RollbackRule
  BY <1>4, TypeDelete, RuleTypes DEF TypeOK, RollbackRule, engVars
<1>5. CASE ApplyFails
  BY <1>5, RuleTypes DEF TypeOK, ApplyFails, PCs, Bins, fwVars, engVars
<1>6. CASE NfqOpen
  BY <1>6 DEF TypeOK, NfqOpen, PCs, fwVars
<1>7. CASE CreateQueue
  BY <1>7 DEF TypeOK, CreateQueue, PCs, fwVars
<1>8. CASE SetMode
  BY <1>8 DEF TypeOK, SetMode, PCs, fwVars, engVars
<1>9. CASE SetRunning
  BY <1>9 DEF TypeOK, SetRunning, PCs, fwVars
<1>10. CASE CreateThread
  BY <1>10, ZenonT(30) DEF TypeOK, CreateThread, PCs, ThreadState, fwVars
<1> QED BY <1>1, <1>2, <1>3, <1>4, <1>5, <1>6, <1>7, <1>8, <1>9, <1>10
        DEF Starting

\* Every step of bd_engine_stop keeps every variable in its type.
LEMMA TypeStopping == TypeOK /\ Stopping => TypeOK'
<1> SUFFICES ASSUME TypeOK, Stopping PROVE TypeOK'
  OBVIOUS
<1>1. CASE Join
  BY <1>1 DEF TypeOK, Join, PCs, ThreadState, fwVars
<1>2. CASE DestroyQueue
  BY <1>2 DEF TypeOK, DestroyQueue, PCs, fwVars
<1>3. CASE CloseHandle
  <2>1. CASE rulesApplied
    BY <1>3, <2>1, RuleTypes DEF TypeOK, CloseHandle, PCs, Bins, fwVars
  <2>2. CASE ~rulesApplied
    BY <1>3, <2>2 DEF TypeOK, CloseHandle, PCs, fwVars
  <2> QED BY <2>1, <2>2
<1>4. CASE RevertRule
  BY <1>4, TypeDelete, RuleTypes DEF TypeOK, RevertRule, engVars
<1>5. CASE RevertDone
  <2>1. CASE caller = "engine" /\ bin = "iptables" /\ ipv6
    BY <1>5, <2>1, RuleTypes DEF TypeOK, RevertDone, Bins, fwVars
  <2>2. CASE ~(caller = "engine" /\ bin = "iptables" /\ ipv6)
    BY <1>5, <2>2 DEF TypeOK, RevertDone, PCs, fwVars
  <2> QED BY <2>1, <2>2
<1>6. CASE CloseInjector
  BY <1>6 DEF TypeOK, CloseInjector, PCs, Sockets, fwVars
<1> QED BY <1>1, <1>2, <1>3, <1>4, <1>5, <1>6 DEF Stopping

\* So do the receive thread and the DNS workers.
LEMMA TypeThreads ==
  TypeOK /\ (Receiving \/ \E w \in Workers : WorkerStep(w)) => TypeOK'
<1> SUFFICES ASSUME TypeOK, Receiving \/ \E w \in Workers : WorkerStep(w)
             PROVE  TypeOK'
  OBVIOUS
<1> USE DEF TypeOK, fwVars, ctlVars, engVars
<1>1. CASE ThreadEnter BY <1>1 DEF ThreadEnter, ThreadState
<1>2. CASE ThreadCheck BY <1>2 DEF ThreadCheck, ThreadState
<1>3. CASE ThreadServe BY <1>3 DEF ThreadServe, ThreadState, WorkerState
<1>4. CASE ThreadFails BY <1>4 DEF ThreadFails, ThreadState
<1>5. CASE \E w \in Workers : WorkerStep(w)
  BY <1>5, ZenonT(30) DEF WorkerStep, WorkerState
<1> QED BY <1>1, <1>2, <1>3, <1>4, <1>5 DEF Receiving


-----------------------------------------------------------------------------
\* What each place of a call holds (ControlInv), one lemma per group of
\* actions.
LEMMA ControlInit == Init => ControlInv
BY DEF Init, NewEngine, ControlInv, Serving, Working, Filling

\* Calling a function of the engine keeps what is held where.
LEMMA ControlCalls == TypeOK /\ ControlInv /\ Calls => ControlInv'
<1> SUFFICES ASSUME TypeOK, ControlInv, Calls PROVE ControlInv'
  OBVIOUS
<1> USE DEF ControlInv, Serving, Working, Filling, fwVars, ctlVars, engVars
<1>1. CASE StartCall BY <1>1 DEF StartCall, TypeOK
<1>2. CASE StopCall BY <1>2 DEF StopCall, TypeOK
<1>3. CASE FreeCall BY <1>3 DEF FreeCall, TypeOK
<1>4. CASE ToggleIpv6 BY <1>4 DEF ToggleIpv6, TypeOK
<1>5. CASE Relaunch BY <1>5 DEF Relaunch, TypeOK
<1> QED BY <1>1, <1>2, <1>3, <1>4, <1>5 DEF Calls

\* So does every step of bd_engine_start, its error paths included.
LEMMA ControlStarting == TypeOK /\ ControlInv /\ Starting => ControlInv'
<1> SUFFICES ASSUME TypeOK, ControlInv, Starting PROVE ControlInv'
  OBVIOUS
<1> USE RuleTypes DEF ControlInv, Serving, Working, Filling, fwVars, ctlVars, engVars
<1>1. CASE OpenInjector BY <1>1 DEF OpenInjector, TypeOK
<1>2. CASE InsertRule BY <1>2 DEF InsertRule, Applied, TypeOK
<1>3. CASE InsertFails BY <1>3 DEF InsertFails, TypeOK
<1>4. CASE RollbackRule BY <1>4 DEF RollbackRule, DeleteRule, TypeOK
<1>5. CASE ApplyFails BY <1>5 DEF ApplyFails, TypeOK
<1>6. CASE NfqOpen BY <1>6 DEF NfqOpen, TypeOK
<1>7. CASE CreateQueue BY <1>7 DEF CreateQueue, TypeOK
<1>8. CASE SetMode BY <1>8 DEF SetMode, TypeOK
<1>9. CASE SetRunning BY <1>9 DEF SetRunning, TypeOK
<1>10. CASE CreateThread
  <2>1. CASE thr' = "enter" /\ threadStarted' = TRUE /\ pc' = "idle"
             /\ UNCHANGED running
    <3>1. running' = TRUE /\ running = TRUE
      BY <1>10, <2>1 DEF CreateThread, TypeOK
    <3> QED BY <1>10, <2>1, <3>1 DEF CreateThread, TypeOK
  <2>2. CASE running' = FALSE /\ pc' = "destroy_queue"
             /\ UNCHANGED <<thr, threadStarted>>
    <3>1. running' = FALSE
      BY <2>2
    <3> QED BY <1>10, <2>2, <3>1 DEF CreateThread, TypeOK
  <2> QED BY <1>10, <2>1, <2>2 DEF CreateThread
<1> QED BY <1>1, <1>2, <1>3, <1>4, <1>5, <1>6, <1>7, <1>8, <1>9, <1>10
        DEF Starting

\* So does every step of bd_engine_stop.
LEMMA ControlStopping == TypeOK /\ ControlInv /\ Stopping => ControlInv'
<1> SUFFICES ASSUME TypeOK, ControlInv, Stopping PROVE ControlInv'
  OBVIOUS
<1> USE RuleTypes DEF ControlInv, Serving, Working, Filling, fwVars, ctlVars, engVars
<1>1. CASE Join BY <1>1 DEF Join, TypeOK
<1>2. CASE DestroyQueue BY <1>2 DEF DestroyQueue, TypeOK
<1>3. CASE CloseHandle BY <1>3 DEF CloseHandle, TypeOK
<1>4. CASE RevertRule BY <1>4 DEF RevertRule, DeleteRule, TypeOK
<1>5. CASE RevertDone BY <1>5 DEF RevertDone, TypeOK
<1>6. CASE CloseInjector BY <1>6 DEF CloseInjector, TypeOK
<1> QED BY <1>1, <1>2, <1>3, <1>4, <1>5, <1>6 DEF Stopping

\* So does the receive thread, which may end by itself.
LEMMA ControlReceiving == TypeOK /\ ControlInv /\ Receiving => ControlInv'
<1> SUFFICES ASSUME TypeOK, ControlInv, Receiving PROVE ControlInv'
  OBVIOUS
<1> USE RuleTypes DEF ControlInv, Serving, Working, Filling, fwVars, ctlVars, engVars
<1>1. CASE ThreadEnter BY <1>1 DEF ThreadEnter, TypeOK
<1>2. CASE ThreadCheck BY <1>2 DEF ThreadCheck, TypeOK
<1>3. CASE ThreadServe BY <1>3 DEF ThreadServe, TypeOK
<1>4. CASE ThreadFails BY <1>4 DEF ThreadFails, TypeOK
<1> QED BY <1>1, <1>2, <1>3, <1>4 DEF Receiving

\* So do the DNS workers, which change nothing of the engine.
LEMMA ControlWorker ==
  ASSUME ControlInv, NEW w \in Workers, WorkerStep(w) PROVE ControlInv'
BY DEF ControlInv, Serving, Working, Filling, WorkerStep, fwVars, ctlVars, engVars

\* Type and control state together are kept by every step.
LEMMA ControlStep == TypeOK /\ ControlInv /\ [Next]_vars => TypeOK' /\ ControlInv'
<1> SUFFICES ASSUME TypeOK, ControlInv, [Next]_vars PROVE TypeOK' /\ ControlInv'
  OBVIOUS
<1>1. CASE Next
  BY <1>1, TypeCalls, TypeStarting, TypeStopping, TypeThreads, ControlCalls,
     ControlStarting, ControlStopping, ControlReceiving, ControlWorker DEF Next
<1>2. CASE UNCHANGED vars
  BY <1>2 DEF vars, fwVars, ctlVars, engVars, TypeOK, ControlInv, Serving,
              Working, Filling
<1> QED BY <1>1, <1>2

\* Type correctness of the engine: no step of start, stop, free or of the
\* threads leaves its loop index, place or handles outside their range, and
\* the chains stay chains of known rules.
THEOREM TypeCorrect == Spec => []TypeOK
BY TypeInit, ControlInit, ControlStep, PTL DEF Spec

\* At every place of start, stop and free, on success and on every error
\* path, exactly the expected resources are open and flags set (ControlInv).
THEOREM ControlCorrect == Spec => []ControlInv
BY TypeInit, ControlInit, ControlStep, PTL DEF Spec

\* The receive thread never runs over a closed handle, queue or socket.
THEOREM ThreadSafe == Spec => []ThreadHasHandles
<1>1. TypeOK /\ ControlInv => ThreadHasHandles
  BY DEF TypeOK, ControlInv, ThreadHasHandles, Serving, Working
<1> QED BY <1>1, TypeCorrect, ControlCorrect, PTL

-----------------------------------------------------------------------------
\* Which of our rules each chain holds (ChainShape), when the deletions of
\* present rules succeed.

\* The empty part of our rules, wherever it is cut, leaves the chain alone.
LEMMA HoldsNone ==
  ASSUME TypeOK, NEW b \in Bins
  PROVE  /\ Above(1, 0, base[b]) = base[b]
         /\ Above(2, 0, base[b]) = base[b]
         /\ Above(kRuleCount + 2, 0, base[b]) = base[b]
         /\ Above(1, 0, chain[b]) = chain[b]
<1>1. /\ base[b] \in Seq(Rules) /\ chain[b] \in Seq(Rules)
      /\ 1 \in 1 .. kRuleCount + 2 /\ 2 \in 1 .. kRuleCount + 2
      /\ kRuleCount + 2 \in 1 .. kRuleCount + 2
  BY RuleTypes DEF TypeOK
<1> QED BY <1>1, AboveNone

\* A new engine has inserted nothing.
LEMMA ShapeInit == Init => ChainShape
<1> SUFFICES ASSUME Init, NEW b \in Bins PROVE BinShape(b)
  BY DEF ChainShape
<1>1. TypeOK
  BY TypeInit
<1>2. Holds(b, 1, 0)
  BY <1>1, HoldsNone DEF Holds, Init
<1> QED BY <1>2 DEF BinShape, Init, NewEngine, InPlace, Filling

\* Calling a function of the engine leaves the chains as they are.
LEMMA ShapeCalls ==
  TypeOK /\ ControlInv /\ ChainShape /\ Calls => ChainShape'
<1> SUFFICES ASSUME TypeOK, ControlInv, ChainShape, Calls,
                    NEW b \in Bins, Tracked(b)'
             PROVE  BinShape(b)'
  BY DEF ChainShape
<1> USE HoldsNone DEF BinShape, Holds, Tracked, InPlace, Installed, Filling,
        ControlInv, Serving, Working, TypeOK, fwVars, ctlVars, engVars
<1>0. Tracked(b) => BinShape(b)
  BY DEF ChainShape
<1>1. CASE StartCall BY <1>0, <1>1 DEF StartCall
<1>2. CASE StopCall BY <1>0, <1>2 DEF StopCall
<1>3. CASE FreeCall BY <1>0, <1>3 DEF FreeCall
<1>4. CASE ToggleIpv6 BY <1>0, <1>4 DEF ToggleIpv6
<1>5. CASE Relaunch BY <1>0, <1>5 DEF Relaunch
<1> QED BY <1>1, <1>2, <1>3, <1>4, <1>5 DEF Calls

\* So do the receive thread and the DNS workers.
LEMMA ShapeThreads ==
  ChainShape /\ (Receiving \/ \E w \in Workers : WorkerStep(w)) => ChainShape'
<1> SUFFICES ASSUME ChainShape, Receiving \/ \E w \in Workers : WorkerStep(w)
             PROVE  ChainShape'
  OBVIOUS
<1>1. UNCHANGED <<fwVars, ctlVars, engVars>>
  BY DEF Receiving, ThreadEnter, ThreadCheck, ThreadServe, ThreadFails, WorkerStep
<1> QED BY <1>1 DEF ChainShape, BinShape, Holds, Tracked, InPlace, Installed,
                    Filling, fwVars, ctlVars, engVars

\* One insertion of apply_for: idx - 1 of our rules are there, the next one
\* goes on top.
LEMMA HoldsInsert ==
  ASSUME TypeOK, NEW b \in Bins, idx \in 1 .. kRuleCount + 1,
         Holds(b, kRuleCount + 3 - idx, idx - 1)
  PROVE  Insert(chain[b], RuleAt(idx)) = Above(kRuleCount + 2 - idx, idx, base[b])
<1> DEFINE lo == kRuleCount + 2 - idx
           n  == idx - 1
<1>1. /\ base[b] \in Seq(Rules) /\ lo \in Nat \ {0} /\ n \in Nat
      /\ (lo + 1) + n <= kRuleCount + 2
      /\ lo + 1 = kRuleCount + 3 - idx /\ n + 1 = idx
  BY RuleTypes DEF TypeOK
<1>2. RuleAt(idx) = OurRules[lo]
  <2>1. CASE idx <= kRuleCount
    BY <2>1, OurRulesShape DEF RuleAt
  <2>2. CASE idx = kRuleCount + 1
    BY <2>2, OurRulesShape DEF RuleAt
  <2> QED BY <2>1, <2>2, RuleTypes
<1>3. Insert(Above(lo + 1, n, base[b]), OurRules[lo]) = Above(lo, n + 1, base[b])
  <2> HIDE DEF lo, n
  <2> QED BY <1>1, AboveInsert
<1> QED BY <1>1, <1>2, <1>3 DEF Holds

\* One deletion of the downward rollback.
LEMMA HoldsRollbackDown ==
  ASSUME TypeOK, NEW b \in Bins, idx \in 1 .. kRuleCount,
         Holds(b, kRuleCount + 2 - idx, idx)
  PROVE  Delete(chain[b], kRules[idx]) = Above(kRuleCount + 3 - idx, idx - 1, base[b])
<1> DEFINE lo == kRuleCount + 2 - idx
           n  == idx - 1
<1>1. /\ base[b] \in Seq(Rules) /\ lo \in Nat \ {0} /\ n \in Nat
      /\ lo + (n + 1) <= kRuleCount + 2
      /\ lo + 1 = kRuleCount + 3 - idx /\ n + 1 = idx
  BY RuleTypes DEF TypeOK
<1>2. kRules[idx] = OurRules[lo]
  BY OurRulesShape
<1>3. Delete(Above(lo, n + 1, base[b]), OurRules[lo]) = Above(lo + 1, n, base[b])
  <2> HIDE DEF lo, n
  <2> QED BY <1>1, AboveDeleteTop
<1> QED BY <1>1, <1>2, <1>3 DEF Holds

\* One deletion of the table loop of revert_for or of the upward rollback.
LEMMA HoldsDeleteUp ==
  ASSUME TypeOK, NEW b \in Bins, idx \in 1 .. kRuleCount,
         Holds(b, 2, kRuleCount + 1 - idx)
  PROVE  Delete(chain[b], kRules[idx]) = Above(2, kRuleCount - idx, base[b])
<1> DEFINE lo == 2
           n  == kRuleCount - idx
<1>1. /\ base[b] \in Seq(Rules) /\ lo \in Nat \ {0} /\ n \in Nat
      /\ lo + (n + 1) <= kRuleCount + 2
      /\ n + 1 = kRuleCount + 1 - idx /\ lo + n = kRuleCount + 2 - idx
  BY RuleTypes DEF TypeOK
<1>2. kRules[idx] = OurRules[lo + n]
  BY <1>1, OurRulesShape
<1>3. Delete(Above(lo, n + 1, base[b]), OurRules[lo + n]) = Above(lo, n, base[b])
  <2> HIDE DEF lo, n
  <2> QED BY <1>1, AboveDeleteBottom
<1> QED BY <1>1, <1>2, <1>3 DEF Holds

\* revert_for's deletion of the mark rule from a complete set.
LEMMA HoldsDeleteMark ==
  ASSUME TypeOK, NEW b \in Bins, Holds(b, 1, kRuleCount + 1)
  PROVE  Delete(chain[b], MarkRule) = Above(2, kRuleCount, base[b])
<1>1. /\ base[b] \in Seq(Rules) /\ 1 \in Nat \ {0} /\ kRuleCount \in Nat
      /\ 1 + (kRuleCount + 1) <= kRuleCount + 2 /\ 1 + 1 = 2
  BY RuleTypes DEF TypeOK
<1>2. Delete(Above(1, kRuleCount + 1, base[b]), OurRules[1])
        = Above(1 + 1, kRuleCount, base[b])
  BY <1>1, AboveDeleteTop
<1> QED BY <1>1, <1>2, OurRulesShape DEF Holds

\* Every iptables invocation of bd_iptables_apply and of its rollbacks
\* leaves the chains in the shape of the place reached.
LEMMA ShapeStarting ==
  ASSUME ~DeleteMayFail, TypeOK, ControlInv, ChainShape, Starting
  PROVE  ChainShape'
<1> SUFFICES ASSUME NEW b \in Bins, Tracked(b)'
             PROVE  BinShape(b)'
  BY DEF ChainShape
<1>0. Tracked(b) => BinShape(b)
  BY DEF ChainShape
<1> USE HoldsNone, RuleTypes DEF BinShape, Holds, Tracked, InPlace, Installed,
        Filling, ControlInv, Serving, Working, TypeOK, Bins, fwVars, engVars
<1>1. CASE OpenInjector BY <1>0, <1>1 DEF OpenInjector
<1>2. CASE InsertRule
  <2>1. idx \in 1 .. kRuleCount + 1 /\ BinShape(b)
    BY <1>0, <1>2 DEF InsertRule
  <2>2. b = bin => chain'[b] = Above(kRuleCount + 2 - idx, idx, base[b])
    BY <1>2, <2>1, HoldsInsert DEF InsertRule
  <2>3. b # bin => chain'[b] = chain[b]
    BY <1>2 DEF InsertRule
  <2>4. CASE idx <= kRuleCount
    BY <1>2, <2>1, <2>2, <2>3, <2>4 DEF InsertRule
  <2>5. CASE idx = kRuleCount + 1
    BY <1>2, <2>1, <2>2, <2>3, <2>5 DEF InsertRule, Applied
  <2> QED BY <2>1, <2>4, <2>5
<1>3. CASE InsertFails BY <1>0, <1>3 DEF InsertFails
<1>4. CASE RollbackRule
  <2>1. chain' = [chain EXCEPT ![bin] = Delete(@, kRules[idx])] /\ UNCHANGED base
    BY <1>4 DEF RollbackRule, DeleteRule
  <2>2. CASE pc = "rollback_down"
    <3>1. idx \in 1 .. kRuleCount /\ BinShape(b)
      BY <1>0, <1>4, <2>2 DEF RollbackRule, DeleteRule
    <3>2. b = bin => chain'[b] = Above(kRuleCount + 3 - idx, idx - 1, base[b])
      BY <2>1, <2>2, <3>1, HoldsRollbackDown
    <3> QED BY <1>4, <2>1, <2>2, <3>1, <3>2 DEF RollbackRule, DeleteRule
  <2>3. CASE pc = "rollback_up"
    <3>1. idx \in 1 .. kRuleCount /\ BinShape(b)
      BY <1>0, <1>4, <2>3 DEF RollbackRule, DeleteRule
    <3>2. b = bin => chain'[b] = Above(2, kRuleCount - idx, base[b])
      BY <2>1, <2>3, <3>1, HoldsDeleteUp
    <3> QED BY <1>4, <2>1, <2>3, <3>1, <3>2 DEF RollbackRule, DeleteRule
  <2> QED BY <1>4, <2>2, <2>3 DEF RollbackRule
<1>5. CASE ApplyFails
  <2>1. BinShape(b) /\ UNCHANGED <<chain, base>>
    BY <1>0, <1>5 DEF ApplyFails
  <2>2. b = bin => chain[b] = base[b]
    <3>1. CASE pc = "rollback_down" /\ idx = 0
      BY <2>1, <3>1
    <3>2. CASE pc = "rollback_up" /\ idx = kRuleCount + 1
      <4>1. kRuleCount + 1 - idx = 0
        BY <3>2
      <4> QED BY <2>1, <3>2, <4>1
    <3> QED BY <1>5, <3>1, <3>2 DEF ApplyFails
  <2>3. CASE bin = "ip6tables"
    BY <1>5, <2>1, <2>2, <2>3 DEF ApplyFails
  <2>4. CASE bin = "iptables"
    <3>1. chain[b] = base[b]
      BY <1>5, <2>1, <2>2, <2>4 DEF ApplyFails
    <3> QED BY <1>5, <2>1, <2>4, <3>1 DEF ApplyFails
  <2> QED BY <2>3, <2>4
<1>6. CASE NfqOpen BY <1>0, <1>6 DEF NfqOpen
<1>7. CASE CreateQueue BY <1>0, <1>7 DEF CreateQueue
<1>8. CASE SetMode BY <1>0, <1>8 DEF SetMode
<1>9. CASE SetRunning BY <1>0, <1>9 DEF SetRunning
<1>10. CASE CreateThread BY <1>0, <1>10 DEF CreateThread
<1> QED BY <1>1, <1>2, <1>3, <1>4, <1>5, <1>6, <1>7, <1>8, <1>9, <1>10
        DEF Starting

\* So does every invocation of bd_iptables_revert.
LEMMA ShapeStopping ==
  ASSUME ~DeleteMayFail, TypeOK, ControlInv, ChainShape, Stopping
  PROVE  ChainShape'
<1> SUFFICES ASSUME NEW b \in Bins, Tracked(b)'
             PROVE  BinShape(b)'
  BY DEF ChainShape
<1>0. Tracked(b) => BinShape(b)
  BY DEF ChainShape
<1> USE HoldsNone, RuleTypes DEF BinShape, Holds, Tracked, InPlace, Installed,
        Filling, ControlInv, Serving, Working, TypeOK, Bins, fwVars, engVars
<1>1. CASE Join BY <1>0, <1>1 DEF Join
<1>2. CASE DestroyQueue BY <1>0, <1>2 DEF DestroyQueue
<1>3. CASE CloseHandle BY <1>0, <1>3 DEF CloseHandle
<1>4. CASE RevertRule
  <2>1. /\ chain' = [chain EXCEPT ![bin] =
                       Delete(@, IF idx = 0 THEN MarkRule ELSE kRules[idx])]
        /\ UNCHANGED base
        /\ BinShape(b)
    BY <1>0, <1>4 DEF RevertRule, DeleteRule
  <2>2. CASE idx = 0
    <3>1. b = bin => chain'[b] = Above(2, kRuleCount, base[b])
      BY <1>4, <2>1, <2>2, HoldsDeleteMark DEF RevertRule
    <3> QED BY <1>4, <2>1, <2>2, <3>1 DEF RevertRule, DeleteRule
  <2>3. CASE idx # 0
    <3>1. idx \in 1 .. kRuleCount
      BY <1>4, <2>3 DEF RevertRule
    <3>2. b = bin => chain'[b] = Above(2, kRuleCount - idx, base[b])
      BY <1>4, <2>1, <2>3, <3>1, HoldsDeleteUp DEF RevertRule
    <3> QED BY <1>4, <2>1, <2>3, <3>1, <3>2 DEF RevertRule, DeleteRule
  <2> QED BY <2>2, <2>3
<1>5. CASE RevertDone
  <2>1. Tracked(b) /\ BinShape(b) /\ UNCHANGED <<chain, base>>
    BY <1>0, <1>5 DEF RevertDone
  <2>2. idx # 0 /\ kRuleCount + 1 - idx = 0
    BY <1>5 DEF RevertDone
  <2>3. CASE caller = "engine" /\ bin = "iptables" /\ ipv6
    BY <1>5, <2>1, <2>2, <2>3 DEF RevertDone
  <2>4. CASE ~(caller = "engine" /\ bin = "iptables" /\ ipv6)
    <3>1. b = bin => chain[b] = base[b]
      BY <1>5, <2>1, <2>2 DEF RevertDone
    <3>2. b # bin => chain[b] = base[b]
      BY <1>5, <2>1, <2>4 DEF RevertDone
    <3>3. pc' = "close_injector" /\ rulesApplied' = FALSE
      BY <1>5, <2>4 DEF RevertDone
    <3> QED BY <2>1, <3>1, <3>2, <3>3
  <2> QED BY <2>3, <2>4
<1>6. CASE CloseInjector BY <1>0, <1>6 DEF CloseInjector
<1> QED BY <1>1, <1>2, <1>3, <1>4, <1>5, <1>6 DEF Stopping

\* The shape of the chains is kept by every step, if deletions succeed.
LEMMA ShapeStep ==
  ASSUME ~DeleteMayFail, TypeOK, ControlInv, ChainShape, [Next]_vars
  PROVE  ChainShape'
<1>1. CASE Next
  BY <1>1, ShapeCalls, ShapeStarting, ShapeStopping, ShapeThreads DEF Next
<1>2. CASE UNCHANGED vars
  BY <1>2 DEF vars, fwVars, ctlVars, engVars, ChainShape, BinShape, Holds,
              Tracked, InPlace, Installed, Filling
<1> QED BY <1>1, <1>2

\* At every single iptables invocation the chains hold exactly the expected
\* part of our rules above what start found (ChainShape), for any rule table
\* and any rules found, when deletions of present rules succeed.
THEOREM ChainCorrect ==
  ASSUME ~DeleteMayFail PROVE Spec => []ChainShape
<1>1. TypeOK /\ ControlInv /\ ChainShape /\ [Next]_vars => ChainShape'
  BY ShapeStep
<1> QED BY <1>1, ShapeInit, TypeCorrect, ControlCorrect, PTL DEF Spec

\* A call that has returned with the engine stopped has undone everything.
LEMMA ShapeRestores == TypeOK /\ ControlInv /\ ChainShape => Restored
<1> SUFFICES ASSUME TypeOK, ControlInv, ChainShape,
                    pc \in {"idle", "freed"}, ~running
             PROVE  /\ ~Resources /\ ~threadStarted /\ thr = "none"
                    /\ chain["iptables"] = base["iptables"]
                    /\ ~toggled => chain["ip6tables"] = base["ip6tables"]
  BY DEF Restored
<1>1. ~Resources /\ ~threadStarted /\ thr = "none"
  BY DEF ControlInv, Serving, Working, Resources, TypeOK
<1>2. ~rulesApplied
  BY <1>1 DEF Resources
<1>3. ASSUME NEW b \in Bins, b = "iptables" \/ ~toggled
      PROVE  chain[b] = base[b]
  BY <1>2, <1>3, HoldsNone
     DEF ChainShape, Tracked, BinShape, Holds, InPlace, Filling
<1> QED BY <1>1, <1>3 DEF Bins

\* A stopped engine has given everything back and both OUTPUT chains are as
\* bd_engine_start found them, whichever step failed.
THEOREM RestoredCorrect ==
  ASSUME ~DeleteMayFail PROVE Spec => []Restored
BY ShapeRestores, TypeCorrect, ControlCorrect, ChainCorrect, PTL

\* bd_engine_start succeeds entirely or not at all: a running engine has its
\* handle, queue, socket, thread and the whole rule set in place.
THEOREM CompletelyUpCorrect ==
  ASSUME ~DeleteMayFail PROVE Spec => []CompletelyUp
<1>1. TypeOK /\ ControlInv /\ ChainShape => CompletelyUp
  BY DEF TypeOK, ControlInv, ChainShape, Tracked, BinShape, Holds, InPlace,
         Filling, Serving, Working, CompletelyUp, Installed, Bins
<1> QED BY <1>1, TypeCorrect, ControlCorrect, ChainCorrect, PTL

\* While the queue is bound no marked packet is queued: the mark rule is the
\* first rule of every intercepted chain, whatever lies below it.
THEOREM MarkSkipsCorrect ==
  ASSUME ~DeleteMayFail PROVE Spec => []MarkSkipsQueue
<1>1. TypeOK /\ ControlInv /\ ChainShape => MarkSkipsQueue
  <2> SUFFICES ASSUME TypeOK, ControlInv, ChainShape, qh,
                      NEW b \in Installed, NEW r \in NfqRules
               PROVE  ~Queued(chain[b], r, TRUE)
    BY DEF MarkSkipsQueue
  <2>1. b \in Bins /\ chain[b] = Above(1, kRuleCount + 1, base[b])
    BY DEF TypeOK, ControlInv, ChainShape, Tracked, BinShape, Holds, InPlace,
           Filling, Serving, Working, Installed, Bins
  <2> DEFINE c == chain[b]
  <2>2. /\ base[b] \in Seq(Rules) /\ 1 \in Nat \ {0} /\ kRuleCount + 1 \in Nat
        /\ 1 + (kRuleCount + 1) <= kRuleCount + 2
    BY <2>1, RuleTypes DEF TypeOK
  <2>3. /\ Above(1, kRuleCount + 1, base[b]) \in Seq(Rules)
        /\ Len(Above(1, kRuleCount + 1, base[b])) = (kRuleCount + 1) + Len(base[b])
        /\ \A i \in 1 .. kRuleCount + 1 :
             Above(1, kRuleCount + 1, base[b])[i] = OurRules[1 + i - 1]
    BY <2>2, AboveShape
  <2>4. c \in Seq(Rules) /\ 1 \in 1 .. Len(c) /\ c[1] = MarkRule
    <3>1. 1 \in 1 .. kRuleCount + 1 /\ 1 + 1 - 1 = 1 /\ Len(base[b]) \in Nat
      BY <2>2, RuleTypes
    <3> QED BY <2>1, <2>2, <2>3, <3>1, OurRulesShape
  <2> HIDE DEF c
  <2> DEFINE I == {i \in 1 .. Len(c) : Matches(c[i], r, TRUE)}
  <2>5. 1 \in I /\ \A i \in I : 1 <= i
    BY <2>4 DEF Matches
  <2>6. Min(I) = 1
    <3>1. /\ Min(I) \in I /\ \A y \in I : Min(I) <= y
      BY <2>5 DEF Min
    <3>2. Min(I) \in 1 .. Len(c) /\ Min(I) <= 1
      BY <2>5, <3>1
    <3> HIDE DEF I
    <3> QED BY <2>4, <3>2
  <2>7. SelectInSeq(c, LAMBDA x : Matches(x, r, TRUE)) = 1
    BY <2>5, <2>6 DEF SelectInSeq
  <2>8. MarkRule \notin NfqRules
    BY RuleTableAssumption
  <2>9. ~Queued(c, r, TRUE)
    BY <2>4, <2>7, <2>8 DEF Queued
  <2> QED BY <2>9 DEF c
<1> QED BY <1>1, TypeCorrect, ControlCorrect, ChainCorrect, PTL

\* A completed apply_for is the rule set put in front of the chain.
LEMMA AboveIsConcat ==
  ASSUME NEW c \in Seq(Rules)
  PROVE  Above(1, kRuleCount + 1, c) = OurRules \o c
<1> DEFINE n == kRuleCount + 1
<1>1. n \in Nat /\ 1 + n <= kRuleCount + 2 /\ Len(c) \in Nat /\ 1 \in Nat \ {0}
  BY RuleTypes
<1>2. OurRules \in Seq(Rules) /\ Len(OurRules) = n
  BY <1>1, OurRulesShape
<1> HIDE DEF n
<1> DEFINE a == Above(1, n, c)
           b == OurRules \o c
<1>3. /\ a \in Seq(Rules) /\ Len(a) = n + Len(c)
      /\ \A i \in 1 .. n : a[i] = OurRules[1 + i - 1]
      /\ \A i \in n + 1 .. n + Len(c) : a[i] = c[i - n]
  BY <1>1, AboveShape
<1>4. /\ b \in Seq(Rules) /\ Len(b) = n + Len(c)
      /\ \A i \in 1 .. n + Len(c) :
           b[i] = IF i <= n THEN OurRules[i] ELSE c[i - n]
  <2>1. /\ b \in Seq(Rules) /\ Len(b) = Len(OurRules) + Len(c)
        /\ \A i \in 1 .. Len(OurRules) + Len(c) :
             b[i] = IF i <= Len(OurRules) THEN OurRules[i] ELSE c[i - Len(OurRules)]
    BY <1>2, ConcatProperties, Zenon
  <2> QED BY <1>2, <2>1, Zenon
<1> HIDE DEF a, b
<1>5. \A i \in 1 .. n + Len(c) : a[i] = b[i]
  <2> SUFFICES ASSUME NEW i \in 1 .. n + Len(c) PROVE a[i] = b[i]
    OBVIOUS
  <2>1. CASE i <= n
    <3>1. i \in 1 .. n /\ 1 + i - 1 = i
      BY <1>1, <2>1
    <3> QED BY <1>3, <1>4, <2>1, <3>1
  <2>2. CASE ~(i <= n)
    <3>1. i \in n + 1 .. n + Len(c)
      BY <1>1, <2>2
    <3> QED BY <1>3, <1>4, <2>2, <3>1
  <2> QED BY <2>1, <2>2
<1>6. a = b
  BY <1>3, <1>4, <1>5, SeqEqual
<1> QED BY <1>6 DEF a, b, n

\* What is seen of the IPv4 chain between two calls, or before the running
\* one: what start found, under our rules if the engine runs.
Seen ==
  (IF AtRest THEN chain["iptables"] ELSE base["iptables"]) =
    IF pc = "idle" /\ running THEN OurRules \o base["iptables"]
                              ELSE base["iptables"]

\* It follows from the invariants proved above.
LEMMA RulesSeen == TypeOK /\ ControlInv /\ Restored /\ CompletelyUp => Seen
<1> SUFFICES ASSUME TypeOK, ControlInv, Restored, CompletelyUp PROVE Seen
  OBVIOUS
<1>1. base["iptables"] \in Seq(Rules)
  BY DEF TypeOK, Bins
<1>2. CASE pc = "idle" /\ running
  BY <1>1, <1>2, AboveIsConcat DEF AtRest, CompletelyUp, Installed, Seen
<1>3. CASE AtRest /\ ~running
  BY <1>3 DEF AtRest, Restored, Seen
<1>4. AtRest /\ running => pc = "idle"
  BY DEF AtRest, ControlInv
<1> QED BY <1>2, <1>3, <1>4 DEF AtRest, Seen

\* The chain a start finds is the one the engine found before: nothing was
\* left behind.
LEMMA FoundKept ==
  ASSUME Restored, [Next]_vars PROVE base["iptables"]' = base["iptables"]
<1>1. CASE StartCall
  BY <1>1 DEF StartCall, Restored
<1>2. CASE Next /\ ~StartCall
  BY <1>2 DEF Next, Calls, Starting, Stopping, Receiving, StopCall, FreeCall,
     ToggleIpv6, Relaunch, OpenInjector, InsertRule, InsertFails, RollbackRule,
     DeleteRule, ApplyFails, NfqOpen, CreateQueue, SetMode, SetRunning,
     CreateThread, Join, DestroyQueue, CloseHandle, RevertRule, RevertDone,
     CloseInjector, ThreadEnter, ThreadCheck, ThreadServe, ThreadFails,
     WorkerStep, fwVars
<1>3. CASE UNCHANGED vars
  BY <1>3 DEF vars, fwVars
<1> QED BY <1>1, <1>2, <1>3

\* The engine implements the abstract switch: a start that succeeds is one
\* TurnOn, a stop one TurnOff, and nothing else, failed starts included,
\* changes the IPv4 chain that is seen between two calls.
THEOREM ImplementsSwitch ==
  ASSUME ~DeleteMayFail PROVE Spec => AtomicSwitch
<1> DEFINE on    == pc = "idle" /\ running
           rules == IF AtRest THEN chain["iptables"] ELSE base["iptables"]
<1>1. Init => SwitchOut!SwitchInit
  BY DEF Init, NewEngine, SwitchOut!SwitchInit
<1>2. ASSUME TypeOK, TypeOK', Restored, Seen, Seen', [Next]_vars
      PROVE  [SwitchOut!TurnOn \/ SwitchOut!TurnOff]_<<on, rules>>
  <2> DEFINE c == base["iptables"]
  <2>1. c' = c
    BY <1>2, FoundKept
  <2>2. rules = IF on THEN OurRules \o c ELSE c
    BY <1>2 DEF Seen
  <2>3. rules' = IF on' THEN OurRules \o c ELSE c
    BY <1>2, <2>1 DEF Seen
  <2>4. on \in BOOLEAN /\ on' \in BOOLEAN
    BY <1>2 DEF TypeOK
  <2> HIDE DEF c
  <2>5. \/ on = FALSE /\ on' = TRUE /\ rules' = OurRules \o rules
        \/ on = TRUE /\ on' = FALSE /\ rules = OurRules \o rules'
        \/ on' = on /\ rules' = rules
    <3> HIDE DEF on, rules
    <3> QED BY <2>2, <2>3, <2>4
  <2> QED BY <2>5 DEF SwitchOut!TurnOn, SwitchOut!TurnOff
<1> QED BY <1>1, <1>2, RulesSeen, TypeCorrect, ControlCorrect, RestoredCorrect,
           CompletelyUpCorrect, PTL DEF Spec, AtomicSwitch, SwitchOut!SwitchSpec

-----------------------------------------------------------------------------
(* When deletions may fail.  The chains then hold some of our rules above  *)
(* what start found, in no particular shape; what matters is that a rule   *)
(* is deleted only while a copy of our own is still above the foreign      *)
(* rules, so that "iptables -D" never reaches one of those.                *)

\* Chain c is chain f under at most m further rules, every rule of D among
\* them.
Kept(c, f, D, m) ==
  \E n \in 0 .. m :
    /\ Len(c) = n + Len(f)
    /\ \A i \in 1 .. Len(f) : c[n + i] = f[i]
    /\ \A r \in D : \E i \in 1 .. n : c[i] = r

\* Asking for fewer rules and leaving more room asks for less.
LEMMA KeptWeaker ==
  ASSUME NEW c, NEW f, NEW D, NEW m \in Nat, Kept(c, f, D, m),
         NEW E \in SUBSET D, NEW k \in Nat, m <= k
  PROVE  Kept(c, f, E, k)
BY DEF Kept

\* A chain is itself under nothing.
LEMMA KeptNone ==
  ASSUME NEW c \in Seq(Rules) PROVE Kept(c, c, {}, 0)
<1>1. Len(c) \in Nat /\ 0 \in 0 .. 0
  OBVIOUS
<1>2. Len(c) = 0 + Len(c) /\ \A i \in 1 .. Len(c) : c[0 + i] = c[i]
  BY <1>1
<1> QED BY <1>1, <1>2 DEF Kept

\* "iptables -I" adds one rule on top.
LEMMA KeptInsert ==
  ASSUME NEW c \in Seq(Rules), NEW f \in Seq(Rules), NEW D, NEW m \in Nat,
         Kept(c, f, D, m), NEW r \in Rules
  PROVE  Kept(Insert(c, r), f, D \cup {r}, m + 1)
<1> DEFINE e == Insert(c, r)
<1>1. PICK n \in 0 .. m :
        /\ Len(c) = n + Len(f)
        /\ \A i \in 1 .. Len(f) : c[n + i] = f[i]
        /\ \A s \in D : \E i \in 1 .. n : c[i] = s
  BY DEF Kept
<1>2. /\ Len(e) = Len(c) + 1 /\ e[1] = r
      /\ \A i \in 2 .. Len(c) + 1 : e[i] = c[i - 1]
  BY InsertsOnTop
<1> HIDE DEF e
<1>3. n + 1 \in 0 .. m + 1 /\ Len(f) \in Nat /\ Len(c) \in Nat /\ n \in Nat
  BY <1>1
<1>4. Len(e) = (n + 1) + Len(f)
  BY <1>1, <1>2, <1>3
<1>5. ASSUME NEW i \in 1 .. Len(f) PROVE e[(n + 1) + i] = f[i]
  <2>1. (n + 1) + i \in 2 .. Len(c) + 1 /\ ((n + 1) + i) - 1 = n + i
    BY <1>1, <1>3
  <2>2. e[(n + 1) + i] = c[((n + 1) + i) - 1]
    BY <1>2, <2>1
  <2> QED BY <1>1, <2>1, <2>2
<1>6. ASSUME NEW s \in D \cup {r} PROVE \E i \in 1 .. n + 1 : e[i] = s
  <2>1. CASE s = r
    BY <1>2, <1>3, <2>1
  <2>2. CASE s \in D
    <3>1. PICK i \in 1 .. n : c[i] = s
      BY <1>1, <2>2
    <3>2. i + 1 \in 2 .. Len(c) + 1 /\ (i + 1) - 1 = i /\ i + 1 \in 1 .. n + 1
      BY <1>1, <1>3
    <3> QED BY <1>2, <3>1, <3>2
  <2> QED BY <2>1, <2>2
<1>7. Kept(e, f, D \cup {r}, m + 1)
  BY <1>3, <1>4, <1>5, <1>6 DEF Kept
<1> QED BY <1>7 DEF e

\* "iptables -D" of a rule we still have above the foreign ones takes one of
\* ours.
LEMMA KeptDelete ==
  ASSUME NEW c \in Seq(Rules), NEW f \in Seq(Rules), NEW D, NEW m \in Nat,
         Kept(c, f, D, m), NEW r \in D
  PROVE  Kept(Delete(c, r), f, D \ {r}, m)
<1> DEFINE e == Delete(c, r)
<1>1. PICK n \in 0 .. m :
        /\ Len(c) = n + Len(f)
        /\ \A i \in 1 .. Len(f) : c[n + i] = f[i]
        /\ \A s \in D : \E i \in 1 .. n : c[i] = s
  BY DEF Kept
<1>2. Len(f) \in Nat /\ Len(c) \in Nat /\ n \in Nat /\ n <= m
  BY <1>1
<1> DEFINE I == {i \in 1 .. n : c[i] = r}
<1>3. PICK k \in I : \A i \in I : k <= i
  <2>1. I \in SUBSET Nat /\ I # {}
    BY <1>1, SMTT(30)
  <2> HIDE DEF I
  <2> QED BY <2>1, LeastElement
<1>4. /\ k \in 1 .. n /\ k \in 1 .. Len(c) /\ c[k] = r
      /\ \A i \in 1 .. k - 1 : c[i] # r
  BY <1>1, <1>2, <1>3
<1>5. /\ Len(e) = Len(c) - 1
      /\ \A i \in 1 .. k - 1 : e[i] = c[i]
      /\ \A i \in k .. Len(c) - 1 : e[i] = c[i + 1]
  BY <1>4, DeletesFirst
<1> HIDE DEF e, I
<1>6. n - 1 \in 0 .. m /\ Len(e) = (n - 1) + Len(f)
  BY <1>1, <1>2, <1>4, <1>5
<1>7. ASSUME NEW i \in 1 .. Len(f) PROVE e[(n - 1) + i] = f[i]
  <2>1. (n - 1) + i \in k .. Len(c) - 1 /\ ((n - 1) + i) + 1 = n + i
    BY <1>1, <1>2, <1>4
  <2>2. e[(n - 1) + i] = c[((n - 1) + i) + 1]
    BY <1>5, <2>1
  <2> QED BY <1>1, <2>1, <2>2
<1>8. ASSUME NEW s \in D \ {r} PROVE \E i \in 1 .. n - 1 : e[i] = s
  <2>1. PICK i \in 1 .. n : c[i] = s
    BY <1>1
  <2>2. i # k
    BY <1>4, <2>1
  <2>3. CASE i < k
    <3>1. i \in 1 .. k - 1 /\ i \in 1 .. n - 1
      BY <1>2, <1>4, <2>3
    <3> QED BY <1>5, <2>1, <3>1
  <2>4. CASE i > k
    <3>1. i - 1 \in k .. Len(c) - 1 /\ i - 1 \in 1 .. n - 1 /\ (i - 1) + 1 = i
      BY <1>1, <1>2, <1>4, <2>4
    <3>2. e[i - 1] = c[(i - 1) + 1]
      BY <1>5, <3>1
    <3> QED BY <2>1, <3>1, <3>2
  <2> QED BY <1>4, <2>2, <2>3, <2>4
<1>9. Kept(e, f, D \ {r}, m)
  BY <1>6, <1>7, <1>8 DEF Kept
<1> QED BY <1>9 DEF e

\* Rules lo to hi of the table, and everything apply_for inserts.
Table(lo, hi) == {kRules[j] : j \in lo .. hi}
Whole         == Table(1, kRuleCount) \cup {MarkRule}

\* Above what start found, chain b has at most m rules, those of D included.
KeptAbove(b, D, m) == Kept(chain[b], base[b], D, m)

\* revert_for has still all of b's rules to delete.
InFull(b) == rulesApplied /\ b \in Installed

\* Which of our rules are certainly still in chain b, at each place of a
\* call: those that were inserted and whose deletion has not been tried.
BinKept(b) ==
  /\ pc = "injector" => KeptAbove(b, {}, 0)
  /\ pc = "apply" /\ b = bin => KeptAbove(b, Table(1, idx - 1), idx - 1)
  /\ pc = "rollback_down" /\ b = bin =>
       KeptAbove(b, Table(1, idx), kRuleCount + 1)
  /\ pc = "rollback_up" /\ b = bin =>
       KeptAbove(b, Table(idx, kRuleCount), kRuleCount + 1)
  /\ Filling /\ b # bin =>
       IF b = "iptables" THEN KeptAbove(b, Whole, kRuleCount + 1)
                         ELSE KeptAbove(b, {}, 0)
  /\ pc = "revert" /\ b = bin =>
       IF idx = 0 THEN KeptAbove(b, Whole, kRuleCount + 1)
                  ELSE KeptAbove(b, Table(idx, kRuleCount), kRuleCount + 1)
  /\ pc = "revert" /\ b # bin =>
       /\ KeptAbove(b, {}, kRuleCount + 1)
       /\ b # "iptables" /\ InFull(b) => KeptAbove(b, Whole, kRuleCount + 1)
  /\ ~Filling /\ pc \notin {"revert", "injector"} =>
       /\ KeptAbove(b, {}, kRuleCount + 1)
       /\ InFull(b) => KeptAbove(b, Whole, kRuleCount + 1)

KeptInv == \A b \in Bins : Tracked(b) => BinKept(b)

\* What deleting one rule of the table, or the mark rule, leaves to delete.
LEMMA TableParts ==
  /\ Table(1, 0) = {}
  /\ Table(1, kRuleCount) \cup {MarkRule} = Whole
  /\ Table(1, kRuleCount) \subseteq Whole \ {MarkRule} /\ MarkRule \in Whole
  /\ \A i \in 1 .. kRuleCount :
       /\ Table(1, i) = Table(1, i - 1) \cup {kRules[i]}
       /\ kRules[i] \in Table(1, i) /\ kRules[i] \in Table(i, kRuleCount)
       /\ Table(1, i - 1) \subseteq Table(1, i) \ {kRules[i]}
       /\ Table(i + 1, kRuleCount) \subseteq Table(i, kRuleCount) \ {kRules[i]}
<1>1. /\ kRuleCount \in Nat /\ MarkRule \notin NfqRules
      /\ \A i \in 1 .. kRuleCount : kRules[i] \in NfqRules
      /\ \A i, j \in 1 .. kRuleCount : kRules[i] = kRules[j] => i = j
  BY RuleTableAssumption DEF kRuleCount
<1>2. Table(1, 0) = {}
  BY DEF Table
<1>3. Table(1, kRuleCount) \subseteq NfqRules
  BY <1>1 DEF Table
<1>4. ASSUME NEW i \in 1 .. kRuleCount
      PROVE  /\ Table(1, i) = Table(1, i - 1) \cup {kRules[i]}
             /\ kRules[i] \in Table(1, i) /\ kRules[i] \in Table(i, kRuleCount)
             /\ Table(1, i - 1) \subseteq Table(1, i) \ {kRules[i]}
             /\ Table(i + 1, kRuleCount) \subseteq Table(i, kRuleCount) \ {kRules[i]}
  <2>1. i \in 1 .. i /\ i \in i .. kRuleCount
    BY <1>1
  <2>2. \A j \in 1 .. i : j \in 1 .. i - 1 \/ j = i
    BY <1>1
  <2>3. \A j \in 1 .. i - 1 : j \in 1 .. i /\ j \in 1 .. kRuleCount /\ j # i
    BY <1>1
  <2>4. \A j \in i + 1 .. kRuleCount :
          j \in i .. kRuleCount /\ j \in 1 .. kRuleCount /\ j # i
    BY <1>1
  <2>5. Table(1, i) = Table(1, i - 1) \cup {kRules[i]}
    BY <2>1, <2>2, <2>3 DEF Table
  <2>6. kRules[i] \in Table(1, i) /\ kRules[i] \in Table(i, kRuleCount)
    BY <2>1 DEF Table
  <2>7. Table(1, i - 1) \subseteq Table(1, i) \ {kRules[i]}
    BY <1>1, <2>3 DEF Table
  <2>8. Table(i + 1, kRuleCount) \subseteq Table(i, kRuleCount) \ {kRules[i]}
    BY <1>1, <2>4 DEF Table
  <2> QED BY <2>5, <2>6, <2>7, <2>8
<1> QED BY <1>1, <1>2, <1>3, <1>4 DEF Whole

\* What is certain of a chain implies less, too.
LEMMA AboveWeaker ==
  ASSUME NEW b, NEW D, NEW m \in 0 .. kRuleCount + 1, KeptAbove(b, D, m)
  PROVE  /\ \A E \in SUBSET D : KeptAbove(b, E, kRuleCount + 1)
         /\ KeptAbove(b, {}, kRuleCount + 1)
<1>1. m \in Nat /\ kRuleCount + 1 \in Nat /\ m <= kRuleCount + 1
  BY RuleTypes
<1>2. ASSUME NEW E \in SUBSET D PROVE KeptAbove(b, E, kRuleCount + 1)
  BY <1>1, KeptWeaker DEF KeptAbove
<1> QED BY <1>2

\* One "iptables -D" by a rollback or by revert_for, which may fail: the
\* other rules still to be deleted stay, and the foreign ones too.
LEMMA DeleteKeeps ==
  ASSUME TypeOK, NEW b \in Bins, NEW D, NEW r \in D, b = bin, DeleteRule(r),
         KeptAbove(b, D, kRuleCount + 1), NEW E \in SUBSET (D \ {r})
  PROVE  Kept(chain'[b], base'[b], E, kRuleCount + 1)
<1>1. /\ chain[b] \in Seq(Rules) /\ base[b] \in Seq(Rules)
      /\ kRuleCount + 1 \in Nat /\ base' = base
  BY RuleTypes DEF TypeOK, DeleteRule
<1>2. CASE chain' = [chain EXCEPT ![bin] = Delete(@, r)]
  <2>1. chain'[b] = Delete(chain[b], r)
    BY <1>2 DEF TypeOK
  <2>2. Kept(chain'[b], base[b], D \ {r}, kRuleCount + 1)
    BY <1>1, <2>1, KeptDelete DEF KeptAbove
  <2> QED BY <1>1, <2>2, KeptWeaker
<1>3. CASE UNCHANGED chain
  <2>1. E \in SUBSET D
    OBVIOUS
  <2> QED BY <1>1, <1>3, <2>1, KeptWeaker DEF KeptAbove
<1> QED BY <1>2, <1>3 DEF DeleteRule

\* One insertion of apply_for.
LEMMA InsertKeeps ==
  ASSUME TypeOK, NEW b \in Bins, b = bin, InsertRule,
         idx \in 1 .. kRuleCount + 1, KeptAbove(b, Table(1, idx - 1), idx - 1)
  PROVE  /\ idx <= kRuleCount => Kept(chain'[b], base'[b], Table(1, idx), idx)
         /\ idx = kRuleCount + 1 =>
              Kept(chain'[b], base'[b], Whole, kRuleCount + 1)
<1>1. /\ chain[b] \in Seq(Rules) /\ base[b] \in Seq(Rules)
      /\ idx - 1 \in Nat /\ base' = base /\ (idx - 1) + 1 = idx
      /\ kRuleCount \in Nat
  BY RuleTypes DEF TypeOK, InsertRule
<1>2. RuleAt(idx) \in Rules
  BY RuleTypes DEF RuleAt
<1>3. chain'[b] = Insert(chain[b], RuleAt(idx))
  BY DEF InsertRule, TypeOK
<1>4. Kept(chain'[b], base'[b], Table(1, idx - 1) \cup {RuleAt(idx)}, (idx - 1) + 1)
  BY <1>1, <1>2, <1>3, KeptInsert DEF KeptAbove
<1>5. idx <= kRuleCount => Table(1, idx - 1) \cup {RuleAt(idx)} = Table(1, idx)
  BY <1>1, TableParts DEF RuleAt
<1>6. idx = kRuleCount + 1 => Table(1, idx - 1) \cup {RuleAt(idx)} = Whole
  <2> SUFFICES ASSUME idx = kRuleCount + 1
               PROVE  Table(1, idx - 1) \cup {RuleAt(idx)} = Whole
    OBVIOUS
  <2>1. idx - 1 = kRuleCount /\ RuleAt(idx) = MarkRule
    BY <1>1 DEF RuleAt
  <2> QED BY <2>1, TableParts
<1> QED BY <1>1, <1>4, <1>5, <1>6

\* A new engine has inserted nothing.
LEMMA KeptInit == Init => KeptInv
<1> SUFFICES ASSUME Init, NEW b \in Bins PROVE BinKept(b)
  BY DEF KeptInv
<1>1. TypeOK
  BY TypeInit
<1>2. chain[b] \in Seq(Rules) /\ chain[b] = base[b] /\ 0 \in 0 .. kRuleCount + 1
  BY <1>1, RuleTypes DEF TypeOK, Init
<1>3. KeptAbove(b, {}, 0)
  BY <1>2, KeptNone DEF KeptAbove
<1>4. KeptAbove(b, {}, kRuleCount + 1)
  BY <1>2, <1>3, AboveWeaker
<1> QED BY <1>4 DEF BinKept, Init, NewEngine, InFull, Filling

\* bd_engine_start makes a new record of what is there; the other calls
\* change no chain.
LEMMA KeptCalls == TypeOK /\ ControlInv /\ KeptInv /\ Calls => KeptInv'
<1> SUFFICES ASSUME TypeOK, ControlInv, KeptInv, Calls,
                    NEW b \in Bins, Tracked(b)'
             PROVE  BinKept(b)'
  BY DEF KeptInv
<1>0. Tracked(b) => BinKept(b)
  BY DEF KeptInv
<1> USE DEF BinKept, KeptAbove, Tracked, InFull, Installed, Filling,
        ControlInv, Serving, Working, fwVars, ctlVars, engVars
<1>1. CASE StartCall
  <2>1. Kept(chain[b], chain[b], {}, 0)
    BY KeptNone DEF TypeOK
  <2> QED BY <1>1, <2>1 DEF StartCall
<1>2. CASE StopCall BY <1>0, <1>2 DEF StopCall
<1>3. CASE FreeCall BY <1>0, <1>3 DEF FreeCall
<1>4. CASE ToggleIpv6 BY <1>0, <1>4 DEF ToggleIpv6, TypeOK
<1>5. CASE Relaunch BY <1>0, <1>5 DEF Relaunch
<1> QED BY <1>1, <1>2, <1>3, <1>4, <1>5 DEF Calls

\* The receive thread and the DNS workers touch no chain.
LEMMA KeptThreads ==
  KeptInv /\ (Receiving \/ \E w \in Workers : WorkerStep(w)) => KeptInv'
<1> SUFFICES ASSUME KeptInv, Receiving \/ \E w \in Workers : WorkerStep(w)
             PROVE  KeptInv'
  OBVIOUS
<1>1. UNCHANGED <<fwVars, ctlVars, engVars>>
  BY DEF Receiving, ThreadEnter, ThreadCheck, ThreadServe, ThreadFails, WorkerStep
<1> QED BY <1>1 DEF KeptInv, BinKept, KeptAbove, Tracked, InFull, Installed,
                    Filling, fwVars, ctlVars, engVars

\* bd_engine_start inserts at the top, and its rollbacks delete only rules
\* it has inserted.
LEMMA KeptStarting ==
  ASSUME TypeOK, ControlInv, KeptInv, Starting PROVE KeptInv'
<1> SUFFICES ASSUME NEW b \in Bins, Tracked(b)'
             PROVE  BinKept(b)'
  BY DEF KeptInv
<1> DEFINE all == kRuleCount + 1
<1>0. Tracked(b) => BinKept(b)
  BY DEF KeptInv
<1>a. all \in 0 .. all /\ 0 \in 0 .. all /\ kRuleCount \in Nat
      /\ idx \in 0 .. all /\ Table(1, 0) = {}
  BY RuleTypes, TableParts DEF TypeOK
<1> USE DEF BinKept, Tracked, InFull, Installed, Filling, ControlInv, Serving,
        Working, fwVars, engVars
<1>1. CASE OpenInjector
  <2>1. KeptAbove(b, {}, 0) /\ UNCHANGED <<chain, base, rulesApplied>>
    BY <1>0, <1>1 DEF OpenInjector
  <2>2. KeptAbove(b, {}, all)
    BY <1>a, <2>1, AboveWeaker
  <2>3. ~rulesApplied
    BY <1>1 DEF OpenInjector
  <2>4. CASE pc' = "apply" /\ bin' = "iptables" /\ idx' = 1
    <3>1. Table(1, idx' - 1) = {} /\ idx' - 1 = 0
      BY <1>a, <2>4
    <3> QED BY <2>1, <2>4, <3>1 DEF KeptAbove
  <2>5. CASE pc' = "idle"
    BY <2>1, <2>2, <2>3, <2>5 DEF KeptAbove
  <2> QED BY <1>1, <2>4, <2>5 DEF OpenInjector
<1>2. CASE InsertRule
  <2>1. idx \in 1 .. all /\ BinKept(b) /\ pc = "apply" /\ ~toggled /\ ~rulesApplied
    BY <1>0, <1>2 DEF InsertRule, TypeOK
  <2>2. b # bin => chain'[b] = chain[b] /\ base' = base
    BY <1>2 DEF InsertRule, TypeOK
  <2>3. CASE idx <= kRuleCount
    <3>1. idx' = idx + 1 /\ idx' - 1 = idx /\ UNCHANGED <<pc, bin>>
      BY <1>2, <2>1, <2>3 DEF InsertRule
    <3>2. b = bin => Kept(chain'[b], base'[b], Table(1, idx' - 1), idx' - 1)
      BY <1>2, <2>1, <2>3, <3>1, InsertKeeps
    <3> QED BY <2>1, <2>2, <3>1, <3>2 DEF KeptAbove
  <2>4. CASE idx = all
    <3>0. ~(idx <= kRuleCount)
      BY <1>a, <2>4
    <3>1. b = bin => Kept(chain'[b], base'[b], Whole, all)
      BY <1>2, <2>1, <2>4, InsertKeeps
    <3>2. b # bin /\ b = "iptables" => Kept(chain'[b], base'[b], Whole, all)
      BY <2>1, <2>2 DEF KeptAbove
    <3>3. b # bin /\ b # "iptables" =>
            /\ Kept(chain'[b], base'[b], {}, 0)
            /\ Kept(chain'[b], base'[b], {}, all)
      BY <1>a, <2>1, <2>2, AboveWeaker DEF KeptAbove
    <3>4. Kept(chain'[b], base'[b], Whole, all) => Kept(chain'[b], base'[b], {}, all)
      BY <1>a, KeptWeaker
    <3>5. CASE bin = "iptables" /\ ipv6
      <4>1. bin' = "ip6tables" /\ idx' = 1 /\ pc' = "apply"
        BY <1>2, <2>1, <3>0, <3>5 DEF InsertRule, Applied
      <4>2. Table(1, idx' - 1) = {} /\ idx' - 1 = 0
        BY <1>a, <4>1
      <4> QED BY <3>1, <3>3, <3>5, <4>1, <4>2 DEF KeptAbove, Bins
    <3>6. CASE ~(bin = "iptables" /\ ipv6)
      <4>1. pc' = "nfq_open" /\ rulesApplied' /\ UNCHANGED <<bin, ipv6, toggled>>
        BY <1>2, <3>0, <3>6 DEF InsertRule, Applied
      <4>2. CASE b = bin \/ b = "iptables"
        BY <3>1, <3>2, <3>4, <4>1, <4>2 DEF KeptAbove
      <4>3. CASE b # bin /\ b # "iptables"
        <5>1. bin = "iptables" /\ ~ipv6
          BY <3>6, <4>3 DEF TypeOK, Bins
        <5>2. b \notin Installed'
          BY <2>1, <4>1, <4>3, <5>1
        <5> QED BY <3>3, <4>1, <4>3, <5>2 DEF KeptAbove
      <4> QED BY <4>2, <4>3
    <3> QED BY <3>5, <3>6
  <2> QED BY <1>a, <2>1, <2>3, <2>4
<1>3. CASE InsertFails
  <2>1. BinKept(b) /\ UNCHANGED <<chain, base, bin>> /\ idx \in 1 .. all
    BY <1>0, <1>3 DEF InsertFails, TypeOK
  <2>2. b = bin => KeptAbove(b, Table(1, idx - 1), all)
    <3>1. idx - 1 \in 0 .. all
      BY <1>a, <2>1
    <3> QED BY <1>3, <2>1, <3>1, AboveWeaker DEF InsertFails
  <2>3. CASE idx <= kRuleCount
    BY <1>3, <2>1, <2>2, <2>3 DEF InsertFails, KeptAbove
  <2>4. CASE ~(idx <= kRuleCount)
    <3>1. idx - 1 = kRuleCount
      BY <1>a, <2>1, <2>4
    <3>2. b = bin => KeptAbove(b, Table(1, kRuleCount), all)
      BY <2>2, <3>1
    <3> QED BY <1>3, <2>1, <2>4, <3>2 DEF InsertFails, KeptAbove
  <2> QED BY <2>3, <2>4
<1>4. CASE RollbackRule
  <2>1. DeleteRule(kRules[idx]) /\ UNCHANGED <<pc, bin>> /\ base' = base
    BY <1>4 DEF RollbackRule, DeleteRule
  <2>2. BinKept(b)
    BY <1>0, <1>4 DEF RollbackRule, DeleteRule
  <2>3. b # bin => chain'[b] = chain[b]
    BY <2>1 DEF DeleteRule, TypeOK
  <2>4. CASE pc = "rollback_down"
    <3>1. idx \in 1 .. kRuleCount /\ idx' = idx - 1
      BY <1>a, <1>4, <2>4 DEF RollbackRule
    <3>2. b = bin => Kept(chain'[b], base'[b], Table(1, idx - 1), all)
      <4>1. b = bin => KeptAbove(b, Table(1, idx), all)
        BY <2>2, <2>4
      <4>2. /\ kRules[idx] \in Table(1, idx)
            /\ Table(1, idx - 1) \in SUBSET (Table(1, idx) \ {kRules[idx]})
        BY <3>1, TableParts
      <4> QED BY <2>1, <4>1, <4>2, DeleteKeeps
    <3> QED BY <2>1, <2>2, <2>3, <2>4, <3>1, <3>2 DEF KeptAbove
  <2>5. CASE pc = "rollback_up"
    <3>1. idx \in 1 .. kRuleCount /\ idx' = idx + 1
      BY <1>a, <1>4, <2>5 DEF RollbackRule
    <3>2. b = bin => Kept(chain'[b], base'[b], Table(idx + 1, kRuleCount), all)
      <4>1. b = bin => KeptAbove(b, Table(idx, kRuleCount), all)
        BY <2>2, <2>5
      <4>2. /\ kRules[idx] \in Table(idx, kRuleCount)
            /\ Table(idx + 1, kRuleCount) \in SUBSET (Table(idx, kRuleCount) \ {kRules[idx]})
        BY <3>1, TableParts
      <4> QED BY <2>1, <4>1, <4>2, DeleteKeeps
    <3> QED BY <2>1, <2>2, <2>3, <2>5, <3>1, <3>2 DEF KeptAbove
  <2> QED BY <1>4, <2>4, <2>5 DEF RollbackRule
<1>5. CASE ApplyFails
  <2>1. BinKept(b) /\ UNCHANGED <<chain, base, rulesApplied>> /\ ~rulesApplied
    BY <1>0, <1>5 DEF ApplyFails
  <2>2. KeptAbove(b, {}, all)
    BY <1>5, <1>a, <2>1, AboveWeaker DEF ApplyFails
  <2>3. CASE bin = "ip6tables"
    BY <1>5, <2>1, <2>2, <2>3 DEF ApplyFails, KeptAbove
  <2>4. CASE bin # "ip6tables"
    BY <1>5, <2>1, <2>2, <2>4 DEF ApplyFails, KeptAbove
  <2> QED BY <2>3, <2>4
<1>6. CASE NfqOpen BY <1>0, <1>6 DEF NfqOpen, KeptAbove
<1>7. CASE CreateQueue BY <1>0, <1>7 DEF CreateQueue, KeptAbove
<1>8. CASE SetMode BY <1>0, <1>8 DEF SetMode, KeptAbove
<1>9. CASE SetRunning BY <1>0, <1>9 DEF SetRunning, KeptAbove
<1>10. CASE CreateThread BY <1>0, <1>10 DEF CreateThread, KeptAbove
<1> QED BY <1>1, <1>2, <1>3, <1>4, <1>5, <1>6, <1>7, <1>8, <1>9, <1>10
        DEF Starting

\* revert_for deletes only rules that apply_for has inserted.
LEMMA KeptStopping ==
  ASSUME TypeOK, ControlInv, KeptInv, Stopping PROVE KeptInv'
<1> SUFFICES ASSUME NEW b \in Bins, Tracked(b)'
             PROVE  BinKept(b)'
  BY DEF KeptInv
<1> DEFINE all == kRuleCount + 1
<1>0. Tracked(b) => BinKept(b)
  BY DEF KeptInv
<1>a. all \in 0 .. all /\ kRuleCount \in Nat /\ idx \in 0 .. all
  BY RuleTypes DEF TypeOK
<1> USE DEF BinKept, Tracked, InFull, Installed, Filling, ControlInv, Serving,
        Working, fwVars, engVars
<1>1. CASE Join BY <1>0, <1>1 DEF Join, KeptAbove
<1>2. CASE DestroyQueue BY <1>0, <1>2 DEF DestroyQueue, KeptAbove
<1>3. CASE CloseHandle BY <1>0, <1>3 DEF CloseHandle, KeptAbove
<1>4. CASE RevertRule
  <2>1. /\ pc = "revert" /\ BinKept(b) /\ idx' = idx + 1 /\ base' = base
        /\ DeleteRule(IF idx = 0 THEN MarkRule ELSE kRules[idx])
        /\ UNCHANGED <<pc, bin, ipv6, toggled, rulesApplied>>
    BY <1>0, <1>4 DEF RevertRule, DeleteRule
  <2>2. b # bin => chain'[b] = chain[b]
    BY <2>1 DEF DeleteRule, TypeOK
  <2>3. CASE idx = 0
    <3>1. b = bin => Kept(chain'[b], base'[b], Table(1, kRuleCount), all)
      BY <2>1, <2>3, TableParts, DeleteKeeps
    <3>2. idx' = 1
      BY <2>1, <2>3
    <3> QED BY <2>1, <2>2, <3>1, <3>2 DEF KeptAbove
  <2>4. CASE idx # 0
    <3>1. idx \in 1 .. kRuleCount /\ idx + 1 # 0
      BY <1>4, <1>a, <2>4 DEF RevertRule
    <3>2. b = bin => Kept(chain'[b], base'[b], Table(idx + 1, kRuleCount), all)
      BY <2>1, <2>4, <3>1, TableParts, DeleteKeeps
    <3> QED BY <2>1, <2>2, <3>1, <3>2 DEF KeptAbove
  <2> QED BY <2>3, <2>4
<1>5. CASE RevertDone
  <2>1. /\ pc = "revert" /\ Tracked(b) /\ BinKept(b)
        /\ UNCHANGED <<chain, base, ipv6, toggled>>
    BY <1>0, <1>5 DEF RevertDone
  <2>2. KeptAbove(b, {}, all)
    BY <1>a, <2>1, AboveWeaker
  <2>3. CASE caller = "engine" /\ bin = "iptables" /\ ipv6
    <3>1. bin' = "ip6tables" /\ idx' = 0 /\ pc' = "revert" /\ rulesApplied
      BY <1>5, <2>3 DEF RevertDone
    <3>2. CASE b = "iptables"
      BY <2>1, <2>2, <3>1, <3>2 DEF KeptAbove
    <3>3. CASE b # "iptables"
      <4>1. b = "ip6tables" /\ ~toggled
        BY <2>1, <3>3 DEF Bins
      <4>2. InFull(b)
        BY <2>3, <3>1, <4>1
      <4>3. KeptAbove(b, Whole, all)
        BY <2>1, <2>3, <4>1, <4>2
      <4> QED BY <2>1, <3>1, <4>1, <4>3 DEF KeptAbove
    <3> QED BY <3>2, <3>3
  <2>4. CASE ~(caller = "engine" /\ bin = "iptables" /\ ipv6)
    <3>1. pc' = "close_injector" /\ rulesApplied' = FALSE
      BY <1>5, <2>4 DEF RevertDone
    <3> QED BY <2>1, <2>2, <3>1 DEF KeptAbove
  <2> QED BY <2>3, <2>4
<1>6. CASE CloseInjector BY <1>0, <1>6 DEF CloseInjector, KeptAbove
<1> QED BY <1>1, <1>2, <1>3, <1>4, <1>5, <1>6 DEF Stopping

\* The tail of each tracked chain is what start found, at every place.
LEMMA KeptForeign == TypeOK /\ ControlInv /\ KeptInv => ForeignRulesKept
<1> SUFFICES ASSUME TypeOK, ControlInv, KeptInv,
                    NEW b \in Bins, b = "iptables" \/ ~toggled
             PROVE  Kept(chain[b], base[b], {}, kRuleCount + 1)
  BY DEF ForeignRulesKept, Kept
<1>1. BinKept(b) /\ kRuleCount \in Nat /\ idx \in 0 .. kRuleCount + 1
  BY RuleTypes DEF KeptInv, Tracked, TypeOK
<1>2. CASE pc = "apply" /\ b = bin
  <2>1. idx - 1 \in 0 .. kRuleCount + 1
    BY <1>1, <1>2 DEF ControlInv
  <2>2. KeptAbove(b, Table(1, idx - 1), idx - 1)
    BY <1>1, <1>2 DEF BinKept
  <2> QED BY <2>1, <2>2, AboveWeaker DEF KeptAbove
<1>3. CASE ~(pc = "apply" /\ b = bin)
  <2>1. \E D : KeptAbove(b, D, 0) \/ KeptAbove(b, D, kRuleCount + 1)
    BY <1>1, <1>3 DEF BinKept, Filling
  <2>2. 0 \in 0 .. kRuleCount + 1 /\ kRuleCount + 1 \in 0 .. kRuleCount + 1
    BY <1>1
  <2> QED BY <2>1, <2>2, AboveWeaker DEF KeptAbove
<1> QED BY <1>2, <1>3

\* Even when deletions fail, no chain ever loses a rule that was there
\* before the start: apply_for's rollbacks and revert_for try each deletion
\* once, while their own copy lies above any other.
THEOREM ForeignKeptCorrect == Spec => []ForeignRulesKept
<1>1. TypeOK /\ ControlInv /\ KeptInv /\ [Next]_vars => KeptInv'
  <2>1. ASSUME TypeOK, ControlInv, KeptInv, Next PROVE KeptInv'
    BY <2>1, KeptCalls, KeptStarting, KeptStopping, KeptThreads DEF Next
  <2>2. ASSUME KeptInv, UNCHANGED vars PROVE KeptInv'
    BY <2>2 DEF vars, fwVars, ctlVars, engVars, KeptInv, BinKept, KeptAbove,
                Tracked, InFull, Installed, Filling
  <2> QED BY <2>1, <2>2
<1> QED BY <1>1, KeptInit, KeptForeign, TypeCorrect, ControlCorrect, PTL DEF Spec

-----------------------------------------------------------------------------
(* Every call ends.                                                        *)

\* The steps the receive thread still takes once `running' is cleared.
ThreadLeft == CASE thr \in {"enter", "serve"} -> 2 [] thr = "check" -> 1 [] OTHER -> 0

\* The rest of the table for the program that runs, and the whole table for
\* the one that may come after it.
TableLeft == (kRuleCount + 1 - idx) + (IF bin = "iptables" THEN kRuleCount + 2 ELSE 0)

\* The steps that a call may still take, at most: its own, one for each child
\* process among them, and those of the thread that it joins.
CallLeft ==
  LET n == kRuleCount
  IN  CASE pc = "injector"      -> 5 * n + 18
        [] pc = "apply"         -> 3 * n + 14 + TableLeft
        [] pc = "rollback_down" -> 2 * n + 6 + idx
        [] pc = "rollback_up"   -> 2 * n + 6 + (n + 1 - idx)
        [] pc = "nfq_open"      -> 2 * n + 12
        [] pc = "create_queue"  -> 2 * n + 11
        [] pc = "set_mode"      -> 2 * n + 10
        [] pc = "set_running"   -> 2 * n + 9
        [] pc = "create_thread" -> 2 * n + 8
        [] pc = "join"          -> 2 * n + 8 + ThreadLeft
        [] pc = "destroy_queue" -> 2 * n + 7
        [] pc = "close_handle"  -> 2 * n + 6
        [] pc = "revert"        -> 2 + TableLeft
        [] pc = "close_injector" -> 1
        [] OTHER                -> 0

\* During a call a step leaves the call less to do, or is one of a worker,
\* for which nothing waits.
CallShrinks ==
  ~AtRest =>
    /\ CallLeft \in Nat /\ CallLeft' \in Nat
    /\ \/ CallLeft' < CallLeft
       \/ CallLeft' = CallLeft /\ \E w \in Workers : WorkerStep(w)

\* What is left at each place.
LEMMA CallLeftIs ==
  ASSUME TypeOK
  PROVE  /\ TableLeft \in Nat /\ TableLeft <= 2 * kRuleCount + 3
         /\ bin # "iptables" => TableLeft <= kRuleCount + 1
         /\ ThreadLeft \in Nat
         /\ CallLeft \in Nat
<1>1. kRuleCount \in Nat /\ idx \in 0 .. kRuleCount + 1
  BY RuleTypes DEF TypeOK
<1>2. /\ TableLeft \in Nat /\ TableLeft <= 2 * kRuleCount + 3
      /\ bin # "iptables" => TableLeft <= kRuleCount + 1
  BY <1>1 DEF TableLeft
<1>3. ThreadLeft \in Nat
  BY DEF ThreadLeft
<1> QED BY <1>1, <1>2, <1>3 DEF CallLeft

\* And behind the step.
LEMMA PrimedLeft == TypeOK' => CallLeft' \in Nat
<1> SUFFICES ASSUME TypeOK' PROVE CallLeft' \in Nat
  OBVIOUS
<1>1. kRuleCount \in Nat /\ idx' \in 0 .. kRuleCount + 1
  BY RuleTypes DEF TypeOK
<1>2. TableLeft' \in Nat /\ ThreadLeft' \in Nat
  BY <1>1 DEF TableLeft, ThreadLeft
<1> QED BY <1>1, <1>2 DEF CallLeft

\* The steps of bd_engine_start.
LEMMA StartingShrinks ==
  ASSUME TypeOK, TypeOK', ControlInv, Starting
  PROVE  CallLeft' < CallLeft
<1>1. kRuleCount \in Nat /\ idx \in 0 .. kRuleCount + 1 /\ idx' \in 0 .. kRuleCount + 1
  BY RuleTypes DEF TypeOK
<1> USE <1>1
<1>2. CASE OpenInjector
  <2>1. CASE pc' = "apply"
    BY <1>2, <2>1 DEF OpenInjector, CallLeft, TableLeft
  <2>2. CASE pc' = "idle"
    BY <1>2, <2>2 DEF OpenInjector, CallLeft
  <2> QED BY <1>2, <2>1, <2>2 DEF OpenInjector
<1>3. CASE InsertRule
  <2>0. pc = "apply" /\ CallLeft = 3 * kRuleCount + 14 + TableLeft
    BY <1>3 DEF InsertRule, CallLeft
  <2>1. CASE idx <= kRuleCount
    <3>1. pc' = "apply" /\ bin' = bin /\ idx' = idx + 1
      BY <1>3, <2>0, <2>1 DEF InsertRule
    <3> QED BY <2>0, <3>1 DEF CallLeft, TableLeft
  <2>2. CASE ~(idx <= kRuleCount) /\ bin = "iptables" /\ ipv6
    <3>1. pc' = "apply" /\ bin' = "ip6tables" /\ idx' = 1
      BY <1>3, <2>0, <2>2 DEF InsertRule, Applied
    <3> QED BY <2>0, <2>2, <3>1 DEF CallLeft, TableLeft
  <2>3. CASE ~(idx <= kRuleCount) /\ ~(bin = "iptables" /\ ipv6)
    <3>1. pc' = "nfq_open"
      BY <1>3, <2>3 DEF InsertRule, Applied
    <3>2. CallLeft' = 2 * kRuleCount + 12 /\ TableLeft \in Nat
      BY <3>1, CallLeftIs DEF CallLeft
    <3> QED BY <2>0, <3>2
  <2> QED BY <2>1, <2>2, <2>3
<1>4. CASE InsertFails
  <2>1. CallLeft = 3 * kRuleCount + 14 + TableLeft /\ TableLeft \in Nat
    BY <1>4, CallLeftIs DEF InsertFails, CallLeft
  <2>2. \/ pc' = "rollback_down" /\ idx' = idx - 1
        \/ pc' = "rollback_up" /\ idx' = 1
    BY <1>4 DEF InsertFails
  <2>3. CallLeft' <= 3 * kRuleCount + 7
    BY <2>2 DEF CallLeft
  <2>4. CallLeft' \in Nat
    BY <2>2 DEF CallLeft
  <2> QED BY <2>1, <2>3, <2>4
<1>5. CASE RollbackRule BY <1>5 DEF RollbackRule, CallLeft
<1>6. CASE ApplyFails
  <2>1. CallLeft = 2 * kRuleCount + 6
    BY <1>6 DEF ApplyFails, CallLeft
  <2>2. CASE pc' = "revert"
    <3>1. CallLeft' <= 2 * kRuleCount + 5
      BY <1>6, <2>2 DEF ApplyFails, CallLeft, TableLeft
    <3>2. CallLeft' \in Nat
      BY <1>6, <2>2 DEF ApplyFails, CallLeft, TableLeft
    <3> QED BY <2>1, <3>1, <3>2
  <2>3. CASE pc' = "close_injector"
    BY <2>1, <2>3 DEF CallLeft
  <2> QED BY <1>6, <2>2, <2>3 DEF ApplyFails
<1>7. CASE NfqOpen BY <1>7 DEF NfqOpen, CallLeft
<1>8. CASE CreateQueue BY <1>8 DEF CreateQueue, CallLeft
<1>9. CASE SetMode BY <1>9 DEF SetMode, CallLeft
<1>10. CASE SetRunning BY <1>10 DEF SetRunning, CallLeft
<1>11. CASE CreateThread BY <1>11 DEF CreateThread, CallLeft
<1> QED BY <1>2, <1>3, <1>4, <1>5, <1>6, <1>7, <1>8, <1>9, <1>10, <1>11 DEF Starting

\* The steps of bd_engine_stop and of the failing path.
LEMMA StoppingShrinks ==
  ASSUME TypeOK, TypeOK', Stopping
  PROVE  CallLeft' < CallLeft
<1>1. kRuleCount \in Nat /\ idx \in 0 .. kRuleCount + 1 /\ idx' \in 0 .. kRuleCount + 1
  BY RuleTypes DEF TypeOK
<1> USE <1>1
<1>2. CASE Join
  <2>1. CallLeft = 2 * kRuleCount + 8 + ThreadLeft /\ ThreadLeft \in Nat
    BY <1>2, CallLeftIs DEF Join, CallLeft
  <2>2. CallLeft' = 2 * kRuleCount + 7
    BY <1>2 DEF Join, CallLeft
  <2> QED BY <2>1, <2>2
<1>3. CASE DestroyQueue BY <1>3 DEF DestroyQueue, CallLeft
<1>4. CASE CloseHandle
  <2>1. CallLeft = 2 * kRuleCount + 6
    BY <1>4 DEF CloseHandle, CallLeft
  <2>2. CASE pc' = "revert"
    BY <1>4, <2>1, <2>2 DEF CloseHandle, CallLeft, TableLeft
  <2>3. CASE pc' = "close_injector"
    BY <2>1, <2>3 DEF CallLeft
  <2> QED BY <1>4, <2>2, <2>3 DEF CloseHandle
<1>5. CASE RevertRule BY <1>5 DEF RevertRule, CallLeft, TableLeft
<1>6. CASE RevertDone
  <2>1. CallLeft = 2 + TableLeft /\ TableLeft \in Nat
    BY <1>6, CallLeftIs DEF RevertDone, CallLeft
  <2>2. CASE pc' = "revert"
    BY <1>6, <2>2 DEF RevertDone, CallLeft, TableLeft
  <2>3. CASE pc' = "close_injector"
    <3>1. CallLeft' = 1
      BY <2>3 DEF CallLeft
    <3> QED BY <2>1, <3>1
  <2> QED BY <1>6, <2>2, <2>3 DEF RevertDone
<1>7. CASE CloseInjector BY <1>7 DEF CloseInjector, CallLeft
<1> QED BY <1>2, <1>3, <1>4, <1>5, <1>6, <1>7 DEF Stopping

\* The receive thread runs during a call only while stop waits for it, and
\* then finds `running' cleared.
LEMMA ReceivingShrinks ==
  ASSUME TypeOK, ControlInv, Receiving, ~AtRest
  PROVE  CallLeft' < CallLeft
<1>1. kRuleCount \in Nat
  BY RuleTypes
<1>2. thr # "none" /\ pc' = pc
  BY DEF Receiving, ThreadEnter, ThreadCheck, ThreadServe, ThreadFails, ctlVars
<1>3. pc = "join" /\ ~running
  BY <1>2 DEF ControlInv, Serving, AtRest
<1>4. ThreadLeft \in Nat /\ ThreadLeft' \in Nat /\ ThreadLeft' < ThreadLeft
  BY <1>3 DEF Receiving, ThreadEnter, ThreadCheck, ThreadServe, ThreadFails, ThreadLeft
<1>5. /\ CallLeft = 2 * kRuleCount + 8 + ThreadLeft
      /\ CallLeft' = 2 * kRuleCount + 8 + ThreadLeft'
  BY <1>2, <1>3 DEF CallLeft
<1>6. 2 * kRuleCount + 8 + ThreadLeft' < 2 * kRuleCount + 8 + ThreadLeft
  <2>1. \A k, a, b \in Nat : b < a => 2 * k + 8 + b < 2 * k + 8 + a
    OBVIOUS
  <2> QED BY <1>1, <1>4, <2>1
<1> QED BY <1>5, <1>6

\* bd_engine_start, bd_engine_stop and bd_engine_free end: a call takes at most
\* 5 * kRuleCount + 18 steps, whichever of them fail, because every loop over
\* the table goes one way, at most two programs are gone through, and the
\* thread that stop joins is at most two steps from its end.  (CallsReturn,
\* but for the assumption that caller and thread go on.)
THEOREM EveryCallShrinks == Spec => [][CallShrinks]_vars
<1>1. TypeOK /\ TypeOK' /\ ControlInv /\ [Next]_vars => [CallShrinks]_vars
  <2> SUFFICES ASSUME TypeOK, TypeOK', ControlInv, Next, ~AtRest
               PROVE  \/ CallLeft' < CallLeft
                      \/ CallLeft' = CallLeft /\ \E w \in Workers : WorkerStep(w)
    BY CallLeftIs, PrimedLeft DEF CallShrinks
  <2>1. CASE Calls
    BY <2>1 DEF Calls, StartCall, StopCall, FreeCall, ToggleIpv6, Relaunch, AtRest
  <2>2. CASE \E w \in Workers : WorkerStep(w)
    <3>1. UNCHANGED <<pc, bin, idx, thr>>
      BY <2>2 DEF WorkerStep, ctlVars
    <3>2. CallLeft' = CallLeft
      BY <3>1 DEF CallLeft, TableLeft, ThreadLeft
    <3> QED BY <2>2, <3>2
  <2> QED BY <2>1, <2>2, StartingShrinks, StoppingShrinks, ReceivingShrinks DEF Next
<1> QED BY <1>1, TypeCorrect, ControlCorrect, PTL DEF Spec

=============================================================================
