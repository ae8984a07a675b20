----------------------------- MODULE GuiProofs ------------------------------
(***************************************************************************)
(* Proofs about the window, the tray item and the autostart entry, for     *)
(* every number of overlapping connection tests, every number of signals   *)
(* and clicks under way and every mixture of failures.                     *)
(***************************************************************************)
EXTENDS Gui, TLAPS

\* The widgets agree with the engine from bd_gui_run on, not only while the
\* main loop runs: on_activate changes none of them.
UiInv ==
  life # "gone" =>
    sw_main = running /\ status = running /\ tray.active = running

\* The same for the Test button.
TestInv ==
  life # "gone" =>
    /\ btn_test => running
    /\ running /\ (\A t \in Tests : test[t] = "none") => btn_test

\* A host has fetched the menu from an exported object, and never a revision
\* the item has not had yet: the next change gets a number of its own.
MenuInv ==
  host.at = "fetched" =>
    /\ tray.conn
    /\ host.revision <= tray.revision
    /\ host.revision = tray.revision =>
         host.label = IF tray.active THEN "Disable" ELSE "Enable"

-----------------------------------------------------------------------------
(* Types, one part for each group of variables.                            *)

WinType ==
  life \in {"launched", "loop", "gone"} /\ start_hidden \in BOOLEAN /\ visible \in BOOLEAN

EngineType == running \in BOOLEAN /\ sw_main \in BOOLEAN /\ status \in BOOLEAN

TestType ==
  /\ btn_test \in BOOLEAN /\ test_result \in {"", "testing", "ok", "fail"}
  /\ test \in [Tests -> {"none", "trying", "ok", "fail"}]

TrayRecord == [conn : BOOLEAN, active : BOOLEAN, revision : 1 .. MaxRevision]

TrayType ==
  tray \in TrayRecord /\ changed \in Seq(1 .. MaxRevision) /\ Len(changed) <= WireMax

HostType ==
  host \in [at : {"absent", "unaware", "fetched"}, revision : 0 .. MaxRevision,
            label : Labels]

ClickType == clicks \in Seq({"toggle", "show", "quit"}) /\ Len(clicks) <= WireMax

StartType ==
  /\ close_to_tray \in BOOLEAN /\ min_tray \in BOOLEAN
  /\ sw_autostart \in BOOLEAN /\ entry \in {"none", "plain", "--tray", "cut short"}

\* TypeOK is made of these parts.
LEMMA Parts ==
  TypeOK <=> /\ WinType /\ EngineType /\ TestType /\ TrayType
             /\ HostType /\ ClickType /\ StartType
BY DEF TypeOK, WinType, EngineType, TestType, TrayType, TrayRecord, HostType,
       ClickType, StartType

\* A part whose variables a handler leaves alone keeps its type.
LEMMA PartsKept ==
  ASSUME TypeOK
  PROVE  /\ UNCHANGED winVars => WinType'
         /\ UNCHANGED engineVars => EngineType'
         /\ UNCHANGED testVars => TestType'
         /\ UNCHANGED <<tray, changed>> => TrayType'
         /\ UNCHANGED host => HostType'
         /\ UNCHANGED clicks => ClickType'
         /\ UNCHANGED startVars => StartType'
<1> USE Parts
<1>1. UNCHANGED winVars => WinType' BY DEF winVars, WinType
<1>2. UNCHANGED engineVars => EngineType' BY DEF engineVars, EngineType
<1>3. UNCHANGED testVars => TestType' BY DEF testVars, TestType
<1>4. UNCHANGED <<tray, changed>> => TrayType' BY DEF TrayType
<1>5. UNCHANGED host => HostType' BY DEF HostType
<1>6. UNCHANGED clicks => ClickType' BY DEF ClickType
<1>7. UNCHANGED startVars => StartType' BY DEF startVars, StartType
<1> QED BY <1>1, <1>2, <1>3, <1>4, <1>5, <1>6, <1>7

\* The widgets and the tray's struct as bd_gui_run leaves them.
LEMMA TypeInit == Init => TypeOK
<1> SUFFICES ASSUME Init PROVE TypeOK
  OBVIOUS
<1>1. WinType /\ EngineType
  BY DEF Init, WinType, EngineType
<1>2. TestType
  BY DEF Init, TestType
<1>3. TrayType
  <2>1. tray = [conn |-> FALSE, active |-> FALSE, revision |-> 1] /\ changed = <<>>
    BY DEF Init
  <2> QED BY <2>1, GuiAssumption DEF TrayType, TrayRecord
<1>4. HostType
  <2>1. PICK a \in {"unaware"} \cup (IF HostMayMiss THEN {"absent"} ELSE {}) :
          host = [at |-> a, revision |-> 0, label |-> "Enable"]
    BY DEF Init
  <2>2. a \in {"absent", "unaware", "fetched"}
    OBVIOUS
  <2>3. 0 \in 0 .. MaxRevision
    BY GuiAssumption
  <2> QED BY <2>1, <2>2, <2>3 DEF HostType, Labels
<1>5. ClickType
  <2>1. clicks = <<>>
    BY DEF Init
  <2> QED BY <2>1, GuiAssumption DEF ClickType
<1>6. StartType
  BY DEF Init, StartType
<1> QED BY <1>1, <1>2, <1>3, <1>4, <1>5, <1>6, Parts

\* bd_tray_set_active counts revisions and signals within their bounds.
LEMMA SetActiveType ==
  ASSUME TypeOK, MaySwitch, NEW active \in BOOLEAN, SetActive(active)
  PROVE  TrayType' /\ tray'.active = active
<1>1. /\ tray \in TrayRecord /\ changed \in Seq(1 .. MaxRevision)
      /\ Len(changed) <= WireMax
  BY Parts DEF TrayType
<1>2. tray.revision < MaxRevision /\ Len(changed) < WireMax
  BY DEF MaySwitch
<1>3. CASE active = tray.active
  BY <1>1, <1>3 DEF SetActive, TrayType
<1>4. CASE active # tray.active /\ ~tray.conn
  <2>1. tray' = [tray EXCEPT !.active = active] /\ UNCHANGED changed
    BY <1>4 DEF SetActive
  <2> QED BY <1>1, <2>1 DEF TrayType, TrayRecord
<1>5. CASE active # tray.active /\ tray.conn
  <2>1. /\ tray' = [tray EXCEPT !.active = active, !.revision = @ + 1]
        /\ changed' = Append(changed, tray.revision + 1)
    BY <1>5 DEF SetActive
  <2>2. tray.revision \in 1 .. MaxRevision
    BY <1>1 DEF TrayRecord
  <2>3. tray.revision + 1 \in 1 .. MaxRevision
    BY <1>2, <2>2, GuiAssumption
  <2>4. tray' = [conn |-> tray.conn, active |-> active, revision |-> tray.revision + 1]
    BY <1>1, <2>1 DEF TrayRecord
  <2>5. tray' \in TrayRecord /\ tray'.active = active
    BY <1>1, <2>3, <2>4 DEF TrayRecord
  <2>6. changed' \in Seq(1 .. MaxRevision) /\ Len(changed') <= WireMax
    BY <1>1, <1>2, <2>1, <2>3, GuiAssumption
  <2> QED BY <2>5, <2>6 DEF TrayType
<1> QED BY <1>3, <1>4, <1>5 DEF SetActive

\* on_main_toggled, whoever asked for it: every widget it writes shows the
\* state the engine is in afterwards.
LEMMA ToggledUi ==
  ASSUME TypeOK, MaySwitch, NEW want \in BOOLEAN, OnMainToggled(want)
  PROVE  /\ running' \in BOOLEAN /\ sw_main' = running' /\ status' = running'
         /\ btn_test' = running' /\ tray'.active = running'
         /\ TrayType' /\ SetActive(running')
<1>1. running' \in BOOLEAN
  BY DEF OnMainToggled
<1>2. sw_main' = running' /\ SetStatusUi(running')
  BY DEF OnMainToggled
<1>3. status' = running' /\ btn_test' = running' /\ SetActive(running')
  BY <1>2 DEF SetStatusUi
<1> QED BY <1>1, <1>2, <1>3, SetActiveType

\* So the parts of TypeOK it changes keep their types.
LEMMA ToggledType ==
  ASSUME TypeOK, MaySwitch, NEW want \in BOOLEAN, OnMainToggled(want),
         UNCHANGED <<test_result, test>>
  PROVE  EngineType' /\ TestType' /\ TrayType'
BY ToggledUi, Parts DEF EngineType, TestType

\* The end of bd_gui_run.
LEMMA QuitType ==
  ASSUME TypeOK, Quit
  PROVE  WinType' /\ EngineType' /\ TestType' /\ TrayType' /\ HostType' /\ StartType'
<1>1. WinType' BY Parts DEF Quit, WinType
<1>2. EngineType' BY Parts DEF Quit, EngineType
<1> QED BY <1>1, <1>2, PartsKept DEF Quit

\* Every handler keeps every variable in its type.
LEMMA TypeNext == TypeOK /\ [Next]_vars => TypeOK'
<1> SUFFICES ASSUME TypeOK, [Next]_vars PROVE TypeOK'
  OBVIOUS
<1>p. Parts'
  BY Parts, PTL
<1> USE Parts, <1>p, PartsKept
<1>1. CASE MainSwitch
  <2>1. (~sw_main) \in BOOLEAN
    BY DEF TypeOK
  <2> QED BY <1>1, <2>1, ToggledType DEF MainSwitch
<1>2. CASE CloseRequest
  <2>1. CASE close_to_tray
    <3>1. WinType'
      BY <1>2, <2>1 DEF CloseRequest, WinType
    <3> QED BY <1>2, <2>1, <3>1 DEF CloseRequest
  <2> QED BY <1>2, <2>1, QuitType DEF CloseRequest
<1>3. CASE MenuQuit
  BY <1>3, QuitType DEF MenuQuit
<1>4. CASE Activate
  <2>1. WinType'
    BY <1>4 DEF Activate, WinType
  <2> QED BY <1>4, <2>1 DEF Activate, trayVars
<1>5. CASE TestClicked
  <2>1. TestType'
    BY <1>5 DEF TestClicked, TestType
  <2> QED BY <1>5, <2>1 DEF TestClicked, trayVars
<1>6. CASE AutostartToggled \/ MintrayToggled \/ ClosetrayToggled
  <2>1. StartType'
    BY <1>6 DEF AutostartToggled, MintrayToggled, ClosetrayToggled,
                RefreshAutostart, Wanted, StartType
  <2> QED BY <1>6, <2>1 DEF AutostartToggled, MintrayToggled, ClosetrayToggled, trayVars
<1>7. CASE NameAcquired
  <2>1. TrayType'
    BY <1>7 DEF NameAcquired, TrayType, TrayRecord
  <2> QED BY <1>7, <2>1 DEF NameAcquired
<1>8. GetLayout => HostType'
  <2> SUFFICES ASSUME GetLayout PROVE HostType'
    OBVIOUS
  <2>1. tray.revision \in 0 .. MaxRevision
    BY GuiAssumption DEF TrayType, TrayRecord
  <2>2. host' = [at |-> "fetched", revision |-> tray.revision,
                 label |-> IF tray.active THEN "Disable" ELSE "Enable"]
    BY DEF GetLayout
  <2> QED BY <2>1, <2>2 DEF HostType, Labels
<1>9. CASE HostFetches
  BY <1>8, <1>9 DEF HostFetches, GetLayout
<1>10. CASE HostUpdates
  <2>1. TrayType'
    <3>1. changed' = Tail(changed) /\ changed # <<>> /\ tray' = tray
      BY <1>10 DEF HostUpdates, GetLayout
    <3> QED BY <3>1, GuiAssumption DEF TrayType
  <2> QED BY <1>8, <1>10, <2>1 DEF HostUpdates, GetLayout
<1>11. CASE HostClicks
  <2>1. ClickType'
    <3>1. PICK c \in {"toggle", "show", "quit"} : clicks' = Append(clicks, c)
      BY <1>11 DEF HostClicks
    <3>2. Len(clicks) < WireMax
      BY <1>11 DEF HostClicks
    <3> QED BY <3>1, <3>2, GuiAssumption DEF ClickType
  <2> QED BY <1>11, <2>1 DEF HostClicks
<1>12. CASE Dispatch
  <2>1. ClickType'
    <3>1. clicks' = Tail(clicks) /\ clicks # <<>>
      BY <1>12 DEF Dispatch
    <3> QED BY <3>1, GuiAssumption DEF ClickType
  <2>2. CASE TrayToggle /\ UNCHANGED <<winVars, test_result, test, host, startVars>>
    <3>1. (~tray.active) \in BOOLEAN
      BY DEF TrayType, TrayRecord
    <3>2. CASE tray.active # sw_main
      <4>1. UNCHANGED <<engineVars, btn_test, tray, changed>>
        BY <2>2, <3>2 DEF TrayToggle
      <4>2. UNCHANGED testVars
        BY <2>2, <4>1 DEF testVars
      <4> QED BY <2>1, <2>2, <4>1, <4>2
    <3>3. CASE MaySwitch /\ OnMainToggled(~tray.active)
      BY <2>1, <2>2, <3>1, <3>3, ToggledType
    <3> QED BY <2>2, <3>2, <3>3 DEF TrayToggle
  <2>3. CASE /\ visible' = TRUE
             /\ UNCHANGED <<life, start_hidden, engineVars, testVars, tray, host,
                            changed, startVars>>
    <3>1. WinType'
      BY <2>3 DEF WinType
    <3> QED BY <2>1, <2>3, <3>1
  <2>4. CASE Quit
    BY <2>1, <2>4, QuitType
  <2> QED BY <1>12, <2>2, <2>3, <2>4 DEF Dispatch
<1>13. ASSUME NEW t \in Tests, TestWorker(t) \/ TestDone(t) PROVE TypeOK'
  <2>1. TestType'
    BY <1>13 DEF TestWorker, TestDone, TestType, EngineType
  <2> QED BY <1>13, <2>1 DEF TestWorker, TestDone, trayVars
<1>14. CASE UNCHANGED vars
  BY <1>14 DEF vars, trayVars
<1> QED BY <1>1, <1>2, <1>3, <1>4, <1>5, <1>6, <1>7, <1>9, <1>10, <1>11, <1>12,
           <1>13, <1>14 DEF Next, User, Host

\* Every variable keeps its type whatever is clicked and whatever fails.
THEOREM TypeCorrect == Spec => []TypeOK
BY TypeInit, TypeNext, PTL DEF Spec

-----------------------------------------------------------------------------
(* The widgets and the engine.                                             *)

\* Both ways to the switch leave the widgets in agreement with the engine,
\* started, stopped or refused by bd_engine_start.
LEMMA UiNext == TypeOK /\ UiInv /\ [Next]_vars => UiInv'
<1> SUFFICES ASSUME TypeOK, UiInv, [Next]_vars PROVE UiInv'
  OBVIOUS
<1>1. ASSUME NEW want \in BOOLEAN, MaySwitch, OnMainToggled(want) PROVE UiInv'
  BY <1>1, ToggledUi DEF UiInv
<1>2. CASE MainSwitch
  <2>1. (~sw_main) \in BOOLEAN
    BY DEF TypeOK
  <2> QED BY <1>1, <1>2, <2>1 DEF MainSwitch
<1>3. CASE Dispatch
  <2>1. (~tray.active) \in BOOLEAN
    BY Parts DEF TrayType, TrayRecord
  <2>2. CASE TrayToggle /\ life' = life
    <3>1. CASE tray.active # sw_main
      BY <2>2, <3>1 DEF TrayToggle, UiInv, engineVars
    <3> QED BY <1>1, <2>1, <2>2, <3>1 DEF TrayToggle
  <2>3. CASE UNCHANGED <<life, engineVars, tray>>
    BY <2>3 DEF UiInv, engineVars
  <2>4. CASE Quit
    BY <2>4 DEF UiInv, Quit
  <2> QED BY <1>3, <2>2, <2>3, <2>4 DEF Dispatch, winVars
<1>4. CASE CloseRequest \/ MenuQuit
  <2>1. CASE Quit
    BY <2>1 DEF UiInv, Quit
  <2>2. CASE UNCHANGED <<life, engineVars, tray>>
    BY <2>2 DEF UiInv, engineVars
  <2> QED BY <1>4, <2>1, <2>2 DEF CloseRequest, MenuQuit
<1>5. CASE Activate
  BY <1>5 DEF UiInv, Activate, engineVars, trayVars
<1>6. CASE NameAcquired
  <2>1. UNCHANGED <<life, engineVars>> /\ tray'.active = tray.active
    BY <1>6, Parts DEF NameAcquired, winVars, TrayType, TrayRecord
  <2> QED BY <2>1 DEF UiInv, engineVars
<1>7. CASE UNCHANGED <<life, engineVars, tray>>
  BY <1>7 DEF UiInv, engineVars
<1>8. TestClicked \/ AutostartToggled \/ MintrayToggled \/ ClosetrayToggled
        => UNCHANGED <<life, engineVars, tray>>
  BY DEF TestClicked, AutostartToggled, MintrayToggled, ClosetrayToggled, winVars,
         trayVars
<1>9. HostFetches \/ HostUpdates \/ HostClicks => UNCHANGED <<life, engineVars, tray>>
  BY DEF HostFetches, HostUpdates, HostClicks, GetLayout, winVars
<1>10. ASSUME NEW t \in Tests, TestWorker(t) \/ TestDone(t)
       PROVE  UNCHANGED <<life, engineVars, tray>>
  BY <1>10 DEF TestWorker, TestDone, winVars, trayVars
<1>11. CASE UNCHANGED vars
  BY <1>7, <1>11 DEF vars, winVars, trayVars
<1> QED BY <1>2, <1>3, <1>4, <1>5, <1>6, <1>7, <1>8, <1>9, <1>10, <1>11
        DEF Next, User, Host

\* Whoever switches the engine and whether or not it starts: the switch, the
\* status line and the tray item agree with it while the main loop runs.
THEOREM UiAgreesCorrect == Spec => []UiAgrees
<1>1. Init => UiInv
  <2> SUFFICES ASSUME Init PROVE UiInv
    OBVIOUS
  <2>1. tray = [conn |-> FALSE, active |-> FALSE, revision |-> 1]
    BY DEF Init
  <2>2. running = FALSE /\ sw_main = FALSE /\ status = FALSE
    BY DEF Init
  <2> QED BY <2>1, <2>2 DEF UiInv
<1>2. UiInv => UiAgrees
  BY DEF UiInv, UiAgrees
<1> QED BY <1>1, <1>2, TypeInit, TypeNext, UiNext, PTL DEF Spec

-----------------------------------------------------------------------------
(* The Test button.                                                        *)

\* A test that is started takes the button away and a test that is over gives
\* it back if the engine runs, in every order with the switch.
LEMMA TestNext == TypeOK /\ TestInv /\ [Next]_vars => TestInv'
<1> SUFFICES ASSUME TypeOK, TestInv, [Next]_vars PROVE TestInv'
  OBVIOUS
<1>1. ASSUME NEW want \in BOOLEAN, MaySwitch, OnMainToggled(want) PROVE TestInv'
  <2>1. btn_test' = running'
    BY <1>1, ToggledUi
  <2> QED BY <2>1 DEF TestInv
<1>2. CASE MainSwitch
  <2>1. (~sw_main) \in BOOLEAN
    BY DEF TypeOK
  <2> QED BY <1>1, <1>2, <2>1 DEF MainSwitch
<1>3. CASE UNCHANGED <<life, running, btn_test, test>>
  BY <1>3 DEF TestInv
<1>4. CASE Quit
  BY <1>4 DEF TestInv, Quit
<1>5. CASE Dispatch
  <2>1. (~tray.active) \in BOOLEAN
    BY Parts DEF TrayType, TrayRecord
  <2>2. CASE TrayToggle /\ UNCHANGED <<life, test>>
    <3>1. CASE tray.active # sw_main
      BY <1>3, <2>2, <3>1 DEF TrayToggle, engineVars
    <3> QED BY <1>1, <2>1, <2>2, <3>1 DEF TrayToggle
  <2> QED BY <1>3, <1>4, <1>5, <2>2 DEF Dispatch, winVars, engineVars, testVars
<1>6. CASE CloseRequest \/ MenuQuit
  BY <1>3, <1>4, <1>6 DEF CloseRequest, MenuQuit, engineVars, testVars
<1>7. CASE Activate
  BY <1>7 DEF TestInv, Activate, engineVars, testVars
<1>8. CASE TestClicked
  <2>1. PICK t \in Tests : test[t] = "none" /\ test' = [test EXCEPT ![t] = "trying"]
    BY <1>8 DEF TestClicked
  <2>2. test'[t] = "trying"
    BY <2>1 DEF TypeOK
  <2>3. btn_test' = FALSE
    BY <1>8 DEF TestClicked
  <2> QED BY <2>2, <2>3 DEF TestInv
<1>9. ASSUME NEW t \in Tests, TestWorker(t) PROVE TestInv'
  <2>1. PICK r \in {"ok", "fail"} : test' = [test EXCEPT ![t] = r]
    BY <1>9 DEF TestWorker
  <2>2. test'[t] # "none"
    BY <2>1 DEF TypeOK
  <2>3. UNCHANGED <<life, running, btn_test>>
    BY <1>9 DEF TestWorker, winVars, engineVars
  <2> QED BY <2>2, <2>3 DEF TestInv
<1>10. ASSUME NEW t \in Tests, TestDone(t) PROVE TestInv'
  <2>1. btn_test' = running'
    BY <1>10 DEF TestDone, engineVars
  <2> QED BY <2>1 DEF TestInv
<1>11. AutostartToggled \/ MintrayToggled \/ ClosetrayToggled \/ NameAcquired
         => UNCHANGED <<life, running, btn_test, test>>
  BY DEF AutostartToggled, MintrayToggled, ClosetrayToggled, NameAcquired, winVars,
         engineVars, testVars
<1>12. HostFetches \/ HostUpdates \/ HostClicks
         => UNCHANGED <<life, running, btn_test, test>>
  BY DEF HostFetches, HostUpdates, HostClicks, GetLayout, winVars, engineVars, testVars
<1>13. CASE UNCHANGED vars
  BY <1>3, <1>13 DEF vars, winVars, engineVars, testVars
<1> QED BY <1>2, <1>3, <1>5, <1>6, <1>7, <1>8, <1>9, <1>10, <1>11, <1>12, <1>13
        DEF Next, User, Host

\* For every number of overlapping tests: the Test button can be pressed only
\* while the engine runs, and always then unless a test is under way.
THEOREM TestButtonCorrect == Spec => []TestButtonRight
<1>1. Init => TestInv
  BY DEF Init, TestInv
<1>2. TestInv => TestButtonRight
  BY DEF TestInv, TestButtonRight
<1> QED BY <1>1, <1>2, TypeInit, TypeNext, TestNext, PTL DEF Spec

-----------------------------------------------------------------------------
(* The tray menu.                                                          *)

\* A change of the item's state either happens before the menu is exported
\* or gets a revision that no host has fetched.
LEMMA SetActiveMenu ==
  ASSUME TypeOK, MenuInv, MaySwitch, NEW active \in BOOLEAN, SetActive(active),
         UNCHANGED host
  PROVE  MenuInv'
<1>1. tray \in TrayRecord /\ tray.revision \in Nat /\ host.revision \in Nat
  BY Parts, GuiAssumption DEF TrayType, TrayRecord, HostType
<1>2. CASE active = tray.active
  <2>1. UNCHANGED tray
    BY <1>2 DEF SetActive
  <2> QED BY <2>1 DEF MenuInv
<1>3. CASE active # tray.active /\ ~tray.conn
  <2>1. host.at # "fetched"
    BY <1>3 DEF MenuInv
  <2> QED BY <2>1 DEF MenuInv
<1>4. CASE active # tray.active /\ tray.conn
  <2>1. tray' = [tray EXCEPT !.active = active, !.revision = @ + 1]
    BY <1>4 DEF SetActive
  <2>2. tray' = [conn |-> tray.conn, active |-> active, revision |-> tray.revision + 1]
    BY <1>1, <2>1 DEF TrayRecord
  <2>3. tray'.conn /\ tray'.revision = tray.revision + 1
    BY <1>4, <2>2
  <2>4. host.at = "fetched" => host.revision <= tray.revision
    BY DEF MenuInv
  <2>5. host.at = "fetched" => host.revision < tray'.revision
    BY <1>1, <2>3, <2>4
  <2>6. host.at = "fetched" => host.revision <= tray'.revision /\ host.revision # tray'.revision
    BY <1>1, <2>3, <2>5
  <2> QED BY <2>3, <2>6 DEF MenuInv
<1> QED BY <1>2, <1>3, <1>4

\* A host fetches the menu of this moment.
LEMMA GetLayoutMenu == ASSUME TypeOK, GetLayout, tray.conn PROVE MenuInv'
<1>1. tray.revision \in Nat
  BY Parts, GuiAssumption DEF TrayType, TrayRecord
<1>2. /\ host' = [at |-> "fetched", revision |-> tray.revision,
                  label |-> IF tray.active THEN "Disable" ELSE "Enable"]
      /\ tray' = tray
  BY DEF GetLayout
<1>3. tray'.revision <= tray'.revision
  BY <1>1, <1>2
<1> QED BY <1>2, <1>3 DEF MenuInv

LEMMA MenuNext == TypeOK /\ MenuInv /\ [Next]_vars => MenuInv'
<1> SUFFICES ASSUME TypeOK, MenuInv, [Next]_vars PROVE MenuInv'
  OBVIOUS
<1>1. ASSUME NEW want \in BOOLEAN, MaySwitch, OnMainToggled(want), UNCHANGED host
      PROVE  MenuInv'
  BY <1>1, ToggledUi, SetActiveMenu
<1>2. CASE UNCHANGED <<tray, host>>
  BY <1>2 DEF MenuInv
<1>3. CASE MainSwitch
  <2>1. (~sw_main) \in BOOLEAN
    BY DEF TypeOK
  <2> QED BY <1>1, <1>3, <2>1 DEF MainSwitch
<1>4. CASE Dispatch
  <2>1. (~tray.active) \in BOOLEAN
    BY Parts DEF TrayType, TrayRecord
  <2>2. CASE TrayToggle /\ UNCHANGED host
    <3>1. CASE tray.active # sw_main
      BY <1>2, <2>2, <3>1 DEF TrayToggle
    <3> QED BY <1>1, <2>1, <2>2, <3>1 DEF TrayToggle
  <2> QED BY <1>2, <1>4, <2>2 DEF Dispatch, Quit
<1>5. CASE NameAcquired
  <2>1. tray' = [tray EXCEPT !.conn = TRUE] /\ tray \in TrayRecord /\ UNCHANGED host
    BY <1>5, Parts DEF NameAcquired, TrayType
  <2>2. tray'.conn /\ tray'.revision = tray.revision /\ tray'.active = tray.active
    BY <2>1 DEF TrayRecord
  <2> QED BY <2>1, <2>2 DEF MenuInv
<1>6. CASE HostFetches
  BY <1>6, GetLayoutMenu DEF HostFetches
<1>7. CASE HostUpdates
  <2>1. CASE host.at = "fetched" /\ Head(changed) # host.revision
    <3>1. tray.conn
      BY <2>1 DEF MenuInv
    <3> QED BY <1>7, <2>1, <3>1, GetLayoutMenu DEF HostUpdates
  <2> QED BY <1>2, <1>7, <2>1 DEF HostUpdates
<1>8. CloseRequest \/ MenuQuit \/ Activate \/ TestClicked \/ HostClicks
        => UNCHANGED <<tray, host>>
  BY DEF CloseRequest, MenuQuit, Quit, Activate, TestClicked, HostClicks, trayVars
<1>9. AutostartToggled \/ MintrayToggled \/ ClosetrayToggled => UNCHANGED <<tray, host>>
  BY DEF AutostartToggled, MintrayToggled, ClosetrayToggled, trayVars
<1>10. ASSUME NEW t \in Tests, TestWorker(t) \/ TestDone(t)
       PROVE  UNCHANGED <<tray, host>>
  BY <1>10 DEF TestWorker, TestDone, trayVars
<1>11. CASE UNCHANGED vars
  BY <1>2, <1>11 DEF vars, trayVars
<1> QED BY <1>2, <1>3, <1>4, <1>5, <1>6, <1>7, <1>8, <1>9, <1>10, <1>11
        DEF Next, User, Host

\* However long LayoutUpdated takes and whenever the name is acquired: a host
\* that holds the newest revision shows what a click does.
THEOREM MenuCorrect == Spec => []MenuIsCurrent
<1>1. Init => MenuInv
  <2> SUFFICES ASSUME Init PROVE MenuInv
    OBVIOUS
  <2>1. PICK a \in {"unaware"} \cup (IF HostMayMiss THEN {"absent"} ELSE {}) :
          host = [at |-> a, revision |-> 0, label |-> "Enable"]
    BY DEF Init
  <2>2. host.at # "fetched"
    BY <2>1
  <2> QED BY <2>2 DEF MenuInv
<1>2. MenuInv => MenuIsCurrent
  BY DEF MenuInv, MenuIsCurrent
<1> QED BY <1>1, <1>2, TypeInit, TypeNext, MenuNext, PTL DEF Spec

=============================================================================
