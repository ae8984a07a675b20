-------------------------------- MODULE Gui ---------------------------------
(***************************************************************************)
(* The window, the tray item and the autostart entry.  GTK and D-Bus       *)
(* callbacks run one at a time on the main loop, so each is one action;    *)
(* beside them run the connection tests (a thread each, reporting through  *)
(* an idle callback) and the desktop's tray host, which keeps its own copy *)
(* of the menu and learns of changes by signals.                           *)
(***************************************************************************)
EXTENDS Integers, Sequences

CONSTANTS
  Tests,        \* bound: connection tests at one time
  MaxRevision,  \* bound: menu revisions
  WireMax,      \* bound: signals or clicks under way at one time
  HostMayMiss,  \* the desktop may have no StatusNotifier host
  StartMayFail, \* bd_engine_start may fail
  DiskMayFail   \* writing or removing the autostart entry may fail

ASSUME GuiAssumption ==
  /\ MaxRevision \in Nat \ {0} /\ WireMax \in Nat
  /\ HostMayMiss \in BOOLEAN /\ StartMayFail \in BOOLEAN /\ DiskMayFail \in BOOLEAN

VARIABLES
  life,          \* "launched", "loop" (main loop running) or "gone"
  start_hidden, visible,
  running,       \* bd_engine_is_running
  sw_main, status, btn_test, test_result,
  test,          \* the test threads
  tray,          \* struct bd_tray: conn, active, revision
  host,          \* the host's copy of the menu; "absent" if there is no host
  changed,       \* LayoutUpdated signals on their way to the host
  clicks,        \* menu events on their way to us
  close_to_tray, min_tray, sw_autostart,
  entry          \* the autostart file

engineVars == <<running, sw_main, status>>
testVars   == <<btn_test, test_result, test>>
trayVars   == <<tray, host, changed, clicks>>
startVars  == <<close_to_tray, min_tray, sw_autostart, entry>>
winVars    == <<life, start_hidden, visible>>
vars       == <<winVars, engineVars, testVars, trayVars, startVars>>

Labels == {"Enable", "Disable"}

TypeOK ==
  /\ life \in {"launched", "loop", "gone"}
  /\ start_hidden \in BOOLEAN /\ visible \in BOOLEAN
  /\ running \in BOOLEAN /\ sw_main \in BOOLEAN /\ status \in BOOLEAN
  /\ btn_test \in BOOLEAN /\ test_result \in {"", "testing", "ok", "fail"}
  /\ test \in [Tests -> {"none", "trying", "ok", "fail"}]
  /\ tray \in [conn : BOOLEAN, active : BOOLEAN, revision : 1 .. MaxRevision]
  /\ host \in [at : {"absent", "unaware", "fetched"}, revision : 0 .. MaxRevision,
               label : Labels]
  /\ changed \in Seq(1 .. MaxRevision) /\ Len(changed) <= WireMax
  /\ clicks \in Seq({"toggle", "show", "quit"}) /\ Len(clicks) <= WireMax
  /\ close_to_tray \in BOOLEAN /\ min_tray \in BOOLEAN
  /\ sw_autostart \in BOOLEAN /\ entry \in {"none", "plain", "--tray", "cut short"}

\* bd_gui_run and the widgets' first values; an entry may be left from
\* before, and the switches are set from it and from the command line.
Init ==
  /\ life = "launched" /\ start_hidden \in BOOLEAN /\ visible = FALSE
  /\ running = FALSE /\ sw_main = FALSE /\ status = FALSE
  /\ btn_test = FALSE /\ test_result = "" /\ test = [t \in Tests |-> "none"]
  /\ tray = [conn |-> FALSE, active |-> FALSE, revision |-> 1]
  /\ \E a \in {"unaware"} \cup (IF HostMayMiss THEN {"absent"} ELSE {}) :
       host = [at |-> a, revision |-> 0, label |-> "Enable"]
  /\ changed = <<>> /\ clicks = <<>>
  /\ close_to_tray = TRUE /\ min_tray = start_hidden
  /\ entry \in {"none", "plain", "--tray"} /\ sw_autostart = (entry # "none")

-----------------------------------------------------------------------------
(* The engine switch, from the window or from the tray.                    *)

\* mutant of SetActive: the menu changes without a new revision
SetActiveSilent(active) ==
  IF active = tray.active
  THEN UNCHANGED <<tray, changed>>
  ELSE /\ tray' = [tray EXCEPT !.active = active]
       /\ changed' = IF tray.conn THEN Append(changed, tray.revision) ELSE changed

\* bd_tray_set_active
SetActive(active) ==
  IF active = tray.active
  THEN UNCHANGED <<tray, changed>>
  ELSE IF ~tray.conn
  THEN tray' = [tray EXCEPT !.active = active] /\ UNCHANGED changed
  ELSE /\ tray' = [tray EXCEPT !.active = active, !.revision = @ + 1]
       /\ changed' = Append(changed, tray.revision + 1)

\* set_status_ui
SetStatusUi(active) ==
  status' = active /\ btn_test' = active /\ SetActive(active)

\* mutant of OnMainToggled: a failed start leaves the switch on
OnMainToggledKeepsSwitch(want) ==
  /\ sw_main' = want
  /\ running' \in {want} \cup (IF want /\ StartMayFail THEN {FALSE} ELSE {})
  /\ SetStatusUi(running')

\* on_main_toggled: bd_engine_start and bd_engine_stop block the main loop;
\* after a failed start set_main_switch puts the switch back, with the
\* handler suppressed.
OnMainToggled(want) ==
  /\ running' \in {want} \cup (IF want /\ StartMayFail THEN {FALSE} ELSE {})
  /\ sw_main' = running'
  /\ SetStatusUi(running')

\* Bounds: no switching when the counters of the model are used up.
MaySwitch == tray.revision < MaxRevision /\ Len(changed) < WireMax

MainSwitch ==
  /\ life = "loop" /\ visible /\ MaySwitch
  /\ OnMainToggled(~sw_main)
  /\ UNCHANGED <<winVars, test_result, test, host, clicks, startVars>>

\* dispatch_item(ITEM_TOGGLE) or SecondaryActivate, then tray_on_toggle; the
\* switch row notifies only if its value changes.
TrayToggle ==
  IF tray.active # sw_main
  THEN UNCHANGED <<engineVars, btn_test, tray, changed>>
  ELSE MaySwitch /\ OnMainToggled(~tray.active)

-----------------------------------------------------------------------------
(* Life of the application.                                                *)

\* do_quit, the end of g_application_run and the rest of bd_gui_run: both
\* do_quit and bd_engine_free stop the engine.
Quit ==
  /\ life' = "gone" /\ visible' = FALSE /\ running' = FALSE
  /\ UNCHANGED <<start_hidden, sw_main, status, testVars, tray, host, changed,
                 startVars>>

\* on_activate, the first time and when the program is started again.
Activate ==
  /\ life # "gone"
  /\ life' = "loop"
  /\ visible' = (visible \/ ~start_hidden)
  /\ UNCHANGED <<start_hidden, engineVars, testVars, trayVars, startVars>>

\* on_close_request: a->tray is set even where no host shows the item.
CloseRequest ==
  /\ life = "loop" /\ visible
  /\ IF close_to_tray
     THEN visible' = FALSE
          /\ UNCHANGED <<life, start_hidden, engineVars, testVars, tray, host,
                         changed, startVars>>
     ELSE Quit
  /\ UNCHANGED clicks

\* The "Quit" entry of the window's menu.
MenuQuit == life = "loop" /\ visible /\ Quit /\ UNCHANGED clicks

-----------------------------------------------------------------------------
(* Tray item and its host (external).                                      *)

\* mutant of NameAcquired: revisions are counted from 0 on the bus
NameAcquiredFromZero ==
  /\ life = "loop" /\ ~tray.conn
  /\ tray' = [tray EXCEPT !.conn = TRUE, !.revision = 0]
  /\ UNCHANGED <<winVars, engineVars, testVars, host, changed, clicks, startVars>>

\* on_name_acquired; register_with_watcher reaches a host, if there is one.
NameAcquired ==
  /\ life = "loop" /\ ~tray.conn
  /\ tray' = [tray EXCEPT !.conn = TRUE]
  /\ UNCHANGED <<winVars, engineVars, testVars, host, changed, clicks, startVars>>

\* GetLayout, the first time or after LayoutUpdated: build_layout.
GetLayout ==
  /\ host' = [at |-> "fetched", revision |-> tray.revision,
              label |-> IF tray.active THEN "Disable" ELSE "Enable"]
  /\ UNCHANGED <<winVars, engineVars, testVars, tray, clicks, startVars>>

HostFetches ==
  /\ life = "loop" /\ tray.conn /\ host.at = "unaware"
  /\ GetLayout /\ UNCHANGED changed

HostUpdates ==
  /\ life = "loop" /\ host.at # "unaware" /\ changed # <<>>
  /\ changed' = Tail(changed)
  /\ IF host.at = "fetched" /\ Head(changed) # host.revision
     THEN GetLayout
     ELSE UNCHANGED <<winVars, engineVars, testVars, tray, host, clicks, startVars>>

HostClicks ==
  /\ life = "loop" /\ host.at = "fetched" /\ Len(clicks) < WireMax
  /\ \E c \in {"toggle", "show", "quit"} : clicks' = Append(clicks, c)
  /\ UNCHANGED <<winVars, engineVars, testVars, tray, host, changed, startVars>>

\* menu_method(Event): dispatch_item.
Dispatch ==
  /\ life = "loop" /\ clicks # <<>> /\ clicks' = Tail(clicks)
  /\ \/ /\ Head(clicks) = "toggle" /\ TrayToggle
        /\ UNCHANGED <<winVars, test_result, test, host, startVars>>
     \/ /\ Head(clicks) = "show" /\ visible' = TRUE
        /\ UNCHANGED <<life, start_hidden, engineVars, testVars, tray, host,
                       changed, startVars>>
     \/ Head(clicks) = "quit" /\ Quit

-----------------------------------------------------------------------------
(* Connection test.                                                        *)

\* on_test_clicked
TestClicked ==
  /\ life = "loop" /\ visible /\ btn_test
  /\ \E t \in Tests :
       test[t] = "none" /\ test' = [test EXCEPT ![t] = "trying"]
  /\ test_result' = "testing" /\ btn_test' = FALSE
  /\ UNCHANGED <<winVars, engineVars, trayVars, startVars>>

\* test_worker: tcp_head_ok, every wait of which has a timeout.  It may end
\* after the main loop: its idle callback is then never run.
TestWorker(t) ==
  /\ test[t] = "trying"
  /\ \E r \in {"ok", "fail"} : test' = [test EXCEPT ![t] = r]
  /\ UNCHANGED <<winVars, engineVars, btn_test, test_result, trayVars, startVars>>

\* mutant of TestDone: the button comes back whatever the engine does
TestDoneEnables(t) ==
  /\ life = "loop" /\ test[t] \in {"ok", "fail"}
  /\ test_result' = test[t] /\ btn_test' = TRUE
  /\ test' = [test EXCEPT ![t] = "none"]
  /\ UNCHANGED <<winVars, engineVars, trayVars, startVars>>

\* mutant of TestDone: the label is only written while the engine runs
TestDoneSilent(t) ==
  /\ life = "loop" /\ test[t] \in {"ok", "fail"}
  /\ test_result' = (IF running THEN test[t] ELSE test_result)
  /\ btn_test' = running
  /\ test' = [test EXCEPT ![t] = "none"]
  /\ UNCHANGED <<winVars, engineVars, trayVars, startVars>>

\* test_done_idle
TestDone(t) ==
  /\ life = "loop" /\ test[t] \in {"ok", "fail"}
  /\ test_result' = test[t] /\ btn_test' = running
  /\ test' = [test EXCEPT ![t] = "none"]
  /\ UNCHANGED <<winVars, engineVars, trayVars, startVars>>

-----------------------------------------------------------------------------
(* Startup preferences and the autostart entry.                            *)

Wanted(on, tray_only) ==
  IF ~on THEN "none" ELSE IF tray_only THEN "--tray" ELSE "plain"

\* refresh_autostart: bd_autostart_enable checks fopen but neither fprintf
\* nor fclose; bd_autostart_disable's result is not looked at.
RefreshAutostart(on, tray_only) ==
  \/ entry' = Wanted(on, tray_only)
  \/ DiskMayFail /\ UNCHANGED entry
  \/ DiskMayFail /\ on /\ entry' = "cut short"

AutostartToggled ==
  /\ life = "loop" /\ visible
  /\ sw_autostart' = ~sw_autostart
  /\ RefreshAutostart(~sw_autostart, min_tray)
  /\ UNCHANGED <<winVars, engineVars, testVars, trayVars, close_to_tray, min_tray>>

MintrayToggled ==
  /\ life = "loop" /\ visible
  /\ min_tray' = ~min_tray
  /\ IF sw_autostart THEN RefreshAutostart(TRUE, ~min_tray) ELSE UNCHANGED entry
  /\ UNCHANGED <<winVars, engineVars, testVars, trayVars, close_to_tray, sw_autostart>>

ClosetrayToggled ==
  /\ life = "loop" /\ visible
  /\ close_to_tray' = ~close_to_tray
  /\ UNCHANGED <<winVars, engineVars, testVars, trayVars, min_tray, sw_autostart,
                 entry>>

-----------------------------------------------------------------------------
User == MainSwitch \/ CloseRequest \/ MenuQuit \/ TestClicked
        \/ AutostartToggled \/ MintrayToggled \/ ClosetrayToggled

Host == NameAcquired \/ HostFetches \/ HostUpdates \/ HostClicks

Next == \/ User \/ Activate \/ Host \/ Dispatch
        \/ \E t \in Tests : TestWorker(t) \/ TestDone(t)

Spec == Init /\ [][Next]_vars

\* A test thread ends by its timeouts and the main loop runs every idle
\* callback; nobody has to click.
Fairness == \A t \in Tests : WF_vars(TestWorker(t)) /\ WF_vars(TestDone(t))

FairSpec == Spec /\ Fairness

-----------------------------------------------------------------------------
(* Properties.                                                             *)

\* The switch, the status line and the tray agree with the engine, whoever
\* switched it and whether or not the start succeeded.
UiAgrees ==
  life = "loop" =>
    sw_main = running /\ status = running /\ tray.active = running

\* The Test button can be pressed only while the engine runs, and it can be
\* when it runs and no test is under way -- though the engine may have been
\* stopped and started while a test was.
TestButtonRight ==
  life = "loop" =>
    /\ btn_test => running
    /\ running /\ (\A t \in Tests : test[t] = "none") => btn_test

\* A host that holds the newest revision of the menu shows the action that
\* a click performs; revisions tell every change apart.
MenuIsCurrent ==
  life = "loop" /\ host.at = "fetched" /\ host.revision = tray.revision =>
    host.label = IF tray.active THEN "Disable" ELSE "Enable"

\* "Testing..." is always followed by a result, unless the program ends.
TestEnds == test_result = "testing" ~> (test_result # "testing" \/ life = "gone")

=============================================================================
