------------------------------- MODULE Console ------------------------------
(***************************************************************************)
(* The logger and the live log.  Any thread calls bd_log: it looks at the  *)
(* level without a lock, prints the line and copies the sink under g_lock, *)
(* and calls the sink after the unlock.  The sink posts the line to the    *)
(* main loop (g_idle_add), whose thread appends it to the text buffer and  *)
(* drops the oldest lines.  bd_gui_run installs the sink before the loop   *)
(* and takes it away after it.                                             *)
(***************************************************************************)
EXTENDS Integers, Sequences

CONSTANTS
  Threads,            \* threads that log
  Gtk,                \* the one that runs the main loop
  MaxCalls,           \* bound: calls of bd_log per thread
  BD_LOG_MAX_LINES

ASSUME ConsoleAssumption ==
  /\ Gtk \in Threads /\ MaxCalls \in Nat /\ BD_LOG_MAX_LINES \in Nat \ {0}

BD_LOG_WARN  == 1
BD_LOG_INFO  == 2
BD_LOG_DEBUG == 3

VARIABLES
  life,      \* bd_gui_run: "start", "loop", "left", "cleared", "freed"
  g_level, g_sink,
  at,        \* each thread's place in bd_log
  calls,     \* how many lines each thread has logged; numbers its lines
  sink,      \* the sink each thread has copied (set or NULL)
  out,       \* ghost: the lines printed with the sink set
  idle,      \* posted lines, not yet appended
  logbuf,    \* the text buffer
  shown      \* ghost: every line that was ever appended

vars == <<life, g_level, g_sink, at, calls, sink, out, idle, logbuf, shown>>

Lines == [from : Threads, n : 1 .. MaxCalls]
Line(t) == [from |-> t, n |-> calls[t]]

Init ==
  /\ life = "start" /\ g_level \in {BD_LOG_INFO, BD_LOG_DEBUG} /\ g_sink = FALSE
  /\ at = [t \in Threads |-> "out"] /\ calls = [t \in Threads |-> 0]
  /\ sink = [t \in Threads |-> FALSE]
  /\ out = {} /\ idle = <<>> /\ logbuf = <<>> /\ shown = <<>>

-----------------------------------------------------------------------------
(* bd_log.  A call below the level returns at once.  Before the loop runs  *)
(* no other thread exists; afterwards detached ones may still log.         *)

Log(t, level) ==
  /\ at[t] = "out" /\ calls[t] < MaxCalls
  /\ life = "start" => t = Gtk
  /\ level <= g_level
  /\ at' = [at EXCEPT ![t] = "print"]
  /\ calls' = [calls EXCEPT ![t] = @ + 1]
  /\ UNCHANGED <<life, g_level, g_sink, sink, out, idle, logbuf, shown>>

\* The section under g_lock.
PrintLine(t) ==
  /\ at[t] = "print"
  /\ at' = [at EXCEPT ![t] = "sink"]
  /\ sink' = [sink EXCEPT ![t] = g_sink]
  /\ out' = IF g_sink THEN out \cup {Line(t)} ELSE out
  /\ UNCHANGED <<life, g_level, g_sink, calls, idle, logbuf, shown>>

\* mutant of Post: the newest line is run first
PostInFront(q, line) == <<line>> \o q

\* g_idle_add: callbacks of one priority run in the order they were added.
Post(q, line) == Append(q, line)

\* After the unlock: gui_log_sink, if a sink was copied.
CallSink(t) ==
  /\ at[t] = "sink"
  /\ idle' = IF sink[t] THEN Post(idle, Line(t)) ELSE idle
  /\ at' = [at EXCEPT ![t] = "out"]
  /\ UNCHANGED <<life, g_level, g_sink, calls, sink, out, logbuf, shown>>

-----------------------------------------------------------------------------
(* The GTK thread.                                                         *)

\* mutant of LineCount: the empty line after the last line end is forgotten
LineCountText(b) == Len(b)

\* gtk_text_buffer_get_line_count: every line ends with a line end, so there
\* is one more, empty line.
LineCount(b) == Len(b) + 1

Trimmed(b) ==
  LET lc == LineCount(b) IN
  IF lc > BD_LOG_MAX_LINES THEN SubSeq(b, lc - BD_LOG_MAX_LINES + 1, Len(b)) ELSE b

InLoop == life = "loop" /\ at[Gtk] = "out"

\* mutant of AppendLogIdle: one callback stands for all that are waiting
AppendLogIdleCoalesced ==
  /\ InLoop /\ idle # <<>>
  /\ idle' = <<>>
  /\ logbuf' = Append(Trimmed(logbuf), idle[Len(idle)])
  /\ shown' = Append(shown, idle[Len(idle)])
  /\ UNCHANGED <<life, g_level, g_sink, at, calls, sink, out>>

\* append_log_idle
AppendLogIdle ==
  /\ InLoop /\ idle # <<>>
  /\ idle' = Tail(idle)
  /\ logbuf' = Append(Trimmed(logbuf), Head(idle))
  /\ shown' = Append(shown, Head(idle))
  /\ UNCHANGED <<life, g_level, g_sink, at, calls, sink, out>>

\* on_verbose_toggled: bd_log_set_level
OnVerboseToggled ==
  /\ InLoop
  /\ g_level' = IF g_level = BD_LOG_INFO THEN BD_LOG_DEBUG ELSE BD_LOG_INFO
  /\ UNCHANGED <<life, g_sink, at, calls, sink, out, idle, logbuf, shown>>

\* bd_gui_run: install the sink, run the loop until somebody quits, take the
\* sink away, free the App.
GuiRun ==
  /\ at[Gtk] = "out"
  /\ \/ life = "start" /\ life' = "loop" /\ g_sink' = TRUE
     \/ life = "loop" /\ life' = "left" /\ UNCHANGED g_sink
     \/ life = "left" /\ life' = "cleared" /\ g_sink' = FALSE
     \/ life = "cleared" /\ life' = "freed" /\ UNCHANGED g_sink
  /\ UNCHANGED <<g_level, at, calls, sink, out, idle, logbuf, shown>>

-----------------------------------------------------------------------------
Logging(t) == PrintLine(t) \/ CallSink(t)

Next ==
  \/ \E t \in Threads :
       \/ \E level \in {BD_LOG_WARN, BD_LOG_DEBUG} : Log(t, level)
       \/ Logging(t)
  \/ AppendLogIdle \/ OnVerboseToggled \/ GuiRun

Spec == Init /\ [][Next]_vars

\* A call of bd_log goes on and the main loop runs its callbacks; nobody has
\* to log, toggle or quit.
FairSpec ==
  /\ Spec
  /\ \A t \in Threads : WF_vars(Logging(t))
  /\ WF_vars(AppendLogIdle)

-----------------------------------------------------------------------------
(* Properties.                                                             *)

\* The lines of one thread appear in the live log in the order it logged
\* them and no more than once, though the sink is called without the lock
\* and lines of other threads may overtake.
ThreadOrderKept ==
  \A i, j \in DOMAIN shown :
    i < j /\ shown[i].from = shown[j].from => shown[i].n < shown[j].n

\* The buffer holds the newest lines and no gap: as many as it may, at most
\* BD_LOG_MAX_LINES.
NewestKept ==
  LET n == IF Len(shown) < BD_LOG_MAX_LINES THEN Len(shown) ELSE BD_LOG_MAX_LINES
  IN  logbuf = SubSeq(shown, Len(shown) - n + 1, Len(shown))

\* What was printed while the sink was set reaches the live log, unless the
\* program ends first.
EveryLineShown ==
  \A line \in Lines :
    line \in out ~> (\E i \in DOMAIN shown : shown[i] = line) \/ life # "loop"

=============================================================================
