SPECIFICATION FairSpec
CONSTANTS
  Threads = {gtk, rx, dns}
  Gtk = gtk
  MaxCalls = 2
  BD_LOG_MAX_LINES = 2
INVARIANTS
  ThreadOrderKept
  NewestKept
PROPERTIES
  EveryLineShown
CHECK_DEADLOCK FALSE
