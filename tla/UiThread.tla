------------------------------ MODULE UiThread ------------------------------
(***************************************************************************)
(* The life of the UI thread (ui/uithread.cc) and of the display thread    *)
(* it starts for the first window that is shown (DisplayDriver in          *)
(* ui/displaywindow.cc, X11Context in ui/displaywindow-x11.cc), from       *)
(* uithread_bootup() to uithread_shutdown().                               *)
(*                                                                         *)
(* Clients call into the UI thread; it sends commands to the display       *)
(* thread and waits for the reply of those that have one; the display      *)
(* thread wakes a window's loop up for every event.                        *)
(***************************************************************************)
EXTENDS Naturals, Sequences, SequencesExt, FiniteSets

CONSTANTS
  Windows,
  MaxCalls,       \* bounds the calls of clients
  DeleteWindows,  \* the user may close windows that no client holds
  LateShows       \* shutdown may overtake calls of show()

VARIABLES
  main,       \* the thread that boots up and shuts down
  ui, wait,   \* the UI thread, and the reply it is blocked for
  quit,       \* main_loop_->quit() was called
  calls,      \* one-way calls of clients, and WIN_DELETE events
  made,       \* how many there were
  alive,      \* the WindowImpls
  shown,      \* those that have a display window
  callback,   \* an exec_now() callback, a primary source
  dthread,    \* the display thread
  asleep,     \* it polls
  notifier,   \* the notifier of the command queue is set
  commands, replies,
  xwindows    \* windows with a DisplayWindowX11, x11ids_

uiVars      == <<ui, wait, quit, calls, made, alive, shown, callback>>
displayVars == <<dthread, asleep, notifier, commands, replies, xwindows>>
vars        == <<main, uiVars, displayVars>>

Init ==
  /\ main = "none" /\ ui = "none" /\ wait = "none" /\ quit = FALSE
  /\ calls = <<>> /\ made = 0 /\ alive = {} /\ shown = {} /\ callback = FALSE
  /\ dthread = "none" /\ asleep = FALSE /\ notifier = FALSE
  /\ commands = <<>> /\ replies = <<>> /\ xwindows = {}

-----------------------------------------------------------------------------
(* The application.                                                          *)

Bootup == /\ main = "none"
          /\ main' = "boot" /\ ui' = "init"
          /\ UNCHANGED <<wait, quit, calls, made, alive, shown, callback, displayVars>>

Booted == /\ main = "boot" /\ ui # "init"
          /\ main' = "running"
          /\ UNCHANGED <<uiVars, displayVars>>

Call(type, w) ==
  /\ main = "running" /\ made < MaxCalls
  /\ type = "delete" => DeleteWindows
  /\ calls' = Append(calls, [type |-> type, window |-> w])
  /\ made' = made + 1
  /\ UNCHANGED <<main, ui, wait, quit, alive, shown, callback, displayVars>>

\* uithread_shutdown(): queue_stop() and join().
Shutdown ==
  /\ main = "running"
  /\ LateShows \/ \A k \in DOMAIN calls : calls[k].type # "show"
  /\ main' = "join" /\ quit' = TRUE
  /\ UNCHANGED <<ui, wait, calls, made, alive, shown, callback, displayVars>>

Joined == /\ main = "join" /\ ui = "ended"
          /\ main' = "done"
          /\ UNCHANGED <<uiVars, displayVars>>

-----------------------------------------------------------------------------
(* The command queue notifies when it was empty.                             *)

\* Mutant of Push: nobody is notified.
PushSilently(cs) == commands' = commands \o cs /\ UNCHANGED asleep

Push(cs) ==
  /\ commands' = commands \o cs
  /\ asleep' = (asleep /\ ~(commands = <<>> /\ cs # <<>> /\ notifier))

Destroys(ws) == LET order == SetToSeq(ws)
                IN [k \in DOMAIN order |-> [type |-> "DESTROY", window |-> order[k]]]

(* The UI thread.                                                            *)

Initialize == /\ ui = "init"
              /\ ui' = "run"
              /\ UNCHANGED <<main, wait, quit, calls, made, alive, shown, callback, displayVars>>

Finishable == shown = {} /\ ~callback
Iterates   == wait = "none" /\ ((ui = "run" /\ ~quit) \/ (ui = "drain" /\ ~Finishable))

\* create_display_window() of a client's show(): open_L() or CREATE.
ShowWindow(w) ==
  IF dthread = "none"
    THEN /\ dthread' = "connect" /\ wait' = "open"
         /\ UNCHANGED <<asleep, commands>>
    ELSE /\ Push(<<[type |-> "CREATE", window |-> w]>>) /\ wait' = "create"
         /\ UNCHANGED dthread

DispatchCall ==
  /\ Iterates /\ calls # <<>>
  /\ LET c == Head(calls)
     IN \/ /\ c.type = "show" /\ c.window \notin shown
           /\ alive' = alive \cup {c.window}
           /\ ShowWindow(c.window)
           /\ UNCHANGED <<calls, shown, callback>>
        \/ /\ c.type = "show" /\ c.window \in shown
           /\ calls' = Tail(calls)
           /\ UNCHANGED <<alive, shown, callback, wait, dthread, commands, asleep>>
        \/ /\ c.type \in {"close", "delete"}
           /\ Push(Destroys({c.window} \cap shown))
           /\ shown' = shown \ {c.window}
           /\ alive' = IF c.type = "delete" THEN alive \ {c.window} ELSE alive
           /\ calls' = Tail(calls)
           /\ UNCHANGED <<wait, callback, dthread>>
        \/ /\ c.type = "edit"
           /\ callback' = TRUE
           /\ calls' = Tail(calls)
           /\ UNCHANGED <<alive, shown, wait, dthread, commands, asleep>>
  /\ UNCHANGED <<main, ui, quit, made, notifier, replies, xwindows>>

\* open_L() returns, create_display_window() goes on.
Opened ==
  /\ wait = "open" /\ replies # <<>>
  /\ replies' = Tail(replies)
  /\ Push(<<[type |-> "CREATE", window |-> Head(calls).window]>>)
  /\ wait' = "create"
  /\ UNCHANGED <<main, ui, quit, calls, made, alive, shown, callback, dthread, notifier, xwindows>>

Created ==
  /\ wait = "create" /\ replies # <<>>
  /\ replies' = Tail(replies) /\ wait' = "none"
  /\ shown' = shown \cup {Head(calls).window}
  /\ calls' = Tail(calls)
  /\ UNCHANGED <<main, ui, quit, made, alive, callback, dthread, asleep, notifier, commands, xwindows>>

RunCallback ==
  /\ Iterates /\ callback
  /\ callback' = FALSE
  /\ UNCHANGED <<main, ui, wait, quit, calls, made, alive, shown, displayVars>>

\* Mutant of CloseWindows: windows are left to the destruction of the loop.
CloseLater ==
  /\ ui = "run" /\ quit /\ wait = "none"
  /\ ui' = "drivers"
  /\ UNCHANGED <<main, wait, quit, calls, made, alive, shown, callback, displayVars>>

\* run() returned, WindowImpl::forcefully_close_all()
CloseWindows ==
  /\ ui = "run" /\ quit /\ wait = "none"
  /\ ui' = "drivers"
  /\ Push(Destroys(shown)) /\ shown' = {}
  /\ UNCHANGED <<main, wait, quit, calls, made, alive, callback, dthread, notifier, replies, xwindows>>

\* DisplayDriver::forcefully_close_all(), close_L()
CloseDriver ==
  /\ ui = "drivers" /\ wait = "none"
  /\ IF dthread = "none"
       THEN ui' = "drain" /\ UNCHANGED <<wait, commands, asleep>>
       ELSE Push(<<[type |-> "SHUTDOWN"]>>) /\ wait' = "shutdown" /\ UNCHANGED ui
  /\ UNCHANGED <<main, quit, calls, made, alive, shown, callback, dthread, notifier, replies, xwindows>>

DriverClosed ==
  /\ wait = "shutdown" /\ replies # <<>> /\ dthread = "ended"
  /\ replies' = Tail(replies) /\ wait' = "none" /\ ui' = "drain"
  /\ dthread' = "none"
  /\ UNCHANGED <<main, quit, calls, made, alive, shown, callback, asleep, notifier, commands, xwindows>>

\* iterate() until finishable() or nothing is pending, then destroy_loop().
DestroyLoop ==
  /\ ui = "drain" /\ wait = "none"
  /\ Finishable \/ (calls = <<>> /\ ~callback)
  /\ Push(Destroys(shown)) /\ shown' = {} /\ callback' = FALSE
  /\ ui' = "ended"
  /\ UNCHANGED <<main, wait, quit, calls, made, alive, dthread, notifier, replies, xwindows>>

-----------------------------------------------------------------------------
(* The display thread.                                                       *)

Connect ==
  /\ dthread = "connect"
  /\ dthread' = "setup" /\ replies' = Append(replies, "OK")
  /\ UNCHANGED <<main, uiVars, asleep, notifier, commands, xwindows>>

\* Beginning of X11Context::run().
Setup ==
  /\ dthread = "setup"
  /\ dthread' = "run" /\ notifier' = TRUE /\ asleep' = FALSE
  /\ UNCHANGED <<main, uiVars, commands, replies, xwindows>>

\* The loop found nothing pending.
Poll ==
  /\ dthread = "run" /\ ~asleep /\ commands = <<>>
  /\ asleep' = TRUE
  /\ UNCHANGED <<main, uiVars, dthread, notifier, commands, replies, xwindows>>

\* cmd_dispatcher() goes on until the queue is empty, also after SHUTDOWN.
Handle ==
  /\ dthread \in {"run", "quit"} /\ ~asleep /\ commands # <<>>
  /\ commands' = Tail(commands)
  /\ LET c == Head(commands)
     IN \/ /\ c.type = "CREATE"
           /\ xwindows' = xwindows \cup {c.window} /\ replies' = Append(replies, "OK")
           /\ UNCHANGED dthread
        \/ /\ c.type = "DESTROY"
           /\ xwindows' = xwindows \ {c.window}
           /\ UNCHANGED <<dthread, replies>>
        \/ /\ c.type = "SHUTDOWN"
           /\ dthread' = "quit" /\ replies' = Append(replies, "OK")
           /\ UNCHANGED xwindows
  /\ UNCHANGED <<main, uiVars, asleep, notifier>>

\* End of X11Context::run().
Stop ==
  /\ dthread = "quit" /\ commands = <<>>
  /\ dthread' = "ended" /\ notifier' = FALSE
  /\ UNCHANGED <<main, uiVars, asleep, commands, replies, xwindows>>

\* process_x11() of an event, when no command was pending.
TakeEvent ==
  /\ dthread = "run" /\ commands = <<>>
  /\ dthread' = "event" /\ asleep' = FALSE
  /\ UNCHANGED <<main, uiVars, notifier, commands, replies, xwindows>>

\* enqueue_event() of the window it is for calls the wakeup of the WindowImpl.
EnqueueEvent ==
  /\ dthread = "event"
  /\ dthread' = "run"
  /\ UNCHANGED <<main, uiVars, asleep, notifier, commands, replies, xwindows>>

Application == Bootup \/ Booted \/ Shutdown \/ Joined
Ui == Initialize \/ DispatchCall \/ Opened \/ Created \/ RunCallback \/ CloseWindows \/ CloseDriver
      \/ DriverClosed \/ DestroyLoop
Working == Connect \/ Setup \/ Handle \/ Stop \/ EnqueueEvent
Display == Working \/ Poll \/ TakeEvent

Next ==
  \/ Application \/ Ui \/ Display
  \/ \E w \in Windows, type \in {"show", "close", "delete", "edit"} : Call(type, w)

Spec == Init /\ [][Next]_vars

\* The threads are scheduled; X events and calls need not come.
FairSpec == Spec /\ WF_vars(Bootup \/ Booted \/ Joined) /\ WF_vars(Ui)
                 /\ WF_vars(Working)

-----------------------------------------------------------------------------
(* shutdown() returns, whatever was under way when it was called: none of
   the three threads waits for the other for good.                         *)
ShutdownEnds == main = "join" ~> main = "done"

(* The display thread ends with all windows gone and no command left, else
   it aborts the program ("stopped handling X11Context with %d active
   windows").                                                              *)
DriverEndsIdle == dthread = "ended" => xwindows = {} /\ commands = <<>>

(* "needs to be called before exit, to avoid parallel execution while global
   destructors are releasing process resources", clientglue.cc:246: after
   shutdown() no thread runs, no window, command or reply is left.         *)
NothingRunsAfterShutdown ==
  main = "done" => dthread = "none" /\ xwindows = {} /\ commands = <<>> /\ replies = <<>>

(* "{ loop_->wakeup(); /* thread safe */ }", window.cc:1084: the window that
   the display thread wakes up exists, whichever of them the event is for. *)
WakeupsHaveWindow == [][EnqueueEvent => xwindows \subseteq alive]_vars
=============================================================================
