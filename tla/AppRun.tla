------------------------------- MODULE AppRun -------------------------------
(* When ApplicationH::run() returns (ui/clientglue.cc): the loop of the      *)
(* client quits once no primary source is left in it, nor in the loop of the *)
(* UI thread, where each window on screen is one (ui/uithread.cc,            *)
(* ui/window.cc).  Both loops notice in the check() of the source of their   *)
(* connection that primaries are gone, and look again when they are idle;    *)
(* the UI thread tells the client by sig_missing_primary.                    *)
EXTENDS Naturals, Sequences, FiniteSets

CONSTANTS Windows,
          Locals,     \* primary sources of the application's own
          MaxCalls,   \* calls of show(), close() and close_all()
          Runs        \* how often the application calls run()

VARIABLES shown,      \* windows with flag_primary (true) on their loop
          uiSeen, uiNeed, uiIdle,  \* last_seen_primary_, need_check_primary_, idles to run
          toUi, toClient,          \* messages
          locals,     \* primaries in the client's loop
          appSeen, appNeed, appIdle,
          client,     \* "out" of run(), "run", or "asks" the UI thread finishable()
          hasQuit,    \* has_quit_
          calls, runs
uiVars == <<shown, uiSeen, uiNeed, uiIdle>>
appVars == <<locals, appSeen, appNeed, appIdle, client, hasQuit, calls, runs>>
vars == <<uiVars, appVars, toUi, toClient>>

\* main_loop() has been created: it queues a first check.
Init ==
  /\ shown = {} /\ uiSeen = FALSE /\ uiNeed = FALSE /\ uiIdle = FALSE
  /\ toUi = <<>> /\ toClient = <<>>
  /\ locals \in SUBSET Locals
  /\ appSeen = FALSE /\ appNeed = FALSE /\ appIdle = TRUE
  /\ client = "out" /\ hasQuit = FALSE
  /\ calls = 0 /\ runs = 0

Finishable(primaries) == primaries = {}
-----------------------------------------------------------------------------
(* The UI thread.  An iteration collects whether there is a primary, checks  *)
(* the sources and dispatches one of them.                                   *)
\* Mutant: nobody remembers that there were primaries.
MissedNever(seen, primaries) == FALSE
Missed(seen, primaries) == seen /\ Finishable(primaries)

UiDispatchesMessage ==
  LET m == Head(toUi)
      need == uiNeed \/ Missed(uiSeen, shown)
  IN /\ toUi # <<>>
     /\ uiSeen' = (shown # {})
     /\ toUi' = Tail(toUi)
     /\ shown' = CASE m.what = "show" -> shown \union {m.window}
                   [] m.what = "close" -> shown \ {m.window}
                   [] m.what = "close_all" -> {}
                   [] OTHER -> shown
     /\ toClient' = IF m.what = "finishable" THEN Append(toClient, [what |-> "result", is |-> Finishable(shown)])
                    ELSE toClient
     /\ uiNeed' = FALSE /\ uiIdle' = (uiIdle \/ need)
     /\ UNCHANGED appVars

\* dispatch() of the source without a message
UiNotices ==
  /\ toUi = <<>>
  /\ uiNeed \/ Missed(uiSeen, shown)
  /\ uiSeen' = (shown # {})
  /\ uiNeed' = FALSE /\ uiIdle' = TRUE
  /\ UNCHANGED <<shown, toUi, toClient, appVars>>

\* nothing to dispatch: the loop remembers what it saw and polls.
UiPolls ==
  /\ toUi = <<>> /\ ~uiNeed /\ ~Missed(uiSeen, shown)
  /\ uiSeen # (shown # {})
  /\ uiSeen' = (shown # {})
  /\ UNCHANGED <<shown, uiNeed, uiIdle, toUi, toClient, appVars>>

\* The window manager closes a window: dispatched in the loop of the window.
UiCloses(w) ==
  LET need == uiNeed \/ Missed(uiSeen, shown)
  IN /\ w \in shown
     /\ shown' = shown \ {w}
     /\ uiSeen' = (shown # {}) /\ uiNeed' = need
     /\ UNCHANGED <<uiIdle, toUi, toClient, appVars>>

\* check_primaries(), lost_primaries(); idles run when nothing else is ready.
UiChecks ==
  /\ uiIdle /\ toUi = <<>> /\ ~uiNeed /\ ~Missed(uiSeen, shown)
  /\ uiSeen' = (shown # {})
  /\ uiIdle' = FALSE
  /\ toClient' = IF Finishable(shown) THEN Append(toClient, [what |-> "missing"]) ELSE toClient
  /\ UNCHANGED <<shown, uiNeed, toUi, appVars>>

Ui == UiDispatchesMessage \/ UiNotices \/ UiPolls \/ UiChecks
-----------------------------------------------------------------------------
(* The client.                                                               *)
Run ==
  /\ client = "out" /\ runs < Runs
  /\ runs' = runs + 1
  /\ client' = "run"
  /\ UNCHANGED <<uiVars, toUi, toClient, locals, appSeen, appNeed, appIdle, hasQuit, calls>>

\* MainLoop::run() ends and allows the loop to be resumed.
RunReturns ==
  /\ client = "run" /\ hasQuit
  /\ client' = "out" /\ hasQuit' = FALSE
  /\ UNCHANGED <<uiVars, toUi, toClient, locals, appSeen, appNeed, appIdle, calls, runs>>

Iterates == client = "run" /\ ~hasQuit
AppMissed == Missed(appSeen, locals)

\* Application code, in a handler or before run().
MakeCall(m) ==
  /\ Iterates \/ client = "out"
  /\ calls < MaxCalls
  /\ calls' = calls + 1
  /\ toUi' = Append(toUi, m)
  /\ UNCHANGED <<uiVars, toClient, locals, appSeen, appNeed, appIdle, client, hasQuit, runs>>

\* A primary source of the application ends in its dispatch().
LocalEnds(l) ==
  /\ Iterates /\ l \in locals
  /\ locals' = locals \ {l}
  /\ appSeen' = TRUE
  /\ UNCHANGED <<uiVars, toUi, toClient, appNeed, appIdle, client, hasQuit, calls, runs>>

\* AppSource::dispatch(): an event is the emission of sig_missing_primary.
AppDispatches ==
  /\ Iterates
  /\ toClient # <<>> \/ appNeed \/ AppMissed
  /\ toClient' = IF toClient = <<>> THEN <<>> ELSE Tail(toClient)
  /\ appSeen' = (locals # {})
  /\ appNeed' = FALSE /\ appIdle' = TRUE
  /\ UNCHANGED <<uiVars, toUi, locals, client, hasQuit, calls, runs>>

AppPolls ==
  /\ Iterates /\ toClient = <<>> /\ ~appNeed /\ ~AppMissed
  /\ appSeen # (locals # {})
  /\ appSeen' = (locals # {})
  /\ UNCHANGED <<uiVars, toUi, toClient, locals, appNeed, appIdle, client, hasQuit, calls, runs>>

\* AppSource::check_primaries(): first the UI thread is asked.
AppAsks ==
  /\ Iterates /\ appIdle /\ toClient = <<>> /\ ~appNeed /\ ~AppMissed
  /\ appSeen' = (locals # {})
  /\ appIdle' = FALSE
  /\ toUi' = Append(toUi, [what |-> "finishable"])
  /\ client' = "asks"
  /\ UNCHANGED <<uiVars, toClient, locals, appNeed, hasQuit, calls, runs>>

\* call_remote() leaves other messages for later.
AnswerAt == CHOOSE i \in DOMAIN toClient : toClient[i].what = "result"
\* Mutant: the loop of the application is not looked at.
QuitsRemote(is) == is
Quits(is) == is /\ Finishable(locals)
AppLearns ==
  /\ client = "asks"
  /\ \E i \in DOMAIN toClient : toClient[i].what = "result"
  /\ hasQuit' = (hasQuit \/ Quits(toClient[AnswerAt].is))
  /\ toClient' = [i \in 1..(Len(toClient) - 1) |-> toClient[IF i < AnswerAt THEN i ELSE i + 1]]
  /\ client' = "run"
  /\ UNCHANGED <<uiVars, toUi, locals, appSeen, appNeed, appIdle, calls, runs>>

App == Run \/ RunReturns \/ AppDispatches \/ AppPolls \/ AppAsks \/ AppLearns

Next ==
  \/ Ui \/ App
  \/ \E w \in Windows : UiCloses(w) \/ \E what \in {"show", "close"} : MakeCall([what |-> what, window |-> w])
  \/ MakeCall([what |-> "close_all"])
  \/ \E l \in Locals : LocalEnds(l)

Spec == Init /\ [][Next]_vars
FairSpec == Spec /\ WF_vars(Ui) /\ WF_vars(App)
-----------------------------------------------------------------------------
(* run() is not ended while something primary is left on either side.        *)
QuitsWhenDone ==
  [][~hasQuit /\ hasQuit' => shown = {} /\ locals = {} /\ \A i \in DOMAIN toUi : toUi[i].what # "show"]_vars

(* "Run the main event loop until all primary sources ceased to exist",      *)
(* clientglue.cc:212.                                                        *)
RunEnds ==
  (client # "out" /\ shown = {} /\ locals = {} /\ \A i \in DOMAIN toUi : toUi[i].what # "show")
    ~> (client = "out" \/ shown # {} \/ \E i \in DOMAIN toUi : toUi[i].what = "show")
=============================================================================
