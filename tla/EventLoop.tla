------------------------------ MODULE EventLoop ------------------------------
(***************************************************************************)
(* The event loop of Rapicorn (rcore/loop.cc): one MainLoop, its slave     *)
(* EventLoops and the EventSources registered with them.  One thread runs  *)
(* the loops; any thread may add and remove sources, create slave loops    *)
(* and call quit().  All loops share the mutex of the main loop.  An       *)
(* action is one stretch of code between two operations on that mutex, or  *)
(* a part of one: pc tells where the running thread is, and MutexFree in   *)
(* which of those places it does not hold the mutex.                       *)
(***************************************************************************)
EXTENDS Naturals, Sequences, SequencesExt, FiniteSets

CONSTANTS
  Source,        \* EventSource objects
  Loop,          \* EventLoop objects
  Main,          \* the MainLoop among them
  Prio,          \* the priority every source is added with
  Ascent,        \* PRIORITY_ASCENT, above which a source ascends its loop
  MayRecurse,    \* sources flagged with may_recurse (true)
  AlwaysReady,   \* sources whose prepare() and check() always return true
  OuterKinds,    \* how the thread's main function iterates the main loop
  NestedKinds,   \* how dispatch callbacks iterate the main loop
  AddToDying,    \* may threads add sources to a loop under destroy_loop()?
  MaxAdds,       \* bound: calls of add()
  MaxDepth,      \* bound: nested iterations
  MaxOwing,      \* bound: threads between their unlock and their wakeup()
  NoSource, NoLoop

Kinds == {"run", "iterateBlock", "iterate", "iteratePending", "pending"}

ASSUME LoopAssumption ==
  /\ Main \in Loop
  /\ NoLoop \notin Loop
  /\ NoSource \notin Source
  /\ Prio \in [Source -> Nat \ {0}]
  /\ Ascent \in Nat \ {0}
  /\ MayRecurse \subseteq Source
  /\ AlwaysReady \subseteq Source
  /\ OuterKinds \subseteq Kinds
  /\ NestedKinds \subseteq Kinds
  /\ AddToDying \in BOOLEAN
  /\ MaxAdds \in Nat /\ MaxDepth \in Nat /\ MaxOwing \in Nat

\* Priorities for TLC: equal ones, and sources that may not recurse above.
EqualPriorities == [s \in Source |-> 1]
AscendingPriorities == [s \in Source |-> IF s \in MayRecurse THEN 1 ELSE Ascent]

VARIABLES
  loopOf,          \* EventSource::loop_
  sources,         \* EventLoop::sources_
  state,           \* EventSource::loop_state_
  dispatching,     \* EventSource::dispatching_
  wasDispatching,  \* EventSource::was_dispatching_
  polled,          \* EventLoop::poll_sources_
  dprio,           \* EventLoop::dispatch_priority_, 0 for UNDEFINED_PRIORITY
  life,            \* "new" loops do not exist, "dead" ones lost main_loop_
  loops,           \* MainLoop::loops_
  rr,              \* MainLoop::rr_index_, up to the turns that repeat
  evfd,            \* MainLoop::eventfd_ is readable
  running,         \* MainLoop::running_
  hasQuit,         \* MainLoop::has_quit_
  pc,              \* where the thread that runs the loops is
  snap,            \* loops[] of the innermost iterate_loops_Lm()
  li, si,          \* its cursors over snap and over one loop's sources
  dispatchable,    \* the loops for which its dispatchable[] is set
  ascension,       \* its priority_ascension
  woken,           \* pfda[wakeup_idx].revents of its poll()
  frames,          \* the iterations on the call stack, innermost last
  killing,         \* the loop in kill_loop_Lm(), or NoLoop
  unpolled,        \* kill_sources_Lm() is past its loop
  killAll,         \* in kill_loops_Lm()
  adds,            \* add() calls so far
  owing            \* threads that changed a loop and still have to wakeup()

sourceVars == <<loopOf, sources, state>>
flagVars   == <<dispatching, wasDispatching>>
loopVars   == <<life, loops>>
quitVars   == <<running, hasQuit>>
iterVars   == <<snap, li, si, dispatchable, ascension, woken>>
killVars   == <<killing, unpolled, killAll>>
boundVars  == <<adds, owing>>
vars == <<sourceVars, flagVars, polled, dprio, loopVars, rr, evfd, quitVars,
          pc, iterVars, frames, killVars, boundVars>>

States    == {"WAITING", "PREPARED", "NEEDS_DISPATCH"}
Callbacks == {"out", "dispatchCb"}   \* the loop's user holds no reference into it
Unlocked  == Callbacks \cup {"collectWindow", "prepareCb", "poll", "polled",
                             "checkCb", "destroyCb", "cleanup"}
Locked    == {"collect", "collectSources", "prepare", "check", "dispatch"}

MutexFree == pc \in Unlocked

\* The running thread is in its own code or in a callback the loop made.
InUserCode == /\ pc \in Callbacks \cup {"prepareCb", "checkCb", "destroyCb"}
              /\ killing = NoLoop

Top == frames[Len(frames)]

\* The loop and the source under the cursors of the innermost iteration.
CurLoop   == snap[li]
CurSource == polled[CurLoop][si]

-----------------------------------------------------------------------------
(* EventLoop::add, try_remove and destroy_loop, MainLoop::quit and           *)
(* create_slave.  The running thread calls them from callbacks and wakes     *)
(* itself up at once; any other thread does so some time after its unlock.   *)

Dying(l) == killing # NoLoop /\ (killAll \/ killing = l)

\* The stretch of add() that holds the mutex.
PushSource(l, s) ==
  /\ MutexFree
  /\ adds < MaxAdds
  /\ life[l] = "live"
  /\ AddToDying \/ ~Dying(l)
  /\ loopOf[s] = NoLoop
  /\ loopOf' = [loopOf EXCEPT ![s] = l]
  /\ state' = [state EXCEPT ![s] = "WAITING"]
  /\ sources' = [sources EXCEPT ![l] = Append(@, s)]
  /\ adds' = adds + 1
  /\ UNCHANGED <<flagVars, polled, dprio, loopVars, rr, quitVars, pc, iterVars,
                 frames, killVars>>

\* Mutant of Unlink: loop_ of the source is not reset.
UnlinkKeepsLoop(l, s) ==
  /\ UNCHANGED loopOf
  /\ state' = [state EXCEPT ![s] = "WAITING"]
  /\ \E pos \in DOMAIN sources[l] :
       /\ sources[l][pos] = s
       /\ sources' = [sources EXCEPT ![l] = RemoveAt(@, pos)]

\* What remove_source_Lm() does under the mutex.
Unlink(l, s) ==
  /\ loopOf' = [loopOf EXCEPT ![s] = NoLoop]
  /\ state' = [state EXCEPT ![s] = "WAITING"]
  /\ \E pos \in DOMAIN sources[l] :
       /\ sources[l][pos] = s
       /\ sources' = [sources EXCEPT ![l] = RemoveAt(@, pos)]

TryRemove(l, s) ==
  /\ MutexFree
  /\ life[l] = "live"
  /\ loopOf[s] = l
  /\ Unlink(l, s)
  /\ UNCHANGED <<flagVars, polled, dprio, loopVars, rr, quitVars, pc, iterVars,
                 frames, killVars, adds>>

\* Mutant of WakeupNow: the running thread trusts that it is awake.
NoWakeupNow == evfd' = evfd /\ owing' = owing

WakeupNow   == evfd' = TRUE /\ owing' = owing
WakeupLater == owing < MaxOwing /\ owing' = owing + 1 /\ evfd' = evfd

AddHere(l, s)     == InUserCode /\ PushSource(l, s) /\ WakeupNow
OtherAdd(l, s)    == PushSource(l, s) /\ WakeupLater
RemoveHere(l, s)  == InUserCode /\ TryRemove(l, s) /\ WakeupNow
OtherRemove(l, s) == TryRemove(l, s) /\ WakeupLater

OtherWakeup ==
  /\ owing > 0
  /\ owing' = owing - 1
  /\ evfd' = TRUE
  /\ UNCHANGED <<sourceVars, flagVars, polled, dprio, loopVars, rr, quitVars, pc,
                 iterVars, frames, killVars, adds>>

Quit ==
  /\ MutexFree
  /\ life[Main] = "live"
  /\ running' = FALSE
  /\ hasQuit' = TRUE
  /\ evfd' = TRUE
  /\ UNCHANGED <<sourceVars, flagVars, polled, dprio, loopVars, rr, pc, iterVars,
                 frames, killVars, boundVars>>

CreateSlave(l) ==
  /\ MutexFree
  /\ life[Main] = "live" /\ ~Dying(Main)
  /\ life[l] = "new"
  /\ life' = [life EXCEPT ![l] = "live"]
  /\ loops' = Append(loops, l)
  /\ evfd' = TRUE
  /\ UNCHANGED <<sourceVars, flagVars, polled, dprio, rr, quitVars, pc, iterVars,
                 frames, killVars, boundVars>>

\* Mutant of DestroyLoop: called from the prepare() and check() callbacks as well.
DestroyLoopAnywhere(l) ==
  /\ InUserCode
  /\ life[l] = "live"
  /\ l = Main => pc = "out"
  /\ killAll' = (l = Main)
  /\ killing' = IF l = Main THEN Last(loops) ELSE l
  /\ unpolled' = FALSE
  /\ UNCHANGED <<sourceVars, flagVars, polled, dprio, loopVars, rr, evfd, quitVars,
                 pc, iterVars, frames, boundVars>>

\* kill_loops_Lm() destroys the youngest slave first and the main loop last.
DestroyLoop(l) ==
  /\ pc \in Callbacks /\ killing = NoLoop
  /\ life[l] = "live"
  /\ l = Main => pc = "out"
  /\ killAll' = (l = Main)
  /\ killing' = IF l = Main THEN Last(loops) ELSE l
  /\ unpolled' = FALSE
  /\ UNCHANGED <<sourceVars, flagVars, polled, dprio, loopVars, rr, evfd, quitVars,
                 pc, iterVars, frames, boundVars>>

\* One turn of kill_sources_Lm(); it unlocks to call destroy() of the source.
KillSource ==
  /\ killing # NoLoop /\ ~unpolled
  /\ sources[killing] # <<>>
  /\ Unlink(killing, Head(sources[killing]))
  /\ UNCHANGED <<flagVars, polled, dprio, loopVars, rr, evfd, quitVars, pc, iterVars,
                 frames, killVars, boundVars>>

\* Mutant of KillUnpoll: poll_sources_ is left as it is.
KillKeepsPolled ==
  /\ killing # NoLoop /\ ~unpolled
  /\ sources[killing] = <<>>
  /\ unpolled' = TRUE
  /\ UNCHANGED <<sourceVars, flagVars, polled, dprio, loopVars, rr, evfd, quitVars, pc,
                 iterVars, frames, killing, killAll, boundVars>>

\* The last part of kill_sources_Lm(), unlocked.
KillUnpoll ==
  /\ killing # NoLoop /\ ~unpolled
  /\ sources[killing] = <<>>
  /\ unpolled' = TRUE
  /\ polled' = [polled EXCEPT ![killing] = <<>>]
  /\ UNCHANGED <<sourceVars, flagVars, dprio, loopVars, rr, evfd, quitVars, pc,
                 iterVars, frames, killing, killAll, boundVars>>

\* The rest of kill_loop_Lm(), locked again.
KillLoop ==
  /\ killing # NoLoop /\ unpolled
  /\ life' = [life EXCEPT ![killing] = "dead"]
  /\ \E pos \in DOMAIN loops : loops[pos] = killing /\ loops' = RemoveAt(loops, pos)
  /\ evfd' = TRUE
  /\ unpolled' = FALSE
  /\ killing' = IF killAll /\ loops' # <<>> THEN Last(loops') ELSE NoLoop
  /\ killAll' = (killing' # NoLoop)
  /\ UNCHANGED <<sourceVars, flagVars, polled, dprio, rr, quitVars, pc, iterVars,
                 frames, boundVars>>

-----------------------------------------------------------------------------
(* Entering an iteration.                                                    *)

Frame(k) == [kind |-> k, was |-> running, src |-> NoSource, old |-> FALSE,
             loop |-> NoLoop]

\* Mutant of StartIteration: the cursor starts one off.
StartIterationAtZero ==
  /\ snap' = loops
  /\ li' = 0 /\ si' = 1
  /\ dispatchable' = {}
  /\ ascension' = FALSE
  /\ woken' = FALSE
  /\ pc' = "collect"

\* The head of iterate_loops_Lm(): snapshot of the loop list.
StartIteration ==
  /\ snap' = loops
  /\ li' = 1 /\ si' = 1
  /\ dispatchable' = {}
  /\ ascension' = FALSE
  /\ woken' = FALSE
  /\ pc' = "collect"

Enter(k) ==
  /\ pc \in Callbacks /\ killing = NoLoop
  /\ k \in IF pc = "out" THEN OuterKinds ELSE NestedKinds
  /\ Len(frames) < MaxDepth
  /\ life[Main] = "live"
  /\ k = "run" => ~hasQuit
  /\ running' = IF k = "pending" THEN running ELSE TRUE
  /\ frames' = Append(frames, Frame(k))
  /\ StartIteration
  /\ UNCHANGED <<sourceVars, flagVars, polled, dprio, loopVars, rr, evfd, hasQuit,
                 killVars, boundVars>>

\* A quit() that came before run() makes it return at once.
RunCancelled ==
  /\ pc \in Callbacks /\ killing = NoLoop
  /\ "run" \in IF pc = "out" THEN OuterKinds ELSE NestedKinds
  /\ life[Main] = "live"
  /\ hasQuit
  /\ hasQuit' = FALSE
  /\ running' = FALSE
  /\ UNCHANGED <<sourceVars, flagVars, polled, dprio, loopVars, rr, evfd, pc,
                 iterVars, frames, killVars, boundVars>>

-----------------------------------------------------------------------------
(* collect_sources_Lm: which sources the iteration asks for readiness.       *)

\* Mutant of Eligible: the recursion test is dropped.
EligibleAlways(s) == TRUE

\* A source that is being dispatched takes part only if it may recurse.
Eligible(s) == ~dispatching[s] \/ s \in MayRecurse

NeedsDispatch(l) ==
  {s \in Source : loopOf[s] = l /\ Eligible(s) /\ state[s] = "NEEDS_DISPATCH"}

IsDispatchPriority(p, l) ==
  /\ p \in {0} \cup {Prio[s] : s \in NeedsDispatch(l)}
  /\ \A s \in NeedsDispatch(l) : Prio[s] <= p

\* What is left from an outer iteration is dropped with the mutex released.
CleanSlate ==
  /\ pc = "collect"
  /\ polled[CurLoop] # <<>>
  /\ polled' = [polled EXCEPT ![CurLoop] = <<>>]
  /\ pc' = "collectWindow"
  /\ UNCHANGED <<sourceVars, flagVars, dprio, loopVars, rr, evfd, quitVars, iterVars,
                 frames, killVars, boundVars>>

\* The first pass over sources_ finds the highest priority left to dispatch.
CollectPriority ==
  /\ pc \in {"collect", "collectWindow"}
  /\ polled[CurLoop] = <<>>
  /\ \E p \in {0} \cup {Prio[s] : s \in Source} :
       /\ IsDispatchPriority(p, CurLoop)
       /\ dprio' = [dprio EXCEPT ![CurLoop] = p]
  /\ si' = 1
  /\ pc' = "collectSources"
  /\ UNCHANGED <<sourceVars, flagVars, polled, loopVars, rr, evfd, quitVars, snap, li,
                 dispatchable, ascension, woken, frames, killVars, boundVars>>

\* Mutant of IsCandidate: left over NEEDS_DISPATCH sources get no precedence.
IsCandidateOfAny(s, l) ==
  loopOf[s] = l /\ Eligible(s) /\ Prio[s] >= dprio[l]

IsCandidate(s, l) ==
  /\ loopOf[s] = l
  /\ Eligible(s)
  /\ \/ Prio[s] > dprio[l]
     \/ Prio[s] = dprio[l] /\ state[s] = "NEEDS_DISPATCH"

CollectSource ==
  /\ pc = "collectSources"
  /\ si <= Len(sources[CurLoop])
  /\ LET s == sources[CurLoop][si]
     IN  polled' = IF IsCandidate(s, CurLoop)
                   THEN [polled EXCEPT ![CurLoop] = Append(@, s)] ELSE polled
  /\ si' = si + 1
  /\ UNCHANGED <<sourceVars, flagVars, dprio, loopVars, rr, evfd, quitVars, pc, snap,
                 li, dispatchable, ascension, woken, frames, killVars, boundVars>>

\* Move on to the next loop of the snapshot, or to the next phase.
NextLoop(phase, nextPhase) ==
  /\ si' = 1
  /\ IF li < Len(snap) THEN li' = li + 1 /\ pc' = phase
                       ELSE li' = 1 /\ pc' = nextPhase
  /\ UNCHANGED <<snap, woken>>

CollectDone ==
  /\ pc = "collectSources"
  /\ si > Len(sources[CurLoop])
  /\ NextLoop("collect", "prepare")
  /\ UNCHANGED <<sourceVars, flagVars, polled, dprio, loopVars, rr, evfd, quitVars,
                 dispatchable, ascension, frames, killVars, boundVars>>

-----------------------------------------------------------------------------
(* prepare_sources_Lm, poll() and check_sources_Lm.                          *)

Registered(s, l) == loopOf[s] = l

Answers(s) == IF s \in AlwaysReady THEN {TRUE} ELSE BOOLEAN

\* dispatchable[] and priority_ascension after one loop was gone through.
NoteDispatchable(l) ==
  /\ dispatchable' = IF dprio[l] > 0 THEN dispatchable \cup {l} ELSE dispatchable
  /\ ascension' = (ascension \/ dprio[l] >= Ascent)

\* Mutant of Upgrade: the last source that is ready decides.
UpgradeToLast(s, l) ==
  /\ state' = [state EXCEPT ![s] = "NEEDS_DISPATCH"]
  /\ dprio' = [dprio EXCEPT ![l] = Prio[s]]

\* A source needs dispatching: raise the dispatch priority of its loop.
Upgrade(s, l) ==
  /\ state' = [state EXCEPT ![s] = "NEEDS_DISPATCH"]
  /\ dprio' = [dprio EXCEPT ![l] = IF Prio[s] > @ THEN Prio[s] ELSE @]

SkipSource(phase) ==
  /\ pc = phase
  /\ si <= Len(polled[CurLoop])
  /\ si' = si + 1
  /\ UNCHANGED <<sourceVars, flagVars, polled, dprio, loopVars, rr, evfd, quitVars, pc,
                 snap, li, dispatchable, ascension, woken, frames, killVars, boundVars>>

CallSource(phase, callback) ==
  /\ pc = phase
  /\ si <= Len(polled[CurLoop])
  /\ pc' = callback
  /\ UNCHANGED <<sourceVars, flagVars, polled, dprio, loopVars, rr, evfd, quitVars,
                 iterVars, frames, killVars, boundVars>>

\* The callback of CurSource is back with its answer; lock and use it, if the
\* source was not removed meanwhile.
CallbackReturns(phase, callback, declined) ==
  /\ pc = callback
  /\ pc' = phase
  /\ si' = si + 1
  /\ \E need \in Answers(CurSource) :
       IF ~Registered(CurSource, CurLoop) THEN UNCHANGED <<state, dprio>>
       ELSE IF need THEN Upgrade(CurSource, CurLoop)
       ELSE /\ state' = [state EXCEPT ![CurSource] = declined]
            /\ UNCHANGED dprio
  /\ UNCHANGED <<loopOf, sources, flagVars, polled, loopVars, rr, evfd, quitVars, snap,
                 li, dispatchable, ascension, woken, frames, killVars, boundVars>>

LoopDone(phase, nextPhase) ==
  /\ pc = phase
  /\ si > Len(polled[CurLoop])
  /\ NoteDispatchable(CurLoop)
  /\ NextLoop(phase, nextPhase)
  /\ UNCHANGED <<sourceVars, flagVars, polled, dprio, loopVars, rr, evfd, quitVars,
                 frames, killVars, boundVars>>

PrepareSkip    == SkipSource("prepare") /\ ~Registered(CurSource, CurLoop)
PrepareCall    == CallSource("prepare", "prepareCb") /\ Registered(CurSource, CurLoop)
PrepareReturns == CallbackReturns("prepare", "prepareCb", "PREPARED")
PrepareDone    == LoopDone("prepare", "poll")

MayBlock == Top.kind \in {"run", "iterateBlock"}

\* poll() returns at once, or it is woken up ...
PollWakes ==
  /\ pc = "poll"
  /\ evfd \/ ~MayBlock \/ dispatchable # {}
  /\ woken' = evfd
  /\ pc' = "polled"
  /\ UNCHANGED <<sourceVars, flagVars, polled, dprio, loopVars, rr, evfd, quitVars,
                 snap, li, si, dispatchable, ascension, frames, killVars, boundVars>>

\* ... or a file descriptor is ready, a timeout expires, a signal arrives.
PollEvent ==
  /\ pc = "poll"
  /\ ~evfd /\ MayBlock /\ dispatchable = {}
  /\ woken' = FALSE
  /\ pc' = "polled"
  /\ UNCHANGED <<sourceVars, flagVars, polled, dprio, loopVars, rr, evfd, quitVars,
                 snap, li, si, dispatchable, ascension, frames, killVars, boundVars>>

\* Locked again, reset the eventfd if this poll() saw it readable.
Flush ==
  /\ pc = "polled"
  /\ evfd' = (evfd /\ ~woken)
  /\ woken' = FALSE
  /\ pc' = "check"
  /\ UNCHANGED <<sourceVars, flagVars, polled, dprio, loopVars, rr, quitVars, snap, li,
                 si, dispatchable, ascension, frames, killVars, boundVars>>

\* The test in the code skips a source that left the loop, whatever its state,
\* and lets every other source pass, be it PREPARED or not.
CheckSkips(s, l) == ~Registered(s, l) /\ state[s] # "PREPARED"

CheckSkip    == SkipSource("check") /\ CheckSkips(CurSource, CurLoop)
CheckCall    == CallSource("check", "checkCb") /\ ~CheckSkips(CurSource, CurLoop)
CheckReturns == CallbackReturns("check", "checkCb", "WAITING")
CheckDone    == LoopDone("check", "dispatch")

-----------------------------------------------------------------------------
(* Dispatching: one loop in turn, and one source of it.                      *)

\* The loop k turns ahead of rr_index_.
LoopInTurn(k) == snap[((rr + k) % Len(snap)) + 1]

TakesTurn(l) == l \in dispatchable /\ (ascension => dprio[l] >= Ascent)

\* rr_index_ counts on; the model keeps it below a common multiple of all nloops.
RoundTurns == 6

IsTurn(k) ==
  /\ k = Len(snap) \/ TakesTurn(LoopInTurn(k))
  /\ \A j \in 0 .. (k - 1) : ~TakesTurn(LoopInTurn(j))

CanDispatch(s, l) ==
  Registered(s, l) /\ Prio[s] = dprio[l] /\ state[s] = "NEEDS_DISPATCH"

\* dispatch_source_Lm() takes the first source of the list that qualifies.
IsDispatchSource(i, l) ==
  /\ CanDispatch(polled[l][i], l)
  /\ \A j \in 1 .. (i - 1) : ~CanDispatch(polled[l][j], l)

EndSelection ==
  /\ snap' = <<>> /\ li' = 1 /\ si' = 1
  /\ ascension' = FALSE
  /\ UNCHANGED <<dispatchable, woken>>

Dispatch ==
  /\ pc = "dispatch"
  /\ Top.kind # "pending"
  /\ \E k \in 0 .. Len(snap), l \in dispatchable :
       /\ IsTurn(k)
       /\ l = LoopInTurn(k)
       /\ rr' = (rr + k + 1) % RoundTurns
       /\ dprio' = [dprio EXCEPT ![l] = 0]
       /\ \E i \in DOMAIN polled[l] :
            LET s == polled[l][i]
            IN  /\ IsDispatchSource(i, l)
                /\ state' = [state EXCEPT ![s] = "WAITING"]
                /\ wasDispatching' = [wasDispatching EXCEPT ![s] = dispatching[s]]
                /\ dispatching' = [dispatching EXCEPT ![s] = TRUE]
                /\ frames' = [frames EXCEPT ![Len(frames)].src = s,
                                            ![Len(frames)].loop = l,
                                            ![Len(frames)].old = wasDispatching[s]]
  /\ EndSelection
  /\ pc' = "dispatchCb"
  /\ UNCHANGED <<loopOf, sources, polled, loopVars, evfd, quitVars, killVars, boundVars>>

\* The loop in turn has lost the sources that made it dispatchable.
DispatchNothing ==
  /\ pc = "dispatch"
  /\ Top.kind # "pending"
  /\ \E k \in 0 .. Len(snap), l \in dispatchable :
       /\ IsTurn(k)
       /\ l = LoopInTurn(k)
       /\ rr' = (rr + k + 1) % RoundTurns
       /\ dprio' = [dprio EXCEPT ![l] = 0]
       /\ \A i \in DOMAIN polled[l] : ~CanDispatch(polled[l][i], l)
  /\ EndSelection
  /\ pc' = "cleanup"
  /\ UNCHANGED <<sourceVars, flagVars, polled, loopVars, evfd, quitVars, frames,
                 killVars, boundVars>>

\* Nothing is dispatchable, or pending() only wants to know.
NoDispatch ==
  /\ pc = "dispatch"
  /\ Top.kind = "pending" \/ dispatchable = {}
  /\ EndSelection
  /\ pc' = "cleanup"
  /\ UNCHANGED <<sourceVars, flagVars, polled, dprio, loopVars, rr, evfd, quitVars,
                 frames, killVars, boundVars>>

\* Mutant of DispatchReturns: the source counts as not dispatching any more.
DispatchReturnsClear ==
  /\ pc = "dispatchCb" /\ killing = NoLoop
  /\ dispatching' = [dispatching EXCEPT ![Top.src] = FALSE]
  /\ wasDispatching' = [wasDispatching EXCEPT ![Top.src] = Top.old]
  /\ frames' = [frames EXCEPT ![Len(frames)].src = NoSource,
                              ![Len(frames)].loop = NoLoop,
                              ![Len(frames)].old = FALSE]
  /\ dispatchable' = {Top.loop}
  /\ UNCHANGED <<snap, li, si, ascension, woken>>

\* dispatch() is back: restore the recursion flags of its source.  Of the
\* dispatchable[] of this iteration only any_dispatchable is still asked for.
DispatchReturns ==
  /\ pc = "dispatchCb" /\ killing = NoLoop
  /\ dispatching' = [dispatching EXCEPT ![Top.src] = wasDispatching[Top.src]]
  /\ wasDispatching' = [wasDispatching EXCEPT ![Top.src] = Top.old]
  /\ frames' = [frames EXCEPT ![Len(frames)].src = NoSource,
                              ![Len(frames)].loop = NoLoop,
                              ![Len(frames)].old = FALSE]
  /\ dispatchable' = {Top.loop}
  /\ UNCHANGED <<snap, li, si, ascension, woken>>

DispatchKeeps ==
  /\ DispatchReturns
  /\ pc' = "cleanup"
  /\ UNCHANGED <<sourceVars, polled, dprio, loopVars, rr, evfd, quitVars, killVars,
                 boundVars>>

\* dispatch() returned false: the source is removed and its destroy() called.
DispatchDrops ==
  /\ DispatchReturns
  /\ loopOf[Top.src] = Top.loop
  /\ Unlink(Top.loop, Top.src)
  /\ pc' = "destroyCb"
  /\ UNCHANGED <<polled, dprio, loopVars, rr, evfd, quitVars, killVars, boundVars>>

DestroyReturns ==
  /\ pc = "destroyCb"
  /\ pc' = "cleanup"
  /\ UNCHANGED <<sourceVars, flagVars, polled, dprio, loopVars, rr, evfd, quitVars,
                 iterVars, frames, killVars, boundVars>>

\* The end of iterate_loops_Lm() drops every poll_sources_ of the iteration (a
\* nested one has emptied them already) and the caller locks again.
Unpoll == polled' = [l \in Loop |-> <<>>]

AnyDispatchable == dispatchable # {}

IterateAgain ==
  /\ pc = "cleanup"
  /\ Top.kind \in {"run", "iteratePending"}
  /\ running
  /\ Top.kind = "iteratePending" => AnyDispatchable
  /\ Unpoll
  /\ StartIteration
  /\ UNCHANGED <<sourceVars, flagVars, dprio, loopVars, rr, evfd, quitVars, frames,
                 killVars, boundVars>>

Leave ==
  /\ pc = "cleanup"
  /\ Unpoll
  /\ frames' = Front(frames)
  /\ pc' = IF Len(frames) = 1 THEN "out" ELSE "dispatchCb"
  /\ dispatchable' = {}
  /\ UNCHANGED <<sourceVars, flagVars, dprio, loopVars, rr, evfd, snap, li, si,
                 ascension, woken, killVars, boundVars>>

\* run() makes the loop ready to be run again.
RunReturns ==
  /\ Leave
  /\ Top.kind = "run" /\ ~running
  /\ running' = FALSE
  /\ hasQuit' = FALSE

\* Mutant of IterateReturns: a quit() during the iteration is forgotten.
IterateReturnsRunning ==
  /\ Leave
  /\ \/ Top.kind \in {"iterate", "iterateBlock"}
     \/ Top.kind = "iteratePending" /\ ~(running /\ AnyDispatchable)
  /\ running' = Top.was
  /\ hasQuit' = hasQuit

IterateReturns ==
  /\ Leave
  /\ \/ Top.kind \in {"iterate", "iterateBlock"}
     \/ Top.kind = "iteratePending" /\ ~(running /\ AnyDispatchable)
  /\ running' = (Top.was /\ ~hasQuit)
  /\ hasQuit' = hasQuit

PendingReturns ==
  /\ Leave
  /\ Top.kind = "pending"
  /\ UNCHANGED quitVars

-----------------------------------------------------------------------------
Init ==
  /\ loopOf = [s \in Source |-> NoLoop]
  /\ sources = [l \in Loop |-> <<>>]
  /\ state = [s \in Source |-> "WAITING"]
  /\ dispatching = [s \in Source |-> FALSE]
  /\ wasDispatching = [s \in Source |-> FALSE]
  /\ polled = [l \in Loop |-> <<>>]
  /\ dprio = [l \in Loop |-> 0]
  /\ life = [l \in Loop |-> IF l = Main THEN "live" ELSE "new"]
  /\ loops = <<Main>>
  /\ rr = 0
  /\ evfd = TRUE                 \* add_loop_L() wakes the new loop up
  /\ running = FALSE /\ hasQuit = FALSE
  /\ pc = "out"
  /\ snap = <<>> /\ li = 1 /\ si = 1
  /\ dispatchable = {} /\ ascension = FALSE /\ woken = FALSE
  /\ frames = <<>>
  /\ killing = NoLoop /\ unpolled = FALSE /\ killAll = FALSE
  /\ adds = 0 /\ owing = 0

\* What the callbacks and the other threads ask of the loops.
UserNext ==
  \/ \E l \in Loop, s \in Source : AddHere(l, s) \/ OtherAdd(l, s)
  \/ \E l \in Loop, s \in Source : RemoveHere(l, s) \/ OtherRemove(l, s)
  \/ OtherWakeup
  \/ Quit
  \/ \E l \in Loop : CreateSlave(l) \/ DestroyLoop(l)
  \/ \E k \in Kinds : Enter(k)
  \/ RunCancelled

KillNext == KillSource \/ KillUnpoll \/ KillLoop

CollectNext == CleanSlate \/ CollectPriority \/ CollectSource \/ CollectDone
PrepareNext == PrepareSkip \/ PrepareCall \/ PrepareReturns \/ PrepareDone
CheckNext   == CheckSkip \/ CheckCall \/ CheckReturns \/ CheckDone
DispatchNext == Dispatch \/ DispatchNothing \/ NoDispatch \/ DispatchKeeps
                \/ DispatchDrops \/ DestroyReturns
ReturnNext  == IterateAgain \/ RunReturns \/ IterateReturns \/ PendingReturns

\* The main loop is gone; nothing is left to do.
Destroyed == life[Main] = "dead" /\ owing = 0 /\ UNCHANGED vars

Next ==
  \/ UserNext
  \/ KillNext
  \/ CollectNext
  \/ PrepareNext
  \/ PollWakes \/ PollEvent \/ Flush
  \/ CheckNext
  \/ DispatchNext
  \/ ReturnNext
  \/ Destroyed

Spec == Init /\ [][Next]_vars

\* The steps of the running thread that no user of the loops has to cause.
LoopThread ==
  \/ KillNext \/ CollectNext \/ PrepareNext \/ PollWakes \/ Flush
  \/ CheckNext \/ DispatchNext \/ ReturnNext

CallbackEnds(depth) == Len(frames) = depth /\ (DispatchKeeps \/ DispatchDrops)

(* The thread that runs the loops is scheduled; every dispatch() returns, also *)
(* if it iterates the loop several times before; a thread that owes a wakeup  *)
(* makes it.                                                                  *)
FairSpec ==
  /\ Spec
  /\ WF_vars(LoopThread)
  /\ \A depth \in 1 .. MaxDepth : SF_vars(CallbackEnds(depth))
  /\ WF_vars(OtherWakeup)
-----------------------------------------------------------------------------
(* Properties.                                                               *)

FrameType == [kind : Kinds, was : BOOLEAN, src : Source \cup {NoSource},
              old : BOOLEAN, loop : Loop \cup {NoLoop}]

SourceTypes ==
  /\ loopOf \in [Source -> Loop \cup {NoLoop}]
  /\ sources \in [Loop -> Seq(Source)]
  /\ state \in [Source -> States]
  /\ dispatching \in [Source -> BOOLEAN]
  /\ wasDispatching \in [Source -> BOOLEAN]

LoopTypes ==
  /\ polled \in [Loop -> Seq(Source)]
  /\ dprio \in [Loop -> Nat]
  /\ life \in [Loop -> {"new", "live", "dead"}]
  /\ loops \in Seq(Loop)
  /\ rr \in Nat
  /\ evfd \in BOOLEAN /\ running \in BOOLEAN /\ hasQuit \in BOOLEAN

IterationTypes ==
  /\ pc \in Unlocked \cup Locked
  /\ snap \in Seq(Loop)
  /\ li \in Nat \ {0} /\ si \in Nat \ {0}
  /\ dispatchable \subseteq Loop
  /\ ascension \in BOOLEAN /\ woken \in BOOLEAN
  /\ frames \in Seq(FrameType)

DestroyTypes ==
  /\ killing \in Loop \cup {NoLoop}
  /\ unpolled \in BOOLEAN /\ killAll \in BOOLEAN
  /\ adds \in Nat /\ owing \in Nat

TypeOK == SourceTypes /\ LoopTypes /\ IterationTypes /\ DestroyTypes

(* A source points to a loop exactly if that loop lists it, and no loop lists *)
(* it twice: add(), try_remove(), destroy_loop() and the removal after a      *)
(* dispatch() that returned false agree on who owns a source, in whatever     *)
(* order the threads make them.                                               *)
Ownership ==
  /\ \A l \in Loop, s \in Source : loopOf[s] = l <=> s \in ToSet(sources[l])
  /\ \A l \in Loop : IsInjective(sources[l])

(* dispatching_ and was_dispatching_ of a source say how many dispatch() calls *)
(* of it are on the stack: any, and two or more.  EventSource::recursion()     *)
(* and the recursion test in collect_sources_Lm() read them.                   *)
RecursionFlags ==
  \A s \in Source :
    /\ dispatching[s] <=> \E p \in DOMAIN frames : frames[p].src = s
    /\ wasDispatching[s] <=>
         \E p, q \in DOMAIN frames : p < q /\ frames[p].src = s /\ frames[q].src = s

(* A source that does not allow recursion is never dispatched from within its  *)
(* own dispatch(), even if it is removed and added again in between.           *)
NoUnallowedRecursion ==
  \A p, q \in DOMAIN frames :
    p < q /\ frames[p].src = frames[q].src /\ frames[p].src # NoSource
      => frames[p].src \in MayRecurse

(* dispatch() nests as the sources allow, and their flags tell it.             *)
RecursionIsAllowed == RecursionFlags /\ NoUnallowedRecursion

(* While an iteration looks at its loops, none of them is destroyed under it:   *)
(* the cursors into loops[] and poll_sources_ stay valid across the unlocked   *)
(* prepare() and check() callbacks, and main_loop_ can be used to lock again.  *)
Selecting ==
  pc \in {"collect", "collectWindow", "collectSources", "prepare", "prepareCb",
          "poll", "polled", "check", "checkCb", "dispatch"}

CursorsValid ==
  /\ Selecting => li \in DOMAIN snap /\ \A l \in ToSet(snap) : life[l] = "live"
  /\ pc \in {"prepareCb", "checkCb"} => si \in DOMAIN polled[CurLoop]

(* A thread blocks in poll() only in a state that no change can be lost in:    *)
(* unless a wakeup is due, every live loop is in its snapshot, every source    *)
(* has been prepared and declined, and nobody asked it to quit.                *)
Asleep == pc = "poll" /\ MayBlock /\ dispatchable = {} /\ ~evfd

NoLostWakeup ==
  Asleep /\ owing = 0 =>
    /\ \A l \in Loop : life[l] = "live" => l \in ToSet(snap)
    /\ \A l \in Loop, s \in Source :
         loopOf[s] = l /\ life[l] = "live" /\ Eligible(s)
           => s \in ToSet(polled[l]) /\ state[s] = "PREPARED"
    /\ Top.kind = "run" => running

(* destroy_loop() leaves nothing behind: a loop that lost its main_loop_ is    *)
(* not iterated any more and has neither sources nor collected sources.        *)
DeadLoopsAreEmpty ==
  \A l \in Loop : life[l] = "dead" =>
    /\ sources[l] = <<>> /\ polled[l] = <<>>
    /\ l \notin ToSet(loops) /\ l \notin ToSet(snap)

(* No change is slept through, and no source stays on a loop that is gone.     *)
NothingIsMissed == NoLostWakeup /\ DeadLoopsAreEmpty

(* The priorities at a dispatch: no source of the same loop that needs        *)
(* dispatching has a higher one, and if any other loop of the iteration has   *)
(* one at PRIORITY_ASCENT or above, then so has the dispatched source.        *)
DispatchStep == pc = "dispatch" /\ pc' = "dispatchCb"

DispatchOrder ==
  [][DispatchStep =>
      LET s == frames'[Len(frames)].src
          Ready == {t \in Source : loopOf[t] \in ToSet(snap) /\ Eligible(t)
                                   /\ state[t] = "NEEDS_DISPATCH"}
      IN  /\ s \in Ready
          /\ \A t \in Ready : loopOf[t] = loopOf[s] => Prio[t] <= Prio[s]
          /\ (\E t \in Ready : Prio[t] >= Ascent) => Prio[s] >= Ascent]_vars

(* The rules for sources (loop.cc, "Loop integration"): a source that asked    *)
(* for dispatching from prepare() or check() keeps that claim until it is     *)
(* dispatched, removed, or declines in a later prepare().                     *)
ClaimsAreKept ==
  [][\A s \in Source :
      /\ state[s] = "NEEDS_DISPATCH" /\ state'[s] = "WAITING"
      /\ loopOf'[s] # NoLoop
      => dispatching'[s]]_vars

(* Round-robin dispatching: with no source of a higher priority around, a      *)
(* source that is always ready is dispatched, however many other sources of   *)
(* its own and of other loops are ready as well and whoever adds and removes  *)
(* them, unless it is removed or the main loop is left.                       *)
TopPriority(s) == \A t \in Source : Prio[t] <= Prio[s]

RoundRobin ==
  \A s \in Source, l \in Loop :
    s \in AlwaysReady /\ TopPriority(s) =>
      (loopOf[s] = l ~> dispatching[s] \/ loopOf[s] # l \/ pc = "out")

(* quit() is heard: whatever the loop thread is doing, run() returns.          *)
QuitEndsRun == hasQuit ~> pc = "out"

-----------------------------------------------------------------------------
(* What makes TypeOK, CursorsValid, Ownership, RecursionFlags and             *)
(* NoUnallowedRecursion inductive.                                            *)

\* loops_ lists exactly the loops that exist, each of them once.
LoopListExact ==
  /\ IsInjective(loops)
  /\ \A l \in Loop : l \in ToSet(loops) <=> life[l] = "live"

\* destroy_loop() runs outside of iterations or in a dispatch(); the main loop
\* is destroyed outside only, so it lives as long as an iteration does.
DestroyPlace ==
  /\ killing # NoLoop => pc \in Callbacks /\ life[killing] = "live"
  /\ killAll => killing # NoLoop
  /\ killAll \/ killing = Main => pc = "out"
  /\ pc # "out" => life[Main] = "live"

\* All iterations on the stack but the innermost are in a dispatch(), and the
\* innermost one is as well exactly at "dispatchCb".
FramesMatchPc ==
  /\ pc = "out" <=> frames = <<>>
  /\ \A p \in DOMAIN frames :
       frames[p].src # NoSource <=> p < Len(frames) \/ pc = "dispatchCb"
  /\ \A p \in DOMAIN frames : frames[p].src # NoSource => frames[p].loop \in Loop

DispatchableInSnap == Selecting => dispatchable \subseteq ToSet(snap)

\* The loops of the snapshot that the innermost iteration has collected from.
Collected(j) ==
  \/ pc \in {"collect", "collectWindow"} /\ j < li
  \/ pc = "collectSources" /\ j <= li
  \/ pc \in {"prepare", "prepareCb", "poll", "polled", "check", "checkCb", "dispatch"}

CollectedAreEligible ==
  \A j \in DOMAIN snap : Collected(j) =>
    \A i \in DOMAIN polled[snap[j]] : Eligible(polled[snap[j]][i])

\* old_was_dispatching of a dispatch(): there were two of its source before.
OldFlags ==
  \A r \in DOMAIN frames :
    frames[r].old <=> \E p, q \in DOMAIN frames :
       /\ p < q /\ q < r /\ frames[r].src # NoSource
       /\ frames[p].src = frames[r].src /\ frames[q].src = frames[r].src

StructInv == /\ TypeOK /\ LoopListExact /\ DestroyPlace /\ FramesMatchPc
             /\ CursorsValid /\ DispatchableInSnap

RecursionInv == /\ CollectedAreEligible /\ OldFlags
                /\ RecursionFlags /\ NoUnallowedRecursion

IInv == StructInv /\ Ownership /\ RecursionInv
=============================================================================
