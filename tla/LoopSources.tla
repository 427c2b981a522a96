---------------------------- MODULE LoopSources ----------------------------
\* The sources an event loop brings along (loop.hh, loop.cc): timers and file
\* descriptor watches, through prepare(), poll(2), check() and dispatch() of
\* iterations.  EventLoop models the loop around them; here every source has
\* the same priority, and what other threads do they do while the loop sits in
\* poll(2) or in a slot.  Time is counted in microseconds, Msec of them to the
\* millisecond; the clock may be set back and forth.
EXTENDS SequenceLemmas, FiniteSets, FiniteSetsExt

CONSTANTS
  Timers,      \* the TimedSource objects
  Watches,     \* the PollFDSource objects
  Fds,         \* file descriptor numbers, reused once they are closed
  Modes,       \* the modes watches are created with, sets of "E", "H" and "C"
  Interval,    \* initial and repeat interval of the timers, in milliseconds
  Msec,        \* microseconds in a millisecond
  MaxClock,    \* bound of the clock
  MaxAdded     \* bound of the sources added in a behaviour

LoopSourcesAssumption ==
  /\ IsFiniteSet(Timers) /\ IsFiniteSet(Watches) /\ Timers \cap Watches = {}
  /\ Fds \subseteq Nat /\ Interval \in Nat \ {0} /\ Msec \in Nat \ {0}
  /\ MaxClock \in Nat /\ MaxAdded \in Nat
  /\ "nobody" \notin Timers \cup Watches /\ "user" \notin Watches

VARIABLES
  clock,       \* timestamp_realtime()
  timer,       \* the state of each TimedSource
  watch,       \* the state of each PollFDSource
  inLoop,      \* the sources in sources_, in order
  loopState,   \* loop_state_ of each source
  pollSources, \* poll_sources_
  pfda,        \* the array poll(2) gets; the wakeup descriptor is its first
  timeout,     \* timeout_msecs of the iteration
  stage,       \* what the loop's thread does
  slotSource,  \* the source whose slot runs
  opened,      \* whom each descriptor was opened for, Nobody if it is closed
  waited,      \* time in poll(2) since a timer fired or the clock was set back
  misclosed,   \* some source closed a descriptor that was not its own
  added        \* how many sources were added

fds == <<watch, opened, misclosed>>
servedVars == <<clock, timer, watch, inLoop, loopState, pollSources, pfda, timeout, stage,
               slotSource, opened, waited, misclosed, added>>

NoFd == -1
Nobody == "nobody"
Forever == MaxClock + Interval + 1   \* a timeout nobody in the model lives to see
NoIndex == 0                \* UINT_MAX
Events == {"IN", "HUP", "ERR", "NVAL"}
Sources == Timers \cup Watches

\* A TimedSource and a PollFDSource as far as their functions tell them apart.
TimedSources == [expiration : Nat, first : BOOLEAN, oneshot : BOOLEAN]
PollFDSources ==
  [fd : Fds \cup {NoFd}, revents : SUBSET Events, idx : Nat, oneshot : BOOLEAN,
   mode : Modes \cup {{}}]

NoTimer == [expiration |-> 0, first |-> TRUE, oneshot |-> TRUE]
NoWatch == [fd |-> NoFd, revents |-> {}, idx |-> NoIndex, oneshot |-> TRUE, mode |-> {}]

SourcesInit ==
  /\ clock = 0
  /\ timer = [t \in Timers |-> NoTimer]
  /\ watch = [w \in Watches |-> NoWatch]
  /\ inLoop = <<>> /\ loopState = [s \in Sources |-> "WAITING"]
  /\ pollSources = <<>> /\ pfda = <<>> /\ timeout = 0
  /\ stage = "idle" /\ slotSource = Nobody
  /\ opened = [f \in Fds |-> Nobody]
  /\ waited = [t \in Timers |-> 0] /\ misclosed = FALSE /\ added = 0

UserRuns == stage \in {"poll", "slot"}
IsNew(s) == s \notin ToSet(inLoop) /\ s # slotSource /\ s \notin ToSet(pollSources)
Join(s) == /\ inLoop' = Append(inLoop, s) /\ added < MaxAdded /\ added' = added + 1
           /\ loopState' = [loopState EXCEPT ![s] = "WAITING"]

\* exec_timer() and its siblings; exec_callback() has no delay.
AddTimer(t) ==
  /\ stage \in {"idle", "slot"} /\ IsNew(t) /\ Join(t)
  /\ \E delay \in {0, Interval}, once \in BOOLEAN :
       timer' = [timer EXCEPT ![t] =
         [NoTimer EXCEPT !.expiration = clock + delay * Msec, !.oneshot = once]]
  /\ UNCHANGED <<clock, pollSources, pfda, timeout, stage, slotSource, waited, fds>>

\* exec_io_handler() on a descriptor that was just opened, or on none.
AddWatch(w) ==
  /\ stage # "check" /\ IsNew(w) /\ Join(w)
  /\ \E f \in {g \in Fds : opened[g] = Nobody} \cup {NoFd},
        once \in BOOLEAN, mode \in Modes :
       /\ watch' = [watch EXCEPT ![w] =
            [NoWatch EXCEPT !.fd = f, !.oneshot = once, !.mode = mode]]
       /\ opened' = [g \in Fds |-> IF g = f THEN w ELSE opened[g]]
  /\ UNCHANGED <<clock, timer, pollSources, pfda, timeout, stage, slotSource, waited,
                 misclosed>>

\* A source is done with its descriptor: closed here, or left to the user.
CloseKept(w) ==
  LET f == watch[w].fd IN
    /\ watch' = watch
    /\ opened' = [g \in Fds |-> IF g # f THEN opened[g]
                               ELSE IF "C" \in watch[w].mode THEN "user" ELSE Nobody]
    /\ misclosed' = (misclosed \/ (f # NoFd /\ opened[f] # w))

CloseDown(w) ==
  LET f == watch[w].fd IN
    /\ watch' = [watch EXCEPT ![w].fd = NoFd]
    /\ opened' = [g \in Fds |-> IF g # f THEN opened[g]
                               ELSE IF "C" \in watch[w].mode THEN "user" ELSE Nobody]
    /\ misclosed' = (misclosed \/ (f # NoFd /\ opened[f] # w))

\* PollFDSource::destroy(), which removal calls
Destroy(s) == IF s \in Watches THEN CloseDown(s) ELSE UNCHANGED fds
LeaveLoop(s) == inLoop' = Without(inLoop, {s})

\* remove() or loop_remove(), from a slot or from another thread
RemoveSource(s) ==
  /\ UserRuns /\ s \in ToSet(inLoop) /\ LeaveLoop(s) /\ Destroy(s)
  /\ UNCHANGED <<clock, timer, loopState, pollSources, pfda, timeout, stage, slotSource,
                 waited, added>>

\* A slot got the PollFD by reference: it closes the descriptor and says so.
SlotTakesFd ==
  /\ stage = "slot" /\ slotSource \in Watches /\ watch[slotSource].fd # NoFd
  /\ watch' = [watch EXCEPT ![slotSource].fd = NoFd]
  /\ opened' = [opened EXCEPT ![watch[slotSource].fd] = Nobody]
  /\ UNCHANGED <<clock, timer, inLoop, loopState, pollSources, pfda, timeout, stage,
                 slotSource, waited, misclosed, added>>

\* With mode "C" the user closes the descriptor when the source is done.
UserCloses(f) ==
  /\ UserRuns /\ opened[f] = "user" /\ opened' = [opened EXCEPT ![f] = Nobody]
  /\ UNCHANGED <<clock, timer, watch, inLoop, loopState, pollSources, pfda, timeout,
                 stage, slotSource, waited, misclosed, added>>

\* collect_sources_Lm(): while sources need dispatching only those are polled.
Waiting == {s \in ToSet(inLoop) : loopState[s] = "NEEDS_DISPATCH"}
SourcesToPoll == IF Waiting = {} THEN inLoop ELSE Without(inLoop, Sources \ Waiting)

\* TimedSource::prepare(): clamps an expiration the clock was set back from.
Expired(t) == clock >= timer[t].expiration
ClampedNever(t) == timer[t].expiration
Clamped(t) ==
  IF ~timer[t].first /\ clock + Interval * Msec < timer[t].expiration
    THEN clock + Interval * Msec ELSE timer[t].expiration

PreparesReady(s) == IF s \in Timers THEN Expired(s) ELSE watch[s].fd = NoFd
Pollable(w) == watch[w].fd # NoFd

\* prepare_sources_Lm(): timeouts, and the descriptors that poll(2) gets
PollTimeout(ss) ==
  LET soon == {Clamped(t) - clock : t \in {t \in Timers \cap ToSet(ss) : ~Expired(t)}}
      usecs == IF soon = {} THEN Forever * Msec ELSE Min(soon)
  IN IF usecs \div Msec = 0 THEN 1 ELSE usecs \div Msec

\* poll(2) sits until the next timer unless a source needs dispatching already,
\* even one that has to be polled again before it may.
NotBlockPrepared(ss) == \E s \in ToSet(ss) : PreparesReady(s)
MustNotBlock(ss) == Waiting # {} \/ \E s \in ToSet(ss) : PreparesReady(s)

Prepare ==
  LET ss == SourcesToPoll
      ws == Without(ss, Timers \cup {w \in Watches : ~Pollable(w)})
  IN /\ stage = "idle"
     /\ pollSources' = ss
     /\ timer' = [t \in Timers |-> IF t \in ToSet(ss) /\ ~Expired(t)
                    THEN [timer[t] EXCEPT !.expiration = Clamped(t)] ELSE timer[t]]
     /\ loopState' = [s \in Sources |-> IF s \notin ToSet(ss) THEN loopState[s]
                        ELSE IF PreparesReady(s) THEN "NEEDS_DISPATCH" ELSE "PREPARED"]
     /\ pfda' = <<[fd |-> NoFd, revents |-> {}, of |-> Nobody]>> \o
                [i \in 1..Len(ws) |-> [fd |-> watch[ws[i]].fd, revents |-> {}, of |-> ws[i]]]
     /\ watch' = [w \in Watches |-> IF w \notin ToSet(ss) THEN watch[w]
                    ELSE [watch[w] EXCEPT !.revents = {},
                            !.idx = IF Pollable(w) THEN 1 + CHOOSE i \in 1..Len(ws) : ws[i] = w
                                    ELSE watch[w].idx]]
     /\ timeout' = IF MustNotBlock(ss) THEN 0 ELSE PollTimeout(ss)
     /\ stage' = "poll"
     /\ UNCHANGED <<clock, inLoop, slotSource, opened, waited, misclosed, added>>

\* Time goes by in poll(2) and in slots; somebody sets the clock.
Elapse(d) ==
  /\ UserRuns /\ (stage = "poll" => d <= timeout * Msec)
  /\ clock + d <= MaxClock /\ clock' = clock + d
  /\ timeout' = IF stage = "poll" /\ timeout # Forever THEN (timeout * Msec - d) \div Msec
                ELSE timeout
  /\ waited' = [t \in Timers |->
       IF stage = "slot" \/ timer[t].first \/ waited[t] > 2 * Interval * Msec
         THEN waited[t] ELSE waited[t] + d]
  /\ UNCHANGED <<timer, inLoop, loopState, pollSources, pfda, stage, slotSource, fds, added>>

SetClock(now) ==
  /\ UserRuns /\ now # clock /\ clock' = now
  /\ waited' = [t \in Timers |-> IF now < clock THEN 0 ELSE waited[t]]
  /\ UNCHANGED <<timer, inLoop, loopState, pollSources, pfda, timeout, stage, slotSource,
                 fds, added>>

\* poll(2): NVAL for what is closed by now, else events, errors and hangups.
Poll ==
  /\ stage = "poll" /\ stage' = "check"
  /\ \E seen \in [1..Len(pfda) -> {{}, {"IN"}, {"HUP", "ERR"}}] :
       pfda' = [i \in 1..Len(pfda) |->
         IF pfda[i].fd = NoFd THEN pfda[i]
         ELSE IF opened[pfda[i].fd] = Nobody THEN [pfda[i] EXCEPT !.revents = {"NVAL"}]
         ELSE [pfda[i] EXCEPT !.revents = seen[i]]]
  /\ UNCHANGED <<clock, timer, inLoop, loopState, pollSources, timeout, slotSource, fds,
                 waited, added>>

\* check_sources_Lm(): events are handed out by index, if the descriptor is
\* still the same.
RereadByIndex(w) ==
  LET i == watch[w].idx IN
    IF i \in 1..Len(pfda) THEN [watch[w] EXCEPT !.revents = pfda[i].revents]
      ELSE [watch[w] EXCEPT !.idx = NoIndex]
Reread(w) ==
  LET i == watch[w].idx IN
    IF i \in 1..Len(pfda) /\ pfda[i].fd = watch[w].fd
      THEN [watch[w] EXCEPT !.revents = pfda[i].revents]
      ELSE [watch[w] EXCEPT !.idx = NoIndex]

ChecksReady(s) ==
  IF s \in Timers THEN Expired(s)
  ELSE watch'[s].fd = NoFd \/ watch'[s].revents # {}

Check ==
  /\ stage = "check"
  /\ watch' = [w \in Watches |->
       IF w \in ToSet(pollSources) /\ (w \in ToSet(inLoop) \/ loopState[w] = "PREPARED")
         THEN Reread(w) ELSE watch[w]]
  /\ loopState' = [s \in Sources |->
       IF s \notin ToSet(pollSources) \cap ToSet(inLoop) THEN loopState[s]
       ELSE IF ChecksReady(s) THEN "NEEDS_DISPATCH" ELSE "WAITING"]
  /\ stage' = "dispatch"
  /\ UNCHANGED <<clock, timer, inLoop, pollSources, pfda, timeout, slotSource, opened, waited,
                 misclosed, added>>

Due(s) == s \in ToSet(inLoop) /\ loopState[s] = "NEEDS_DISPATCH"
Chosen == LET i == Min({i \in 1..Len(pollSources) : Due(pollSources[i])}) IN pollSources[i]

\* unpoll_sources_U() and the end of an iteration
Finish == stage' = "idle" /\ pollSources' = <<>> /\ pfda' = <<>> /\ timeout' = 0

\* Errors and hangups end a watch without its slot, unless it ignores them.
EndsWatch(w) ==
  watch[w].fd # NoFd /\ \/ "NVAL" \in watch[w].revents
                        \/ "E" \notin watch[w].mode /\ "ERR" \in watch[w].revents
                        \/ "H" \notin watch[w].mode /\ "HUP" \in watch[w].revents

StartSlot(s) ==
  /\ ~(s \in Watches /\ EndsWatch(s))
  /\ loopState' = [loopState EXCEPT ![s] = "WAITING"]
  /\ timer' = [t \in Timers |-> IF t = s THEN [timer[t] EXCEPT !.first = FALSE] ELSE timer[t]]
  /\ stage' = "slot" /\ slotSource' = s
  /\ UNCHANGED <<clock, inLoop, pfda, timeout, fds, waited, added, pollSources>>

EndWatch(s) ==
  /\ s \in Watches /\ EndsWatch(s)
  /\ loopState' = [loopState EXCEPT ![s] = "WAITING"]
  /\ CloseDown(s) /\ LeaveLoop(s) /\ Finish
  /\ UNCHANGED <<clock, timer, slotSource, waited, added>>

DispatchSource == /\ stage = "dispatch" /\ \E s \in ToSet(pollSources) : Due(s)
            /\ (StartSlot(Chosen) \/ EndWatch(Chosen))

DispatchNone ==
  /\ stage = "dispatch" /\ \A s \in ToSet(pollSources) : ~Due(s)
  /\ Finish
  /\ UNCHANGED <<clock, timer, inLoop, loopState, slotSource, fds, waited, added>>

\* The slot returns; a oneshot slot never asks for more.
Keeps(s, again) ==
  again /\ ~(IF s \in Timers THEN timer[s].oneshot ELSE watch[s].oneshot)

SlotReturns(again) ==
  LET s == slotSource IN
    /\ stage = "slot" /\ slotSource' = Nobody /\ Finish
    /\ again => Keeps(s, again)
    /\ IF Keeps(s, again)
         THEN UNCHANGED <<inLoop, fds>>
         ELSE LeaveLoop(s) /\ Destroy(s)
    /\ timer' = [t \in Timers |-> IF t = s /\ Keeps(s, again)
                   THEN [timer[t] EXCEPT !.expiration = clock + Interval * Msec]
                 ELSE IF t = s THEN NoTimer ELSE timer[t]]
    /\ waited' = [t \in Timers |-> IF t = s THEN 0 ELSE waited[t]]
    /\ UNCHANGED <<clock, loopState, added>>

SourcesNext ==
  \/ \E t \in Timers : AddTimer(t)
  \/ \E w \in Watches : AddWatch(w)
  \/ \E s \in Sources : RemoveSource(s)
  \/ SlotTakesFd
  \/ \E f \in Fds : UserCloses(f)
  \/ Prepare
  \/ \E d \in 1..Interval * Msec : Elapse(d)
  \/ \E now \in 0..MaxClock : SetClock(now)
  \/ Poll \/ Check \/ DispatchSource \/ DispatchNone
  \/ \E again \in BOOLEAN : SlotReturns(again)

SourcesSpec == SourcesInit /\ [][SourcesNext]_servedVars

-----------------------------------------------------------------------------
PollFDs == [fd : Fds \cup {NoFd}, revents : SUBSET Events, of : Watches \cup {Nobody}]
Period == Interval * Msec

SourcesTypeOK ==
  /\ clock \in 0..MaxClock /\ timeout \in Nat
  /\ timer \in [Timers -> [expiration : 0..(MaxClock + Period), first : BOOLEAN, oneshot : BOOLEAN]]
  /\ watch \in [Watches -> PollFDSources]
  /\ inLoop \in Seq(Sources) /\ pollSources \in Seq(Sources) /\ pfda \in Seq(PollFDs)
  /\ loopState \in [Sources -> {"WAITING", "PREPARED", "NEEDS_DISPATCH"}]
  /\ stage \in {"idle", "poll", "check", "dispatch", "slot"}
  /\ opened \in [Fds -> Watches \cup {Nobody, "user"}]
  /\ waited \in [Timers -> Nat]

\* A source closes its own descriptor, once: never one that was closed before
\* and meanwhile opened by somebody else, whoever removes it at whatever moment;
\* without mode "C" none stays open behind it.  A slot sees events of its own
\* descriptor, of this iteration, and that descriptor is still open.
DescriptorsAreSafe ==
  /\ ~misclosed
  /\ \A f \in Fds : opened[f] \in Watches => watch[opened[f]].fd = f
  /\ \A w \in Watches : w \notin ToSet(inLoop) => watch[w].fd = NoFd
  /\ stage = "slot" /\ slotSource \in Watches =>
       LET w == watch[slotSource] IN
         /\ w.fd # NoFd => opened[w.fd] = slotSource
         /\ w.revents # {} => \E i \in 1..Len(pfda) :
                                pfda[i].of = slotSource /\ w.revents = pfda[i].revents

\* The loop never sits in poll(2) past a timer: not while another source waits
\* for its turn, and not when the clock was set back: a timer that fired before
\* fires again two intervals later at most, the one that poll(2)
\* already waits for and another one.
TimersFireInTime ==
  stage = "poll" /\ timeout > 0 =>
    \A t \in Timers \cap ToSet(inLoop) :
      /\ timeout # Forever
      /\ ~timer[t].first => waited[t] + timeout * Msec <= (2 * Interval + 1) * Msec

\* Both of them.
SourcesAreServed == DescriptorsAreSafe /\ TimersFireInTime
=============================================================================
