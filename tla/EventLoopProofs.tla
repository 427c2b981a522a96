--------------------------- MODULE EventLoopProofs ---------------------------
(* Proofs about EventLoop, for every set of sources and loops; and about the    *)
(* timers and watches of LoopSources, for every set of them.                    *)
EXTENDS EventLoop, LoopSources

(* Two of the facts that SMT does not see through the definitions. *)
LEMMA CurrentTyped ==
  ASSUME TypeOK, CursorsValid
  PROVE  /\ Selecting => CurLoop \in Loop /\ life[CurLoop] = "live"
         /\ pc \in {"prepareCb", "checkCb"} => CurSource \in Source
<1>1. ASSUME Selecting
      PROVE  CurLoop \in Loop /\ life[CurLoop] = "live"
  <2>1. li \in DOMAIN snap /\ \A l \in ToSet(snap) : life[l] = "live"
    BY <1>1 DEF CursorsValid
  <2>2. snap[li] \in Loop
    BY <2>1, ElementOfSeq DEF TypeOK, LoopTypes, IterationTypes
  <2> QED
    BY <2>1, <2>2 DEF CurLoop, ToSet
<1>2. ASSUME pc \in {"prepareCb", "checkCb"}
      PROVE  CurSource \in Source
  <2>1. Selecting
    BY <1>2 DEF Selecting
  <2>2. CurLoop \in Loop /\ si \in DOMAIN polled[CurLoop]
    BY <1>1, <1>2, <2>1 DEF CursorsValid
  <2>3. polled[CurLoop] \in Seq(Source)
    BY <2>2 DEF TypeOK, LoopTypes, IterationTypes
  <2> QED
    BY <2>2, <2>3, ElementOfSeq DEF CurSource
<1> QED
  BY <1>1, <1>2

(* The initial state satisfies the structural invariant. *)
LEMMA InitStruct == Init => StructInv
<1> SUFFICES ASSUME Init PROVE StructInv
  OBVIOUS
<1> USE LoopAssumption
<1>1. TypeOK
  <2>1. <<>> \in Seq(Source) /\ <<>> \in Seq(Loop) /\ <<>> \in Seq(FrameType)
    BY EmptySeq
  <2>2. <<Main>> \in Seq(Loop)
    OBVIOUS
  <2>3. SourceTypes
    BY <2>1 DEF Init, SourceTypes, States
  <2>4. LoopTypes
    BY <2>1, <2>2 DEF Init, LoopTypes
  <2>5. IterationTypes
    <3>1. frames \in Seq(FrameType) /\ snap \in Seq(Loop)
      BY <2>1 DEF Init
    <3>2. pc \in Unlocked \cup Locked
      BY DEF Init, Unlocked, Callbacks
    <3>3. li \in Nat \ {0} /\ si \in Nat \ {0}
      BY DEF Init
    <3>4. dispatchable \subseteq Loop /\ ascension \in BOOLEAN /\ woken \in BOOLEAN
      BY DEF Init
    <3> QED
      BY <3>1, <3>2, <3>3, <3>4 DEF IterationTypes
  <2>6. DestroyTypes
    BY DEF Init, DestroyTypes
  <2> QED
    BY <2>3, <2>4, <2>5, <2>6 DEF TypeOK
<1>2. LoopListExact
  BY DEF Init, LoopListExact, ToSet, IsInjective
<1>3. DestroyPlace
  BY DEF Init, DestroyPlace
<1>4. FramesMatchPc
  BY DEF Init, FramesMatchPc
<1>5. CursorsValid /\ DispatchableInSnap
  BY DEF Init, CursorsValid, DispatchableInSnap, Selecting
<1> QED
  BY <1>1, <1>2, <1>3, <1>4, <1>5 DEF StructInv

(* An action that leaves the places, cursors and lists of the loops alone only *)
(* has to keep the types.                                                     *)
LEMMA StructFrame ==
  ASSUME StructInv, TypeOK',
         UNCHANGED <<pc, frames, snap, li, si, dispatchable, life, loops, killing,
                     killAll, polled>>
  PROVE  StructInv'
BY DEF StructInv, LoopListExact, DestroyPlace, FramesMatchPc, CursorsValid,
       DispatchableInSnap, Selecting, CurLoop

(* remove_source_Lm() keeps the types of what it changes. *)
LEMMA UnlinkTypes ==
  ASSUME SourceTypes, NEW l \in Loop, NEW s \in Source, Unlink(l, s)
  PROVE  /\ loopOf' \in [Source -> Loop \cup {NoLoop}]
         /\ state' \in [Source -> States]
         /\ sources' \in [Loop -> Seq(Source)]
<1>1. PICK pos \in DOMAIN sources[l] : sources' = [sources EXCEPT ![l] = RemoveAt(@, pos)]
  BY DEF Unlink
<1>2. RemoveAt(sources[l], pos) \in Seq(Source)
  BY <1>1, RemoveAtProperties DEF SourceTypes
<1> QED
  BY <1>1, <1>2 DEF SourceTypes, Unlink, States

(* add() and try_remove(), by the loop thread or by another one. *)
LEMMA StructAddRemove ==
  ASSUME StructInv, NEW l \in Loop, NEW s \in Source,
         \/ AddHere(l, s) \/ OtherAdd(l, s)
         \/ RemoveHere(l, s) \/ OtherRemove(l, s)
  PROVE  StructInv'
<1> USE LoopAssumption
    DEF sourceVars, flagVars, loopVars, quitVars, iterVars, killVars
<1>1. evfd' \in BOOLEAN /\ owing' \in Nat
  <2>1. WakeupNow \/ WakeupLater
    BY DEF AddHere, OtherAdd, RemoveHere, OtherRemove
  <2>2. evfd \in BOOLEAN /\ owing \in Nat
    BY DEF StructInv, TypeOK, LoopTypes, DestroyTypes
  <2>3. evfd' = TRUE \/ evfd' = evfd
    BY <2>1 DEF WakeupNow, WakeupLater
  <2>4. owing' \in Nat
    BY <2>1, <2>2 DEF WakeupNow, WakeupLater
  <2> QED
    BY <2>2, <2>3, <2>4
<1>2. CASE PushSource(l, s)
  <2>1. SourceTypes' /\ LoopTypes'
    BY <1>1, <1>2 DEF StructInv, TypeOK, SourceTypes, LoopTypes, PushSource, States
  <2>2. IterationTypes' /\ DestroyTypes'
    BY <1>1, <1>2 DEF StructInv, TypeOK, IterationTypes, DestroyTypes, PushSource
  <2> QED
    BY <1>2, <2>1, <2>2, StructFrame DEF TypeOK, PushSource
<1>3. CASE TryRemove(l, s)
  <2>1. SourceTypes'
    BY <1>3, UnlinkTypes DEF StructInv, TypeOK, SourceTypes, TryRemove
  <2>2. LoopTypes' /\ IterationTypes' /\ DestroyTypes'
    BY <1>1, <1>3 DEF StructInv, TypeOK, LoopTypes, IterationTypes, DestroyTypes,
                      TryRemove
  <2> QED
    BY <1>3, <2>1, <2>2, StructFrame DEF TypeOK, TryRemove
<1> QED
  BY <1>2, <1>3 DEF AddHere, OtherAdd, RemoveHere, OtherRemove

(* wakeup(), quit(), a cancelled run() and the start of destroy_loop(). *)
LEMMA StructUser ==
  ASSUME StructInv,
         \/ OtherWakeup \/ Quit \/ RunCancelled
         \/ \E l \in Loop : DestroyLoop(l)
  PROVE  StructInv'
<1> USE LoopAssumption
    DEF sourceVars, flagVars, loopVars, quitVars, iterVars, killVars, boundVars
<1>1. CASE OtherWakeup
  <2>1. TypeOK'
    BY <1>1 DEF StructInv, TypeOK, SourceTypes, LoopTypes, IterationTypes, DestroyTypes,
                OtherWakeup
  <2> QED
    BY <1>1, <2>1, StructFrame DEF OtherWakeup
<1>2. CASE Quit
  <2>1. TypeOK'
    BY <1>2 DEF StructInv, TypeOK, SourceTypes, LoopTypes, IterationTypes, DestroyTypes,
                Quit
  <2> QED
    BY <1>2, <2>1, StructFrame DEF Quit
<1>3. CASE RunCancelled
  <2>1. TypeOK'
    BY <1>3 DEF StructInv, TypeOK, SourceTypes, LoopTypes, IterationTypes, DestroyTypes,
                RunCancelled
  <2> QED
    BY <1>3, <2>1, StructFrame DEF RunCancelled
<1>4. ASSUME NEW l \in Loop, DestroyLoop(l)
      PROVE  StructInv'
  <2>1. loops # <<>>
    BY <1>4 DEF StructInv, LoopListExact, DestroyLoop, ToSet
  <2>2. Last(loops) \in Loop /\ Last(loops) \in ToSet(loops)
    <3>1. Len(loops) \in DOMAIN loops
      BY <2>1, LenProperties DEF StructInv, TypeOK, LoopTypes
    <3> QED
      BY <3>1, ElementOfSeq DEF Last, ToSet, StructInv, TypeOK, LoopTypes
  <2>3. /\ killing' \in Loop /\ life[killing'] = "live"
        /\ killAll' = (l = Main)
        /\ killAll' => pc = "out"
        /\ killing' = Main => killAll' \/ l = Main
    BY <1>4, <2>2 DEF DestroyLoop, StructInv, LoopListExact
  <2>4. TypeOK'
    BY <1>4, <2>3 DEF StructInv, TypeOK, SourceTypes, LoopTypes, IterationTypes,
                      DestroyTypes, DestroyLoop
  <2>5. /\ UNCHANGED <<pc, frames, snap, li, si, dispatchable, life, loops, polled>>
        /\ pc \in Callbacks
    BY <1>4 DEF DestroyLoop
  <2>6. DestroyPlace'
    BY <2>3, <2>5 DEF DestroyPlace, StructInv
  <2> QED
    BY <2>4, <2>5, <2>6 DEF StructInv, LoopListExact, FramesMatchPc, CursorsValid,
                            DispatchableInSnap, Selecting, CurLoop
<1> QED
  BY <1>1, <1>2, <1>3, <1>4

(* The head of an iteration: its snapshot holds the loops that exist. *)
LEMMA StartIterationCursors ==
  ASSUME StructInv, StartIteration, life[Main] = "live", UNCHANGED life
  PROVE  /\ pc' = "collect" /\ snap' \in Seq(Loop) /\ li' = 1 /\ si' = 1
         /\ dispatchable' = {} /\ ascension' = FALSE /\ woken' = FALSE
         /\ CursorsValid' /\ DispatchableInSnap'
<1>1. /\ pc' = "collect" /\ snap' = loops /\ li' = 1 /\ si' = 1
      /\ dispatchable' = {} /\ ascension' = FALSE /\ woken' = FALSE
  BY DEF StartIteration
<1>2. loops \in Seq(Loop) /\ 1 \in DOMAIN loops
  <2>1. loops \in Seq(Loop) /\ Main \in ToSet(loops)
    BY LoopAssumption DEF StructInv, TypeOK, LoopTypes, LoopListExact
  <2>2. PICK j \in DOMAIN loops : loops[j] = Main
    BY <2>1 DEF ToSet
  <2> QED
    BY <2>1, <2>2, LenProperties
<1>3. \A l \in ToSet(loops) : life[l] = "live"
  <2>1. \A l \in ToSet(loops) : l \in Loop
    BY <1>2, ElementOfSeq DEF ToSet
  <2> QED
    BY <2>1 DEF StructInv, LoopListExact
<1> QED
  BY <1>1, <1>2, <1>3 DEF CursorsValid, DispatchableInSnap, Selecting

(* run(), iterate() and pending() push a frame and take a new snapshot. *)
LEMMA StructEnter ==
  ASSUME StructInv, NEW k \in Kinds, Enter(k)
  PROVE  StructInv'
<1> USE LoopAssumption
    DEF sourceVars, flagVars, loopVars, quitVars, iterVars, killVars, boundVars
<1>1. /\ pc \in Callbacks /\ killing = NoLoop /\ life[Main] = "live"
      /\ frames' = Append(frames, Frame(k)) /\ StartIteration
      /\ UNCHANGED <<life, loops, killing, killAll>>
  BY DEF Enter
<1>2. /\ pc' = "collect" /\ snap' \in Seq(Loop) /\ li' = 1 /\ si' = 1
      /\ dispatchable' = {} /\ ascension' = FALSE /\ woken' = FALSE
      /\ CursorsValid' /\ DispatchableInSnap'
  BY <1>1, StartIterationCursors
<1>3. /\ frames' \in Seq(FrameType) /\ frames \in Seq(FrameType)
      /\ Len(frames') = Len(frames) + 1
      /\ \A p \in 1 .. Len(frames) : frames'[p] = frames[p]
      /\ frames'[Len(frames) + 1].src = NoSource
  <2>1. Frame(k) \in FrameType /\ Frame(k).src = NoSource
    BY DEF Frame, FrameType, StructInv, TypeOK, LoopTypes
  <2>2. frames \in Seq(FrameType)
    BY DEF StructInv, TypeOK, IterationTypes
  <2> QED
    BY <1>1, <2>1, <2>2, AppendProperties
<1>4. TypeOK'
  <2>1. SourceTypes' /\ LoopTypes' /\ DestroyTypes'
    BY DEF StructInv, TypeOK, SourceTypes, LoopTypes, DestroyTypes, Enter
  <2>2. IterationTypes'
    <3>1. dispatchable' \subseteq Loop /\ ascension' \in BOOLEAN /\ woken' \in BOOLEAN
      BY <1>2
    <3>2. li' \in Nat \ {0} /\ si' \in Nat \ {0} /\ pc' \in Locked
      BY <1>2 DEF Locked
    <3> QED
      BY <1>2, <1>3, <3>1, <3>2 DEF IterationTypes
  <2> QED
    BY <2>1, <2>2 DEF TypeOK
<1>5. FramesMatchPc'
  <2>1. DOMAIN frames' = 1 .. (Len(frames) + 1) /\ DOMAIN frames = 1 .. Len(frames)
        /\ Len(frames) \in Nat
    BY <1>3, LenProperties
  <2>2. ASSUME NEW p \in DOMAIN frames'
        PROVE  /\ frames'[p].src # NoSource <=> p < Len(frames')
               /\ frames'[p].src # NoSource => frames'[p].loop \in Loop
    <3>1. CASE p = Len(frames) + 1
      BY <1>3, <2>1, <3>1
    <3>2. CASE p # Len(frames) + 1
      <4>1. p \in DOMAIN frames /\ p < Len(frames')
        BY <1>3, <2>1, <3>2
      <4>2. frames # <<>>
        BY <4>1
      <4>3. pc = "dispatchCb"
        BY <1>1, <4>2 DEF Callbacks, StructInv, FramesMatchPc
      <4> QED
        BY <1>3, <4>1, <4>3, <2>1 DEF StructInv, FramesMatchPc
    <3> QED
      BY <3>1, <3>2
  <2>3. frames' # <<>>
    BY <1>3, <2>1
  <2> QED
    BY <1>2, <2>2, <2>3 DEF FramesMatchPc
<1>6. LoopListExact' /\ DestroyPlace'
  BY <1>1, <1>2 DEF StructInv, LoopListExact, DestroyPlace
<1> QED
  BY <1>2, <1>4, <1>5, <1>6 DEF StructInv

(* create_slave() appends a loop that was not in the list. *)
LEMMA StructCreateSlave ==
  ASSUME StructInv, NEW l \in Loop, CreateSlave(l)
  PROVE  StructInv'
<1> USE LoopAssumption
    DEF sourceVars, flagVars, loopVars, quitVars, iterVars, killVars, boundVars
<1>1. /\ life[l] = "new" /\ life' = [life EXCEPT ![l] = "live"]
      /\ loops' = Append(loops, l)
      /\ UNCHANGED <<pc, snap, li, si, dispatchable, frames, killing, killAll, polled>>
  BY DEF CreateSlave
<1>2. TypeOK'
  <2>1. loops' \in Seq(Loop)
    BY <1>1, AppendProperties DEF StructInv, TypeOK, LoopTypes
  <2>2. LoopTypes'
    BY <2>1 DEF CreateSlave, StructInv, TypeOK, LoopTypes
  <2>3. SourceTypes' /\ IterationTypes' /\ DestroyTypes'
    BY DEF StructInv, TypeOK, SourceTypes, IterationTypes, DestroyTypes, CreateSlave
  <2> QED
    BY <2>2, <2>3 DEF TypeOK
<1>3. LoopListExact'
  <2>1. l \notin ToSet(loops)
    BY <1>1 DEF StructInv, LoopListExact
  <2>2. ToSet(loops') = ToSet(loops) \cup {l} /\ IsInjective(loops')
    BY <1>1, <2>1, AppendElements DEF StructInv, TypeOK, LoopTypes, LoopListExact
  <2> QED
    BY <1>1, <2>2 DEF StructInv, TypeOK, LoopTypes, LoopListExact
<1>4. \A k \in Loop : life[k] = "live" => life'[k] = "live"
  BY <1>1 DEF StructInv, TypeOK, LoopTypes
<1>5. DestroyPlace'
  BY <1>1, <1>4 DEF StructInv, TypeOK, DestroyTypes, DestroyPlace
<1>6. CursorsValid'
  <2>1. \A k \in ToSet(snap) : k \in Loop
    BY ElementOfSeq DEF ToSet, StructInv, TypeOK, IterationTypes
  <2> QED
    BY <1>1, <1>4, <2>1 DEF StructInv, CursorsValid, Selecting, CurLoop
<1> QED
  BY <1>1, <1>2, <1>3, <1>5, <1>6 DEF StructInv, FramesMatchPc, DispatchableInSnap,
                                      Selecting

(* kill_loop_Lm() takes one loop after the other out of the list; no
   iteration has a cursor into it, since destroy_loop() keeps to Callbacks. *)
LEMMA StructKill ==
  ASSUME StructInv, KillNext
  PROVE  StructInv'
<1> USE LoopAssumption
    DEF sourceVars, flagVars, loopVars, quitVars, iterVars, killVars, boundVars
<1>0. killing # NoLoop /\ pc \in Callbacks /\ killing \in Loop
  BY DEF KillNext, KillSource, KillUnpoll, KillLoop, StructInv, DestroyPlace, TypeOK,
         DestroyTypes
<1>1. CASE KillSource
  <2>1. Head(sources[killing]) \in Source
    BY <1>0, <1>1 DEF KillSource, StructInv, TypeOK, SourceTypes
  <2>2. SourceTypes'
    BY <1>0, <1>1, <2>1, UnlinkTypes DEF KillSource, StructInv, TypeOK, SourceTypes
  <2>3. LoopTypes' /\ IterationTypes' /\ DestroyTypes'
    BY <1>1 DEF KillSource, StructInv, TypeOK, LoopTypes, IterationTypes, DestroyTypes
  <2> QED
    BY <1>1, <2>2, <2>3, StructFrame DEF TypeOK, KillSource
<1>2. CASE KillUnpoll
  <2>1. LoopTypes'
    BY <1>2, EmptySeq DEF KillUnpoll, StructInv, TypeOK, LoopTypes
  <2>2. SourceTypes' /\ IterationTypes' /\ DestroyTypes'
    BY <1>2 DEF KillUnpoll, StructInv, TypeOK, SourceTypes, IterationTypes, DestroyTypes
  <2>3. UNCHANGED <<pc, frames, snap, li, si, dispatchable, life, loops, killing,
                    killAll>>
    BY <1>2 DEF KillUnpoll
  <2>4. CursorsValid' /\ DispatchableInSnap'
    BY <1>0, <2>3 DEF CursorsValid, DispatchableInSnap, Selecting, Callbacks
  <2> QED
    BY <2>1, <2>2, <2>3, <2>4 DEF TypeOK, StructInv, LoopListExact, DestroyPlace,
                                  FramesMatchPc
<1>3. CASE KillLoop
  <2>1. PICK pos \in DOMAIN loops : loops[pos] = killing /\ loops' = RemoveAt(loops, pos)
    BY <1>3 DEF KillLoop
  <2>2. /\ loops \in Seq(Loop) /\ IsInjective(loops)
        /\ loops' \in Seq(Loop) /\ IsInjective(loops')
        /\ ToSet(loops') = ToSet(loops) \ {killing}
    BY <2>1, RemoveAtProperties, RemoveAtElements DEF StructInv, TypeOK, LoopTypes,
                                                      LoopListExact
  <2>3. /\ life' = [life EXCEPT ![killing] = "dead"]
        /\ unpolled' = FALSE
        /\ killing' = IF killAll /\ loops' # <<>> THEN Last(loops') ELSE NoLoop
        /\ killAll' = (killing' # NoLoop)
        /\ UNCHANGED <<pc, frames, snap, li, si, dispatchable, polled>>
    BY <1>3 DEF KillLoop
  <2>4. LoopListExact'
    BY <1>0, <2>2, <2>3 DEF StructInv, TypeOK, LoopTypes, LoopListExact
  <2>5. loops' # <<>> => Last(loops') \in Loop /\ Last(loops') \in ToSet(loops')
    <3>1. loops' # <<>> => Len(loops') \in DOMAIN loops'
      BY <2>2, LenProperties
    <3> QED
      BY <2>2, <3>1, ElementOfSeq DEF Last, ToSet
  <2>6. killing' = NoLoop \/ (killing' \in Loop /\ life'[killing'] = "live" /\ killAll)
    BY <2>3, <2>4, <2>5 DEF LoopListExact
  <2>7. DestroyPlace'
    <3>1. killing' # NoLoop => pc' \in Callbacks /\ life'[killing'] = "live" /\ pc' = "out"
      BY <1>0, <2>3, <2>6 DEF StructInv, DestroyPlace
    <3>2. pc' # "out" => life'[Main] = "live"
      BY <1>0, <2>3 DEF StructInv, DestroyPlace, TypeOK, LoopTypes
    <3> QED
      BY <2>3, <3>1, <3>2 DEF DestroyPlace
  <2>8. TypeOK'
    <3>1. LoopTypes'
      BY <1>3, <2>2, <2>3 DEF KillLoop, StructInv, TypeOK, LoopTypes
    <3>2. DestroyTypes'
      BY <1>3, <2>3, <2>6 DEF KillLoop, StructInv, TypeOK, DestroyTypes
    <3>3. SourceTypes' /\ IterationTypes'
      BY <1>3 DEF KillLoop, StructInv, TypeOK, SourceTypes, IterationTypes
    <3> QED
      BY <3>1, <3>2, <3>3 DEF TypeOK
  <2>9. CursorsValid' /\ DispatchableInSnap'
    BY <1>0, <2>3 DEF CursorsValid, DispatchableInSnap, Selecting, Callbacks
  <2> QED
    BY <2>3, <2>4, <2>7, <2>8, <2>9 DEF StructInv, FramesMatchPc
<1> QED
  BY <1>1, <1>2, <1>3 DEF KillNext

(* The cursor stays in the snapshot when it goes on to the next loop. *)
LEMMA NextLoopCursors ==
  ASSUME StructInv, Selecting, NEW phase, NEW nextPhase, NextLoop(phase, nextPhase),
         phase \notin {"prepareCb", "checkCb"}, nextPhase \notin {"prepareCb", "checkCb"},
         UNCHANGED life
  PROVE  /\ pc' \in {phase, nextPhase} /\ si' = 1 /\ li' \in Nat \ {0}
         /\ UNCHANGED <<snap, woken>>
         /\ CursorsValid'
<1>1. /\ si' = 1 /\ UNCHANGED <<snap, woken>>
      /\ \/ li < Len(snap) /\ li' = li + 1 /\ pc' = phase
         \/ li' = 1 /\ pc' = nextPhase
  BY DEF NextLoop
<1>2. /\ li \in 1 .. Len(snap) /\ DOMAIN snap = 1 .. Len(snap) /\ Len(snap) \in Nat
      /\ \A l \in ToSet(snap) : life[l] = "live"
  BY LenProperties DEF StructInv, TypeOK, IterationTypes, CursorsValid
<1>3. li' \in 1 .. Len(snap)
  BY <1>1, <1>2
<1> QED
  BY <1>1, <1>2, <1>3 DEF CursorsValid

(* collect_sources_Lm() moves along the sources of the current loop. *)
LEMMA StructCollect ==
  ASSUME StructInv, CollectNext
  PROVE  StructInv'
<1> USE LoopAssumption
    DEF sourceVars, flagVars, loopVars, quitVars, iterVars, killVars, boundVars
<1>0. /\ pc \in {"collect", "collectWindow", "collectSources"} /\ Selecting
      /\ CurLoop \in Loop /\ polled[CurLoop] \in Seq(Source)
      /\ UNCHANGED <<life, loops, frames, killing, killAll>>
  <2>1. /\ pc \in {"collect", "collectWindow", "collectSources"}
        /\ UNCHANGED <<life, loops, frames, killing, killAll>>
    BY DEF CollectNext, CleanSlate, CollectPriority, CollectSource, CollectDone
  <2> QED
    BY <2>1, CurrentTyped DEF Selecting, StructInv, TypeOK, LoopTypes
<1>1. ASSUME TypeOK', CursorsValid', UNCHANGED <<snap, dispatchable>>,
             pc' \in {"collect", "collectWindow", "collectSources", "prepare"}
      PROVE  StructInv'
  BY <1>0, <1>1 DEF StructInv, LoopListExact, DestroyPlace, FramesMatchPc,
                    DispatchableInSnap, Selecting, Callbacks
<1>2. CASE CleanSlate
  <2>1. LoopTypes'
    BY <1>0, <1>2, EmptySeq DEF CleanSlate, StructInv, TypeOK, LoopTypes
  <2>2. SourceTypes' /\ IterationTypes' /\ DestroyTypes'
    BY <1>2 DEF CleanSlate, StructInv, TypeOK, SourceTypes, IterationTypes, DestroyTypes,
                Unlocked
  <2>3. CursorsValid'
    BY <1>0, <1>2 DEF CleanSlate, StructInv, CursorsValid, Selecting
  <2> QED
    BY <1>1, <1>2, <2>1, <2>2, <2>3 DEF CleanSlate, TypeOK
<1>3. CASE CollectPriority
  <2>1. dprio' \in [Loop -> Nat]
    <3>1. PICK p \in {0} \cup {Prio[s] : s \in Source} :
            dprio' = [dprio EXCEPT ![CurLoop] = p]
      BY <1>3 DEF CollectPriority
    <3>2. p \in Nat
      BY <3>1
    <3> QED
      BY <3>1, <3>2 DEF StructInv, TypeOK, LoopTypes
  <2>2. LoopTypes'
    BY <1>3, <2>1 DEF CollectPriority, StructInv, TypeOK, LoopTypes
  <2>3. SourceTypes' /\ IterationTypes' /\ DestroyTypes'
    BY <1>3 DEF CollectPriority, StructInv, TypeOK, SourceTypes, IterationTypes,
                DestroyTypes, Locked
  <2>4. CursorsValid'
    BY <1>0, <1>3 DEF CollectPriority, StructInv, CursorsValid, Selecting
  <2> QED
    BY <1>1, <1>3, <2>2, <2>3, <2>4 DEF CollectPriority, TypeOK
<1>4. CASE CollectSource
  <2>1. /\ pc = "collectSources" /\ si' = si + 1 /\ si \in 1 .. Len(sources[CurLoop])
        /\ UNCHANGED <<pc, snap, li, dispatchable>>
    BY <1>4 DEF CollectSource, StructInv, TypeOK, IterationTypes, SourceTypes
  <2>2. sources[CurLoop][si] \in Source
    BY <1>0, <2>1, ElementOfSeq DEF StructInv, TypeOK, SourceTypes
  <2>3. Append(polled[CurLoop], sources[CurLoop][si]) \in Seq(Source)
    BY <1>0, <2>2, AppendProperties
  <2>4. LoopTypes'
    BY <1>0, <1>4, <2>3 DEF CollectSource, StructInv, TypeOK, LoopTypes
  <2>5. SourceTypes' /\ DestroyTypes'
    BY <1>4 DEF CollectSource, StructInv, TypeOK, SourceTypes, DestroyTypes
  <2>6. si' \in Nat \ {0}
    BY <2>1
  <2>7. IterationTypes'
    BY <1>4, <2>6 DEF CollectSource, StructInv, TypeOK, IterationTypes
  <2>8. CursorsValid'
    BY <1>0, <2>1 DEF StructInv, CursorsValid, Selecting
  <2> QED
    BY <1>1, <2>1, <2>4, <2>5, <2>7, <2>8 DEF TypeOK
<1>5. CASE CollectDone
  <2>1. NextLoop("collect", "prepare") /\ UNCHANGED <<polled, dispatchable, ascension>>
    BY <1>5 DEF CollectDone
  <2>2. /\ pc' \in {"collect", "prepare"} /\ si' = 1 /\ li' \in Nat \ {0}
        /\ UNCHANGED <<snap, woken>> /\ CursorsValid'
    BY <1>0, <2>1, NextLoopCursors
  <2>3. SourceTypes' /\ LoopTypes' /\ DestroyTypes'
    BY <1>5 DEF CollectDone, StructInv, TypeOK, SourceTypes, LoopTypes, DestroyTypes
  <2>4. IterationTypes'
    BY <1>0, <2>1, <2>2 DEF StructInv, TypeOK, IterationTypes, Locked
  <2> QED
    BY <1>1, <2>1, <2>2, <2>3, <2>4 DEF TypeOK
<1> QED
  BY <1>2, <1>3, <1>4, <1>5 DEF CollectNext

(* Around poll() nothing but the eventfd and the place changes. *)
LEMMA StructPoll ==
  ASSUME StructInv, PollWakes \/ PollEvent \/ Flush
  PROVE  StructInv'
<1> USE LoopAssumption
    DEF sourceVars, flagVars, loopVars, quitVars, killVars, boundVars
<1>1. /\ pc \in {"poll", "polled"} /\ pc' \in {"polled", "check"}
      /\ UNCHANGED <<snap, li, si, dispatchable, frames, life, loops, killing, killAll>>
      /\ evfd' \in BOOLEAN /\ woken' \in BOOLEAN
  BY DEF PollWakes, PollEvent, Flush, StructInv, TypeOK, LoopTypes, IterationTypes
<1>2. SourceTypes' /\ LoopTypes' /\ DestroyTypes'
  BY <1>1 DEF PollWakes, PollEvent, Flush, StructInv, TypeOK, SourceTypes, LoopTypes,
              DestroyTypes
<1>3. UNCHANGED ascension
  BY DEF PollWakes, PollEvent, Flush
<1>4. IterationTypes'
  BY <1>1, <1>3 DEF StructInv, TypeOK, IterationTypes, Unlocked, Locked
<1> QED
  BY <1>1, <1>2, <1>4 DEF TypeOK, StructInv, LoopListExact, DestroyPlace, FramesMatchPc,
                          CursorsValid, DispatchableInSnap, Selecting, Callbacks

(* Passing over a source in prepare_sources_Lm() or check_sources_Lm(). *)
LEMMA StructSkip ==
  ASSUME StructInv, NEW phase \in {"prepare", "check"}, SkipSource(phase)
  PROVE  StructInv'
<1> USE LoopAssumption DEF sourceVars, flagVars, loopVars, quitVars, killVars, boundVars
<1>1. /\ pc \in {"prepare", "check"} /\ si' = si + 1
      /\ UNCHANGED <<pc, frames, snap, li, dispatchable, life, loops, killing, killAll,
                     polled>>
  BY DEF SkipSource
<1>2. si' \in Nat \ {0}
  BY <1>1 DEF StructInv, TypeOK, IterationTypes
<1>3. TypeOK'
  <2>1. SourceTypes' /\ LoopTypes' /\ DestroyTypes'
    BY DEF SkipSource, StructInv, TypeOK, SourceTypes, LoopTypes, DestroyTypes
  <2>2. IterationTypes'
    BY <1>2 DEF SkipSource, StructInv, TypeOK, IterationTypes
  <2> QED
    BY <2>1, <2>2 DEF TypeOK
<1> QED
  BY <1>1, <1>3 DEF StructInv, LoopListExact, DestroyPlace, FramesMatchPc, CursorsValid,
                    DispatchableInSnap, Selecting, CurLoop

(* Calling prepare() or check() of a source that the cursor is valid for. *)
LEMMA StructCall ==
  ASSUME StructInv, NEW phase \in {"prepare", "check"},
         NEW callback \in {"prepareCb", "checkCb"},
         CallSource(phase, callback)
  PROVE  StructInv'
<1> USE LoopAssumption
    DEF sourceVars, flagVars, loopVars, quitVars, iterVars, killVars, boundVars
<1>1. /\ pc \in {"prepare", "check"} /\ pc' = callback
      /\ si <= Len(polled[CurLoop])
      /\ UNCHANGED <<frames, snap, li, si, dispatchable, life, loops, killing, killAll,
                     polled>>
  BY DEF CallSource
<1>2. CurLoop \in Loop /\ si \in Nat \ {0}
  BY <1>1, CurrentTyped DEF Selecting, StructInv, TypeOK, IterationTypes
<1>3. si \in DOMAIN polled[CurLoop]
  BY <1>1, <1>2, LenProperties DEF StructInv, TypeOK, LoopTypes
<1>4. CursorsValid'
  BY <1>1, <1>3 DEF StructInv, CursorsValid, Selecting, CurLoop
<1>5. TypeOK'
  <2>1. SourceTypes' /\ LoopTypes' /\ DestroyTypes'
    BY DEF CallSource, StructInv, TypeOK, SourceTypes, LoopTypes, DestroyTypes
  <2>2. IterationTypes'
    BY DEF CallSource, StructInv, TypeOK, IterationTypes, Unlocked
  <2> QED
    BY <2>1, <2>2 DEF TypeOK
<1> QED
  BY <1>1, <1>4, <1>5 DEF StructInv, LoopListExact, DestroyPlace, FramesMatchPc,
                    DispatchableInSnap, Selecting, Callbacks

(* The callback is back: poll_sources_ is as it was, so is the cursor. *)
LEMMA StructReturns ==
  ASSUME StructInv, NEW phase \in {"prepare", "check"},
         NEW callback \in {"prepareCb", "checkCb"}, NEW declined \in States,
         CallbackReturns(phase, callback, declined)
  PROVE  StructInv'
<1> USE LoopAssumption DEF sourceVars, flagVars, loopVars, quitVars, killVars, boundVars
<1>1. /\ pc \in {"prepareCb", "checkCb"} /\ pc' \in {"prepare", "check"} /\ si' = si + 1
      /\ UNCHANGED <<frames, snap, li, dispatchable, life, loops, killing, killAll,
                     polled, ascension, woken>>
  BY DEF CallbackReturns
<1>2. CurSource \in Source /\ CurLoop \in Loop
  BY <1>1, CurrentTyped DEF Selecting, StructInv
<1>3. /\ state' \in [Source -> States] /\ dprio' \in [Loop -> Nat]
  <2>1. state \in [Source -> States] /\ dprio \in [Loop -> Nat]
    BY DEF StructInv, TypeOK, SourceTypes, LoopTypes
  <2>2. \/ UNCHANGED <<state, dprio>>
        \/ Upgrade(CurSource, CurLoop)
        \/ state' = [state EXCEPT ![CurSource] = declined] /\ UNCHANGED dprio
    BY DEF CallbackReturns
  <2>3. Prio[CurSource] \in Nat
    BY <1>2
  <2> QED
    BY <1>2, <2>1, <2>2, <2>3 DEF Upgrade, States
<1>4. SourceTypes' /\ LoopTypes' /\ DestroyTypes'
  BY <1>3 DEF CallbackReturns, StructInv, TypeOK, SourceTypes, LoopTypes, DestroyTypes
<1>5. si' \in Nat \ {0}
  BY <1>1 DEF StructInv, TypeOK, IterationTypes
<1>6. IterationTypes'
  BY <1>1, <1>5 DEF StructInv, TypeOK, IterationTypes, Locked
<1>7. CursorsValid'
  BY <1>1 DEF StructInv, CursorsValid, Selecting
<1> QED
  BY <1>1, <1>4, <1>6, <1>7 DEF TypeOK, StructInv, LoopListExact, DestroyPlace,
                    FramesMatchPc, DispatchableInSnap, Selecting, Callbacks

(* The end of one loop's prepare or check phase notes a live loop. *)
LEMMA StructLoopDone ==
  ASSUME StructInv, NEW phase \in {"prepare", "check"},
         NEW nextPhase \in {"poll", "dispatch"}, LoopDone(phase, nextPhase)
  PROVE  StructInv'
<1> USE LoopAssumption DEF sourceVars, flagVars, loopVars, quitVars, killVars, boundVars
<1>1. /\ pc = phase /\ Selecting
      /\ NoteDispatchable(CurLoop) /\ NextLoop(phase, nextPhase)
      /\ UNCHANGED <<frames, life, loops, killing, killAll, polled>>
  BY DEF LoopDone, Selecting
<1>2. /\ pc' \in {phase, nextPhase} /\ si' = 1 /\ li' \in Nat \ {0}
      /\ UNCHANGED <<snap, woken>> /\ CursorsValid'
  BY <1>1, NextLoopCursors
<1>3. CurLoop \in Loop /\ CurLoop \in ToSet(snap)
  BY <1>1, CurrentTyped DEF StructInv, CursorsValid, CurLoop, ToSet
<1>4. /\ dispatchable' \subseteq Loop /\ dispatchable' \subseteq ToSet(snap)
  BY <1>1, <1>3 DEF NoteDispatchable, StructInv, TypeOK, IterationTypes,
                    DispatchableInSnap
<1>5. ascension' \in BOOLEAN
  BY <1>1 DEF NoteDispatchable
<1>6. SourceTypes' /\ LoopTypes' /\ DestroyTypes'
  BY DEF LoopDone, StructInv, TypeOK, SourceTypes, LoopTypes, DestroyTypes
<1>7. IterationTypes'
  BY <1>1, <1>2, <1>4, <1>5 DEF StructInv, TypeOK, IterationTypes, Locked, Unlocked
<1> QED
  BY <1>1, <1>2, <1>4, <1>6, <1>7 DEF TypeOK, StructInv, LoopListExact, DestroyPlace,
                    FramesMatchPc, DispatchableInSnap, Callbacks

(* All of prepare_sources_Lm() and check_sources_Lm(). *)
LEMMA StructPrepareCheck ==
  ASSUME StructInv, PrepareNext \/ CheckNext
  PROVE  StructInv'
<1>1. \/ \E phase \in {"prepare", "check"} : SkipSource(phase)
      \/ CallSource("prepare", "prepareCb") \/ CallSource("check", "checkCb")
      \/ CallbackReturns("prepare", "prepareCb", "PREPARED")
      \/ CallbackReturns("check", "checkCb", "WAITING")
      \/ LoopDone("prepare", "poll") \/ LoopDone("check", "dispatch")
  BY DEF PrepareNext, CheckNext, PrepareSkip, PrepareCall, PrepareReturns, PrepareDone,
         CheckSkip, CheckCall, CheckReturns, CheckDone
<1>2. "PREPARED" \in States /\ "WAITING" \in States
  BY DEF States
<1> QED
  BY <1>1, <1>2, StructSkip, StructCall, StructReturns, StructLoopDone

(* What a dispatch() that starts or ends makes of the stack of iterations. *)
TopUpdated(s, l, o) ==
  [frames EXCEPT ![Len(frames)].src = s, ![Len(frames)].loop = l, ![Len(frames)].old = o]

\* The stack q has this innermost frame and is otherwise the one before.
TopChanged(q, s, l, o) ==
  /\ q \in Seq(FrameType)
  /\ Len(q) = Len(frames)
  /\ DOMAIN q = DOMAIN frames
  /\ \A p \in DOMAIN frames : p # Len(frames) => q[p] = frames[p]
  /\ q[Len(frames)].src = s
  /\ q[Len(frames)].loop = l
  /\ q[Len(frames)].old = o

(* Only the innermost frame is different. *)
LEMMA TopUpdatedProperties ==
  ASSUME frames \in Seq(FrameType), frames # <<>>,
         NEW s \in Source \cup {NoSource}, NEW l \in Loop \cup {NoLoop}, NEW o \in BOOLEAN
  PROVE  TopChanged(TopUpdated(s, l, o), s, l, o)
<1> DEFINE n == Len(frames)
           top == [frames[n] EXCEPT !.src = s, !.loop = l, !.old = o]
<1>1. /\ n \in Nat /\ n \in DOMAIN frames /\ DOMAIN frames = 1 .. n
      /\ frames \in [1 .. n -> FrameType]
  BY LenProperties
<1>2. frames[n] \in FrameType
  BY <1>1
<1>3. top \in FrameType /\ top.src = s /\ top.loop = l /\ top.old = o
  BY <1>2 DEF FrameType
<1>4. TopUpdated(s, l, o) = [frames EXCEPT ![n] = top]
  BY <1>1, <1>2 DEF TopUpdated, FrameType
<1> HIDE DEF top, n
<1>5. [frames EXCEPT ![n] = top] \in [1 .. n -> FrameType]
  BY <1>1, <1>3
<1>6. [frames EXCEPT ![n] = top] \in Seq(FrameType)
  BY <1>1, <1>5, IsASeq
<1>7. Len([frames EXCEPT ![n] = top]) = n
  BY <1>1, <1>5, <1>6, LenProperties
<1> QED
  BY <1>1, <1>3, <1>4, <1>5, <1>6, <1>7 DEF n, TopChanged

(* The case that a dispatch() ends. *)
LEMMA TopClearedProperties ==
  ASSUME frames \in Seq(FrameType), frames # <<>>,
         frames' = TopUpdated(NoSource, NoLoop, FALSE)
  PROVE  /\ frames' \in Seq(FrameType)
         /\ Len(frames') = Len(frames)
         /\ DOMAIN frames' = DOMAIN frames
         /\ \A p \in DOMAIN frames : p # Len(frames) => frames'[p] = frames[p]
         /\ frames'[Len(frames)].src = NoSource
         /\ frames'[Len(frames)].old = FALSE
<1>1. TopChanged(TopUpdated(NoSource, NoLoop, FALSE), NoSource, NoLoop, FALSE)
  <2>1. NoSource \in Source \cup {NoSource} /\ NoLoop \in Loop \cup {NoLoop}
    OBVIOUS
  <2>2. FALSE \in BOOLEAN
    OBVIOUS
  <2> QED
    BY <2>1, <2>2, TopUpdatedProperties, Zenon
<1> QED
  BY <1>1 DEF TopChanged

(* Within an iteration there is an innermost frame; in a dispatch() it names
   a source and a loop. *)
LEMMA TopTyped ==
  ASSUME StructInv, pc # "out"
  PROVE  /\ frames # <<>> /\ frames \in Seq(FrameType)
         /\ Len(frames) \in Nat /\ Len(frames) >= 1
         /\ DOMAIN frames = 1 .. Len(frames) /\ Len(frames) \in DOMAIN frames
         /\ Top \in FrameType
         /\ pc = "dispatchCb" => Top.src \in Source /\ Top.loop \in Loop
<1>1. frames # <<>> /\ frames \in Seq(FrameType)
  BY DEF StructInv, FramesMatchPc, TypeOK, IterationTypes
<1>2. /\ Len(frames) \in Nat /\ DOMAIN frames = 1 .. Len(frames)
      /\ Len(frames) \in DOMAIN frames /\ Len(frames) >= 1
  BY <1>1, LenProperties
<1>3. Top \in FrameType
  BY <1>1, <1>2, ElementOfSeq DEF Top
<1>4. pc = "dispatchCb" => Top.src # NoSource /\ Top.loop \in Loop
  BY <1>2 DEF StructInv, FramesMatchPc, Top
<1> QED
  BY <1>1, <1>2, <1>3, <1>4 DEF FrameType

(* dispatch_source_Lm() up to the call of dispatch(). *)
LEMMA StructDispatch ==
  ASSUME StructInv, Dispatch
  PROVE  StructInv'
<1> USE LoopAssumption
    DEF sourceVars, flagVars, loopVars, quitVars, iterVars, killVars, boundVars
<1>1. /\ pc = "dispatch" /\ pc' = "dispatchCb" /\ EndSelection
      /\ UNCHANGED <<loopOf, sources, polled, life, loops, evfd, running, hasQuit,
                     killing, unpolled, killAll, adds, owing>>
  BY DEF Dispatch
<1>2. /\ snap' = <<>> /\ li' = 1 /\ si' = 1 /\ ascension' = FALSE
      /\ UNCHANGED <<dispatchable, woken>>
  BY <1>1 DEF EndSelection
<1>3. PICK k \in 0 .. Len(snap) : rr' = (rr + k + 1) % RoundTurns
  BY DEF Dispatch
<1>4. PICK l \in dispatchable :
        /\ dprio' = [dprio EXCEPT ![l] = 0]
        /\ \E i \in DOMAIN polled[l] :
             /\ state' = [state EXCEPT ![polled[l][i]] = "WAITING"]
             /\ wasDispatching' =
                  [wasDispatching EXCEPT ![polled[l][i]] = dispatching[polled[l][i]]]
             /\ dispatching' = [dispatching EXCEPT ![polled[l][i]] = TRUE]
             /\ frames' = TopUpdated(polled[l][i], l, wasDispatching[polled[l][i]])
  BY DEF Dispatch, TopUpdated
<1>5. l \in Loop /\ polled[l] \in Seq(Source)
  BY DEF StructInv, TypeOK, IterationTypes, LoopTypes
<1>6. PICK s \in Source :
        /\ state' = [state EXCEPT ![s] = "WAITING"]
        /\ wasDispatching' = [wasDispatching EXCEPT ![s] = dispatching[s]]
        /\ dispatching' = [dispatching EXCEPT ![s] = TRUE]
        /\ frames' = TopUpdated(s, l, wasDispatching[s])
  <2>1. PICK i \in DOMAIN polled[l] :
          /\ state' = [state EXCEPT ![polled[l][i]] = "WAITING"]
          /\ wasDispatching' =
               [wasDispatching EXCEPT ![polled[l][i]] = dispatching[polled[l][i]]]
          /\ dispatching' = [dispatching EXCEPT ![polled[l][i]] = TRUE]
          /\ frames' = TopUpdated(polled[l][i], l, wasDispatching[polled[l][i]])
    BY <1>4
  <2>2. polled[l][i] \in Source
    BY <1>5, ElementOfSeq
  <2> QED
    BY <2>1, <2>2
<1>7. /\ frames' \in Seq(FrameType) /\ Len(frames') = Len(frames)
      /\ DOMAIN frames' = DOMAIN frames /\ frames' # <<>>
      /\ \A p \in DOMAIN frames : p # Len(frames) => frames'[p] = frames[p]
      /\ frames'[Len(frames)].src = s /\ frames'[Len(frames)].loop = l
      /\ DOMAIN frames = 1 .. Len(frames) /\ Len(frames) \in Nat
  <2>1. wasDispatching[s] \in BOOLEAN
    BY <1>6 DEF StructInv, TypeOK, SourceTypes
  <2>2. TopUpdated(s, l, wasDispatching[s]) # <<>>
    BY <2>1, <1>1, <1>5, <1>6, TopTyped, TopUpdatedProperties DEF TopChanged
  <2> QED
    BY <1>1, <1>5, <1>6, <2>1, <2>2, TopTyped, TopUpdatedProperties DEF TopChanged
<1>8. SourceTypes'
  <2>1. state' \in [Source -> States] /\ loopOf' = loopOf /\ sources' = sources
    BY <1>1, <1>6 DEF StructInv, TypeOK, SourceTypes, States
  <2>2. dispatching' \in [Source -> BOOLEAN] /\ wasDispatching' \in [Source -> BOOLEAN]
    BY <1>6 DEF StructInv, TypeOK, SourceTypes
  <2> QED
    BY <2>1, <2>2 DEF StructInv, TypeOK, SourceTypes
<1>9. LoopTypes'
  <2>1. rr' \in Nat
    BY <1>3 DEF StructInv, TypeOK, LoopTypes, RoundTurns
  <2>2. dprio' \in [Loop -> Nat]
    BY <1>4, <1>5 DEF StructInv, TypeOK, LoopTypes
  <2> QED
    BY <1>1, <2>1, <2>2 DEF StructInv, TypeOK, LoopTypes
<1>10. IterationTypes' /\ DestroyTypes'
  <2>1. /\ pc' \in Unlocked /\ snap' \in Seq(Loop)
        /\ li' \in Nat \ {0} /\ si' \in Nat \ {0}
    BY <1>1, <1>2, EmptySeq DEF Unlocked, Callbacks
  <2>2. dispatchable' \subseteq Loop /\ ascension' \in BOOLEAN /\ woken' \in BOOLEAN
    BY <1>2 DEF StructInv, TypeOK, IterationTypes
  <2>3. DestroyTypes'
    BY <1>1 DEF StructInv, TypeOK, DestroyTypes
  <2> QED
    BY <1>7, <2>1, <2>2, <2>3 DEF IterationTypes
<1>11. FramesMatchPc'
  <2>1. ASSUME NEW p \in DOMAIN frames'
        PROVE  frames'[p].src # NoSource /\ frames'[p].loop \in Loop
               /\ (p < Len(frames') \/ pc' = "dispatchCb")
    <3>1. CASE p = Len(frames)
      BY <1>1, <1>5, <1>6, <1>7, <3>1
    <3>2. CASE p # Len(frames)
      <4>1. p \in DOMAIN frames /\ p < Len(frames) /\ frames'[p] = frames[p]
        BY <1>7, <3>2
      <4> QED
        BY <1>1, <4>1 DEF StructInv, FramesMatchPc
    <3> QED
      BY <3>1, <3>2
  <2> QED
    BY <1>1, <1>7, <2>1 DEF FramesMatchPc
<1>12. LoopListExact' /\ DestroyPlace' /\ CursorsValid' /\ DispatchableInSnap'
  BY <1>1 DEF StructInv, LoopListExact, DestroyPlace, CursorsValid, DispatchableInSnap,
              Selecting, Callbacks
<1> QED
  BY <1>8, <1>9, <1>10, <1>11, <1>12 DEF StructInv, TypeOK

(* The ends of an iteration that dispatched nothing, and of destroy(). *)
LEMMA StructNoDispatch ==
  ASSUME StructInv, DispatchNothing \/ NoDispatch \/ DestroyReturns
  PROVE  StructInv'
<1> USE LoopAssumption
    DEF sourceVars, flagVars, loopVars, quitVars, iterVars, killVars, boundVars
<1>1. /\ pc \in {"dispatch", "destroyCb"} /\ pc' = "cleanup"
      /\ UNCHANGED <<loopOf, sources, state, dispatching, wasDispatching, polled, life,
                     loops, evfd, running, hasQuit, frames, killing, unpolled, killAll,
                     adds, owing, dispatchable, woken>>
      /\ \/ snap' = <<>> /\ li' = 1 /\ si' = 1 /\ ascension' = FALSE
         \/ UNCHANGED <<snap, li, si, ascension>>
  BY DEF DispatchNothing, NoDispatch, DestroyReturns, EndSelection
<1>2. rr' \in Nat /\ dprio' \in [Loop -> Nat]
  <2>1. CASE DispatchNothing
    <3>1. PICK k \in 0 .. Len(snap), l \in dispatchable :
            rr' = (rr + k + 1) % RoundTurns /\ dprio' = [dprio EXCEPT ![l] = 0]
      BY <2>1 DEF DispatchNothing
    <3> QED
      BY <3>1 DEF StructInv, TypeOK, LoopTypes, IterationTypes, RoundTurns
  <2>2. CASE NoDispatch \/ DestroyReturns
    BY <2>2 DEF NoDispatch, DestroyReturns, StructInv, TypeOK, LoopTypes
  <2> QED
    BY <2>1, <2>2
<1>3. SourceTypes' /\ LoopTypes' /\ DestroyTypes'
  BY <1>1, <1>2 DEF StructInv, TypeOK, SourceTypes, LoopTypes, DestroyTypes
<1>4. IterationTypes'
  <2>1. IterationTypes /\ <<>> \in Seq(Loop) /\ 1 \in Nat \ {0}
    BY EmptySeq DEF StructInv, TypeOK
  <2>2. snap' \in Seq(Loop) /\ li' \in Nat \ {0} /\ si' \in Nat \ {0}
    BY <1>1, <2>1 DEF IterationTypes
  <2>3. ascension' \in BOOLEAN /\ pc' \in Unlocked
    BY <1>1, <2>1 DEF IterationTypes, Unlocked
  <2> QED
    BY <1>1, <2>1, <2>2, <2>3 DEF IterationTypes
<1> QED
  BY <1>1, <1>3, <1>4 DEF TypeOK, StructInv, LoopListExact, DestroyPlace, FramesMatchPc,
                          CursorsValid, DispatchableInSnap, Selecting, Callbacks

(* dispatch_source_Lm() from the return of dispatch() on. *)
LEMMA StructDispatchReturns ==
  ASSUME StructInv, DispatchKeeps \/ DispatchDrops
  PROVE  StructInv'
<1> USE LoopAssumption
    DEF loopVars, quitVars, killVars, boundVars
<1>1. /\ pc = "dispatchCb" /\ killing = NoLoop /\ pc' \in {"cleanup", "destroyCb"}
      /\ UNCHANGED <<polled, dprio, life, loops, rr, evfd, running, hasQuit, killing,
                     unpolled, killAll, adds, owing, snap, li, si, ascension, woken>>
      /\ dispatchable' = {Top.loop}
      /\ dispatching' = [dispatching EXCEPT ![Top.src] = wasDispatching[Top.src]]
      /\ wasDispatching' = [wasDispatching EXCEPT ![Top.src] = Top.old]
      /\ frames' = TopUpdated(NoSource, NoLoop, FALSE)
  BY DEF DispatchKeeps, DispatchDrops, DispatchReturns, TopUpdated
<1>2. /\ frames # <<>> /\ frames \in Seq(FrameType) /\ Len(frames) \in Nat
      /\ DOMAIN frames = 1 .. Len(frames)
      /\ Top.src \in Source /\ Top.loop \in Loop /\ Top.old \in BOOLEAN
  BY <1>1, TopTyped DEF FrameType
<1>3. /\ frames' \in Seq(FrameType) /\ Len(frames') = Len(frames)
      /\ DOMAIN frames' = DOMAIN frames
      /\ \A p \in DOMAIN frames : p # Len(frames) => frames'[p] = frames[p]
      /\ frames'[Len(frames)].src = NoSource
  BY <1>1, <1>2, TopClearedProperties
<1>4. SourceTypes'
  <2>1. dispatching' \in [Source -> BOOLEAN] /\ wasDispatching' \in [Source -> BOOLEAN]
    BY <1>1, <1>2 DEF StructInv, TypeOK, SourceTypes
  <2>2. CASE UNCHANGED sourceVars
    BY <2>1, <2>2 DEF StructInv, TypeOK, SourceTypes, sourceVars
  <2>3. CASE Unlink(Top.loop, Top.src)
    BY <1>2, <2>1, <2>3, UnlinkTypes DEF StructInv, TypeOK, SourceTypes
  <2> QED
    BY <2>2, <2>3 DEF DispatchKeeps, DispatchDrops
<1>5. LoopTypes' /\ DestroyTypes'
  BY <1>1 DEF StructInv, TypeOK, LoopTypes, DestroyTypes
<1>6. IterationTypes'
  <2>1. IterationTypes /\ pc' \in Unlocked /\ dispatchable' \subseteq Loop
    BY <1>1, <1>2 DEF StructInv, TypeOK, Unlocked
  <2> QED
    BY <1>1, <1>3, <2>1 DEF IterationTypes
<1>7. FramesMatchPc'
  <2>1. ASSUME NEW p \in DOMAIN frames'
        PROVE  /\ frames'[p].src # NoSource <=> p < Len(frames')
               /\ frames'[p].src # NoSource => frames'[p].loop \in Loop
    <3>1. CASE p = Len(frames)
      BY <1>2, <1>3, <3>1
    <3>2. CASE p # Len(frames)
      <4>1. p \in DOMAIN frames /\ p < Len(frames) /\ frames'[p] = frames[p]
        BY <1>2, <1>3, <3>2
      <4> QED
        BY <1>3, <4>1 DEF StructInv, FramesMatchPc
    <3> QED
      BY <3>1, <3>2
  <2>2. frames' # <<>>
    <3>1. Len(frames') # 0
      BY <1>2, <1>3
    <3> QED
      BY <3>1
  <2> QED
    BY <1>1, <2>1, <2>2 DEF FramesMatchPc
<1>8. LoopListExact' /\ DestroyPlace' /\ CursorsValid' /\ DispatchableInSnap'
  BY <1>1 DEF StructInv, LoopListExact, DestroyPlace, CursorsValid, DispatchableInSnap,
              Selecting
<1> QED
  BY <1>4, <1>5, <1>6, <1>7, <1>8 DEF StructInv, TypeOK

(* run() and iterate_pending() start over with a new snapshot. *)
LEMMA StructIterateAgain ==
  ASSUME StructInv, IterateAgain
  PROVE  StructInv'
<1> USE LoopAssumption
    DEF sourceVars, flagVars, loopVars, quitVars, killVars, boundVars
<1>1. /\ pc = "cleanup" /\ Unpoll /\ StartIteration
      /\ UNCHANGED <<frames, life, loops, killing, killAll>>
  BY DEF IterateAgain
<1>2. /\ pc' = "collect" /\ snap' \in Seq(Loop) /\ li' = 1 /\ si' = 1
      /\ dispatchable' = {} /\ ascension' = FALSE /\ woken' = FALSE
      /\ CursorsValid' /\ DispatchableInSnap'
  <2>1. life[Main] = "live"
    BY <1>1 DEF StructInv, DestroyPlace
  <2> QED
    BY <1>1, <2>1, StartIterationCursors
<1>3. LoopTypes'
  <2>1. polled' \in [Loop -> Seq(Source)]
    BY <1>1, EmptySeq DEF Unpoll
  <2> QED
    BY <2>1 DEF IterateAgain, StructInv, TypeOK, LoopTypes
<1>4. SourceTypes' /\ DestroyTypes'
  BY DEF IterateAgain, StructInv, TypeOK, SourceTypes, DestroyTypes
<1>5. IterationTypes'
  <2>1. frames' \in Seq(FrameType) /\ pc' \in Locked
    BY <1>1, <1>2 DEF StructInv, TypeOK, IterationTypes, Locked
  <2>2. /\ dispatchable' \subseteq Loop /\ ascension' \in BOOLEAN /\ woken' \in BOOLEAN
        /\ li' \in Nat \ {0} /\ si' \in Nat \ {0}
    <3>1. 1 \in Nat \ {0}
      OBVIOUS
    <3> QED
      BY <1>2, <3>1
  <2> QED
    BY <1>2, <2>1, <2>2 DEF IterationTypes
<1>6. LoopListExact' /\ DestroyPlace' /\ FramesMatchPc'
  BY <1>1, <1>2 DEF StructInv, LoopListExact, DestroyPlace, FramesMatchPc, Callbacks
<1> QED
  BY <1>2, <1>3, <1>4, <1>5, <1>6 DEF StructInv, TypeOK

(* The iteration ends and leaves the frames below as they are. *)
LEMMA StructLeave ==
  ASSUME StructInv, RunReturns \/ IterateReturns \/ PendingReturns
  PROVE  StructInv'
<1> USE LoopAssumption
    DEF sourceVars, flagVars, loopVars, quitVars, killVars, boundVars
<1>1. /\ pc = "cleanup" /\ Unpoll /\ frames' = Front(frames)
      /\ pc' = IF Len(frames) = 1 THEN "out" ELSE "dispatchCb"
      /\ dispatchable' = {}
      /\ UNCHANGED <<loopOf, sources, state, dispatching, wasDispatching, dprio, life,
                     loops, rr, evfd, snap, li, si, ascension, woken, killing, unpolled,
                     killAll, adds, owing>>
  BY DEF RunReturns, IterateReturns, PendingReturns, Leave
<1>2. /\ frames # <<>> /\ frames \in Seq(FrameType) /\ Len(frames) \in Nat
      /\ Len(frames) >= 1 /\ DOMAIN frames = 1 .. Len(frames) /\ Top \in FrameType
  BY <1>1, TopTyped
<1>3. /\ frames' \in Seq(FrameType) /\ Len(frames') = Len(frames) - 1
      /\ DOMAIN frames' = 1 .. (Len(frames) - 1)
      /\ \A p \in 1 .. (Len(frames) - 1) : frames'[p] = frames[p]
  BY <1>1, <1>2, FrontProperties
<1>4. running' \in BOOLEAN /\ hasQuit' \in BOOLEAN
  <2>1. running \in BOOLEAN /\ hasQuit \in BOOLEAN
    BY DEF StructInv, TypeOK, LoopTypes
  <2>2. CASE RunReturns
    BY <2>2 DEF RunReturns
  <2>3. CASE IterateReturns
    BY <2>1, <2>3 DEF IterateReturns
  <2>4. CASE PendingReturns
    BY <2>1, <2>4 DEF PendingReturns
  <2> QED
    BY <2>2, <2>3, <2>4
<1>5. LoopTypes'
  <2>1. polled' \in [Loop -> Seq(Source)]
    BY <1>1, EmptySeq DEF Unpoll
  <2> QED
    BY <1>1, <1>4, <2>1 DEF StructInv, TypeOK, LoopTypes
<1>6. SourceTypes' /\ DestroyTypes'
  BY <1>1 DEF StructInv, TypeOK, SourceTypes, DestroyTypes
<1>7. IterationTypes'
  <2>1. pc' \in Callbacks
    BY <1>1 DEF Callbacks
  <2> QED
    BY <1>1, <1>3, <2>1 DEF StructInv, TypeOK, IterationTypes, Unlocked
<1>8. FramesMatchPc'
  <2>1. ASSUME NEW p \in DOMAIN frames'
        PROVE  /\ frames'[p].src # NoSource /\ frames'[p].loop \in Loop
               /\ pc' = "dispatchCb"
    <3>1. p \in DOMAIN frames /\ p < Len(frames) /\ frames'[p] = frames[p]
          /\ Len(frames) # 1
      BY <1>2, <1>3
    <3> QED
      BY <1>1, <3>1 DEF StructInv, FramesMatchPc
  <2>2. Len(frames) = 1 <=> frames' = <<>>
    <3>1. Len(frames) = 1 <=> Len(frames') = 0
      BY <1>2, <1>3
    <3> QED
      BY <1>3, <3>1
  <2>3. pc' = "out" <=> frames' = <<>>
    BY <1>1, <2>2
  <2> QED
    BY <2>1, <2>3 DEF FramesMatchPc
<1>9. LoopListExact' /\ DestroyPlace' /\ CursorsValid' /\ DispatchableInSnap'
  <2>1. life[Main] = "live" /\ killing = NoLoop
    BY <1>1 DEF StructInv, DestroyPlace, Callbacks
  <2>2. pc' \in Callbacks
    BY <1>1 DEF Callbacks
  <2> QED
    BY <1>1, <2>1, <2>2 DEF StructInv, LoopListExact, DestroyPlace, CursorsValid,
                            DispatchableInSnap, Selecting, Callbacks
<1> QED
  BY <1>5, <1>6, <1>7, <1>8, <1>9 DEF StructInv, TypeOK

(* Every step keeps the structural invariant. *)
LEMMA StructStep == StructInv /\ [Next]_vars => StructInv'
<1> SUFFICES ASSUME StructInv, [Next]_vars PROVE StructInv'
  OBVIOUS
<1>1. CASE UserNext
  BY <1>1, StructAddRemove, StructUser, StructCreateSlave, StructEnter DEF UserNext
<1>2. CASE KillNext
  BY <1>2, StructKill
<1>3. CASE CollectNext
  BY <1>3, StructCollect
<1>4. CASE PrepareNext \/ CheckNext
  BY <1>4, StructPrepareCheck
<1>5. CASE PollWakes \/ PollEvent \/ Flush
  BY <1>5, StructPoll
<1>6. CASE DispatchNext
  BY <1>6, StructDispatch, StructNoDispatch, StructDispatchReturns DEF DispatchNext
<1>7. CASE ReturnNext
  BY <1>7, StructIterateAgain, StructLeave DEF ReturnNext
<1>8. CASE UNCHANGED vars
  <2> USE <1>8 DEF vars, sourceVars, flagVars, loopVars, quitVars, iterVars, killVars,
                   boundVars
  <2>1. TypeOK'
    BY DEF StructInv, TypeOK, SourceTypes, LoopTypes, IterationTypes, DestroyTypes
  <2> QED
    BY <2>1, StructFrame
<1> QED
  BY <1>1, <1>2, <1>3, <1>4, <1>5, <1>6, <1>7, <1>8 DEF Next, Destroyed

(* A source leaves the only place at which its loop lists it. *)
LEMMA UnlinkOwnership ==
  ASSUME SourceTypes, Ownership, NEW l \in Loop, NEW s \in Source, Unlink(l, s)
  PROVE  Ownership'
<1>1. PICK pos \in DOMAIN sources[l] :
        sources[l][pos] = s /\ sources' = [sources EXCEPT ![l] = RemoveAt(@, pos)]
  BY DEF Unlink
<1>2. /\ sources[l] \in Seq(Source) /\ IsInjective(sources[l])
      /\ s \in ToSet(sources[l])
  BY <1>1 DEF SourceTypes, Ownership, ToSet
<1>3. /\ ToSet(RemoveAt(sources[l], pos)) = ToSet(sources[l]) \ {s}
      /\ IsInjective(RemoveAt(sources[l], pos))
  BY <1>1, <1>2, RemoveAtElements
<1>4. /\ sources'[l] = RemoveAt(sources[l], pos)
      /\ \A k \in Loop : k # l => sources'[k] = sources[k]
  BY <1>1 DEF SourceTypes
<1>5. /\ loopOf'[s] = NoLoop /\ loopOf[s] = l
      /\ \A t \in Source : t # s => loopOf'[t] = loopOf[t]
  BY <1>2 DEF Unlink, SourceTypes, Ownership
<1>6. ASSUME NEW k \in Loop, NEW t \in Source
      PROVE  loopOf'[t] = k <=> t \in ToSet(sources'[k])
  <2>1. CASE k = l
    BY <1>3, <1>4, <1>5, <2>1, LoopAssumption DEF Ownership
  <2>2. CASE k # l
    BY <1>4, <1>5, <2>2, LoopAssumption DEF Ownership
  <2> QED
    BY <2>1, <2>2
<1>7. ASSUME NEW k \in Loop
      PROVE  IsInjective(sources'[k])
  BY <1>3, <1>4 DEF Ownership
<1> QED
  BY <1>6, <1>7 DEF Ownership

(* A source that belongs to no loop is in no list before it is added. *)
LEMMA PushOwnership ==
  ASSUME SourceTypes, Ownership, NEW l \in Loop, NEW s \in Source, PushSource(l, s)
  PROVE  Ownership'
<1>1. /\ loopOf[s] = NoLoop
      /\ loopOf' = [loopOf EXCEPT ![s] = l]
      /\ sources' = [sources EXCEPT ![l] = Append(@, s)]
  BY DEF PushSource
<1>2. sources[l] \in Seq(Source) /\ IsInjective(sources[l]) /\ s \notin ToSet(sources[l])
  BY <1>1, LoopAssumption DEF SourceTypes, Ownership
<1>3. /\ ToSet(Append(sources[l], s)) = ToSet(sources[l]) \cup {s}
      /\ IsInjective(Append(sources[l], s))
  BY <1>2, AppendElements
<1>4. /\ sources'[l] = Append(sources[l], s)
      /\ \A k \in Loop : k # l => sources'[k] = sources[k]
      /\ loopOf'[s] = l
      /\ \A t \in Source : t # s => loopOf'[t] = loopOf[t]
  BY <1>1 DEF SourceTypes
<1>5. ASSUME NEW k \in Loop, NEW t \in Source
      PROVE  loopOf'[t] = k <=> t \in ToSet(sources'[k])
  <2>1. CASE k = l
    <3>1. t \in ToSet(sources'[k]) <=> t = s \/ t \in ToSet(sources[k])
      BY <1>3, <1>4, <2>1
    <3>2. loopOf[t] = k <=> t \in ToSet(sources[k])
      BY DEF Ownership
    <3> QED
      BY <1>4, <2>1, <3>1, <3>2
  <2>2. CASE k # l
    <3>1. sources'[k] = sources[k] /\ (loopOf[t] = k <=> t \in ToSet(sources[k]))
      BY <1>4, <2>2 DEF Ownership
    <3>2. CASE t = s
      BY <1>1, <1>4, <2>2, <3>1, <3>2, LoopAssumption
    <3>3. CASE t # s
      BY <1>4, <3>1, <3>3
    <3> QED
      BY <3>2, <3>3
  <2> QED
    BY <2>1, <2>2
<1>6. ASSUME NEW k \in Loop
      PROVE  IsInjective(sources'[k])
  BY <1>3, <1>4 DEF Ownership
<1> QED
  BY <1>5, <1>6 DEF Ownership

(* Only add() and remove_source_Lm() touch loop_ and the lists. *)
LEMMA OwnershipStep == StructInv /\ Ownership /\ [Next]_vars => Ownership'
<1> SUFFICES ASSUME StructInv, Ownership, [Next]_vars PROVE Ownership'
  OBVIOUS
<1>0. SourceTypes
  BY DEF StructInv, TypeOK
<1>1. ASSUME UNCHANGED <<loopOf, sources>>
      PROVE  Ownership'
  BY <1>1 DEF Ownership
<1>2. CASE UserNext
  <2>1. ASSUME NEW l \in Loop, NEW s \in Source, AddHere(l, s) \/ OtherAdd(l, s)
        PROVE  Ownership'
    BY <1>0, <2>1, PushOwnership DEF AddHere, OtherAdd
  <2>2. ASSUME NEW l \in Loop, NEW s \in Source, RemoveHere(l, s) \/ OtherRemove(l, s)
        PROVE  Ownership'
    BY <1>0, <2>2, UnlinkOwnership DEF RemoveHere, OtherRemove, TryRemove
  <2>3. CASE \/ OtherWakeup \/ Quit \/ RunCancelled
             \/ \E l \in Loop : CreateSlave(l) \/ DestroyLoop(l)
             \/ \E k \in Kinds : Enter(k)
    BY <1>1, <2>3 DEF OtherWakeup, Quit, RunCancelled, CreateSlave, DestroyLoop, Enter,
                      sourceVars
  <2> QED
    BY <1>2, <2>1, <2>2, <2>3 DEF UserNext
<1>3. CASE KillNext
  <2>1. CASE KillSource
    <3>1. killing \in Loop /\ sources[killing] \in Seq(Source) /\ sources[killing] # <<>>
      BY <1>0, <2>1 DEF KillSource, StructInv, TypeOK, DestroyTypes, SourceTypes
    <3>2. Head(sources[killing]) \in Source
      BY <3>1
    <3> QED
      BY <1>0, <2>1, <3>1, <3>2, UnlinkOwnership DEF KillSource
  <2>2. CASE KillUnpoll \/ KillLoop
    BY <1>1, <2>2 DEF KillUnpoll, KillLoop, sourceVars
  <2> QED
    BY <1>3, <2>1, <2>2 DEF KillNext
<1>4. CASE CollectNext \/ PollWakes \/ PollEvent \/ Flush
  BY <1>1, <1>4 DEF CollectNext, CleanSlate, CollectPriority, CollectSource, CollectDone,
                    PollWakes, PollEvent, Flush, sourceVars
<1>5. CASE PrepareNext \/ CheckNext
  BY <1>1, <1>5 DEF PrepareNext, CheckNext, PrepareSkip, PrepareCall, PrepareReturns,
                    PrepareDone, CheckSkip, CheckCall, CheckReturns, CheckDone,
                    SkipSource, CallSource, CallbackReturns, LoopDone, sourceVars
<1>6. CASE DispatchNext
  <2>1. CASE DispatchDrops
    <3>1. Top.src \in Source /\ Top.loop \in Loop
      BY <2>1, TopTyped DEF DispatchDrops, DispatchReturns
    <3> QED
      BY <1>0, <2>1, <3>1, UnlinkOwnership DEF DispatchDrops
  <2>2. CASE Dispatch \/ DispatchNothing \/ NoDispatch \/ DispatchKeeps \/ DestroyReturns
    BY <1>1, <2>2 DEF Dispatch, DispatchNothing, NoDispatch, DispatchKeeps,
                      DestroyReturns, sourceVars
  <2> QED
    BY <1>6, <2>1, <2>2 DEF DispatchNext
<1>7. CASE ReturnNext
  BY <1>1, <1>7 DEF ReturnNext, IterateAgain, RunReturns, IterateReturns, PendingReturns,
                    Leave, sourceVars
<1>8. CASE UNCHANGED vars
  BY <1>1, <1>8 DEF vars, sourceVars
<1> QED
  BY <1>2, <1>3, <1>4, <1>5, <1>6, <1>7, <1>8 DEF Next, Destroyed

(* The sources that an iteration collects may be dispatched by it.             *)
LEMMA CollectedStep ==
  StructInv /\ CollectedAreEligible /\ [Next]_vars => CollectedAreEligible'
<1> SUFFICES ASSUME StructInv, CollectedAreEligible, [Next]_vars
             PROVE  CollectedAreEligible'
  OBVIOUS
<1>1. ASSUME pc' \in {"out", "dispatchCb", "destroyCb", "cleanup"}
      PROVE  CollectedAreEligible'
  BY <1>1 DEF CollectedAreEligible, Collected
<1>2. ASSUME UNCHANGED <<pc, snap, li, polled, dispatching>>
      PROVE  CollectedAreEligible'
  BY <1>2 DEF CollectedAreEligible, Collected, Eligible
<1>3. ASSUME pc' = "collect", li' = 1, snap' \in Seq(Loop)
      PROVE  CollectedAreEligible'
  <2>1. \A j \in DOMAIN snap' : ~(j < li')
    BY <1>3, LenProperties
  <2> QED
    BY <1>3, <2>1 DEF CollectedAreEligible, Collected
<1>4. ASSUME UNCHANGED <<snap, li, polled, dispatching>>,
             pc \in {"prepare", "prepareCb", "poll", "polled", "check", "checkCb", "dispatch"}
      PROVE  CollectedAreEligible'
  BY <1>4 DEF CollectedAreEligible, Collected, Eligible
<1>5. ASSUME pc \in Callbacks, UNCHANGED pc
      PROVE  CollectedAreEligible'
  BY <1>1, <1>5 DEF Callbacks
<1>6. Selecting => /\ CurLoop \in Loop /\ polled[CurLoop] \in Seq(Source)
                   /\ snap \in Seq(Loop) /\ li \in 1 .. Len(snap)
                   /\ DOMAIN snap = 1 .. Len(snap) /\ Len(snap) \in Nat
  BY CurrentTyped, LenProperties DEF StructInv, TypeOK, LoopTypes, IterationTypes,
                                     CursorsValid
<1>7. CASE UserNext
  <2>1. ASSUME NEW k \in Kinds, Enter(k)
        PROVE  CollectedAreEligible'
    <3>1. pc' = "collect" /\ li' = 1 /\ snap' = loops
      BY <2>1 DEF Enter, StartIteration
    <3> QED
      BY <1>3, <3>1 DEF StructInv, TypeOK, LoopTypes
  <2>2. CASE \/ \E l \in Loop, s \in Source : AddHere(l, s) \/ OtherAdd(l, s)
             \/ \E l \in Loop, s \in Source : RemoveHere(l, s) \/ OtherRemove(l, s)
             \/ OtherWakeup \/ Quit \/ RunCancelled
             \/ \E l \in Loop : CreateSlave(l) \/ DestroyLoop(l)
    BY <1>2, <2>2 DEF AddHere, OtherAdd, RemoveHere, OtherRemove, PushSource, TryRemove,
                      OtherWakeup, Quit, RunCancelled, CreateSlave, DestroyLoop,
                      iterVars, flagVars
  <2> QED
    BY <1>7, <2>1, <2>2 DEF UserNext
<1>8. CASE KillNext
  <2>1. pc \in Callbacks /\ UNCHANGED pc
    BY <1>8 DEF KillNext, KillSource, KillUnpoll, KillLoop, StructInv, DestroyPlace
  <2> QED
    BY <1>5, <2>1
<1>9. CASE CollectNext
  <2>1. Selecting /\ UNCHANGED <<snap, dispatching>>
    BY <1>9 DEF CollectNext, CleanSlate, CollectPriority, CollectSource, CollectDone,
                NextLoop, Selecting, iterVars, flagVars
  <2>2. CASE CleanSlate
    <3>1. /\ polled' = [polled EXCEPT ![CurLoop] = <<>>] /\ li' = li
          /\ pc = "collect" /\ pc' = "collectWindow"
      BY <2>2 DEF CleanSlate, iterVars
    <3>2. ASSUME NEW j \in DOMAIN snap, Collected(j)'
          PROVE  \A i \in DOMAIN polled'[snap[j]] : Eligible(polled'[snap[j]][i])
      <4>1. Collected(j)
        BY <3>1, <3>2 DEF Collected
      <4>2. CASE snap[j] = CurLoop
        BY <1>6, <2>1, <3>1, <4>2 DEF StructInv, TypeOK, LoopTypes
      <4>3. CASE snap[j] # CurLoop
        <5>1. polled'[snap[j]] = polled[snap[j]]
          BY <1>6, <2>1, <3>1, <4>3, ElementOfSeq DEF StructInv, TypeOK, LoopTypes
        <5> QED
          BY <4>1, <5>1 DEF CollectedAreEligible
      <4> QED
        BY <4>2, <4>3
    <3> QED
      BY <2>1, <3>2 DEF CollectedAreEligible, Eligible
  <2>3. CASE CollectPriority
    <3>1. /\ pc' = "collectSources" /\ pc \in {"collect", "collectWindow"}
          /\ polled' = polled /\ li' = li /\ polled[CurLoop] = <<>>
      BY <2>3 DEF CollectPriority
    <3>2. ASSUME NEW j \in DOMAIN snap, Collected(j)'
          PROVE  \A i \in DOMAIN polled[snap[j]] : Eligible(polled[snap[j]][i])
      <4>1. j <= li
        BY <3>1, <3>2 DEF Collected
      <4>2. CASE j = li
        BY <3>1, <4>2 DEF CurLoop
      <4>3. CASE j < li
        BY <3>1, <4>3 DEF CollectedAreEligible, Collected
      <4> QED
        BY <1>6, <2>1, <4>1, <4>2, <4>3
    <3> QED
      BY <2>1, <3>1, <3>2 DEF CollectedAreEligible, Eligible
  <2>4. CASE CollectSource
    <3>1. /\ pc = "collectSources" /\ UNCHANGED <<pc, li>>
          /\ si \in DOMAIN sources[CurLoop]
      BY <1>6, <2>1, <2>4, LenProperties DEF CollectSource, StructInv, TypeOK, SourceTypes,
                                             IterationTypes
    <3> DEFINE s == sources[CurLoop][si]
    <3>2. s \in Source
      BY <1>6, <2>1, <3>1, ElementOfSeq DEF StructInv, TypeOK, SourceTypes
    <3>3. \/ polled' = polled
          \/ Eligible(s) /\ polled' = [polled EXCEPT ![CurLoop] = Append(@, s)]
      BY <2>4 DEF CollectSource, IsCandidate
    <3> HIDE DEF s
    <3>4. ASSUME NEW j \in DOMAIN snap, Collected(j)',
                 NEW i \in DOMAIN polled'[snap[j]]
          PROVE  Eligible(polled'[snap[j]][i])
      <4>1. Collected(j)
        BY <3>1, <3>4 DEF Collected
      <4>2. CASE polled'[snap[j]] = polled[snap[j]]
        BY <3>4, <4>1, <4>2 DEF CollectedAreEligible
      <4>3. CASE snap[j] = CurLoop /\ Eligible(s)
                 /\ polled'[CurLoop] = Append(polled[CurLoop], s)
        <5>1. /\ Len(polled'[CurLoop]) = Len(polled[CurLoop]) + 1
              /\ DOMAIN polled[CurLoop] = 1 .. Len(polled[CurLoop])
              /\ Len(polled[CurLoop]) \in Nat
              /\ \A n \in 1 .. Len(polled[CurLoop]) : polled'[CurLoop][n] = polled[CurLoop][n]
              /\ polled'[CurLoop][Len(polled[CurLoop]) + 1] = s
              /\ polled'[CurLoop] \in Seq(Source)
          BY <1>6, <2>1, <3>2, <4>3, AppendProperties, LenProperties
        <5>2. i \in 1 .. (Len(polled[CurLoop]) + 1)
          BY <3>4, <4>3, <5>1, LenProperties
        <5>3. CASE i = Len(polled[CurLoop]) + 1
          BY <4>3, <5>1, <5>3
        <5>4. CASE i \in DOMAIN polled[CurLoop]
          BY <4>1, <4>3, <5>1, <5>4 DEF CollectedAreEligible
        <5> QED
          BY <5>1, <5>2, <5>3, <5>4
      <4>4. snap[j] \in Loop
        BY <1>6, <2>1, ElementOfSeq
      <4> QED
        BY <1>6, <2>1, <3>3, <4>2, <4>3, <4>4 DEF StructInv, TypeOK, LoopTypes
    <3> QED
      BY <2>1, <3>4 DEF CollectedAreEligible, Eligible
  <2>5. CASE CollectDone
    <3>1. /\ pc = "collectSources" /\ polled' = polled
          /\ \/ li < Len(snap) /\ li' = li + 1 /\ pc' = "collect"
             \/ ~(li < Len(snap)) /\ pc' = "prepare"
      BY <2>5 DEF CollectDone, NextLoop
    <3>2. \A j \in DOMAIN snap : Collected(j)' => Collected(j)
      BY <1>6, <2>1, <3>1 DEF Collected
    <3> QED
      BY <2>1, <3>1, <3>2 DEF CollectedAreEligible, Eligible
  <2> QED
    BY <1>9, <2>2, <2>3, <2>4, <2>5 DEF CollectNext
<1>10. CASE PrepareNext \/ CheckNext \/ PollWakes \/ PollEvent \/ Flush
  <2>1. /\ pc \in {"prepare", "prepareCb", "poll", "polled", "check", "checkCb"}
        /\ UNCHANGED <<snap, polled, dispatching>>
    BY <1>10 DEF PrepareNext, CheckNext, PrepareSkip, PrepareCall, PrepareReturns,
                 PrepareDone, CheckSkip, CheckCall, CheckReturns, CheckDone, SkipSource,
                 CallSource, CallbackReturns, LoopDone, NextLoop, PollWakes, PollEvent,
                 Flush, iterVars, flagVars
  <2> QED
    BY <2>1 DEF CollectedAreEligible, Collected, Eligible
<1>11. CASE DispatchNext
  BY <1>1, <1>11 DEF DispatchNext, Dispatch, DispatchNothing, NoDispatch, DispatchKeeps,
                     DispatchDrops, DestroyReturns
<1>12. CASE ReturnNext
  <2>1. CASE IterateAgain
    <3>1. pc' = "collect" /\ li' = 1 /\ snap' = loops
      BY <2>1 DEF IterateAgain, StartIteration
    <3> QED
      BY <1>3, <3>1 DEF StructInv, TypeOK, LoopTypes
  <2>2. CASE RunReturns \/ IterateReturns \/ PendingReturns
    BY <1>1, <2>2 DEF RunReturns, IterateReturns, PendingReturns, Leave
  <2> QED
    BY <1>12, <2>1, <2>2 DEF ReturnNext
<1>13. CASE UNCHANGED vars
  BY <1>2, <1>13 DEF vars, iterVars, flagVars
<1> QED
  BY <1>7, <1>8, <1>9, <1>10, <1>11, <1>12, <1>13 DEF Next, Destroyed

Flags == OldFlags /\ RecursionFlags /\ NoUnallowedRecursion

(* A dispatch() begins: the innermost iteration gets a source that was         *)
(* eligible, so it has no other dispatch() on the stack unless it may recurse. *)
LEMMA FlagsDispatch ==
  ASSUME StructInv, CollectedAreEligible, Flags, Dispatch
  PROVE  Flags'
<1> DEFINE n == Len(frames)
<1>1. pc = "dispatch" /\ pc # "out" /\ Selecting
  BY DEF Dispatch, Selecting
<1>2. PICK l \in dispatchable : \E i \in DOMAIN polled[l] :
        /\ wasDispatching' =
             [wasDispatching EXCEPT ![polled[l][i]] = dispatching[polled[l][i]]]
        /\ dispatching' = [dispatching EXCEPT ![polled[l][i]] = TRUE]
        /\ frames' = TopUpdated(polled[l][i], l, wasDispatching[polled[l][i]])
  BY DEF Dispatch, TopUpdated
<1>3. PICK i \in DOMAIN polled[l] :
        /\ wasDispatching' =
             [wasDispatching EXCEPT ![polled[l][i]] = dispatching[polled[l][i]]]
        /\ dispatching' = [dispatching EXCEPT ![polled[l][i]] = TRUE]
        /\ frames' = TopUpdated(polled[l][i], l, wasDispatching[polled[l][i]])
  BY <1>2
<1> DEFINE s == polled[l][i]
<1>4. l \in Loop /\ l \in ToSet(snap) /\ s \in Source
  <2>1. l \in Loop /\ l \in ToSet(snap)
    BY <1>1 DEF StructInv, TypeOK, IterationTypes, DispatchableInSnap
  <2>2. polled[l] \in Seq(Source)
    BY <2>1 DEF StructInv, TypeOK, LoopTypes
  <2> QED
    BY <2>1, <2>2, ElementOfSeq
<1>5. Eligible(s)
  <2>1. PICK j \in DOMAIN snap : snap[j] = l
    BY <1>4 DEF ToSet
  <2> QED
    BY <1>1, <2>1 DEF CollectedAreEligible, Collected
<1> HIDE DEF s
<1>6. wasDispatching[s] \in BOOLEAN /\ s # NoSource
  BY <1>4, LoopAssumption DEF StructInv, TypeOK, SourceTypes
<1>7. /\ DOMAIN frames = 1 .. n /\ n \in Nat /\ n \in DOMAIN frames
      /\ frames[n].src = NoSource
  <2>1. DOMAIN frames = 1 .. n /\ n \in Nat /\ n \in DOMAIN frames
    BY <1>1, TopTyped
  <2> QED
    BY <1>1, <2>1 DEF StructInv, FramesMatchPc
<1>8. /\ DOMAIN frames' = DOMAIN frames
      /\ \A p \in DOMAIN frames : p # n => frames'[p] = frames[p]
      /\ frames'[n].src = s /\ frames'[n].old = wasDispatching[s]
  <2>1. frames' = TopUpdated(s, l, wasDispatching[s])
    BY <1>3 DEF s
  <2> QED
    BY <1>1, <1>4, <1>6, <2>1, TopTyped, TopUpdatedProperties DEF TopChanged
<1> HIDE DEF n
<1>9. /\ dispatching'[s] = TRUE /\ wasDispatching'[s] = dispatching[s]
      /\ \A t \in Source : t # s => /\ dispatching'[t] = dispatching[t]
                                    /\ wasDispatching'[t] = wasDispatching[t]
  BY <1>3, <1>4 DEF StructInv, TypeOK, SourceTypes, s
<1>10. OldFlags'
  <2>1. ASSUME NEW r \in DOMAIN frames
        PROVE  frames'[r].old <=> \E p, q \in DOMAIN frames :
                 /\ p < q /\ q < r /\ frames'[r].src # NoSource
                 /\ frames'[p].src = frames'[r].src /\ frames'[q].src = frames'[r].src
    <3>1. CASE r = n
      <4>1. wasDispatching[s] <=> \E p, q \in DOMAIN frames :
              p < q /\ frames[p].src = s /\ frames[q].src = s
        BY <1>4 DEF Flags, RecursionFlags
      <4>2. \A p, q \in DOMAIN frames :
              p < q /\ frames[q].src = s => p < n /\ q < n /\ p # n /\ q # n
        BY <1>6, <1>7
      <4>3. \A p, q \in DOMAIN frames : p < q /\ q < n => p # n /\ q # n
        BY <1>7
      <4> QED
        BY <1>6, <1>7, <1>8, <3>1, <4>1, <4>2, <4>3
    <3>2. CASE r # n
      <4>1. \A p, q \in DOMAIN frames : p < q /\ q < r => p # n /\ q # n
        BY <1>7, <3>2
      <4> QED
        BY <1>8, <3>2, <4>1 DEF Flags, OldFlags
    <3> QED
      BY <3>1, <3>2
  <2> QED
    BY <1>8, <2>1 DEF OldFlags
<1>11. RecursionFlags'
  <2>1. ASSUME NEW t \in Source, t # s
        PROVE  \A p \in DOMAIN frames : frames'[p].src = t <=> frames[p].src = t
    BY <1>7, <1>8, <2>1, LoopAssumption
  <2>2. ASSUME NEW t \in Source, t # s
        PROVE  /\ dispatching'[t] <=> \E p \in DOMAIN frames : frames'[p].src = t
               /\ wasDispatching'[t] <=>
                    \E p, q \in DOMAIN frames :
                      p < q /\ frames'[p].src = t /\ frames'[q].src = t
    BY <1>9, <2>1, <2>2 DEF Flags, RecursionFlags
  <2>3. dispatching'[s] <=> \E p \in DOMAIN frames : frames'[p].src = s
    BY <1>7, <1>8, <1>9
  <2>4. wasDispatching'[s] <=>
          \E p, q \in DOMAIN frames : p < q /\ frames'[p].src = s /\ frames'[q].src = s
    <3>1. dispatching[s] <=> \E p \in DOMAIN frames : frames[p].src = s
      BY <1>4 DEF Flags, RecursionFlags
    <3>2. ASSUME NEW p \in DOMAIN frames, frames[p].src = s
          PROVE  p < n /\ frames'[p].src = s
      BY <1>6, <1>7, <1>8, <3>2
    <3>3. ASSUME NEW p \in DOMAIN frames, NEW q \in DOMAIN frames, p < q,
                 frames'[p].src = s
          PROVE  frames[p].src = s
      BY <1>7, <1>8, <3>3
    <3> QED
      BY <1>7, <1>8, <1>9, <3>1, <3>2, <3>3
  <2> QED
    BY <1>8, <2>2, <2>3, <2>4 DEF RecursionFlags
<1>12. NoUnallowedRecursion'
  <2>1. ASSUME NEW p \in DOMAIN frames, NEW q \in DOMAIN frames, p < q,
               frames'[p].src = frames'[q].src, frames'[p].src # NoSource
        PROVE  frames'[p].src \in MayRecurse
    <3>1. p # n /\ frames'[p] = frames[p]
      BY <1>7, <1>8, <2>1
    <3>2. CASE q = n
      <4>1. frames[p].src = s
        BY <1>8, <2>1, <3>1, <3>2
      <4>2. dispatching[s]
        BY <1>4, <4>1 DEF Flags, RecursionFlags
      <4> QED
        BY <1>5, <3>1, <4>1, <4>2 DEF Eligible
    <3>3. CASE q # n
      BY <1>8, <2>1, <3>1, <3>3 DEF Flags, NoUnallowedRecursion
    <3> QED
      BY <3>2, <3>3
  <2> QED
    BY <1>8, <2>1 DEF NoUnallowedRecursion
<1> QED
  BY <1>10, <1>11, <1>12 DEF Flags

(* It ends: old_was_dispatching restores what was_dispatching_ told before. *)
LEMMA FlagsDispatchReturns ==
  ASSUME StructInv, Flags, DispatchKeeps \/ DispatchDrops
  PROVE  Flags'
<1> DEFINE n == Len(frames)
           s == Top.src
<1>1. /\ pc = "dispatchCb" /\ pc # "out"
      /\ dispatching' = [dispatching EXCEPT ![s] = wasDispatching[s]]
      /\ wasDispatching' = [wasDispatching EXCEPT ![s] = Top.old]
      /\ frames' = TopUpdated(NoSource, NoLoop, FALSE)
  BY DEF DispatchKeeps, DispatchDrops, DispatchReturns, TopUpdated
<1>2. /\ frames # <<>> /\ frames \in Seq(FrameType)
      /\ DOMAIN frames = 1 .. n /\ n \in Nat /\ n \in DOMAIN frames
      /\ s \in Source /\ s # NoSource
      /\ frames[n].src = s /\ frames[n].old = Top.old
  BY <1>1, TopTyped, LoopAssumption DEF Top
<1>3. /\ DOMAIN frames' = DOMAIN frames
      /\ \A p \in DOMAIN frames : p # n => frames'[p] = frames[p]
      /\ frames'[n].src = NoSource /\ frames'[n].old = FALSE
  BY <1>1, <1>2, TopClearedProperties
<1> HIDE DEF n, s
<1>4. /\ dispatching'[s] = wasDispatching[s] /\ wasDispatching'[s] = frames[n].old
      /\ \A t \in Source : t # s => /\ dispatching'[t] = dispatching[t]
                                    /\ wasDispatching'[t] = wasDispatching[t]
  BY <1>1, <1>2 DEF StructInv, TypeOK, SourceTypes
<1>5. \A p \in DOMAIN frames, t \in Source :
        frames'[p].src = t <=> p # n /\ frames[p].src = t
  BY <1>2, <1>3, LoopAssumption
<1>6. OldFlags'
  <2>1. ASSUME NEW r \in DOMAIN frames
        PROVE  frames'[r].old <=> \E p, q \in DOMAIN frames :
                 /\ p < q /\ q < r /\ frames'[r].src # NoSource
                 /\ frames'[p].src = frames'[r].src /\ frames'[q].src = frames'[r].src
    <3>1. CASE r = n
      BY <1>3, <3>1
    <3>2. CASE r # n
      <4>1. \A p, q \in DOMAIN frames : p < q /\ q < r => p # n /\ q # n
        BY <1>2, <3>2
      <4> QED
        BY <1>3, <3>2, <4>1 DEF Flags, OldFlags
    <3> QED
      BY <3>1, <3>2
  <2> QED
    BY <1>3, <2>1 DEF OldFlags
<1>7. RecursionFlags'
  <2>1. ASSUME NEW t \in Source, t # s
        PROVE  /\ dispatching'[t] <=> \E p \in DOMAIN frames : frames'[p].src = t
               /\ wasDispatching'[t] <=>
                    \E p, q \in DOMAIN frames :
                      p < q /\ frames'[p].src = t /\ frames'[q].src = t
    <3>1. \A p \in DOMAIN frames : frames'[p].src = t <=> frames[p].src = t
      BY <1>2, <1>5, <2>1
    <3> QED
      BY <1>4, <2>1, <3>1 DEF Flags, RecursionFlags
  <2>2. dispatching'[s] <=> \E p \in DOMAIN frames : frames'[p].src = s
    <3>1. wasDispatching[s] <=> \E p, q \in DOMAIN frames :
            p < q /\ frames[p].src = s /\ frames[q].src = s
      BY <1>2 DEF Flags, RecursionFlags
    <3>2. ASSUME NEW p \in DOMAIN frames, NEW q \in DOMAIN frames, p < q, frames[p].src = s
          PROVE  frames'[p].src = s
      BY <1>2, <1>5, <3>2
    <3>3. ASSUME NEW p \in DOMAIN frames, frames'[p].src = s
          PROVE  p < n /\ frames[p].src = s
      BY <1>2, <1>5, <3>3
    <3> QED
      BY <1>2, <1>4, <3>1, <3>2, <3>3
  <2>3. wasDispatching'[s] <=>
          \E p, q \in DOMAIN frames : p < q /\ frames'[p].src = s /\ frames'[q].src = s
    <3>1. frames[n].old <=> \E p, q \in DOMAIN frames :
            p < q /\ q < n /\ frames[p].src = s /\ frames[q].src = s
      BY <1>2 DEF Flags, OldFlags
    <3>2. \A p, q \in DOMAIN frames :
            p < q => (frames'[p].src = s /\ frames'[q].src = s
                       <=> q < n /\ frames[p].src = s /\ frames[q].src = s)
      BY <1>2, <1>5
    <3> QED
      BY <1>4, <3>1, <3>2
  <2> QED
    BY <1>3, <2>1, <2>2, <2>3 DEF RecursionFlags
<1>8. NoUnallowedRecursion'
  <2>1. ASSUME NEW p \in DOMAIN frames, NEW q \in DOMAIN frames, p < q,
               frames'[p].src = frames'[q].src, frames'[p].src # NoSource
        PROVE  frames'[p].src \in MayRecurse
    <3>1. p # n /\ q # n
      BY <1>3, <2>1
    <3> QED
      BY <1>3, <2>1, <3>1 DEF Flags, NoUnallowedRecursion
  <2> QED
    BY <1>3, <2>1 DEF NoUnallowedRecursion
<1> QED
  BY <1>6, <1>7, <1>8 DEF Flags

(* Iterations come and go at the end of the stack, without a source. *)
LEMMA FlagsEnter ==
  ASSUME StructInv, Flags, NEW k \in Kinds, Enter(k)
  PROVE  Flags'
<1> DEFINE n == Len(frames)
<1>1. frames' = Append(frames, Frame(k)) /\ UNCHANGED flagVars
  BY DEF Enter
<1>2. /\ DOMAIN frames = 1 .. n /\ n \in Nat /\ DOMAIN frames' = 1 .. (n + 1)
      /\ \A p \in DOMAIN frames : frames'[p] = frames[p]
      /\ frames'[n + 1].src = NoSource /\ frames'[n + 1].old = FALSE
  <2>1. frames \in Seq(FrameType)
    BY DEF StructInv, TypeOK, IterationTypes
  <2>2. Frame(k) \in FrameType /\ Frame(k).src = NoSource /\ Frame(k).old = FALSE
    BY DEF Frame, FrameType, StructInv, TypeOK, LoopTypes
  <2> QED
    BY <1>1, <2>1, <2>2, AppendProperties, LenProperties
<1> HIDE DEF n
<1>3. \A p \in DOMAIN frames' : p \in DOMAIN frames \/ p = n + 1
  BY <1>2
<1>4. DOMAIN frames \subseteq DOMAIN frames'
  BY <1>2
<1>5. OldFlags'
  <2>1. ASSUME NEW r \in DOMAIN frames'
        PROVE  frames'[r].old <=> \E p, q \in DOMAIN frames' :
                 /\ p < q /\ q < r /\ frames'[r].src # NoSource
                 /\ frames'[p].src = frames'[r].src /\ frames'[q].src = frames'[r].src
    <3>1. CASE r = n + 1
      BY <1>2, <3>1
    <3>2. CASE r \in DOMAIN frames
      <4>1. \A p, q \in DOMAIN frames' :
              p < q /\ q < r => p \in DOMAIN frames /\ q \in DOMAIN frames
        BY <1>2, <3>2
      <4> QED
        BY <1>2, <1>4, <3>2, <4>1 DEF Flags, OldFlags
    <3> QED
      BY <1>3, <3>1, <3>2
  <2> QED
    BY <2>1 DEF OldFlags
<1>6. RecursionFlags'
  <2>1. ASSUME NEW t \in Source, NEW p \in DOMAIN frames', frames'[p].src = t
        PROVE  p \in DOMAIN frames /\ frames[p].src = t
    BY <1>2, <1>3, <2>1, LoopAssumption
  <2> QED
    BY <1>1, <1>2, <1>4, <2>1 DEF Flags, RecursionFlags, flagVars
<1>7. NoUnallowedRecursion'
  <2>1. ASSUME NEW p \in DOMAIN frames', frames'[p].src # NoSource
        PROVE  p \in DOMAIN frames /\ frames'[p] = frames[p]
    BY <1>2, <1>3, <2>1
  <2> QED
    BY <2>1 DEF Flags, NoUnallowedRecursion
<1> QED
  BY <1>5, <1>6, <1>7 DEF Flags

(* An iteration that ends has no source left in its frame. *)
LEMMA FlagsLeave ==
  ASSUME StructInv, Flags, Leave
  PROVE  Flags'
<1> DEFINE n == Len(frames)
<1>1. pc = "cleanup" /\ frames' = Front(frames) /\ UNCHANGED flagVars
  BY DEF Leave
<1>2. /\ DOMAIN frames = 1 .. n /\ n \in Nat /\ n \in DOMAIN frames
      /\ DOMAIN frames' = 1 .. (n - 1)
      /\ \A p \in DOMAIN frames' : frames'[p] = frames[p]
      /\ frames[n].src = NoSource
  <2>1. /\ frames \in Seq(FrameType) /\ frames # <<>>
        /\ DOMAIN frames = 1 .. n /\ n \in Nat /\ n \in DOMAIN frames
    BY <1>1, TopTyped
  <2>2. frames[n].src = NoSource
    BY <1>1, <2>1 DEF StructInv, FramesMatchPc
  <2>3. /\ DOMAIN frames' = 1 .. (n - 1)
        /\ \A p \in 1 .. (n - 1) : frames'[p] = frames[p]
    BY <1>1, <2>1, FrontProperties
  <2> QED
    BY <2>1, <2>2, <2>3
<1> HIDE DEF n
<1>3. \A p \in DOMAIN frames : p \in DOMAIN frames' \/ p = n
  BY <1>2
<1>4. DOMAIN frames' \subseteq DOMAIN frames
  BY <1>2
<1>5. OldFlags'
  <2>1. \A r \in DOMAIN frames', q \in DOMAIN frames : q < r => q \in DOMAIN frames'
    BY <1>2
  <2>2. \A r \in DOMAIN frames', p, q \in DOMAIN frames :
          p < q /\ q < r => p \in DOMAIN frames' /\ q \in DOMAIN frames'
    BY <1>2
  <2> QED
    BY <1>2, <1>4, <2>1, <2>2 DEF Flags, OldFlags
<1>6. RecursionFlags'
  <2>1. ASSUME NEW t \in Source, NEW p \in DOMAIN frames, frames[p].src = t
        PROVE  p \in DOMAIN frames' /\ frames'[p].src = t
    BY <1>2, <1>3, <2>1, LoopAssumption
  <2> QED
    BY <1>1, <1>2, <1>4, <2>1 DEF Flags, RecursionFlags, flagVars
<1>7. NoUnallowedRecursion'
  BY <1>2, <1>4 DEF Flags, NoUnallowedRecursion
<1> QED
  BY <1>5, <1>6, <1>7 DEF Flags

(* Every step keeps what the recursion flags say of the stack. *)
LEMMA FlagsStep ==
  StructInv /\ CollectedAreEligible /\ Flags /\ [Next]_vars => Flags'
<1> SUFFICES ASSUME StructInv, CollectedAreEligible, Flags, [Next]_vars
             PROVE  Flags'
  OBVIOUS
<1>1. ASSUME UNCHANGED <<frames, dispatching, wasDispatching>>
      PROVE  Flags'
  BY <1>1 DEF Flags, OldFlags, RecursionFlags, NoUnallowedRecursion
<1>2. CASE UserNext
  <2>1. CASE \/ \E l \in Loop, s \in Source : AddHere(l, s) \/ OtherAdd(l, s)
             \/ \E l \in Loop, s \in Source : RemoveHere(l, s) \/ OtherRemove(l, s)
             \/ OtherWakeup \/ Quit \/ RunCancelled
             \/ \E l \in Loop : CreateSlave(l) \/ DestroyLoop(l)
    BY <1>1, <2>1 DEF AddHere, OtherAdd, RemoveHere, OtherRemove, PushSource, TryRemove,
                      OtherWakeup, Quit, RunCancelled, CreateSlave, DestroyLoop, flagVars
  <2> QED
    BY <1>2, <2>1, FlagsEnter DEF UserNext
<1>3. CASE KillNext \/ CollectNext \/ PollWakes \/ PollEvent \/ Flush
  BY <1>1, <1>3 DEF KillNext, KillSource, KillUnpoll, KillLoop, CollectNext, CleanSlate,
                    CollectPriority, CollectSource, CollectDone, PollWakes, PollEvent,
                    Flush, flagVars
<1>4. CASE PrepareNext \/ CheckNext
  BY <1>1, <1>4 DEF PrepareNext, CheckNext, PrepareSkip, PrepareCall, PrepareReturns,
                    PrepareDone, CheckSkip, CheckCall, CheckReturns, CheckDone,
                    SkipSource, CallSource, CallbackReturns, LoopDone, flagVars
<1>5. CASE DispatchNext
  <2>1. CASE DispatchNothing \/ NoDispatch \/ DestroyReturns
    BY <1>1, <2>1 DEF DispatchNothing, NoDispatch, DestroyReturns, flagVars
  <2> QED
    BY <1>5, <2>1, FlagsDispatch, FlagsDispatchReturns DEF DispatchNext
<1>6. CASE ReturnNext
  <2>1. CASE IterateAgain
    BY <1>1, <2>1 DEF IterateAgain, flagVars
  <2> QED
    BY <1>6, <2>1, FlagsLeave DEF ReturnNext, RunReturns, IterateReturns, PendingReturns
<1>7. CASE UNCHANGED vars
  BY <1>1, <1>7 DEF vars, flagVars
<1> QED
  BY <1>2, <1>3, <1>4, <1>5, <1>6, <1>7 DEF Next, Destroyed

-----------------------------------------------------------------------------
(* The inductive invariant, and the properties it implies.                   *)

(* The inductive invariant holds initially ... *)
LEMMA InvInit == Init => IInv
<1> SUFFICES ASSUME Init PROVE IInv
  OBVIOUS
<1>1. StructInv
  BY InitStruct
<1>2. Ownership
  BY LoopAssumption DEF Init, Ownership, ToSet, IsInjective
<1>3. RecursionInv
  BY DEF Init, RecursionInv, CollectedAreEligible, OldFlags, RecursionFlags,
         NoUnallowedRecursion
<1> QED
  BY <1>1, <1>2, <1>3 DEF IInv

(* ... and every step keeps it ... *)
LEMMA InvStep == IInv /\ [Next]_vars => IInv'
BY StructStep, OwnershipStep, CollectedStep, FlagsStep DEF IInv, RecursionInv, Flags

(* ... hence it holds in every reachable state. *)
THEOREM InvHolds == Spec => []IInv
BY InvInit, InvStep, PTL DEF Spec

(* Every variable has its type in every reachable state. *)
THEOREM TypeCorrect == Spec => []TypeOK
<1>1. IInv => TypeOK
  BY DEF IInv, StructInv
<1> QED
  BY <1>1, InvHolds, PTL

(* loop_ of a source and the lists of the loops agree, whoever adds, removes   *)
(* and destroys them meanwhile.                                                *)
THEOREM OwnershipHolds == Spec => []Ownership
<1>1. IInv => Ownership
  BY DEF IInv
<1> QED
  BY <1>1, InvHolds, PTL

(* Each iteration works on live loops and on valid positions of their lists,   *)
(* across every callback that it makes without the mutex.                      *)
THEOREM CursorsHold == Spec => []CursorsValid
<1>1. IInv => CursorsValid
  BY DEF IInv, StructInv
<1> QED
  BY <1>1, InvHolds, PTL

(* The two flags of a source count its dispatch() calls on the stack. *)
THEOREM RecursionFlagsHold == Spec => []RecursionFlags
<1>1. IInv => RecursionFlags
  BY DEF IInv, RecursionInv
<1> QED
  BY <1>1, InvHolds, PTL

(* No source without may_recurse() is dispatched inside of its own dispatch(). *)
THEOREM NoUnallowedRecursionHolds == Spec => []NoUnallowedRecursion
<1>1. IInv => NoUnallowedRecursion
  BY DEF IInv, RecursionInv
<1> QED
  BY <1>1, InvHolds, PTL

(* dispatch() nests only as the sources allow, and their flags tell how deep.  *)
THEOREM RecursionIsAllowedHolds == Spec => []RecursionIsAllowed
<1>1. IInv => RecursionIsAllowed
  BY DEF IInv, RecursionInv, RecursionIsAllowed
<1> QED
  BY <1>1, InvHolds, PTL

-----------------------------------------------------------------------------
(* Nothing is slept through.  From the snapshot of an iteration to its poll()  *)
(* the loop thread has asked every source, unless somebody changed something;  *)
(* and that somebody has made the eventfd readable, or owes a wakeup.          *)

Asking == pc \in {"collect", "collectWindow", "collectSources", "prepare", "prepareCb",
                  "poll"}
Undisturbed == Asking /\ ~evfd /\ owing = 0

\* The loops of the snapshot that were gone through: collected from, prepared.
Gathered(j) ==
  \/ pc \in {"collect", "collectWindow", "collectSources"} /\ j < li
  \/ pc \in {"prepare", "prepareCb", "poll"}
Asked(j) ==
  \/ pc \in {"prepare", "prepareCb"} /\ j < li
  \/ pc = "poll"

\* The positions of a loop's poll_sources_ that were gone through.
AskedAt(j, i) ==
  \/ Asked(j)
  \/ pc \in {"prepare", "prepareCb"} /\ j = li /\ i < si

\* No loop is in a snapshot twice, and there is none outside of the selection.
SnapshotOnce == IsInjective(snap) /\ (~Selecting => snap = <<>>)

SnapshotIsAll ==
  Undisturbed => \A l \in Loop : life[l] = "live" => l \in ToSet(snap)

\* A loop without a source to dispatch has collected everything eligible.
EverythingGathered ==
  Undisturbed =>
    /\ \A j \in DOMAIN snap : Gathered(j) /\ dprio[snap[j]] = 0 =>
         \A s \in Source : loopOf[s] = snap[j] /\ Eligible(s) => s \in ToSet(polled[snap[j]])
    /\ pc = "collectSources" /\ dprio[CurLoop] = 0 =>
         \A i \in DOMAIN sources[CurLoop] : i < si /\ Eligible(sources[CurLoop][i]) =>
           sources[CurLoop][i] \in ToSet(polled[CurLoop])

\* A source that was asked has declined, or its loop is going to dispatch.
EverythingAsked ==
  Undisturbed =>
    \A j \in DOMAIN snap : \A i \in DOMAIN polled[snap[j]] :
      AskedAt(j, i) /\ loopOf[polled[snap[j]][i]] = snap[j] =>
        state[polled[snap[j]][i]] = "PREPARED" \/ dprio[snap[j]] > 0

RunIsWanted == Undisturbed /\ Top.kind = "run" => running

\* What destroy_loop() leaves behind, loop by loop.
KilledIsEmpty ==
  /\ unpolled => killing # NoLoop /\ sources[killing] = <<>> /\ polled[killing] = <<>>
  /\ \A l \in Loop : life[l] = "dead" => sources[l] = <<>> /\ polled[l] = <<>>

WakeupInv == SnapshotIsAll /\ EverythingGathered /\ EverythingAsked /\ RunIsWanted

-----------------------------------------------------------------------------
(* Priorities.                                                               *)

\* No source that needs dispatching is above the priority of its loop, from
\* the first pass over its sources on.
PrioritiesBound ==
  \A j \in DOMAIN snap : Collected(j) =>
    \A s \in Source : loopOf[s] = snap[j] /\ Eligible(s) /\ state[s] = "NEEDS_DISPATCH"
                        => Prio[s] <= dprio[snap[j]]

\* The loops whose priority prepare() or check() has passed on.
Noted(j) ==
  \/ pc \in {"prepare", "prepareCb", "check", "checkCb"} /\ j < li
  \/ pc \in {"poll", "polled", "dispatch"}

\* priority_ascension and dispatchable[] tell what the loops have to dispatch.
AscensionNoted ==
  \A j \in DOMAIN snap : Noted(j) =>
    /\ dprio[snap[j]] > 0 => snap[j] \in dispatchable
    /\ dprio[snap[j]] >= Ascent => ascension

SelectionInv == SnapshotOnce /\ PrioritiesBound /\ AscensionNoted

-----------------------------------------------------------------------------
(* The selection: where its cursors are, and what may disturb it.            *)

\* Cursors and lists while an iteration selects.
LEMMA SelectionTyped ==
  ASSUME StructInv, Selecting
  PROVE  /\ snap \in Seq(Loop) /\ DOMAIN snap = 1 .. Len(snap) /\ Len(snap) \in Nat
         /\ li \in 1 .. Len(snap) /\ si \in Nat \ {0}
         /\ \A j \in DOMAIN snap : snap[j] \in Loop
         /\ CurLoop \in Loop /\ CurLoop = snap[li]
         /\ polled \in [Loop -> Seq(Source)] /\ sources \in [Loop -> Seq(Source)]
         /\ dprio \in [Loop -> Nat] /\ Prio \in [Source -> Nat \ {0}]
         /\ \A l \in Loop : \A i \in DOMAIN polled[l] : polled[l][i] \in Source
<1>1. snap \in Seq(Loop) /\ li \in DOMAIN snap /\ si \in Nat \ {0}
  BY DEF StructInv, TypeOK, IterationTypes, CursorsValid
<1>2. DOMAIN snap = 1 .. Len(snap) /\ Len(snap) \in Nat
      /\ \A j \in DOMAIN snap : snap[j] \in Loop
  BY <1>1, LenProperties, ElementOfSeq
<1>3. /\ polled \in [Loop -> Seq(Source)] /\ sources \in [Loop -> Seq(Source)]
      /\ dprio \in [Loop -> Nat] /\ Prio \in [Source -> Nat \ {0}]
  BY LoopAssumption DEF StructInv, TypeOK, LoopTypes, SourceTypes
<1>4. \A l \in Loop : \A i \in DOMAIN polled[l] : polled[l][i] \in Source
  BY <1>3, ElementOfSeq
<1> QED
  BY <1>1, <1>2, <1>3, <1>4 DEF CurLoop

(* Every other step makes the eventfd readable, owes a wakeup or is made by   *)
(* the loop thread when it does not ask.                                      *)
LEMMA QuietSteps ==
  ASSUME StructInv, [Next]_vars, Undisturbed'
  PROVE  \/ \E k \in Kinds : Enter(k)
         \/ IterateAgain
         \/ CollectNext /\ Undisturbed
         \/ PrepareNext /\ Undisturbed
         \/ UNCHANGED vars
<1>1. pc' \in {"collect", "collectWindow", "collectSources", "prepare", "prepareCb", "poll"}
      /\ ~evfd' /\ owing' = 0
  BY DEF Undisturbed, Asking
<1>2. CASE UserNext
  <2>1. owing \in Nat
    BY DEF StructInv, TypeOK, DestroyTypes
  <2>2. ASSUME NEW l \in Loop, NEW s \in Source,
               \/ AddHere(l, s) \/ OtherAdd(l, s)
               \/ RemoveHere(l, s) \/ OtherRemove(l, s)
        PROVE  FALSE
    <3>1. WakeupNow \/ WakeupLater
      BY <2>2 DEF AddHere, OtherAdd, RemoveHere, OtherRemove
    <3> QED
      BY <1>1, <2>1, <3>1 DEF WakeupNow, WakeupLater
  <2>3. CASE OtherWakeup \/ Quit \/ \E l \in Loop : CreateSlave(l)
    BY <1>1, <2>3 DEF OtherWakeup, Quit, CreateSlave
  <2>4. CASE RunCancelled \/ \E l \in Loop : DestroyLoop(l)
    BY <1>1, <2>4 DEF RunCancelled, DestroyLoop, Callbacks
  <2> QED
    BY <1>2, <2>2, <2>3, <2>4 DEF UserNext
<1>3. CASE KillNext
  <2>1. pc \in Callbacks /\ UNCHANGED pc
    BY <1>3 DEF KillNext, KillSource, KillUnpoll, KillLoop, StructInv, DestroyPlace
  <2> QED
    BY <1>1, <2>1 DEF Callbacks
<1>4. CASE CollectNext
  <2>1. Undisturbed
    BY <1>1, <1>4 DEF CollectNext, CleanSlate, CollectPriority, CollectSource,
                      CollectDone, Undisturbed, Asking, boundVars
  <2> QED
    BY <1>4, <2>1
<1>5. CASE PrepareNext
  <2>1. Undisturbed
    BY <1>1, <1>5 DEF PrepareNext, PrepareSkip, PrepareCall, PrepareReturns, PrepareDone,
                      SkipSource, CallSource, CallbackReturns, LoopDone, Undisturbed,
                      Asking, boundVars
  <2> QED
    BY <1>5, <2>1
<1>6. CASE PollWakes \/ PollEvent \/ Flush
  BY <1>1, <1>6 DEF PollWakes, PollEvent, Flush
<1>7. CASE CheckNext
  BY <1>1, <1>7 DEF CheckNext, CheckSkip, CheckCall, CheckReturns, CheckDone, SkipSource,
                    CallSource, CallbackReturns, LoopDone, NextLoop
<1>8. CASE DispatchNext
  BY <1>1, <1>8 DEF DispatchNext, Dispatch, DispatchNothing, NoDispatch, DispatchKeeps,
                    DispatchDrops, DestroyReturns
<1>9. CASE ReturnNext
  BY <1>1, <1>9 DEF ReturnNext, RunReturns, IterateReturns, PendingReturns, Leave
<1>10. CASE UNCHANGED vars
  BY <1>10
<1> QED
  BY <1>2, <1>3, <1>4, <1>5, <1>6, <1>7, <1>8, <1>9, <1>10 DEF Next, Destroyed

\* The start of an iteration.
Starts ==
  /\ pc' = "collect" /\ snap' = loops /\ li' = 1 /\ si' = 1
  /\ UNCHANGED <<life, loops>>

\* A new snapshot, with the cursor in front of it.
LEMMA IterationStarts ==
  ASSUME StructInv, (\E k \in Kinds : Enter(k)) \/ IterateAgain
  PROVE  /\ Starts
         /\ snap' \in Seq(Loop) /\ DOMAIN snap' = 1 .. Len(snap')
         /\ \A j \in DOMAIN snap' : ~(j < li')
<1>1. Starts
  BY DEF Enter, IterateAgain, StartIteration, Starts, loopVars
<1>2. snap' \in Seq(Loop)
  BY <1>1 DEF Starts, StructInv, TypeOK, LoopTypes
<1> QED
  BY <1>1, <1>2, LenProperties DEF Starts

(* The steps of the selection keep its snapshot. *)
LEMMA SelectionKeeps ==
  ASSUME CollectNext \/ PrepareNext \/ CheckNext \/ PollWakes \/ PollEvent \/ Flush
  PROVE  UNCHANGED <<snap, loopOf, sources, dispatching, life, loops, frames, running,
                     killing, unpolled>>
<1>1. CASE CollectNext
  BY <1>1 DEF CollectNext, CleanSlate, CollectPriority, CollectSource, CollectDone,
              NextLoop, sourceVars, flagVars, loopVars, quitVars, iterVars, killVars
<1>2. CASE PrepareNext \/ CheckNext
  BY <1>2 DEF PrepareNext, PrepareSkip, PrepareCall, PrepareReturns, PrepareDone,
              CheckNext, CheckSkip, CheckCall, CheckReturns, CheckDone,
              SkipSource, CallSource, CallbackReturns, LoopDone, NextLoop,
              sourceVars, flagVars, loopVars, quitVars, iterVars, killVars
<1>3. CASE PollWakes \/ PollEvent \/ Flush
  BY <1>3 DEF PollWakes, PollEvent, Flush, sourceVars, flagVars, loopVars, quitVars,
              iterVars, killVars
<1> QED
  BY <1>1, <1>2, <1>3

(* A snapshot has no loop twice, and is dropped at the dispatch. *)
LEMMA SnapshotOnceStep == StructInv /\ SnapshotOnce /\ [Next]_vars => SnapshotOnce'
<1> SUFFICES ASSUME StructInv, SnapshotOnce, [Next]_vars
             PROVE  SnapshotOnce'
  OBVIOUS
<1>1. ASSUME UNCHANGED snap, Selecting' <=> Selecting
      PROVE  SnapshotOnce'
  BY <1>1 DEF SnapshotOnce
<1>2. ASSUME snap' = <<>>
      PROVE  SnapshotOnce'
  BY <1>2 DEF SnapshotOnce, IsInjective
<1>3. ASSUME UNCHANGED <<snap, pc>>
      PROVE  SnapshotOnce'
  BY <1>3 DEF SnapshotOnce, Selecting
<1>4. ASSUME ~Selecting, UNCHANGED snap
      PROVE  SnapshotOnce'
  BY <1>2, <1>4 DEF SnapshotOnce
<1>5. CASE (\E k \in Kinds : Enter(k)) \/ IterateAgain
  <2>1. snap' = loops /\ Selecting'
    BY <1>5, IterationStarts DEF Starts, Selecting
  <2> QED
    BY <2>1 DEF SnapshotOnce, StructInv, LoopListExact
<1>6. CASE UserNext /\ ~(\E k \in Kinds : Enter(k))
  BY <1>3, <1>6 DEF UserNext, AddHere, OtherAdd, RemoveHere, OtherRemove, PushSource,
                    TryRemove, OtherWakeup, Quit, RunCancelled, CreateSlave, DestroyLoop,
                    iterVars
<1>7. CASE KillNext
  BY <1>3, <1>7 DEF KillNext, KillSource, KillUnpoll, KillLoop, iterVars
<1>8. CASE CollectNext \/ PrepareNext \/ CheckNext \/ PollWakes \/ PollEvent \/ Flush
  <2>1. UNCHANGED snap
    BY <1>8, SelectionKeeps
  <2>2. CASE CollectNext
    BY <1>1, <2>1, <2>2 DEF CollectNext, CleanSlate, CollectPriority, CollectSource,
                            CollectDone, NextLoop, Selecting
  <2>3. CASE PrepareNext \/ CheckNext
    BY <1>1, <2>1, <2>3 DEF PrepareNext, PrepareSkip, PrepareCall, PrepareReturns,
                  PrepareDone, CheckNext, CheckSkip, CheckCall, CheckReturns, CheckDone,
                  SkipSource, CallSource, CallbackReturns, LoopDone, NextLoop, Selecting
  <2>4. CASE PollWakes \/ PollEvent \/ Flush
    BY <1>1, <2>1, <2>4 DEF PollWakes, PollEvent, Flush, Selecting
  <2> QED
    BY <1>8, <2>2, <2>3, <2>4
<1>9. CASE Dispatch \/ DispatchNothing \/ NoDispatch
  BY <1>2, <1>9 DEF Dispatch, DispatchNothing, NoDispatch, EndSelection
<1>10. CASE DispatchKeeps \/ DispatchDrops \/ DestroyReturns
  BY <1>4, <1>10 DEF DispatchKeeps, DispatchDrops, DispatchReturns, DestroyReturns,
                     Selecting, iterVars
<1>11. CASE RunReturns \/ IterateReturns \/ PendingReturns
  BY <1>4, <1>11 DEF RunReturns, IterateReturns, PendingReturns, Leave, Selecting
<1>12. CASE UNCHANGED vars
  BY <1>3, <1>12 DEF vars, iterVars
<1> QED
  BY <1>5, <1>6, <1>7, <1>8, <1>9, <1>10, <1>11, <1>12
     DEF Next, Destroyed, DispatchNext, ReturnNext

(* Undisturbed, the snapshot has every loop, and run() is not to end. *)
LEMMA SnapshotIsAllStep == StructInv /\ SnapshotIsAll /\ [Next]_vars => SnapshotIsAll'
<1> SUFFICES ASSUME StructInv, SnapshotIsAll, [Next]_vars, Undisturbed'
             PROVE  \A l \in Loop : life'[l] = "live" => l \in ToSet(snap')
  BY DEF SnapshotIsAll
<1>1. CASE (\E k \in Kinds : Enter(k)) \/ IterateAgain
  BY <1>1, IterationStarts DEF Starts, StructInv, LoopListExact
<1>2. CASE (CollectNext \/ PrepareNext) /\ Undisturbed
  BY <1>2, SelectionKeeps DEF SnapshotIsAll
<1>3. CASE UNCHANGED vars
  <2>1. Undisturbed
    BY <1>3 DEF vars, Undisturbed, Asking, boundVars
  <2> QED
    BY <1>3, <2>1 DEF SnapshotIsAll, vars, loopVars, iterVars
<1> QED
  BY <1>1, <1>2, <1>3, QuietSteps

\* Undisturbed, the run() of the innermost iteration goes on.
LEMMA RunIsWantedStep == StructInv /\ RunIsWanted /\ [Next]_vars => RunIsWanted'
<1> SUFFICES ASSUME StructInv, RunIsWanted, [Next]_vars, Undisturbed', Top'.kind = "run"
             PROVE  running'
  BY DEF RunIsWanted
<1>1. ASSUME NEW k \in Kinds, Enter(k)
      PROVE  running'
  <2>1. Top' = Frame(k)
    <3>1. frames \in Seq(FrameType) /\ frames' = Append(frames, Frame(k))
      BY <1>1 DEF Enter, StructInv, TypeOK, IterationTypes
    <3>2. Frame(k) \in FrameType
      BY DEF Frame, FrameType, StructInv, TypeOK, LoopTypes
    <3> QED
      BY <3>1, <3>2, AppendProperties DEF Top
  <2> QED
    BY <1>1, <2>1 DEF Enter, Frame
<1>2. CASE IterateAgain
  BY <1>2 DEF IterateAgain, quitVars
<1>3. CASE (CollectNext \/ PrepareNext) /\ Undisturbed
  BY <1>3, SelectionKeeps DEF RunIsWanted, Top
<1>4. CASE UNCHANGED vars
  <2>1. Undisturbed
    BY <1>4 DEF vars, Undisturbed, Asking, boundVars
  <2> QED
    BY <1>4, <2>1 DEF RunIsWanted, vars, quitVars, Top
<1> QED
  BY <1>1, <1>2, <1>3, <1>4, QuietSteps

(* collect_sources_Lm() misses no source that may be dispatched, as long as   *)
(* none of its loop needs dispatching already.                                *)
LEMMA GatheredCollect ==
  ASSUME StructInv, Ownership, SnapshotOnce, EverythingGathered, CollectNext,
         Undisturbed, Undisturbed'
  PROVE  EverythingGathered'
<1>0. /\ UNCHANGED <<snap, loopOf, sources, dispatching>>
      /\ pc \in {"collect", "collectWindow", "collectSources"} /\ Selecting
      /\ IsInjective(snap)
  BY SelectionKeeps DEF CollectNext, CleanSlate, CollectPriority, CollectSource,
         CollectDone, Selecting, SnapshotOnce
<1>1. /\ snap \in Seq(Loop) /\ DOMAIN snap = 1 .. Len(snap) /\ Len(snap) \in Nat
      /\ li \in 1 .. Len(snap) /\ si \in Nat \ {0}
      /\ \A j \in DOMAIN snap : snap[j] \in Loop
      /\ CurLoop \in Loop /\ CurLoop = snap[li]
      /\ polled \in [Loop -> Seq(Source)] /\ sources \in [Loop -> Seq(Source)]
      /\ dprio \in [Loop -> Nat] /\ Prio \in [Source -> Nat \ {0}]
  BY <1>0, SelectionTyped
<1>2. /\ li \in DOMAIN snap /\ li \in Int /\ Len(snap) \in Int /\ li <= Len(snap)
      /\ \A j \in DOMAIN snap : j \in Int /\ j <= Len(snap)
      /\ \A j \in DOMAIN snap : j < li => snap[j] # CurLoop
  <2>1. li \in DOMAIN snap /\ li \in Int /\ Len(snap) \in Int /\ li <= Len(snap)
        /\ \A j \in DOMAIN snap : j \in Int /\ j <= Len(snap)
    BY <1>1
  <2>2. \A j \in DOMAIN snap : snap[j] = snap[li] => j = li
    BY <1>0, <2>1 DEF IsInjective
  <2> QED
    BY <1>1, <2>1, <2>2
<1>3. /\ \A j \in DOMAIN snap : j < li /\ dprio[snap[j]] = 0 =>
           \A s \in Source : loopOf[s] = snap[j] /\ Eligible(s) => s \in ToSet(polled[snap[j]])
      /\ pc = "collectSources" /\ dprio[CurLoop] = 0 =>
           \A i \in DOMAIN sources[CurLoop] : i < si /\ Eligible(sources[CurLoop][i]) =>
             sources[CurLoop][i] \in ToSet(polled[CurLoop])
  BY <1>0 DEF EverythingGathered, Gathered
<1>4. \A s : Eligible(s)' <=> Eligible(s)
  BY <1>0 DEF Eligible
<1>5. ASSUME li' = li, pc' \in {"collect", "collectWindow", "collectSources"},
             \A l \in Loop \ {CurLoop} : polled'[l] = polled[l] /\ dprio'[l] = dprio[l],
             pc' = "collectSources" /\ dprio'[CurLoop] = 0 =>
               \A i \in DOMAIN sources[CurLoop] : i < si' /\ Eligible(sources[CurLoop][i])
                 => sources[CurLoop][i] \in ToSet(polled'[CurLoop])
      PROVE  EverythingGathered'
  <2>1. CurLoop' = CurLoop
    BY <1>0, <1>5 DEF CurLoop
  <2>2. ASSUME NEW j \in DOMAIN snap, Gathered(j)', dprio'[snap[j]] = 0, NEW s \in Source,
               loopOf[s] = snap[j], Eligible(s)
        PROVE  s \in ToSet(polled'[snap[j]])
    <3>1. j < li /\ snap[j] \in Loop \ {CurLoop}
      BY <1>1, <1>2, <1>5, <2>2 DEF Gathered
    <3> QED
      BY <1>3, <1>5, <2>2, <3>1
  <2> QED
    BY <1>0, <1>4, <1>5, <2>1, <2>2 DEF EverythingGathered
<1>6. CASE CleanSlate
  <2>1. li' = li /\ pc' = "collectWindow" /\ dprio' = dprio
        /\ polled' = [polled EXCEPT ![CurLoop] = <<>>]
    BY <1>6 DEF CleanSlate, iterVars
  <2> QED
    BY <1>1, <1>5, <2>1
<1>7. CASE CollectPriority
  <2>1. /\ li' = li /\ pc' = "collectSources" /\ polled' = polled /\ si' = 1
        /\ \A l \in Loop \ {CurLoop} : dprio'[l] = dprio[l]
    BY <1>1, <1>7 DEF CollectPriority
  <2>2. \A i \in DOMAIN sources[CurLoop] : ~(i < si')
    BY <1>1, <2>1, LenProperties
  <2> QED
    BY <1>5, <2>1, <2>2
<1>8. CASE CollectSource
  <2> DEFINE s == sources[CurLoop][si]
  <2>1. /\ li' = li /\ pc = "collectSources" /\ pc' = pc /\ dprio' = dprio /\ si' = si + 1
        /\ si <= Len(sources[CurLoop])
        /\ polled' = IF IsCandidate(s, CurLoop)
                     THEN [polled EXCEPT ![CurLoop] = Append(@, s)] ELSE polled
    BY <1>8 DEF CollectSource
  <2>2. /\ sources[CurLoop] \in Seq(Source) /\ polled[CurLoop] \in Seq(Source)
        /\ DOMAIN sources[CurLoop] = 1 .. Len(sources[CurLoop])
        /\ si \in DOMAIN sources[CurLoop] /\ s \in Source /\ s \in ToSet(sources[CurLoop])
    <3>1. sources[CurLoop] \in Seq(Source) /\ polled[CurLoop] \in Seq(Source)
      BY <1>1
    <3>2. DOMAIN sources[CurLoop] = 1 .. Len(sources[CurLoop]) /\ si \in DOMAIN sources[CurLoop]
      BY <1>1, <2>1, <3>1, LenProperties
    <3> QED
      BY <3>1, <3>2, ElementOfSeq DEF ToSet
  <2>3. ToSet(polled[CurLoop]) \subseteq ToSet(polled'[CurLoop])
        /\ \A l \in Loop \ {CurLoop} : polled'[l] = polled[l]
    <3>1. CASE IsCandidate(s, CurLoop)
      <4>1. /\ polled'[CurLoop] = Append(polled[CurLoop], s)
            /\ \A l \in Loop \ {CurLoop} : polled'[l] = polled[l]
        BY <1>1, <2>1, <3>1
      <4> HIDE DEF s
      <4>2. ToSet(Append(polled[CurLoop], s)) = ToSet(polled[CurLoop]) \cup {s}
        BY <2>2, AppendElements
      <4> QED
        BY <4>1, <4>2
    <3>2. CASE ~IsCandidate(s, CurLoop)
      BY <2>1, <3>2
    <3> QED
      BY <3>1, <3>2
  <2>4. ASSUME dprio[CurLoop] = 0, Eligible(s)
        PROVE  s \in ToSet(polled'[CurLoop])
    <3>1. loopOf[s] = CurLoop
      BY <1>1, <2>2 DEF Ownership
    <3>2. IsCandidate(s, CurLoop)
      BY <1>1, <2>2, <2>4, <3>1 DEF IsCandidate
    <3>3. polled'[CurLoop] = Append(polled[CurLoop], s)
      BY <1>1, <2>1, <3>2
    <3> HIDE DEF s
    <3>4. ToSet(Append(polled[CurLoop], s)) = ToSet(polled[CurLoop]) \cup {s}
      BY <2>2, AppendElements
    <3> QED
      BY <3>3, <3>4
  <2>5. ASSUME dprio[CurLoop] = 0, NEW i \in DOMAIN sources[CurLoop], i < si',
               Eligible(sources[CurLoop][i])
        PROVE  sources[CurLoop][i] \in ToSet(polled'[CurLoop])
    <3>1. i < si \/ i = si
      BY <1>1, <2>1, <2>2, <2>5
    <3> QED
      BY <1>3, <2>1, <2>3, <2>4, <2>5, <3>1
  <2> HIDE DEF s
  <2> QED
    BY <1>5, <2>1, <2>3, <2>5
<1>9. CASE CollectDone
  <2>1. /\ pc = "collectSources" /\ si > Len(sources[CurLoop]) /\ polled' = polled
        /\ dprio' = dprio /\ NextLoop("collect", "prepare")
    BY <1>9 DEF CollectDone
  <2>2. \/ pc' = "collect" /\ li' = li + 1
        \/ pc' = "prepare" /\ li = Len(snap)
    BY <1>2, <2>1 DEF NextLoop
  <2>3. ASSUME NEW j \in DOMAIN snap, Gathered(j)', dprio[snap[j]] = 0, NEW s \in Source,
               loopOf[s] = snap[j], Eligible(s)
        PROVE  s \in ToSet(polled[snap[j]])
    <3>1. j < li \/ j = li
      BY <1>2, <2>2, <2>3 DEF Gathered
    <3>2. CASE j = li
      <4>1. s \in ToSet(sources[CurLoop])
        BY <1>1, <2>3, <3>2 DEF Ownership
      <4>2. PICK i \in DOMAIN sources[CurLoop] : s = sources[CurLoop][i]
        BY <4>1 DEF ToSet
      <4>3. i < si
        BY <1>1, <2>1, <4>2, LenProperties
      <4> QED
        BY <1>1, <1>3, <2>1, <2>3, <3>2, <4>2, <4>3
    <3> QED
      BY <1>3, <2>3, <3>1, <3>2
  <2> QED
    BY <1>0, <1>4, <2>1, <2>2, <2>3 DEF EverythingGathered
<1> QED
  BY <1>6, <1>7, <1>8, <1>9 DEF CollectNext

(* prepare_sources_Lm() leaves what was collected, and priorities only rise. *)
LEMMA PrepareEffects ==
  ASSUME StructInv, PrepareNext
  PROVE  /\ Selecting /\ polled' = polled
         /\ pc \in {"prepare", "prepareCb"} /\ pc' \in {"prepare", "prepareCb", "poll"}
         /\ \A l \in Loop : dprio'[l] \in Nat /\ dprio'[l] >= dprio[l]
<1>1. /\ Selecting /\ polled' = polled
      /\ pc \in {"prepare", "prepareCb"} /\ pc' \in {"prepare", "prepareCb", "poll"}
  BY DEF PrepareNext, PrepareSkip, PrepareCall, PrepareReturns, PrepareDone, SkipSource,
         CallSource, CallbackReturns, LoopDone, NextLoop, Selecting
<1>2. dprio \in [Loop -> Nat] /\ CurLoop \in Loop /\ Prio \in [Source -> Nat \ {0}]
  BY <1>1, SelectionTyped
<1>3. CASE PrepareReturns
  <2>1. CurSource \in Source
    BY <1>3, CurrentTyped DEF PrepareReturns, CallbackReturns, StructInv
  <2>2. \/ dprio' = dprio
        \/ dprio' = [dprio EXCEPT ![CurLoop] =
                       IF Prio[CurSource] > @ THEN Prio[CurSource] ELSE @]
    BY <1>3 DEF PrepareReturns, CallbackReturns, Upgrade
  <2> QED
    BY <1>1, <1>2, <2>1, <2>2
<1>4. CASE ~PrepareReturns
  <2>1. dprio' = dprio
    BY <1>4 DEF PrepareNext, PrepareSkip, PrepareCall, PrepareDone, SkipSource, CallSource,
                LoopDone
  <2> QED
    BY <1>1, <1>2, <2>1
<1> QED
  BY <1>3, <1>4

\* ... and what it has collected stays collected until the poll().
LEMMA GatheredStep ==
  StructInv /\ Ownership /\ SnapshotOnce /\ EverythingGathered /\ [Next]_vars
    => EverythingGathered'
<1> SUFFICES ASSUME StructInv, Ownership, SnapshotOnce, EverythingGathered, [Next]_vars,
                    Undisturbed'
             PROVE  EverythingGathered'
  BY DEF EverythingGathered
<1>1. CASE (\E k \in Kinds : Enter(k)) \/ IterateAgain
  <2>1. pc' = "collect" /\ \A j \in DOMAIN snap' : ~Gathered(j)'
    BY <1>1, IterationStarts DEF Starts, Gathered
  <2> QED
    BY <2>1 DEF EverythingGathered
<1>2. CASE CollectNext /\ Undisturbed
  BY <1>2, GatheredCollect
<1>3. CASE PrepareNext /\ Undisturbed
  <2>1. UNCHANGED <<snap, loopOf, dispatching, polled>> /\ pc' # "collectSources"
    BY <1>3, SelectionKeeps, PrepareEffects
  <2>2. \A j : Gathered(j)
    BY <1>3, PrepareEffects DEF Gathered
  <2>3. \A j \in DOMAIN snap : dprio'[snap[j]] = 0 => dprio[snap[j]] = 0
    BY <1>3, PrepareEffects, SelectionTyped
  <2> QED
    BY <1>3, <2>1, <2>2, <2>3 DEF EverythingGathered, Eligible
<1>4. CASE UNCHANGED vars
  <2>1. Undisturbed
    BY <1>4 DEF vars, Undisturbed, Asking, boundVars
  <2>2. UNCHANGED <<pc, snap, li, si, loopOf, sources, polled, dprio, dispatching>>
    BY <1>4 DEF vars, sourceVars, flagVars, iterVars
  <2> QED
    BY <2>1, <2>2 DEF EverythingGathered, Gathered, Eligible, CurLoop
<1> QED
  BY <1>1, <1>2, <1>3, <1>4, QuietSteps

(* prepare_sources_Lm() asks one source after the other. *)
LEMMA AskedPrepare ==
  ASSUME StructInv, EverythingAsked, PrepareNext, Undisturbed, Undisturbed'
  PROVE  EverythingAsked'
<1>0. /\ UNCHANGED <<snap, loopOf, polled>> /\ Selecting
      /\ pc \in {"prepare", "prepareCb"}
      /\ \A l \in Loop : dprio'[l] \in Nat /\ dprio'[l] >= dprio[l]
  BY SelectionKeeps, PrepareEffects
<1>1. /\ li \in Int /\ Len(snap) \in Int /\ li <= Len(snap) /\ si \in Int
      /\ \A j \in DOMAIN snap : j \in Int /\ j <= Len(snap)
      /\ \A j \in DOMAIN snap : snap[j] \in Loop
      /\ \A j \in DOMAIN snap : \A i \in DOMAIN polled[snap[j]] :
           /\ polled[snap[j]][i] \in Source
           /\ i \in Int /\ i <= Len(polled[snap[j]])
      /\ CurLoop \in Loop /\ CurLoop = snap[li]
      /\ dprio \in [Loop -> Nat] /\ Prio \in [Source -> Nat \ {0}]
      /\ state \in [Source -> States]
  <2>1. /\ snap \in Seq(Loop) /\ DOMAIN snap = 1 .. Len(snap) /\ Len(snap) \in Nat
        /\ li \in 1 .. Len(snap) /\ si \in Nat \ {0}
        /\ \A j \in DOMAIN snap : snap[j] \in Loop
        /\ CurLoop \in Loop /\ CurLoop = snap[li]
        /\ polled \in [Loop -> Seq(Source)]
        /\ dprio \in [Loop -> Nat] /\ Prio \in [Source -> Nat \ {0}]
        /\ \A l \in Loop : \A i \in DOMAIN polled[l] : polled[l][i] \in Source
    BY <1>0, SelectionTyped
  <2>2. \A l \in Loop : \A i \in DOMAIN polled[l] : i \in Int /\ i <= Len(polled[l])
    BY <2>1, LenProperties
  <2>3. state \in [Source -> States]
    BY DEF StructInv, TypeOK, SourceTypes
  <2>4. li \in Int /\ Len(snap) \in Int /\ li <= Len(snap) /\ si \in Int
        /\ \A j \in DOMAIN snap : j \in Int /\ j <= Len(snap)
    BY <2>1
  <2> QED
    BY <2>1, <2>2, <2>3, <2>4
<1>2. \A j \in DOMAIN snap : \A i \in DOMAIN polled[snap[j]] :
        AskedAt(j, i) /\ loopOf[polled[snap[j]][i]] = snap[j] =>
          state[polled[snap[j]][i]] = "PREPARED" \/ dprio[snap[j]] > 0
  BY DEF EverythingAsked
<1> DEFINE Here(j, i) == j = li /\ i = si
<1>3. ASSUME \A j \in DOMAIN snap : \A i \in DOMAIN polled[snap[j]] :
               AskedAt(j, i)' => AskedAt(j, i) \/ Here(j, i),
             \A s \in Source :
               \/ state'[s] = state[s]
               \/ loopOf[s] = CurLoop /\ (state'[s] = "PREPARED" \/ dprio'[CurLoop] > 0),
             \A j \in DOMAIN snap : \A i \in DOMAIN polled[snap[j]] :
               Here(j, i) /\ AskedAt(j, i)' /\ loopOf[polled[snap[j]][i]] = snap[j] =>
                 state'[polled[snap[j]][i]] = "PREPARED" \/ dprio'[snap[j]] > 0
      PROVE  EverythingAsked'
  <2>1. ASSUME NEW j \in DOMAIN snap, NEW i \in DOMAIN polled[snap[j]], AskedAt(j, i)',
               loopOf[polled[snap[j]][i]] = snap[j]
        PROVE  state'[polled[snap[j]][i]] = "PREPARED" \/ dprio'[snap[j]] > 0
    <3>1. CASE Here(j, i)
      BY <1>3, <2>1, <3>1
    <3>2. CASE ~Here(j, i)
      <4>1. AskedAt(j, i)
        BY <1>3, <2>1, <3>2
      <4>2. state[polled[snap[j]][i]] = "PREPARED" \/ dprio[snap[j]] > 0
        BY <1>2, <2>1, <4>1
      <4>3. dprio[snap[j]] > 0 => dprio'[snap[j]] > 0
        BY <1>0, <1>1
      <4> HIDE DEF Here
      <4> QED
        BY <1>1, <1>3, <2>1, <4>2, <4>3
    <3> QED
      BY <3>1, <3>2
  <2> QED
    BY <1>0, <2>1 DEF EverythingAsked
<1>4. CASE PrepareSkip
  <2>1. /\ pc = "prepare" /\ pc' = pc /\ li' = li /\ si' = si + 1 /\ state' = state
        /\ dprio' = dprio
        /\ loopOf[polled[CurLoop][si]] # CurLoop
    BY <1>4 DEF PrepareSkip, SkipSource, Registered, CurSource, sourceVars
  <2>2. \A j \in DOMAIN snap : \A i \in DOMAIN polled[snap[j]] :
          AskedAt(j, i)' => AskedAt(j, i) \/ Here(j, i)
    BY <1>1, <2>1 DEF AskedAt, Asked
  <2>3. \A s \in Source :
          \/ state'[s] = state[s]
          \/ loopOf[s] = CurLoop /\ (state'[s] = "PREPARED" \/ dprio'[CurLoop] > 0)
    BY <2>1
  <2>4. \A j \in DOMAIN snap : \A i \in DOMAIN polled[snap[j]] :
          Here(j, i) /\ AskedAt(j, i)' /\ loopOf[polled[snap[j]][i]] = snap[j] =>
            state'[polled[snap[j]][i]] = "PREPARED" \/ dprio'[snap[j]] > 0
    BY <1>1, <2>1
  <2> QED
    BY <1>3, <2>2, <2>3, <2>4, Zenon
<1>5. CASE PrepareCall
  <2>1. /\ pc = "prepare" /\ pc' = "prepareCb" /\ li' = li /\ si' = si /\ state' = state
        /\ dprio' = dprio
    BY <1>5 DEF PrepareCall, CallSource, sourceVars, iterVars
  <2>2. \A j \in DOMAIN snap : \A i \in DOMAIN polled[snap[j]] :
          AskedAt(j, i)' => AskedAt(j, i) /\ ~Here(j, i)
    BY <1>1, <2>1 DEF AskedAt, Asked
  <2>3. \A j \in DOMAIN snap : \A i \in DOMAIN polled[snap[j]] :
          AskedAt(j, i)' => AskedAt(j, i) \/ Here(j, i)
    BY <2>2
  <2>4. \A s \in Source :
          \/ state'[s] = state[s]
          \/ loopOf[s] = CurLoop /\ (state'[s] = "PREPARED" \/ dprio'[CurLoop] > 0)
    BY <2>1
  <2>5. \A j \in DOMAIN snap : \A i \in DOMAIN polled[snap[j]] :
          Here(j, i) /\ AskedAt(j, i)' /\ loopOf[polled[snap[j]][i]] = snap[j] =>
            state'[polled[snap[j]][i]] = "PREPARED" \/ dprio'[snap[j]] > 0
    BY <2>2
  <2> QED
    BY <1>3, <2>3, <2>4, <2>5, Zenon
<1>6. CASE PrepareReturns
  <2> DEFINE c == CurSource
  <2>1. /\ pc = "prepareCb" /\ pc' = "prepare" /\ li' = li /\ si' = si + 1
        /\ c \in Source /\ c = polled[CurLoop][si]
        /\ \/ loopOf[c] # CurLoop /\ state' = state /\ dprio' = dprio
           \/ loopOf[c] = CurLoop /\ Upgrade(c, CurLoop)
           \/ loopOf[c] = CurLoop /\ state' = [state EXCEPT ![c] = "PREPARED"]
    BY <1>6, CurrentTyped DEF PrepareReturns, CallbackReturns, Registered, CurSource,
                              StructInv
  <2> HIDE DEF c
  <2>2. Upgrade(c, CurLoop) => /\ state' = [state EXCEPT ![c] = "NEEDS_DISPATCH"]
                               /\ dprio'[CurLoop] > 0
    BY <1>1, <2>1 DEF Upgrade
  <2>3. \A j \in DOMAIN snap : \A i \in DOMAIN polled[snap[j]] :
          AskedAt(j, i)' => AskedAt(j, i) \/ Here(j, i)
    BY <1>1, <2>1 DEF AskedAt, Asked
  <2>4. \A s \in Source :
          \/ state'[s] = state[s]
          \/ loopOf[s] = CurLoop /\ (state'[s] = "PREPARED" \/ dprio'[CurLoop] > 0)
    <3>1. state \in [Source -> States] /\ c \in Source
      BY <1>1, <2>1
    <3>2. CASE state' = state
      BY <3>2
    <3>3. CASE /\ state' = [state EXCEPT ![c] = "NEEDS_DISPATCH"]
               /\ loopOf[c] = CurLoop /\ dprio'[CurLoop] > 0
      BY <3>1, <3>3
    <3>4. CASE state' = [state EXCEPT ![c] = "PREPARED"] /\ loopOf[c] = CurLoop
      BY <3>1, <3>4
    <3> QED
      BY <2>1, <2>2, <3>2, <3>3, <3>4
  <2>5. loopOf[c] = CurLoop => state'[c] = "PREPARED" \/ dprio'[CurLoop] > 0
    BY <1>1, <2>1, <2>2
  <2>6. \A j \in DOMAIN snap : \A i \in DOMAIN polled[snap[j]] :
          Here(j, i) /\ AskedAt(j, i)' /\ loopOf[polled[snap[j]][i]] = snap[j] =>
            state'[polled[snap[j]][i]] = "PREPARED" \/ dprio'[snap[j]] > 0
    BY <1>1, <2>1, <2>5
  <2> QED
    BY <1>3, <2>3, <2>4, <2>6, Zenon
<1>7. CASE PrepareDone
  <2>1. /\ pc = "prepare" /\ si > Len(polled[CurLoop]) /\ state' = state /\ dprio' = dprio
        /\ NextLoop("prepare", "poll")
    BY <1>7 DEF PrepareDone, LoopDone, sourceVars
  <2>2. /\ si' = 1
        /\ \/ pc' = "prepare" /\ li' = li + 1
           \/ pc' = "poll" /\ ~(li < Len(snap))
    BY <2>1 DEF NextLoop
  <2>3. \A j \in DOMAIN snap : \A i \in DOMAIN polled[snap[j]] :
          AskedAt(j, i)' => j <= li \/ (j = li + 1 /\ i < 1)
    <3>1. ASSUME NEW j \in DOMAIN snap, NEW i \in DOMAIN polled[snap[j]], AskedAt(j, i)'
          PROVE  j <= li \/ (j = li + 1 /\ i < 1)
      <4>1. /\ li \in Int /\ Len(snap) \in Int /\ li <= Len(snap)
            /\ j \in Int /\ j <= Len(snap)
        BY <1>1
      <4>2. CASE pc' = "prepare" /\ li' = li + 1
        BY <2>2, <3>1, <4>1, <4>2 DEF AskedAt, Asked
      <4>3. CASE ~(li < Len(snap))
        BY <4>1, <4>3
      <4> QED
        BY <2>2, <4>2, <4>3
    <3> QED
      BY <3>1
  <2>4. \A j \in DOMAIN snap : \A i \in DOMAIN polled[snap[j]] : i >= 1
    <3>1. \A l \in Loop : polled[l] \in Seq(Source)
      BY DEF StructInv, TypeOK, LoopTypes
    <3> QED
      BY <1>1, <3>1, LenProperties
  <2>5. \A j \in DOMAIN snap : \A i \in DOMAIN polled[snap[j]] :
          j <= li => AskedAt(j, i) /\ ~Here(j, i)
    BY <1>1, <2>1 DEF AskedAt, Asked
  <2>6. \A j \in DOMAIN snap : \A i \in DOMAIN polled[snap[j]] :
          AskedAt(j, i)' => AskedAt(j, i) /\ ~Here(j, i)
    BY <1>1, <2>3, <2>4, <2>5
  <2>7. \A j \in DOMAIN snap : \A i \in DOMAIN polled[snap[j]] :
          AskedAt(j, i)' => AskedAt(j, i) \/ Here(j, i)
    BY <2>6
  <2>8. \A s \in Source :
          \/ state'[s] = state[s]
          \/ loopOf[s] = CurLoop /\ (state'[s] = "PREPARED" \/ dprio'[CurLoop] > 0)
    BY <2>1
  <2>9. \A j \in DOMAIN snap : \A i \in DOMAIN polled[snap[j]] :
          Here(j, i) /\ AskedAt(j, i)' /\ loopOf[polled[snap[j]][i]] = snap[j] =>
            state'[polled[snap[j]][i]] = "PREPARED" \/ dprio'[snap[j]] > 0
    BY <2>6
  <2> QED
    BY <1>3, <2>7, <2>8, <2>9, Zenon
<1> QED
  BY <1>4, <1>5, <1>6, <1>7 DEF PrepareNext

\* ... and what it has asked stays asked.
LEMMA AskedStep ==
  StructInv /\ EverythingAsked /\ [Next]_vars => EverythingAsked'
<1> SUFFICES ASSUME StructInv, EverythingAsked, [Next]_vars, Undisturbed'
             PROVE  EverythingAsked'
  BY DEF EverythingAsked
<1>1. CASE (\E k \in Kinds : Enter(k)) \/ IterateAgain
  <2>1. \A j, i : ~AskedAt(j, i)'
    BY <1>1, IterationStarts DEF Starts, AskedAt, Asked
  <2> QED
    BY <2>1 DEF EverythingAsked
<1>2. CASE CollectNext /\ Undisturbed
  <2>1. \/ pc' \in {"collect", "collectWindow", "collectSources"}
        \/ li' = 1 /\ si' = 1
    BY <1>2 DEF CollectNext, CleanSlate, CollectPriority, CollectSource, CollectDone,
                NextLoop
  <2>2. Selecting /\ UNCHANGED snap /\ pc' # "poll"
    BY <1>2, SelectionKeeps DEF CollectNext, CleanSlate, CollectPriority, CollectSource,
                CollectDone, NextLoop, Selecting
  <2>3. DOMAIN snap = 1 .. Len(snap) /\ Len(snap) \in Nat /\ \A j \in DOMAIN snap : snap[j] \in Loop
    BY <2>2, SelectionTyped
  <2>4. polled' \in [Loop -> Seq(Source)]
    BY <1>2, StructStep DEF StructInv, TypeOK, LoopTypes
  <2>5. \A l \in Loop : \A i \in DOMAIN polled'[l] : i \in Int /\ i >= 1
    BY <2>4, LenProperties
  <2>6. \A j \in DOMAIN snap : j \in Int /\ j >= 1
    BY <2>3
  <2>7. \A j \in DOMAIN snap : \A i \in DOMAIN polled'[snap[j]] : ~AskedAt(j, i)'
    BY <2>1, <2>2, <2>3, <2>5, <2>6 DEF AskedAt, Asked
  <2> QED
    BY <2>2, <2>7 DEF EverythingAsked
<1>3. CASE PrepareNext /\ Undisturbed
  BY <1>3, AskedPrepare
<1>4. CASE UNCHANGED vars
  <2>1. Undisturbed
    BY <1>4 DEF vars, Undisturbed, Asking, boundVars
  <2>2. UNCHANGED <<pc, snap, li, si, loopOf, polled, dprio, state>>
    BY <1>4 DEF vars, sourceVars, iterVars
  <2> QED
    BY <2>1, <2>2 DEF EverythingAsked, AskedAt, Asked
<1> QED
  BY <1>1, <1>2, <1>3, <1>4, QuietSteps

-----------------------------------------------------------------------------
(* destroy_loop() leaves neither sources nor collected sources behind, as long *)
(* as nobody adds to a loop that is being destroyed.                           *)

(* What holds no source gets none. *)
LEMMA KilledFrame ==
  ASSUME KilledIsEmpty, StructInv, UNCHANGED <<unpolled, killing, life>>,
         \A l \in Loop : life[l] = "dead" \/ (unpolled /\ l = killing) =>
           /\ sources[l] = <<>> => sources'[l] = <<>>
           /\ polled[l] = <<>> => polled'[l] = <<>>
  PROVE  KilledIsEmpty'
<1>1. unpolled => killing \in Loop
  BY DEF KilledIsEmpty, StructInv, TypeOK, DestroyTypes
<1>2. ASSUME unpolled'
      PROVE  killing' # NoLoop /\ sources'[killing'] = <<>> /\ polled'[killing'] = <<>>
  <2>1. unpolled /\ killing' = killing /\ killing \in Loop
    BY <1>1, <1>2
  <2>2. killing # NoLoop /\ sources[killing] = <<>> /\ polled[killing] = <<>>
    BY <2>1 DEF KilledIsEmpty
  <2> QED
    BY <2>1, <2>2
<1>3. ASSUME NEW l \in Loop, life'[l] = "dead"
      PROVE  sources'[l] = <<>> /\ polled'[l] = <<>>
  <2>1. life[l] = "dead"
    BY <1>3
  <2>2. sources[l] = <<>> /\ polled[l] = <<>>
    BY <2>1 DEF KilledIsEmpty
  <2> QED
    BY <2>1, <2>2
<1> QED
  BY <1>2, <1>3 DEF KilledIsEmpty

\* Removing a source gives no loop one.
LEMMA KilledUnlink ==
  ASSUME StructInv, NEW k \in Loop, NEW s \in Source, Unlink(k, s)
  PROVE  \A l \in Loop : sources[l] = <<>> => sources'[l] = <<>>
<1>1. sources \in [Loop -> Seq(Source)]
  BY DEF StructInv, TypeOK, SourceTypes
<1>2. PICK pos \in DOMAIN sources[k] : sources' = [sources EXCEPT ![k] = RemoveAt(@, pos)]
  BY DEF Unlink
<1>3. sources[k] # <<>>
  BY <1>2
<1> QED
  BY <1>1, <1>2, <1>3

\* destroy_loop() empties a loop, and an empty one is added to by nobody.
LEMMA KilledStep ==
  ASSUME ~AddToDying, StructInv, KilledIsEmpty, [Next]_vars
  PROVE  KilledIsEmpty'
<1>1. ASSUME UNCHANGED <<unpolled, killing, life, sources, polled>>
      PROVE  KilledIsEmpty'
  BY <1>1 DEF KilledIsEmpty
<1>2. ASSUME UNCHANGED <<unpolled, killing, life, sources>>,
             \A l \in Loop : polled'[l] = polled[l] \/ polled'[l] = <<>>
      PROVE  KilledIsEmpty'
  BY <1>2, KilledFrame
<1>3. sources \in [Loop -> Seq(Source)] /\ polled \in [Loop -> Seq(Source)]
      /\ life \in [Loop -> {"new", "live", "dead"}]
  BY DEF StructInv, TypeOK, SourceTypes, LoopTypes
<1>4. CASE UserNext
  <2>1. ASSUME NEW l \in Loop, NEW s \in Source, AddHere(l, s) \/ OtherAdd(l, s)
        PROVE  KilledIsEmpty'
    <3>1. /\ life[l] = "live" /\ ~Dying(l) /\ sources' = [sources EXCEPT ![l] = Append(@, s)]
          /\ UNCHANGED <<polled, life, killing, unpolled>>
      BY <2>1 DEF AddHere, OtherAdd, PushSource, loopVars, killVars
    <3>2. ~(unpolled /\ l = killing)
      BY <3>1 DEF Dying, KilledIsEmpty
    <3> QED
      BY <1>3, <3>1, <3>2, KilledFrame
  <2>2. ASSUME NEW l \in Loop, NEW s \in Source, RemoveHere(l, s) \/ OtherRemove(l, s)
        PROVE  KilledIsEmpty'
    <3>1. Unlink(l, s) /\ UNCHANGED <<polled, life, killing, unpolled>>
      BY <2>2 DEF RemoveHere, OtherRemove, TryRemove, loopVars, killVars
    <3> QED
      BY <3>1, KilledUnlink, KilledFrame
  <2>3. CASE OtherWakeup \/ Quit \/ RunCancelled \/ \E k \in Kinds : Enter(k)
    BY <1>1, <2>3 DEF OtherWakeup, Quit, RunCancelled, Enter, sourceVars, loopVars, killVars
  <2>4. ASSUME NEW l \in Loop, CreateSlave(l)
        PROVE  KilledIsEmpty'
    BY <1>3, <2>4 DEF CreateSlave, KilledIsEmpty, sourceVars, killVars
  <2>5. ASSUME NEW l \in Loop, DestroyLoop(l)
        PROVE  KilledIsEmpty'
    BY <2>5 DEF DestroyLoop, KilledIsEmpty, sourceVars, loopVars
  <2> QED
    BY <1>4, <2>1, <2>2, <2>3, <2>4, <2>5 DEF UserNext
<1>5. CASE KillNext
  <2>0. killing \in Loop
    BY <1>5 DEF KillNext, KillSource, KillUnpoll, KillLoop, StructInv, TypeOK, DestroyTypes
  <2>1. CASE KillSource
    <3>1. Head(sources[killing]) \in Source
      BY <1>3, <2>0, <2>1 DEF KillSource
    <3>2. UNCHANGED <<polled, life, killing, unpolled>>
      BY <2>1 DEF KillSource, loopVars, killVars
    <3> QED
      BY <2>0, <2>1, <3>1, <3>2, KilledUnlink, KilledFrame DEF KillSource
  <2>2. CASE KillUnpoll
    BY <1>3, <2>0, <2>2 DEF KillUnpoll, KilledIsEmpty, sourceVars, loopVars
  <2>3. CASE KillLoop
    BY <1>3, <2>0, <2>3 DEF KillLoop, KilledIsEmpty, sourceVars
  <2> QED
    BY <1>5, <2>1, <2>2, <2>3 DEF KillNext
<1>6. CASE CollectNext
  <2>1. UNCHANGED <<unpolled, killing, life, sources>>
    BY <1>6, SelectionKeeps
  <2>2. Selecting /\ pc \notin Callbacks
    BY <1>6 DEF CollectNext, CleanSlate, CollectPriority, CollectSource, CollectDone,
                Selecting, Callbacks
  <2>3. CurLoop \in Loop /\ life[CurLoop] = "live" /\ killing = NoLoop
    BY <2>2, CurrentTyped DEF StructInv, DestroyPlace
  <2>4. \A l \in Loop \ {CurLoop} : polled'[l] = polled[l]
    BY <1>3, <1>6, <2>3 DEF CollectNext, CleanSlate, CollectPriority, CollectSource,
                            CollectDone
  <2>5. ~unpolled
    BY <2>3 DEF KilledIsEmpty
  <2> QED
    BY <2>1, <2>3, <2>4, <2>5, KilledFrame
<1>7. CASE PrepareNext \/ CheckNext \/ PollWakes \/ PollEvent \/ Flush
  <2>1. UNCHANGED <<unpolled, killing, life, sources>>
    BY <1>7, SelectionKeeps
  <2>2. polled' = polled
    BY <1>7 DEF PrepareNext, PrepareSkip, PrepareCall, PrepareReturns, PrepareDone,
                CheckNext, CheckSkip, CheckCall, CheckReturns, CheckDone,
                SkipSource, CallSource, CallbackReturns, LoopDone, PollWakes, PollEvent,
                Flush
  <2> QED
    BY <1>1, <2>1, <2>2
<1>8. CASE DispatchNext
  <2>1. CASE DispatchDrops
    <3>1. Top.src \in Source /\ Top.loop \in Loop
      BY <2>1, TopTyped DEF DispatchDrops, DispatchReturns
    <3>2. Unlink(Top.loop, Top.src) /\ UNCHANGED <<polled, life, killing, unpolled>>
      BY <2>1 DEF DispatchDrops, loopVars, killVars
    <3> QED
      BY <3>1, <3>2, KilledUnlink, KilledFrame
  <2>2. CASE Dispatch \/ DispatchNothing \/ NoDispatch \/ DispatchKeeps \/ DestroyReturns
    BY <1>1, <2>2 DEF Dispatch, DispatchNothing, NoDispatch, DispatchKeeps, DestroyReturns,
                      sourceVars, loopVars, killVars
  <2> QED
    BY <1>8, <2>1, <2>2 DEF DispatchNext
<1>9. CASE ReturnNext
  <2>1. \A l \in Loop : polled'[l] = <<>>
    BY <1>9 DEF ReturnNext, IterateAgain, RunReturns, IterateReturns, PendingReturns, Leave,
                Unpoll
  <2>2. UNCHANGED <<unpolled, killing, life, sources>>
    BY <1>9 DEF ReturnNext, IterateAgain, RunReturns, IterateReturns, PendingReturns, Leave,
                sourceVars, loopVars, killVars
  <2> QED
    BY <1>2, <2>1, <2>2
<1>10. CASE UNCHANGED vars
  BY <1>1, <1>10 DEF vars, sourceVars, loopVars, killVars
<1> QED
  BY <1>4, <1>5, <1>6, <1>7, <1>8, <1>9, <1>10 DEF Next, Destroyed

-----------------------------------------------------------------------------
(* Priorities.                                                               *)

(* Outside of the selection nothing is claimed of its loops. *)
LEMMA PrioritiesStart ==
  ASSUME StructInv, (\E k \in Kinds : Enter(k)) \/ IterateAgain
  PROVE  PrioritiesBound' /\ AscensionNoted'
<1>1. pc' = "collect" /\ \A j \in DOMAIN snap' : ~(j < li')
  BY IterationStarts DEF Starts
<1> QED
  BY <1>1 DEF PrioritiesBound, AscensionNoted, Collected, Noted

(* Other threads and callbacks let sources go, and new ones wait. *)
LEMMA UserClaimsNothing ==
  ASSUME StructInv, UserNext, ~\E k \in Kinds : Enter(k)
  PROVE  /\ UNCHANGED <<pc, snap, li, dprio, dispatching, dispatchable, ascension>>
         /\ \A s \in Source : state'[s] = "NEEDS_DISPATCH" =>
              state[s] = "NEEDS_DISPATCH" /\ loopOf'[s] = loopOf[s]
<1>1. UNCHANGED <<pc, snap, li, dprio, dispatching, dispatchable, ascension>>
  BY DEF UserNext, AddHere, OtherAdd, RemoveHere, OtherRemove, PushSource, TryRemove,
         OtherWakeup, Quit, RunCancelled, CreateSlave, DestroyLoop, iterVars, flagVars
<1>2. ASSUME UNCHANGED <<state, loopOf>>
      PROVE  \A s \in Source : state'[s] = "NEEDS_DISPATCH" =>
               state[s] = "NEEDS_DISPATCH" /\ loopOf'[s] = loopOf[s]
  BY <1>2
<1>3. ASSUME NEW l \in Loop, NEW t \in Source,
             \/ AddHere(l, t) \/ OtherAdd(l, t)
             \/ RemoveHere(l, t) \/ OtherRemove(l, t)
      PROVE  \A s \in Source : state'[s] = "NEEDS_DISPATCH" =>
               state[s] = "NEEDS_DISPATCH" /\ loopOf'[s] = loopOf[s]
  <2>1. /\ state' = [state EXCEPT ![t] = "WAITING"]
        /\ \/ loopOf' = [loopOf EXCEPT ![t] = l]
           \/ loopOf' = [loopOf EXCEPT ![t] = NoLoop]
    BY <1>3 DEF AddHere, OtherAdd, RemoveHere, OtherRemove, PushSource, TryRemove, Unlink
  <2>2. state \in [Source -> States] /\ loopOf \in [Source -> Loop \cup {NoLoop}]
    BY DEF StructInv, TypeOK, SourceTypes
  <2> QED
    BY <2>1, <2>2
<1>4. CASE OtherWakeup \/ Quit \/ RunCancelled \/ \E l \in Loop : CreateSlave(l) \/ DestroyLoop(l)
  <2>1. UNCHANGED <<state, loopOf>>
    BY <1>4 DEF OtherWakeup, Quit, RunCancelled, CreateSlave, DestroyLoop, sourceVars
  <2> QED
    BY <1>1, <1>2, <2>1
<1> QED
  BY <1>1, <1>3, <1>4 DEF UserNext

(* A callback that is back with its answer raises the priority of its loop if  *)
(* its source needs dispatching.                                               *)
LEMMA CallbackRaises ==
  ASSUME StructInv, NEW phase \in {"prepare", "check"}, NEW callback, NEW declined,
         callback = (IF phase = "prepare" THEN "prepareCb" ELSE "checkCb"),
         declined # "NEEDS_DISPATCH",
         CallbackReturns(phase, callback, declined)
  PROVE  /\ \A l \in Loop : dprio'[l] \in Nat /\ dprio'[l] >= dprio[l]
         /\ \A l \in Loop \ {CurLoop} : dprio'[l] = dprio[l]
         /\ \A s \in Source : state'[s] = "NEEDS_DISPATCH" =>
              \/ state[s] = "NEEDS_DISPATCH"
              \/ loopOf[s] = CurLoop /\ dprio'[CurLoop] >= Prio[s]
<1> DEFINE c == CurSource
<1>1. /\ pc \in {"prepareCb", "checkCb"} /\ Selecting /\ c \in Source
  BY CurrentTyped DEF CallbackReturns, Selecting, StructInv
<1>2. /\ CurLoop \in Loop /\ dprio \in [Loop -> Nat] /\ Prio \in [Source -> Nat \ {0}]
      /\ state \in [Source -> States]
  BY <1>1, SelectionTyped DEF StructInv, TypeOK, SourceTypes
<1>3. \/ UNCHANGED <<state, dprio>>
      \/ /\ loopOf[c] = CurLoop
         /\ state' = [state EXCEPT ![c] = "NEEDS_DISPATCH"]
         /\ dprio' = [dprio EXCEPT ![CurLoop] = IF Prio[c] > @ THEN Prio[c] ELSE @]
      \/ state' = [state EXCEPT ![c] = declined] /\ UNCHANGED dprio
  BY DEF CallbackReturns, Upgrade, Registered
<1> HIDE DEF c
<1>4. CASE UNCHANGED <<state, dprio>>
  BY <1>2, <1>4
<1>5. CASE /\ loopOf[c] = CurLoop
           /\ state' = [state EXCEPT ![c] = "NEEDS_DISPATCH"]
           /\ dprio' = [dprio EXCEPT ![CurLoop] = IF Prio[c] > @ THEN Prio[c] ELSE @]
  <2>1. /\ \A l \in Loop \ {CurLoop} : dprio'[l] = dprio[l]
        /\ dprio'[CurLoop] = IF Prio[c] > dprio[CurLoop] THEN Prio[c] ELSE dprio[CurLoop]
        /\ Prio[c] \in Nat /\ \A l \in Loop : dprio[l] \in Nat
    BY <1>1, <1>2, <1>5
  <2>2. dprio'[CurLoop] >= Prio[c] /\ dprio'[CurLoop] >= dprio[CurLoop]
        /\ dprio'[CurLoop] \in Nat
    BY <1>2, <2>1
  <2>3. \A s \in Source : s # c => state'[s] = state[s]
    BY <1>2, <1>5
  <2> QED
    BY <1>2, <1>5, <2>1, <2>2, <2>3
<1>6. CASE state' = [state EXCEPT ![c] = declined] /\ UNCHANGED dprio
  BY <1>1, <1>2, <1>6
<1> QED
  BY <1>3, <1>4, <1>5, <1>6

\* prepare_sources_Lm() and check_sources_Lm(), each of their steps.
LEMMA AskingRaises ==
  ASSUME StructInv, PrepareNext \/ CheckNext
  PROVE  /\ Selecting
         /\ pc \in {"prepare", "prepareCb", "check", "checkCb"}
         /\ UNCHANGED <<snap, loopOf, dispatching, polled>>
         /\ \A l \in Loop : dprio'[l] \in Nat /\ dprio'[l] >= dprio[l]
         /\ \A l \in Loop \ {CurLoop} : dprio'[l] = dprio[l]
         /\ \A s \in Source : state'[s] = "NEEDS_DISPATCH" =>
              \/ state[s] = "NEEDS_DISPATCH"
              \/ loopOf[s] = CurLoop /\ dprio'[CurLoop] >= Prio[s]
<1>1. /\ Selecting /\ pc \in {"prepare", "prepareCb", "check", "checkCb"}
      /\ UNCHANGED <<snap, loopOf, dispatching, polled>>
  BY SelectionKeeps DEF PrepareNext, PrepareSkip, PrepareCall, PrepareReturns, PrepareDone,
                CheckNext, CheckSkip, CheckCall, CheckReturns, CheckDone,
                SkipSource, CallSource, CallbackReturns, LoopDone, Selecting
<1>2. dprio \in [Loop -> Nat]
  BY <1>1, SelectionTyped
<1>3. CASE PrepareReturns
  BY <1>1, <1>3, CallbackRaises DEF PrepareReturns
<1>4. CASE CheckReturns
  BY <1>1, <1>4, CallbackRaises DEF CheckReturns
<1>5. CASE ~PrepareReturns /\ ~CheckReturns
  <2>1. UNCHANGED <<state, dprio>>
    BY <1>5 DEF PrepareNext, PrepareSkip, PrepareCall, PrepareDone, CheckNext, CheckSkip,
                CheckCall, CheckDone, SkipSource, CallSource, LoopDone, sourceVars
  <2> QED
    BY <1>1, <1>2, <2>1
<1> QED
  BY <1>3, <1>4, <1>5

(* No source that needs dispatching is above the priority of its loop. *)
LEMMA PrioritiesCollect ==
  ASSUME StructInv, SnapshotOnce, PrioritiesBound, CollectNext
  PROVE  PrioritiesBound'
<1>0. /\ UNCHANGED <<snap, loopOf, dispatching, state>>
      /\ pc \in {"collect", "collectWindow", "collectSources"} /\ Selecting
      /\ IsInjective(snap)
  BY SelectionKeeps DEF CollectNext, CleanSlate, CollectPriority, CollectSource,
         CollectDone, Selecting, SnapshotOnce, sourceVars
<1>1. /\ DOMAIN snap = 1 .. Len(snap) /\ Len(snap) \in Nat
      /\ li \in 1 .. Len(snap) /\ CurLoop \in Loop /\ CurLoop = snap[li]
      /\ dprio \in [Loop -> Nat] /\ \A j \in DOMAIN snap : snap[j] \in Loop
  BY <1>0, SelectionTyped
<1>2. \A j \in DOMAIN snap : j # li => snap[j] # CurLoop
  BY <1>0, <1>1 DEF IsInjective
<1>3. \A s : Eligible(s)' <=> Eligible(s)
  BY <1>0 DEF Eligible
<1>4. ASSUME \A j \in DOMAIN snap : Collected(j)' => Collected(j), dprio' = dprio
      PROVE  PrioritiesBound'
  BY <1>0, <1>3, <1>4 DEF PrioritiesBound
<1>5. CASE CleanSlate
  <2>1. pc = "collect" /\ pc' = "collectWindow" /\ li' = li /\ dprio' = dprio
    BY <1>5 DEF CleanSlate, iterVars
  <2> QED
    BY <1>4, <2>1 DEF Collected
<1>6. CASE CollectSource
  <2>1. pc = "collectSources" /\ UNCHANGED <<pc, li, dprio>>
    BY <1>6 DEF CollectSource
  <2> QED
    BY <1>4, <2>1 DEF Collected
<1>7. CASE CollectDone
  <2>1. /\ pc = "collectSources" /\ dprio' = dprio
        /\ \/ pc' = "collect" /\ li' = li + 1
           \/ pc' = "prepare" /\ ~(li < Len(snap))
    BY <1>7 DEF CollectDone, NextLoop
  <2>2. ASSUME NEW j \in DOMAIN snap, Collected(j)'
        PROVE  Collected(j)
    BY <1>1, <2>1, <2>2 DEF Collected
  <2> QED
    BY <1>4, <2>1, <2>2
<1>8. CASE CollectPriority
  <2>1. PICK p \in {0} \cup {Prio[s] : s \in Source} :
          IsDispatchPriority(p, CurLoop) /\ dprio' = [dprio EXCEPT ![CurLoop] = p]
    BY <1>8 DEF CollectPriority
  <2>2. /\ pc \in {"collect", "collectWindow"} /\ pc' = "collectSources" /\ li' = li
    BY <1>8 DEF CollectPriority
  <2>3. ASSUME NEW j \in DOMAIN snap, Collected(j)', NEW s \in Source,
               loopOf[s] = snap[j], Eligible(s), state[s] = "NEEDS_DISPATCH"
        PROVE  Prio[s] <= dprio'[snap[j]]
    <3>1. CASE j = li
      <4>1. s \in NeedsDispatch(CurLoop) /\ dprio'[CurLoop] = p
        BY <1>1, <2>1, <2>3, <3>1 DEF NeedsDispatch
      <4> QED
        BY <1>1, <2>1, <3>1, <4>1 DEF IsDispatchPriority
    <3>2. CASE j # li
      <4>1. Collected(j)
        BY <1>1, <2>2, <2>3, <3>2 DEF Collected
      <4>2. Prio[s] <= dprio[snap[j]]
        BY <2>3, <4>1 DEF PrioritiesBound
      <4>3. dprio'[snap[j]] = dprio[snap[j]]
        BY <1>1, <1>2, <2>1, <3>2
      <4> QED
        BY <4>2, <4>3
    <3> QED
      BY <3>1, <3>2
  <2> QED
    BY <1>0, <1>3, <2>3 DEF PrioritiesBound
<1> QED
  BY <1>5, <1>6, <1>7, <1>8 DEF CollectNext

\* prepare() and check() raise the priority along with the state of the source.
LEMMA PrioritiesAsking ==
  ASSUME StructInv, PrioritiesBound, PrepareNext \/ CheckNext
  PROVE  PrioritiesBound'
<1>1. /\ Selecting /\ pc \in {"prepare", "prepareCb", "check", "checkCb"}
      /\ UNCHANGED <<snap, loopOf, dispatching>>
      /\ \A l \in Loop : dprio'[l] \in Nat /\ dprio'[l] >= dprio[l]
      /\ \A s \in Source : state'[s] = "NEEDS_DISPATCH" =>
           \/ state[s] = "NEEDS_DISPATCH"
           \/ loopOf[s] = CurLoop /\ dprio'[CurLoop] >= Prio[s]
  BY AskingRaises
<1>2. /\ dprio \in [Loop -> Nat] /\ Prio \in [Source -> Nat \ {0}]
      /\ \A j \in DOMAIN snap : snap[j] \in Loop
  BY <1>1, SelectionTyped
<1>3. \A s : Eligible(s)' <=> Eligible(s)
  BY <1>1 DEF Eligible
<1>4. ASSUME NEW j \in DOMAIN snap, NEW s \in Source, loopOf[s] = snap[j], Eligible(s),
             state'[s] = "NEEDS_DISPATCH"
      PROVE  Prio[s] <= dprio'[snap[j]]
  <2>1. CASE state[s] = "NEEDS_DISPATCH"
    <3>1. Prio[s] <= dprio[snap[j]]
      BY <1>1, <1>4, <2>1 DEF PrioritiesBound, Collected
    <3>2. dprio[snap[j]] \in Nat /\ Prio[s] \in Nat
          /\ dprio'[snap[j]] \in Nat /\ dprio'[snap[j]] >= dprio[snap[j]]
      BY <1>1, <1>2
    <3> QED
      BY <3>1, <3>2
  <2>2. CASE ~(state[s] = "NEEDS_DISPATCH")
    BY <1>1, <1>4, <2>2
  <2> QED
    BY <2>1, <2>2
<1> QED
  BY <1>1, <1>3, <1>4 DEF PrioritiesBound

\* Every step of the thread, its callbacks and the other threads.
LEMMA PrioritiesStep ==
  StructInv /\ SnapshotOnce /\ PrioritiesBound /\ [Next]_vars => PrioritiesBound'
<1> SUFFICES ASSUME StructInv, SnapshotOnce, PrioritiesBound, [Next]_vars
             PROVE  PrioritiesBound'
  OBVIOUS
<1>0. ASSUME ~Selecting'
      PROVE  PrioritiesBound'
  BY <1>0 DEF Selecting, PrioritiesBound, Collected
<1>1. CASE (\E k \in Kinds : Enter(k)) \/ IterateAgain
  BY <1>1, PrioritiesStart
<1>2. CASE UserNext /\ ~(\E k \in Kinds : Enter(k))
  <2>1. /\ UNCHANGED <<pc, snap, li, dprio, dispatching>>
        /\ \A s \in Source : state'[s] = "NEEDS_DISPATCH" =>
             state[s] = "NEEDS_DISPATCH" /\ loopOf'[s] = loopOf[s]
    BY <1>2, UserClaimsNothing
  <2>2. /\ \A j : Collected(j)' <=> Collected(j)
        /\ \A s : Eligible(s)' <=> Eligible(s)
    BY <2>1 DEF Collected, Eligible
  <2> QED
    BY <2>1, <2>2 DEF PrioritiesBound
<1>3. CASE KillNext
  <2>1. pc \in Callbacks /\ UNCHANGED pc
    BY <1>3 DEF KillNext, KillSource, KillUnpoll, KillLoop, StructInv, DestroyPlace
  <2> QED
    BY <1>0, <2>1 DEF Callbacks, Selecting
<1>4. CASE CollectNext
  BY <1>4, PrioritiesCollect
<1>5. CASE PrepareNext \/ CheckNext
  BY <1>5, PrioritiesAsking
<1>6. CASE PollWakes \/ PollEvent \/ Flush
  <2>1. /\ UNCHANGED <<snap, loopOf, dispatching, state, dprio>>
        /\ pc \in {"poll", "polled"} /\ pc' \in {"polled", "check"}
    BY <1>6 DEF PollWakes, PollEvent, Flush, sourceVars, flagVars
  <2>2. /\ \A j : Collected(j)
        /\ \A s : Eligible(s)' <=> Eligible(s)
    BY <2>1 DEF Collected, Eligible
  <2> QED
    BY <2>1, <2>2 DEF PrioritiesBound
<1>7. CASE DispatchNext \/ RunReturns \/ IterateReturns \/ PendingReturns
  <2>1. ~Selecting'
    BY <1>7 DEF DispatchNext, Dispatch, DispatchNothing, NoDispatch, DispatchKeeps,
                DispatchDrops, DestroyReturns, RunReturns, IterateReturns, PendingReturns,
                Leave, Selecting
  <2> QED
    BY <1>0, <2>1
<1>8. CASE UNCHANGED vars
  <2>1. UNCHANGED <<snap, loopOf, dispatching, state, dprio, pc, li>>
    BY <1>8 DEF vars, sourceVars, flagVars, iterVars
  <2>2. /\ \A j : Collected(j)' <=> Collected(j)
        /\ \A s : Eligible(s)' <=> Eligible(s)
    BY <2>1 DEF Collected, Eligible
  <2> QED
    BY <2>1, <2>2 DEF PrioritiesBound
<1> QED
  BY <1>1, <1>2, <1>3, <1>4, <1>5, <1>6, <1>7, <1>8 DEF Next, Destroyed, ReturnNext

(* dispatchable[] and priority_ascension tell what a loop has to dispatch,     *)
(* once prepare_sources_Lm() or check_sources_Lm() is through with it.         *)
LEMMA AscensionAsking ==
  ASSUME StructInv, SnapshotOnce, AscensionNoted, PrepareNext \/ CheckNext
  PROVE  AscensionNoted'
<1>1. /\ Selecting /\ pc \in {"prepare", "prepareCb", "check", "checkCb"}
      /\ UNCHANGED snap
      /\ \A l \in Loop \ {CurLoop} : dprio'[l] = dprio[l]
  BY AskingRaises
<1>2. /\ DOMAIN snap = 1 .. Len(snap) /\ Len(snap) \in Nat /\ li \in 1 .. Len(snap)
      /\ CurLoop \in Loop /\ CurLoop = snap[li] /\ dprio \in [Loop -> Nat]
      /\ \A j \in DOMAIN snap : snap[j] \in Loop
  BY <1>1, SelectionTyped
<1>3. \A j \in DOMAIN snap : j # li => snap[j] # CurLoop
  BY <1>1, <1>2 DEF SnapshotOnce, IsInjective
<1>4. CASE ~PrepareDone /\ ~CheckDone
  <2>1. /\ UNCHANGED <<li, dispatchable, ascension>>
        /\ pc' \in {"prepare", "prepareCb", "check", "checkCb"}
    BY <1>4 DEF PrepareNext, PrepareSkip, PrepareCall, PrepareReturns, CheckNext, CheckSkip,
                CheckCall, CheckReturns, SkipSource, CallSource, CallbackReturns, iterVars
  <2>2. ASSUME NEW j \in DOMAIN snap, Noted(j)'
        PROVE  Noted(j) /\ dprio'[snap[j]] = dprio[snap[j]]
    <3>1. j < li
      BY <2>1, <2>2 DEF Noted
    <3>2. j # li
      BY <1>2, <3>1
    <3> QED
      BY <1>1, <1>2, <1>3, <3>1, <3>2 DEF Noted
  <2> QED
    BY <1>1, <2>1, <2>2 DEF AscensionNoted
<1>5. CASE PrepareDone \/ CheckDone
  <2>1. /\ NoteDispatchable(CurLoop) /\ dprio' = dprio /\ pc \in {"prepare", "check"}
        /\ \/ pc' \in {"prepare", "check"} /\ li' = li + 1
           \/ pc' \in {"poll", "dispatch"} /\ ~(li < Len(snap))
    BY <1>5 DEF PrepareDone, CheckDone, LoopDone, NextLoop
  <2>2. ASSUME NEW j \in DOMAIN snap, Noted(j)'
        PROVE  /\ dprio[snap[j]] > 0 => snap[j] \in dispatchable'
               /\ dprio[snap[j]] >= Ascent => ascension'
    <3>1. j < li \/ j = li
      BY <1>2, <2>1, <2>2 DEF Noted
    <3>2. CASE j = li
      BY <1>2, <2>1, <3>2 DEF NoteDispatchable
    <3>3. CASE j < li
      <4>1. Noted(j)
        BY <1>1, <3>3 DEF Noted
      <4>2. /\ dprio[snap[j]] > 0 => snap[j] \in dispatchable
            /\ dprio[snap[j]] >= Ascent => ascension
        BY <4>1 DEF AscensionNoted
      <4> QED
        BY <2>1, <4>2 DEF NoteDispatchable
    <3> QED
      BY <3>1, <3>2, <3>3
  <2> QED
    BY <1>1, <2>1, <2>2 DEF AscensionNoted
<1> QED
  BY <1>4, <1>5

\* Every step of the thread, its callbacks and the other threads.
LEMMA AscensionStep ==
  StructInv /\ SnapshotOnce /\ AscensionNoted /\ [Next]_vars => AscensionNoted'
<1> SUFFICES ASSUME StructInv, SnapshotOnce, AscensionNoted, [Next]_vars
             PROVE  AscensionNoted'
  OBVIOUS
<1>0. ASSUME ~Selecting'
      PROVE  AscensionNoted'
  BY <1>0 DEF Selecting, AscensionNoted, Noted
<1>1. CASE (\E k \in Kinds : Enter(k)) \/ IterateAgain
  BY <1>1, PrioritiesStart
<1>2. CASE UserNext /\ ~(\E k \in Kinds : Enter(k))
  <2>1. UNCHANGED <<pc, snap, li, dprio, dispatchable, ascension>>
    BY <1>2, UserClaimsNothing
  <2> QED
    BY <2>1 DEF AscensionNoted, Noted
<1>3. CASE KillNext
  <2>1. pc \in Callbacks /\ UNCHANGED pc
    BY <1>3 DEF KillNext, KillSource, KillUnpoll, KillLoop, StructInv, DestroyPlace
  <2> QED
    BY <1>0, <2>1 DEF Callbacks, Selecting
<1>4. CASE CollectNext
  <2>1. CASE CollectDone
    <3>1. Selecting
      BY <2>1 DEF CollectDone, Selecting
    <3>2. \/ pc' = "collect"
          \/ pc' = "prepare" /\ li' = 1
      BY <2>1 DEF CollectDone, NextLoop
    <3>3. snap' = snap /\ \A j \in DOMAIN snap : ~(j < 1)
      BY <1>4, <3>1, SelectionKeeps, SelectionTyped
    <3>4. \A j \in DOMAIN snap : ~Noted(j)'
      BY <3>2, <3>3 DEF Noted
    <3> QED
      BY <3>3, <3>4 DEF AscensionNoted
  <2>2. CASE CleanSlate \/ CollectPriority \/ CollectSource
    <3>1. pc' \in {"collectWindow", "collectSources"}
      BY <2>2 DEF CleanSlate, CollectPriority, CollectSource
    <3> QED
      BY <3>1 DEF AscensionNoted, Noted
  <2> QED
    BY <1>4, <2>1, <2>2 DEF CollectNext
<1>5. CASE PrepareNext \/ CheckNext
  BY <1>5, AscensionAsking
<1>6. CASE PollWakes \/ PollEvent
  <2>1. /\ UNCHANGED <<snap, dprio, dispatchable, ascension>>
        /\ pc = "poll" /\ pc' = "polled"
    BY <1>6 DEF PollWakes, PollEvent
  <2> QED
    BY <2>1 DEF AscensionNoted, Noted
<1>7. CASE Flush
  <2>1. /\ UNCHANGED <<snap, dprio, dispatchable, ascension>>
        /\ pc = "polled" /\ pc' = "check"
    BY <1>7 DEF Flush
  <2> QED
    BY <2>1 DEF AscensionNoted, Noted
<1>8. CASE DispatchNext \/ RunReturns \/ IterateReturns \/ PendingReturns
  <2>1. ~Selecting'
    BY <1>8 DEF DispatchNext, Dispatch, DispatchNothing, NoDispatch, DispatchKeeps,
                DispatchDrops, DestroyReturns, RunReturns, IterateReturns, PendingReturns,
                Leave, Selecting
  <2> QED
    BY <1>0, <2>1
<1>9. CASE UNCHANGED vars
  <2>1. UNCHANGED <<snap, dprio, dispatchable, ascension, pc, li>>
    BY <1>9 DEF vars, iterVars
  <2> QED
    BY <2>1 DEF AscensionNoted, Noted
<1> QED
  BY <1>1, <1>2, <1>3, <1>4, <1>5, <1>6, <1>7, <1>8, <1>9 DEF Next, Destroyed, ReturnNext

-----------------------------------------------------------------------------
(* The invariants of the selection, and what they say of poll() and dispatch(). *)

\* The program starts without a selection.
LEMMA SelectionInit == Init => SelectionInv /\ WakeupInv /\ KilledIsEmpty
<1> SUFFICES ASSUME Init PROVE SelectionInv /\ WakeupInv /\ KilledIsEmpty
  OBVIOUS
<1>1. pc = "out" /\ snap = <<>> /\ ~Undisturbed /\ ~Selecting
  BY DEF Init, Undisturbed, Asking, Selecting
<1>2. SelectionInv
  BY <1>1 DEF SelectionInv, SnapshotOnce, IsInjective, PrioritiesBound, AscensionNoted
<1>3. WakeupInv
  BY <1>1 DEF WakeupInv, SnapshotIsAll, EverythingGathered, EverythingAsked, RunIsWanted
<1>4. ~unpolled /\ \A l \in Loop : life[l] # "dead"
  BY DEF Init
<1> QED
  BY <1>2, <1>3, <1>4 DEF KilledIsEmpty

\* The selection, by its three parts.
LEMMA SelectionStep == IInv /\ SelectionInv /\ [Next]_vars => SelectionInv'
BY SnapshotOnceStep, PrioritiesStep, AscensionStep DEF SelectionInv, IInv

\* The wakeups, by their four parts.
LEMMA WakeupStep == IInv /\ SelectionInv /\ WakeupInv /\ [Next]_vars => WakeupInv'
BY SnapshotIsAllStep, GatheredStep, AskedStep, RunIsWantedStep
   DEF SelectionInv, WakeupInv, IInv

\* A blocking poll() with nothing to dispatch: everybody was asked and declined.
LEMMA AsleepIsAsked ==
  ASSUME IInv, SelectionInv, WakeupInv
  PROVE  NoLostWakeup
<1> SUFFICES ASSUME Asleep, owing = 0
             PROVE  /\ \A l \in Loop : life[l] = "live" => l \in ToSet(snap)
                    /\ \A l \in Loop, s \in Source :
                         loopOf[s] = l /\ life[l] = "live" /\ Eligible(s)
                           => s \in ToSet(polled[l]) /\ state[s] = "PREPARED"
                    /\ Top.kind = "run" => running
  BY DEF NoLostWakeup
<1>1. /\ pc = "poll" /\ dispatchable = {} /\ Undisturbed /\ Selecting
      /\ \A j : Gathered(j) /\ Noted(j) /\ Asked(j)
  BY DEF Asleep, Undisturbed, Asking, Selecting, Gathered, Noted, Asked
<1>2. \A l \in Loop : life[l] = "live" => l \in ToSet(snap)
  BY <1>1 DEF WakeupInv, SnapshotIsAll
<1>3. Top.kind = "run" => running
  BY <1>1 DEF WakeupInv, RunIsWanted
<1>4. ASSUME NEW l \in Loop, NEW s \in Source, loopOf[s] = l, life[l] = "live", Eligible(s)
      PROVE  s \in ToSet(polled[l]) /\ state[s] = "PREPARED"
  <2>1. PICK j \in DOMAIN snap : snap[j] = l
    BY <1>2, <1>4 DEF ToSet
  <2>2. dprio[l] \in Nat
    BY <1>1, SelectionTyped DEF IInv
  <2>3. ~(dprio[l] > 0)
    BY <1>1, <2>1 DEF SelectionInv, AscensionNoted
  <2>4. dprio[l] = 0
    BY <2>2, <2>3
  <2>5. s \in ToSet(polled[l])
    BY <1>1, <1>4, <2>1, <2>4 DEF WakeupInv, EverythingGathered
  <2>6. PICK i \in DOMAIN polled[l] : polled[l][i] = s
    BY <2>5 DEF ToSet
  <2>7. state[s] = "PREPARED" \/ dprio[l] > 0
    BY <1>1, <1>4, <2>1, <2>6 DEF WakeupInv, EverythingAsked, AskedAt
  <2> QED
    BY <2>3, <2>5, <2>7
<1> QED
  BY <1>2, <1>3, <1>4

\* A loop that is gone is in no list and has none.
LEMMA DeadLoopsEmpty ==
  ASSUME IInv, SelectionInv, KilledIsEmpty
  PROVE  DeadLoopsAreEmpty
<1> SUFFICES ASSUME NEW l \in Loop, life[l] = "dead"
             PROVE  /\ sources[l] = <<>> /\ polled[l] = <<>>
                    /\ l \notin ToSet(loops) /\ l \notin ToSet(snap)
  BY DEF DeadLoopsAreEmpty
<1>1. sources[l] = <<>> /\ polled[l] = <<>>
  BY DEF KilledIsEmpty
<1>2. l \notin ToSet(loops)
  BY DEF IInv, StructInv, LoopListExact
<1>3. l \notin ToSet(snap)
  <2>1. CASE Selecting
    BY <2>1 DEF IInv, StructInv, CursorsValid
  <2>2. CASE ~Selecting
    BY <2>2 DEF SelectionInv, SnapshotOnce, ToSet
  <2> QED
    BY <2>1, <2>2
<1> QED
  BY <1>1, <1>2, <1>3

\* dispatch_source_Lm() of the loop that dispatch_sources_Lm() found.
LEMMA DispatchInOrder ==
  ASSUME IInv, SelectionInv, Dispatch
  PROVE  LET s == frames'[Len(frames)].src
             Ready == {t \in Source : loopOf[t] \in ToSet(snap) /\ Eligible(t)
                                      /\ state[t] = "NEEDS_DISPATCH"}
         IN  /\ s \in Ready
             /\ \A t \in Ready : loopOf[t] = loopOf[s] => Prio[t] <= Prio[s]
             /\ (\E t \in Ready : Prio[t] >= Ascent) => Prio[s] >= Ascent
<1> DEFINE n == Len(snap)
           Ready == {t \in Source : loopOf[t] \in ToSet(snap) /\ Eligible(t)
                                    /\ state[t] = "NEEDS_DISPATCH"}
<1>1. /\ pc = "dispatch" /\ Selecting /\ StructInv
      /\ \A j : Noted(j) /\ Collected(j)
  BY DEF Dispatch, Selecting, Noted, Collected, IInv
<1>2. /\ DOMAIN snap = 1 .. n /\ n \in Nat /\ li \in 1 .. n
      /\ \A j \in DOMAIN snap : snap[j] \in Loop
      /\ polled \in [Loop -> Seq(Source)]
      /\ dprio \in [Loop -> Nat] /\ Prio \in [Source -> Nat \ {0}]
      /\ \A l \in Loop : \A i \in DOMAIN polled[l] : polled[l][i] \in Source
  BY <1>1, SelectionTyped
<1>3. PICK k \in 0 .. n, l \in dispatchable :
        /\ IsTurn(k) /\ l = LoopInTurn(k)
        /\ \E i \in DOMAIN polled[l] :
             /\ IsDispatchSource(i, l)
             /\ frames' = TopUpdated(polled[l][i], l, wasDispatching[polled[l][i]])
  BY DEF Dispatch, TopUpdated
<1>4. PICK i \in DOMAIN polled[l] :
        /\ CanDispatch(polled[l][i], l)
        /\ frames' = TopUpdated(polled[l][i], l, wasDispatching[polled[l][i]])
  BY <1>3 DEF IsDispatchSource
<1> DEFINE s == polled[l][i]
<1>5. l \in Loop /\ l \in ToSet(snap)
  BY <1>1 DEF StructInv, DispatchableInSnap, TypeOK, IterationTypes
<1>6. PICK j \in DOMAIN snap : snap[j] = l
  BY <1>5 DEF ToSet
<1>7. s \in Source /\ Eligible(s)
  BY <1>1, <1>2, <1>5, <1>6 DEF IInv, RecursionInv, CollectedAreEligible
<1>8. loopOf[s] = l /\ Prio[s] = dprio[l] /\ state[s] = "NEEDS_DISPATCH"
  BY <1>4 DEF CanDispatch, Registered
<1>9. frames'[Len(frames)].src = s
  <2>1. frames \in Seq(FrameType) /\ frames # <<>> /\ wasDispatching[s] \in BOOLEAN
    BY <1>1, <1>7, TopTyped DEF StructInv, TypeOK, SourceTypes
  <2>2. TopChanged(TopUpdated(s, l, wasDispatching[s]), s, l, wasDispatching[s])
    BY <1>5, <1>7, <2>1, TopUpdatedProperties
  <2> HIDE DEF s
  <2> QED
    BY <1>4, <2>2 DEF TopChanged, s
<1> HIDE DEF s
<1>10. s \in Ready
  BY <1>5, <1>7, <1>8
<1>11. ASSUME NEW t \in Ready
       PROVE  \E m \in DOMAIN snap : loopOf[t] = snap[m] /\ Prio[t] <= dprio[snap[m]]
  <2>1. PICK m \in DOMAIN snap : snap[m] = loopOf[t]
    BY DEF ToSet
  <2> QED
    BY <1>1, <2>1 DEF SelectionInv, PrioritiesBound
<1>12. ASSUME NEW t \in Ready, loopOf[t] = loopOf[s]
       PROVE  Prio[t] <= Prio[s]
  BY <1>8, <1>11, <1>12
<1>13. ASSUME NEW t \in Ready, Prio[t] >= Ascent
       PROVE  Prio[s] >= Ascent
  <2>1. PICK m \in DOMAIN snap : loopOf[t] = snap[m] /\ Prio[t] <= dprio[snap[m]]
    BY <1>11
  <2>2. /\ Prio[t] \in Nat /\ Ascent \in Nat \ {0} /\ dprio[snap[m]] \in Nat
        /\ dprio[snap[m]] >= Ascent /\ dprio[snap[m]] > 0
    <3>1. Prio[t] \in Nat /\ Ascent \in Nat \ {0} /\ dprio[snap[m]] \in Nat
      BY <1>2, LoopAssumption
    <3> QED
      BY <1>13, <2>1, <3>1
  <2>3. ascension /\ TakesTurn(snap[m])
    BY <1>1, <2>2 DEF SelectionInv, AscensionNoted, TakesTurn
  <2>4. PICK q \in 0 .. (n - 1) : (rr + q) % n = m - 1
    <3>0. n \in Nat /\ li \in 1 .. n /\ m \in 1 .. n
      BY <1>2
    <3>1. n \in Nat \ {0} /\ m - 1 \in 0 .. (n - 1) /\ rr \in Nat
      <4>1. rr \in Nat
        BY <1>1 DEF StructInv, TypeOK, LoopTypes
      <4> HIDE DEF n
      <4> QED
        BY <3>0, <4>1
    <3> HIDE DEF n
    <3> QED
      BY <3>1, EveryTurn
  <2>5. LoopInTurn(q) = snap[m]
    <3>1. LoopInTurn(q) = snap[((rr + q) % n) + 1]
      BY DEF LoopInTurn
    <3>2. ((rr + q) % n) + 1 = m
      <4>1. m \in Int
        BY <1>2
      <4> HIDE DEF n
      <4> QED
        BY <2>4, <4>1
    <3> QED
      BY <3>1, <3>2
  <2>6. k # n
    <3>1. ASSUME k = n
          PROVE  q \in 0 .. (k - 1)
      BY <3>1
    <3> QED
      BY <1>3, <2>3, <2>5, <3>1 DEF IsTurn
  <2>7. TakesTurn(l)
    BY <1>3, <2>6 DEF IsTurn
  <2> QED
    BY <1>8, <2>3, <2>7 DEF TakesTurn
<1> QED
  BY <1>9, <1>10, <1>12, <1>13

(* No other step of the loop thread goes from the selection to a dispatch(). *)
LEMMA OnlyDispatch ==
  ASSUME IInv, [Next]_vars, DispatchStep
  PROVE  Dispatch
<1>1. pc = "dispatch" /\ pc' = "dispatchCb" /\ pc \notin Callbacks
  BY DEF DispatchStep, Callbacks
<1>2. CASE UserNext
  BY <1>1, <1>2, UserClaimsNothing DEF IInv, Enter
<1>3. CASE KillNext
  BY <1>1, <1>3 DEF KillNext, KillSource, KillUnpoll, KillLoop
<1>4. CASE CollectNext \/ PrepareNext \/ PollWakes \/ PollEvent \/ Flush \/ CheckNext
  BY <1>1, <1>4 DEF CollectNext, CleanSlate, CollectPriority, CollectSource, CollectDone,
                    PrepareNext, PrepareSkip, PrepareCall, PrepareReturns, PrepareDone,
                    CheckNext, CheckSkip, CheckCall, CheckReturns, CheckDone, SkipSource,
                    CallSource, CallbackReturns, LoopDone, PollWakes, PollEvent, Flush
<1>5. CASE DispatchNext
  BY <1>1, <1>5 DEF DispatchNext, DispatchNothing, NoDispatch, DispatchKeeps,
                    DispatchDrops, DispatchReturns, DestroyReturns
<1>6. CASE ReturnNext
  BY <1>1, <1>6 DEF ReturnNext, IterateAgain, RunReturns, IterateReturns, PendingReturns,
                    Leave
<1>7. CASE UNCHANGED vars
  BY <1>1, <1>7 DEF vars
<1> QED
  BY <1>2, <1>3, <1>4, <1>5, <1>6, <1>7 DEF Next, Destroyed

-----------------------------------------------------------------------------
(* The selection of every iteration knows its loops, and what a poll() is     *)
(* entered with was asked.                                                    *)
THEOREM SelectionHolds == Spec => [](IInv /\ SelectionInv /\ WakeupInv)
<1>1. Init => IInv /\ SelectionInv /\ WakeupInv
  BY InvInit, SelectionInit
<1>2. IInv /\ SelectionInv /\ WakeupInv /\ [Next]_vars => (IInv /\ SelectionInv /\ WakeupInv)'
  BY InvStep, SelectionStep, WakeupStep
<1> QED
  BY <1>1, <1>2, PTL DEF Spec

(* The loop thread sleeps in poll() only with every source prepared, and woken  *)
(* by whoever changed something since, even if sources are added to a loop     *)
(* that is being destroyed.                                                    *)
THEOREM NoLostWakeupHolds == Spec => []NoLostWakeup
<1>1. IInv /\ SelectionInv /\ WakeupInv => NoLostWakeup
  BY AsleepIsAsked
<1> QED
  BY <1>1, SelectionHolds, PTL

(* If no thread adds to a loop under destroy_loop(), then besides nothing is    *)
(* left behind on the loops that are gone.                                     *)
THEOREM NothingIsMissedHolds == ~AddToDying => (Spec => []NothingIsMissed)
<1> SUFFICES ASSUME ~AddToDying PROVE Spec => []NothingIsMissed
  OBVIOUS
<1>1. Init => KilledIsEmpty
  BY SelectionInit
<1>2. IInv /\ KilledIsEmpty /\ [Next]_vars => KilledIsEmpty'
  BY KilledStep DEF IInv
<1>3. IInv /\ SelectionInv /\ WakeupInv /\ KilledIsEmpty => NothingIsMissed
  BY AsleepIsAsked, DeadLoopsEmpty DEF NothingIsMissed
<1> QED
  BY <1>1, <1>2, <1>3, SelectionHolds, PTL DEF Spec

(* dispatch() goes to a source of the highest priority of its loop, and to one  *)
(* at PRIORITY_ASCENT or above if any loop of the iteration has one.           *)
THEOREM DispatchOrderHolds == Spec => DispatchOrder
<1>1. IInv /\ SelectionInv /\ [Next]_vars =>
        [DispatchStep =>
          LET s == frames'[Len(frames)].src
              Ready == {t \in Source : loopOf[t] \in ToSet(snap) /\ Eligible(t)
                                       /\ state[t] = "NEEDS_DISPATCH"}
          IN  /\ s \in Ready
              /\ \A t \in Ready : loopOf[t] = loopOf[s] => Prio[t] <= Prio[s]
              /\ (\E t \in Ready : Prio[t] >= Ascent) => Prio[s] >= Ascent]_vars
  BY OnlyDispatch, DispatchInOrder
<1> QED
  BY <1>1, SelectionHolds, PTL DEF Spec, DispatchOrder

-----------------------------------------------------------------------------
(* The timers and watches that are among those sources.                         *)

\* A watch owns its descriptor, and has none outside of the loop.
FdsOwned ==
  /\ ~misclosed
  /\ \A w \in Watches : watch[w].fd # NoFd => opened[watch[w].fd] = w /\ w \in ToSet(inLoop)
  /\ \A f \in Fds : opened[f] \in Watches => watch[opened[f]].fd = f

\* Up to check() the index of a polled watch is that of its own PollFD, and then
\* its events are from there.
PollFDsKnown ==
  /\ stage = "idle" => pollSources = <<>>
  /\ stage = "slot" => slotSource \in ToSet(pollSources)
  /\ \A i \in DOMAIN pfda : pfda[i].fd = NoFd => pfda[i].revents = {}
  /\ stage \in {"poll", "check"} =>
       \A w \in ToSet(pollSources) \cap Watches :
         /\ watch[w].revents = {}
         /\ watch[w].fd # NoFd => /\ watch[w].idx \in DOMAIN pfda
                                 /\ pfda[watch[w].idx].of = w /\ pfda[watch[w].idx].fd = watch[w].fd
  /\ stage \in {"dispatch", "slot"} =>
       \A w \in ToSet(pollSources) \cap Watches :
         watch[w].revents # {} =>
           \E i \in DOMAIN pfda : pfda[i].of = w /\ watch[w].revents = pfda[i].revents

WatchInv == FdsOwned /\ PollFDsKnown

\* The timers that fired, wait in the loop and are not about to fire again.
Repeating == {t \in Timers \cap ToSet(inLoop) : ~timer[t].first /\ ~(stage = "slot" /\ slotSource = t)}

\* The time left to a timer is at most a period behind what it waited, or two
\* if the clock was set back; then the next prepare() clamps it.
Left(t) == timer[t].expiration - clock
SitsFor == IF stage = "poll" THEN timeout * Msec ELSE 0

TimersBound ==
  \A t \in Repeating :
    /\ waited[t] + (IF Left(t) < Period THEN Left(t) ELSE Period) <= 2 * Period
    /\ Left(t) > Period => waited[t] + SitsFor <= Period

\* What poll(2) was told to wait for.
TimeoutBound ==
  stage = "poll" /\ timeout > 0 =>
    \A t \in Timers \cap ToSet(inLoop) :
      /\ timeout < Forever
      /\ t \in Repeating => timeout * Msec <= Period /\ waited[t] + timeout * Msec <= 2 * Period + Msec

TimerInv == TimersBound /\ TimeoutBound

\* What a list without some of its elements keeps.
LEMMA Leaving ==
  ASSUME NEW s \in Seq(Sources), NEW gone
  PROVE  Without(s, gone) \in Seq(Sources) /\ ToSet(Without(s, gone)) = ToSet(s) \ gone
BY WithoutElements

\* A sequence of sources, by its set.
LEMMA Elements ==
  ASSUME NEW s \in Seq(Sources)
  PROVE  ToSet(s) \subseteq Sources /\ \A i \in DOMAIN s : s[i] \in ToSet(s)
<1>1. DOMAIN s = 1 .. Len(s) /\ \A i \in 1 .. Len(s) : s[i] \in Sources
  BY LenProperties, ElementOfSeq
<1> QED
  BY <1>1 DEF ToSet

\* What the assumption on the constants gives: the names of nobody and of the user
\* are no sources, a period is at least a millisecond.
LEMMA ConstantsAre ==
  ASSUME LoopSourcesAssumption
  PROVE  /\ Period \in Nat \ {0} /\ Msec \in Nat \ {0} /\ Interval \in Nat \ {0} /\ MaxClock \in Nat
         /\ Period >= Msec
         /\ NoFd \notin Fds /\ Fds \subseteq Nat /\ Nobody \notin Sources /\ "user" \notin Watches
         /\ "user" # Nobody /\ Timers \cap Watches = {}
<1>1. \A a, b \in Nat \ {0} : a * b \in Nat \ {0} /\ a * b >= b
  OBVIOUS
<1> QED
  BY <1>1 DEF LoopSourcesAssumption, Period, NoFd, Nobody, Sources

-----------------------------------------------------------------------------
\* A watch that is taken out of the loop.
LEMMA ClosesDown ==
  ASSUME LoopSourcesAssumption, SourcesTypeOK, FdsOwned, NEW w \in Watches, CloseDown(w)
  PROVE  /\ watch' \in [Watches -> PollFDSources] /\ opened' \in [Fds -> Watches \cup {Nobody, "user"}]
         /\ ~misclosed' /\ watch'[w].fd = NoFd
         /\ \A v \in Watches : v # w => watch'[v] = watch[v]
         /\ \A v \in Watches : watch'[v].revents = watch[v].revents /\ watch'[v].idx = watch[v].idx
         /\ \A v \in Watches : watch'[v].fd # NoFd => opened'[watch'[v].fd] = v /\ v # w
         /\ \A f \in Fds : opened'[f] \in Watches => watch'[opened'[f]].fd = f
<1> DEFINE f == watch[w].fd
<1>1. /\ watch \in [Watches -> PollFDSources] /\ opened \in [Fds -> Watches \cup {Nobody, "user"}]
      /\ watch' = [watch EXCEPT ![w].fd = NoFd]
      /\ opened' = [g \in Fds |-> IF g # f THEN opened[g]
                                 ELSE IF "C" \in watch[w].mode THEN "user" ELSE Nobody]
      /\ misclosed' = (misclosed \/ (f # NoFd /\ opened[f] # w))
  BY DEF SourcesTypeOK, CloseDown
<1>2. f \in Fds \cup {NoFd} /\ (f # NoFd => opened[f] = w)
  BY <1>1 DEF FdsOwned, PollFDSources
<1>3. watch' \in [Watches -> PollFDSources] /\ opened' \in [Fds -> Watches \cup {Nobody, "user"}]
  BY <1>1 DEF PollFDSources
<1>4. ~misclosed'
  BY <1>1, <1>2 DEF FdsOwned
<1>5. /\ watch'[w].fd = NoFd
      /\ \A v \in Watches : v # w => watch'[v] = watch[v]
      /\ \A v \in Watches : watch'[v].revents = watch[v].revents /\ watch'[v].idx = watch[v].idx
  BY <1>1 DEF PollFDSources
<1>6. ASSUME NEW v \in Watches, watch'[v].fd # NoFd
      PROVE  opened'[watch'[v].fd] = v /\ v # w
  <2>1. v # w /\ watch'[v].fd = watch[v].fd
    BY <1>5, <1>6
  <2>2. watch[v].fd \in Fds /\ opened[watch[v].fd] = v
    BY <1>1, <1>6, <2>1 DEF FdsOwned, PollFDSources
  <2>3. watch[v].fd # f
    BY <1>2, <1>6, <2>1, <2>2
  <2> QED
    BY <1>1, <2>1, <2>2, <2>3
<1>7. ASSUME NEW g \in Fds, opened'[g] \in Watches
      PROVE  watch'[opened'[g]].fd = g
  <2>1. g # f /\ opened'[g] = opened[g]
    BY <1>1, <1>7, ConstantsAre DEF Sources
  <2>2. watch[opened[g]].fd = g /\ opened[g] # w
    BY <1>7, <2>1 DEF FdsOwned
  <2> QED
    BY <1>5, <1>7, <2>1, <2>2
<1> QED
  BY <1>3, <1>4, <1>5, <1>6, <1>7

-----------------------------------------------------------------------------
\* The events of a polled watch are known as long as neither its PollFD nor the
\* watch change.
LEMMA PollFDsStay ==
  ASSUME PollFDsKnown, UNCHANGED <<pollSources, pfda, stage, slotSource>>,
         \A w \in ToSet(pollSources) \cap Watches :
           /\ watch'[w].revents = watch[w].revents /\ watch'[w].idx = watch[w].idx
           /\ watch'[w].fd = watch[w].fd \/ watch'[w].fd = NoFd
  PROVE  PollFDsKnown'
BY DEF PollFDsKnown

\* A timer is added: it has no descriptor.
LEMMA AddTimerWatches ==
  ASSUME LoopSourcesAssumption, SourcesTypeOK, WatchInv, NEW t \in Timers, AddTimer(t)
  PROVE  SourcesTypeOK' /\ WatchInv'
<1>1. /\ inLoop' = Append(inLoop, t) /\ loopState' = [loopState EXCEPT ![t] = "WAITING"]
      /\ UNCHANGED <<clock, pollSources, pfda, timeout, stage, slotSource, waited, watch, opened, misclosed>>
  BY DEF AddTimer, Join, fds
<1>2. PICK delay \in {0, Interval}, once \in BOOLEAN :
        timer' = [timer EXCEPT ![t] = [NoTimer EXCEPT !.expiration = clock + delay * Msec, !.oneshot = once]]
  BY DEF AddTimer
<1>3. clock + delay * Msec \in 0..(MaxClock + Period)
  <2>1. 0 * Msec = 0 /\ Interval * Msec = Period
    BY ConstantsAre DEF Period
  <2> QED
    BY <1>2, <2>1, ConstantsAre DEF SourcesTypeOK
<1>4. inLoop' \in Seq(Sources) /\ ToSet(inLoop') = ToSet(inLoop) \cup {t}
  BY <1>1, AppendElements, AppendProperties DEF SourcesTypeOK, Sources
<1>5. timer' \in [Timers -> [expiration : 0..(MaxClock + Period), first : BOOLEAN, oneshot : BOOLEAN]]
  BY <1>2, <1>3 DEF SourcesTypeOK, NoTimer
<1>6. SourcesTypeOK'
  BY <1>1, <1>4, <1>5 DEF SourcesTypeOK
<1>7. PollFDsKnown'
  BY <1>1, PollFDsStay DEF WatchInv
<1> QED
  BY <1>1, <1>4, <1>6, <1>7 DEF WatchInv, FdsOwned

\* A watch is added with a descriptor that nobody holds, or with none.
LEMMA AddWatchWatches ==
  ASSUME LoopSourcesAssumption, SourcesTypeOK, WatchInv, NEW w \in Watches, AddWatch(w)
  PROVE  SourcesTypeOK' /\ WatchInv'
<1>1. /\ inLoop' = Append(inLoop, w) /\ loopState' = [loopState EXCEPT ![w] = "WAITING"]
      /\ w \notin ToSet(inLoop) /\ w \notin ToSet(pollSources)
      /\ UNCHANGED <<clock, timer, pollSources, pfda, timeout, stage, slotSource, waited, misclosed>>
  BY DEF AddWatch, Join, IsNew
<1>2. PICK f \in {g \in Fds : opened[g] = Nobody} \cup {NoFd}, once \in BOOLEAN, mode \in Modes :
        /\ watch' = [watch EXCEPT ![w] = [NoWatch EXCEPT !.fd = f, !.oneshot = once, !.mode = mode]]
        /\ opened' = [g \in Fds |-> IF g = f THEN w ELSE opened[g]]
  BY DEF AddWatch
<1>3. inLoop' \in Seq(Sources) /\ ToSet(inLoop') = ToSet(inLoop) \cup {w}
  BY <1>1, AppendElements, AppendProperties DEF SourcesTypeOK, Sources
<1>4. /\ watch' \in [Watches -> PollFDSources] /\ watch'[w].fd = f
      /\ \A v \in Watches : v # w => watch'[v] = watch[v]
  BY <1>2 DEF SourcesTypeOK, NoWatch, PollFDSources, NoIndex, Events
<1>5. opened' \in [Fds -> Watches \cup {Nobody, "user"}]
  BY <1>2 DEF SourcesTypeOK
<1>6. SourcesTypeOK'
  BY <1>1, <1>3, <1>4, <1>5 DEF SourcesTypeOK
<1>7. PollFDsKnown'
  BY <1>1, <1>4, PollFDsStay DEF WatchInv
<1>8. ASSUME NEW v \in Watches, watch'[v].fd # NoFd
      PROVE  opened'[watch'[v].fd] = v /\ v \in ToSet(inLoop')
  <2>1. CASE v = w
    BY <1>2, <1>3, <1>4, <1>8, <2>1
  <2>2. CASE v # w
    <3>1. opened[watch[v].fd] = v /\ watch[v].fd \in Fds /\ v \in ToSet(inLoop)
      BY <1>4, <1>8, <2>2 DEF WatchInv, FdsOwned, SourcesTypeOK, PollFDSources
    <3>2. watch[v].fd # f
      BY <1>2, <3>1, ConstantsAre DEF Sources
    <3> QED
      BY <1>2, <1>3, <1>4, <2>2, <3>1, <3>2
  <2> QED
    BY <2>1, <2>2
<1>9. ASSUME NEW g \in Fds, opened'[g] \in Watches
      PROVE  watch'[opened'[g]].fd = g
  <2>1. CASE g = f
    BY <1>2, <1>4, <2>1
  <2>2. CASE g # f
    <3>1. opened'[g] = opened[g] /\ watch[opened[g]].fd = g
      BY <1>2, <1>9, <2>2 DEF WatchInv, FdsOwned
    <3>2. opened[g] # w
      BY <1>1, <1>9, <3>1, ConstantsAre DEF WatchInv, FdsOwned
    <3> QED
      BY <1>4, <1>9, <3>1, <3>2
  <2> QED
    BY <2>1, <2>2
<1> QED
  BY <1>1, <1>6, <1>7, <1>8, <1>9 DEF WatchInv, FdsOwned

\* remove(), and every other way in which a source leaves the loop
LEMMA Leaves ==
  ASSUME LoopSourcesAssumption, SourcesTypeOK, FdsOwned, NEW s \in Sources, LeaveLoop(s), Destroy(s)
  PROVE  /\ inLoop' \in Seq(Sources) /\ ToSet(inLoop') = ToSet(inLoop) \ {s}
         /\ watch' \in [Watches -> PollFDSources] /\ opened' \in [Fds -> Watches \cup {Nobody, "user"}]
         /\ FdsOwned'
         /\ \A w \in Watches :
              /\ watch'[w].revents = watch[w].revents /\ watch'[w].idx = watch[w].idx
              /\ watch'[w].fd = watch[w].fd \/ watch'[w].fd = NoFd
<1>1. inLoop' \in Seq(Sources) /\ ToSet(inLoop') = ToSet(inLoop) \ {s}
  BY Leaving DEF LeaveLoop, SourcesTypeOK
<1>2. CASE s \in Watches
  <2>1. CloseDown(s)
    BY <1>2 DEF Destroy
  <2>2. \A v \in Watches : watch'[v].fd # NoFd => watch'[v] = watch[v] /\ v # s
    BY <1>2, <2>1, ClosesDown
  <2>3. FdsOwned'
    BY <1>1, <1>2, <2>1, <2>2, ClosesDown DEF FdsOwned
  <2>4. \A v \in Watches : watch'[v].fd = watch[v].fd \/ watch'[v].fd = NoFd
    BY <2>2
  <2> QED
    BY <1>1, <1>2, <2>1, <2>3, <2>4, ClosesDown
<1>3. CASE s \notin Watches
  <2>1. UNCHANGED <<watch, opened, misclosed>>
    BY <1>3 DEF Destroy, fds
  <2>2. FdsOwned'
    BY <1>1, <1>3, <2>1 DEF FdsOwned
  <2> QED
    BY <1>1, <2>1, <2>2 DEF SourcesTypeOK
<1> QED
  BY <1>2, <1>3

\* A source is removed while the loop polls or runs a slot.
LEMMA RemoveSourceWatches ==
  ASSUME LoopSourcesAssumption, SourcesTypeOK, WatchInv, NEW s \in Sources, RemoveSource(s)
  PROVE  SourcesTypeOK' /\ WatchInv'
<1>1. /\ LeaveLoop(s) /\ Destroy(s)
      /\ UNCHANGED <<clock, timer, loopState, pollSources, pfda, timeout, stage, slotSource, waited>>
  BY DEF RemoveSource
<1>2. SourcesTypeOK'
  BY <1>1, Leaves DEF SourcesTypeOK, WatchInv
<1>3. FdsOwned'
  BY <1>1, Leaves DEF WatchInv
<1>4. PollFDsKnown'
  BY <1>1, Leaves, PollFDsStay DEF WatchInv
<1> QED
  BY <1>2, <1>3, <1>4 DEF WatchInv

\* A slot closes the descriptor and writes -1 for it.
LEMMA SlotTakesFdWatches ==
  ASSUME LoopSourcesAssumption, SourcesTypeOK, WatchInv, SlotTakesFd
  PROVE  SourcesTypeOK' /\ WatchInv'
<1>1. /\ slotSource \in Watches /\ watch[slotSource].fd # NoFd
      /\ watch' = [watch EXCEPT ![slotSource].fd = NoFd]
      /\ opened' = [opened EXCEPT ![watch[slotSource].fd] = Nobody]
      /\ UNCHANGED <<clock, timer, inLoop, loopState, pollSources, pfda, timeout, stage, slotSource, waited, misclosed>>
  BY DEF SlotTakesFd
<1>2. watch[slotSource].fd \in Fds /\ opened[watch[slotSource].fd] = slotSource
  BY <1>1 DEF SourcesTypeOK, PollFDSources, WatchInv, FdsOwned
<1>3. watch' \in [Watches -> PollFDSources] /\ opened' \in [Fds -> Watches \cup {Nobody, "user"}]
  <2>1. watch' \in [Watches -> PollFDSources]
    BY <1>1 DEF SourcesTypeOK, PollFDSources
  <2>2. opened' \in [Fds -> Watches \cup {Nobody, "user"}]
    BY <1>1, <1>2 DEF SourcesTypeOK
  <2> QED
    BY <2>1, <2>2
<1>4. /\ watch'[slotSource].fd = NoFd
      /\ \A v \in Watches : v # slotSource => watch'[v] = watch[v]
      /\ \A v \in Watches : watch'[v].revents = watch[v].revents /\ watch'[v].idx = watch[v].idx
  BY <1>1 DEF SourcesTypeOK, PollFDSources
<1>5. SourcesTypeOK'
  BY <1>1, <1>3 DEF SourcesTypeOK
<1>6. PollFDsKnown'
  <2>1. \A v \in Watches : watch'[v].fd = watch[v].fd \/ watch'[v].fd = NoFd
    BY <1>4
  <2> QED
    BY <1>1, <1>4, <2>1, PollFDsStay DEF WatchInv
<1>7. ASSUME NEW v \in Watches, watch'[v].fd # NoFd
      PROVE  opened'[watch'[v].fd] = v /\ v \in ToSet(inLoop')
  <2>1. v # slotSource /\ watch'[v].fd = watch[v].fd
    BY <1>4, <1>7
  <2>2. watch[v].fd \in Fds /\ opened[watch[v].fd] = v /\ v \in ToSet(inLoop)
    BY <1>7, <2>1 DEF WatchInv, FdsOwned, SourcesTypeOK, PollFDSources
  <2> QED
    BY <1>1, <1>2, <2>1, <2>2 DEF SourcesTypeOK
<1>8. ASSUME NEW g \in Fds, opened'[g] \in Watches
      PROVE  watch'[opened'[g]].fd = g
  <2>1. g # watch[slotSource].fd /\ opened'[g] = opened[g]
    BY <1>1, <1>2, <1>8, ConstantsAre DEF SourcesTypeOK, Sources
  <2>2. watch[opened[g]].fd = g /\ opened[g] # slotSource
    BY <1>8, <2>1 DEF WatchInv, FdsOwned
  <2> QED
    BY <1>4, <1>8, <2>1, <2>2
<1> QED
  BY <1>1, <1>5, <1>6, <1>7, <1>8 DEF WatchInv, FdsOwned

\* The user closes what a source left open.
LEMMA UserClosesWatches ==
  ASSUME LoopSourcesAssumption, SourcesTypeOK, WatchInv, NEW f \in Fds, UserCloses(f)
  PROVE  SourcesTypeOK' /\ WatchInv'
<1>1. /\ opened[f] = "user" /\ opened' = [opened EXCEPT ![f] = Nobody]
      /\ UNCHANGED <<clock, timer, watch, inLoop, loopState, pollSources, pfda, timeout, stage, slotSource, waited, misclosed>>
  BY DEF UserCloses
<1>2. SourcesTypeOK'
  BY <1>1 DEF SourcesTypeOK
<1>3. PollFDsKnown'
  BY <1>1, PollFDsStay DEF WatchInv
<1>4. ASSUME NEW v \in Watches, watch'[v].fd # NoFd
      PROVE  opened'[watch'[v].fd] = v /\ v \in ToSet(inLoop')
  <2>1. watch[v].fd \in Fds /\ opened[watch[v].fd] = v /\ v \in ToSet(inLoop)
    BY <1>1, <1>4 DEF WatchInv, FdsOwned, SourcesTypeOK, PollFDSources
  <2>2. watch[v].fd # f
    BY <1>1, <2>1, ConstantsAre
  <2> QED
    BY <1>1, <2>1, <2>2 DEF SourcesTypeOK
<1>5. ASSUME NEW g \in Fds, opened'[g] \in Watches
      PROVE  watch'[opened'[g]].fd = g
  <2>1. g # f /\ opened'[g] = opened[g]
    BY <1>1, <1>5, ConstantsAre DEF SourcesTypeOK, Sources
  <2> QED
    BY <1>1, <1>5, <2>1 DEF WatchInv, FdsOwned
<1> QED
  BY <1>1, <1>2, <1>3, <1>4, <1>5 DEF WatchInv, FdsOwned

\* Time goes by, or is set: watches do not care.
LEMMA ClockWatches ==
  ASSUME LoopSourcesAssumption, SourcesTypeOK, WatchInv,
         (\E d \in 1..Interval * Msec : Elapse(d)) \/ (\E now \in 0..MaxClock : SetClock(now))
  PROVE  SourcesTypeOK' /\ WatchInv'
<1>1. UNCHANGED <<timer, inLoop, loopState, pollSources, pfda, stage, slotSource, watch, opened, misclosed>>
  BY DEF Elapse, SetClock, fds
<1>2. clock' \in 0..MaxClock /\ timeout' \in Nat /\ waited' \in [Timers -> Nat]
  <2>1. ASSUME NEW d \in 1..Period, Elapse(d)
        PROVE  clock' \in 0..MaxClock /\ timeout' \in Nat /\ waited' \in [Timers -> Nat]
    <3>1. clock' = clock + d /\ clock + d <= MaxClock /\ d \in Nat
      BY <2>1, ConstantsAre DEF Elapse
    <3>2. waited' \in [Timers -> Nat]
      BY <2>1, <3>1 DEF Elapse, SourcesTypeOK
    <3>3. timeout' \in Nat
      <4>1. CASE stage = "poll" /\ timeout # Forever
        <5>1. timeout' = (timeout * Msec - d) \div Msec /\ d <= timeout * Msec
          BY <2>1, <4>1 DEF Elapse
        <5>2. timeout * Msec \in Nat
          BY ConstantsAre DEF SourcesTypeOK
        <5>3. timeout * Msec - d \in Nat
          BY <3>1, <5>1, <5>2
        <5>4. \A n \in Nat, m \in Nat \ {0} : n \div m \in Nat
          OBVIOUS
        <5> QED
          BY <5>1, <5>3, <5>4, ConstantsAre
      <4>2. CASE ~(stage = "poll" /\ timeout # Forever)
        BY <2>1, <4>2 DEF Elapse, SourcesTypeOK
      <4> QED
        BY <4>1, <4>2
    <3> QED
      BY <3>1, <3>2, <3>3 DEF SourcesTypeOK
  <2>2. ASSUME NEW now \in 0..MaxClock, SetClock(now)
        PROVE  clock' \in 0..MaxClock /\ timeout' \in Nat /\ waited' \in [Timers -> Nat]
    BY <2>2 DEF SetClock, SourcesTypeOK
  <2> QED
    BY <2>1, <2>2 DEF Period
<1>3. SourcesTypeOK'
  BY <1>1, <1>2 DEF SourcesTypeOK
<1>4. PollFDsKnown'
  BY <1>1, PollFDsStay DEF WatchInv
<1> QED
  BY <1>1, <1>3, <1>4 DEF WatchInv, FdsOwned

\* poll(2) writes the events of each PollFD, and nothing into those without.
LEMMA PollWatches ==
  ASSUME LoopSourcesAssumption, SourcesTypeOK, WatchInv, Poll
  PROVE  SourcesTypeOK' /\ WatchInv'
<1>1. /\ stage = "poll" /\ stage' = "check"
      /\ UNCHANGED <<clock, timer, inLoop, loopState, pollSources, timeout, slotSource, watch, opened, misclosed, waited>>
  BY DEF Poll, fds
<1>2. PICK seen \in [1..Len(pfda) -> {{}, {"IN"}, {"HUP", "ERR"}}] :
        pfda' = [i \in 1..Len(pfda) |->
         IF pfda[i].fd = NoFd THEN pfda[i]
         ELSE IF opened[pfda[i].fd] = Nobody THEN [pfda[i] EXCEPT !.revents = {"NVAL"}]
         ELSE [pfda[i] EXCEPT !.revents = seen[i]]]
  BY DEF Poll
<1>3. pfda \in Seq(PollFDs) /\ Len(pfda) \in Nat /\ DOMAIN pfda = 1 .. Len(pfda)
      /\ \A i \in 1..Len(pfda) : pfda[i] \in PollFDs
  BY LenProperties, ElementOfSeq DEF SourcesTypeOK
<1>4. ASSUME NEW i \in 1..Len(pfda)
      PROVE  /\ pfda'[i] \in PollFDs
             /\ pfda'[i].fd = pfda[i].fd /\ pfda'[i].of = pfda[i].of
             /\ pfda[i].fd = NoFd => pfda'[i].revents = pfda[i].revents
  <2>1. seen[i] \in SUBSET Events /\ {"NVAL"} \in SUBSET Events
    BY <1>2 DEF Events
  <2> QED
    BY <1>2, <1>3, <2>1 DEF PollFDs
<1>5. pfda' = [i \in 1..Len(pfda) |-> pfda'[i]]
  BY <1>2
<1>6. pfda' \in Seq(PollFDs) /\ DOMAIN pfda' = DOMAIN pfda
  BY <1>3, <1>4, <1>5, SeqDef
<1>7. SourcesTypeOK'
  BY <1>1, <1>6 DEF SourcesTypeOK
<1>8. PollFDsKnown'
  BY <1>1, <1>3, <1>4, <1>6 DEF WatchInv, PollFDsKnown
<1> QED
  BY <1>1, <1>7, <1>8 DEF WatchInv, FdsOwned

\* check() hands events to a watch by its index, if the descriptor matches.
LEMMA CheckWatches ==
  ASSUME LoopSourcesAssumption, SourcesTypeOK, WatchInv, Check
  PROVE  SourcesTypeOK' /\ WatchInv'
<1>1. /\ stage = "check" /\ stage' = "dispatch"
      /\ UNCHANGED <<clock, timer, inLoop, pollSources, pfda, timeout, slotSource, opened, misclosed, waited>>
      /\ watch' = [w \in Watches |->
           IF w \in ToSet(pollSources) /\ (w \in ToSet(inLoop) \/ loopState[w] = "PREPARED") THEN Reread(w) ELSE watch[w]]
      /\ loopState' = [s \in Sources |->
           IF s \notin ToSet(pollSources) \cap ToSet(inLoop) THEN loopState[s]
           ELSE IF ChecksReady(s) THEN "NEEDS_DISPATCH" ELSE "WAITING"]
  BY DEF Check
<1>2. pfda \in Seq(PollFDs) /\ DOMAIN pfda = 1 .. Len(pfda) /\ \A i \in 1..Len(pfda) : pfda[i] \in PollFDs
  BY LenProperties, ElementOfSeq DEF SourcesTypeOK
<1>3. ASSUME NEW w \in Watches
      PROVE  /\ watch'[w] \in PollFDSources /\ watch'[w].fd = watch[w].fd
             /\ watch'[w].revents = watch[w].revents
                \/ /\ watch[w].idx \in DOMAIN pfda /\ pfda[watch[w].idx].fd = watch[w].fd
                   /\ watch'[w].revents = pfda[watch[w].idx].revents
  <2>1. watch[w] \in PollFDSources
    BY DEF SourcesTypeOK
  <2>2. CASE watch'[w] = watch[w]
    BY <2>1, <2>2
  <2>3. CASE watch'[w] = Reread(w)
    <3>1. CASE watch[w].idx \in 1..Len(pfda) /\ pfda[watch[w].idx].fd = watch[w].fd
      <4>1. watch'[w] = [watch[w] EXCEPT !.revents = pfda[watch[w].idx].revents]
        BY <2>3, <3>1 DEF Reread
      <4>2. pfda[watch[w].idx].revents \in SUBSET Events
        BY <1>2, <3>1 DEF PollFDs
      <4> QED
        BY <1>2, <2>1, <3>1, <4>1, <4>2 DEF PollFDSources
    <3>2. CASE ~(watch[w].idx \in 1..Len(pfda) /\ pfda[watch[w].idx].fd = watch[w].fd)
      <4>1. watch'[w] = [watch[w] EXCEPT !.idx = NoIndex]
        BY <2>3, <3>2 DEF Reread
      <4> QED
        BY <2>1, <4>1 DEF PollFDSources, NoIndex
    <3> QED
      BY <3>1, <3>2
  <2> QED
    BY <1>1, <2>2, <2>3
<1>4. watch' \in [Watches -> PollFDSources]
  BY <1>1, <1>3
<1>5. SourcesTypeOK'
  BY <1>1, <1>4 DEF SourcesTypeOK
<1>6. FdsOwned'
  BY <1>1, <1>3 DEF WatchInv, FdsOwned, SourcesTypeOK
<1>7. ASSUME NEW w \in ToSet(pollSources) \cap Watches, watch'[w].revents # {}
      PROVE  \E i \in DOMAIN pfda : pfda[i].of = w /\ watch'[w].revents = pfda[i].revents
  <2>1. /\ watch[w].revents = {}
        /\ watch[w].fd # NoFd => /\ watch[w].idx \in DOMAIN pfda
                                 /\ pfda[watch[w].idx].of = w /\ pfda[watch[w].idx].fd = watch[w].fd
    BY <1>1 DEF WatchInv, PollFDsKnown
  <2>2. /\ watch[w].idx \in DOMAIN pfda /\ pfda[watch[w].idx].fd = watch[w].fd
        /\ watch'[w].revents = pfda[watch[w].idx].revents
    BY <1>3, <1>7, <2>1
  <2>3. watch[w].fd # NoFd
    BY <1>7, <2>2 DEF WatchInv, PollFDsKnown
  <2> QED
    BY <2>1, <2>2, <2>3
<1>8. PollFDsKnown'
  BY <1>1, <1>7 DEF WatchInv, PollFDsKnown
<1> QED
  BY <1>5, <1>6, <1>8 DEF WatchInv

\* prepare() numbers the watches of the new array and forgets old events.
LEMMA PrepareWatches ==
  ASSUME LoopSourcesAssumption, SourcesTypeOK, WatchInv, Prepare
  PROVE  SourcesTypeOK' /\ WatchInv'
<1> DEFINE ss == SourcesToPoll
           gone == Timers \cup {w \in Watches : ~Pollable(w)}
           ws == Without(ss, gone)
           place(w) == CHOOSE i \in 1..Len(ws) : ws[i] = w
           pfd == [i \in 1..Len(ws) |-> [fd |-> watch[ws[i]].fd, revents |-> {}, of |-> ws[i]]]
           wake == [fd |-> NoFd, revents |-> {}, of |-> Nobody]
<1>1. /\ pollSources' = ss /\ stage' = "poll"
      /\ timer' = [t \in Timers |-> IF t \in ToSet(ss) /\ ~Expired(t)
                    THEN [timer[t] EXCEPT !.expiration = Clamped(t)] ELSE timer[t]]
      /\ loopState' = [s \in Sources |-> IF s \notin ToSet(ss) THEN loopState[s]
                        ELSE IF PreparesReady(s) THEN "NEEDS_DISPATCH" ELSE "PREPARED"]
      /\ pfda' = <<wake>> \o pfd
      /\ watch' = [w \in Watches |-> IF w \notin ToSet(ss) THEN watch[w]
                    ELSE [watch[w] EXCEPT !.revents = {},
                            !.idx = IF Pollable(w) THEN 1 + place(w) ELSE watch[w].idx]]
      /\ timeout' = (IF MustNotBlock(ss) THEN 0 ELSE PollTimeout(ss))
      /\ UNCHANGED <<clock, inLoop, slotSource, opened, misclosed, waited>>
  BY DEF Prepare
<1>2. ss \in Seq(Sources) /\ ToSet(ss) \subseteq Sources
  BY Leaving, Elements DEF SourcesToPoll, SourcesTypeOK
<1>3. ws \in Seq(Sources) /\ ToSet(ws) = ToSet(ss) \ gone
  <2> HIDE DEF ss, gone
  <2> QED
    BY <1>2, Leaving
<1>4. /\ Len(ws) \in Nat /\ DOMAIN ws = 1 .. Len(ws)
      /\ \A i \in 1 .. Len(ws) : ws[i] \in ToSet(ws)
  <2> HIDE DEF ws
  <2> QED
    BY <1>3, LenProperties, Elements
<1>5. \A w \in ToSet(ss) \cap Watches : Pollable(w) => w \in ToSet(ws)
  <2>1. \A w \in ToSet(ss) \cap Watches : Pollable(w) => w \notin gone
    BY ConstantsAre
  <2> HIDE DEF ss, gone, ws
  <2> QED
    BY <1>3, <2>1
<1>6. \A i \in 1 .. Len(ws) : ws[i] \in Watches /\ watch[ws[i]].fd \in Fds
  <2>1. \A w \in ToSet(ss) \ gone : w \in Watches /\ Pollable(w)
    BY <1>2 DEF Sources
  <2> HIDE DEF ss, gone, ws
  <2> QED
    BY <1>3, <1>4, <2>1 DEF Pollable, SourcesTypeOK, PollFDSources
<1>7. \A w \in ToSet(ws) : place(w) \in 1 .. Len(ws) /\ ws[place(w)] = w
  <2> HIDE DEF ws
  <2>1. \A w \in ToSet(ws) : \E i \in 1 .. Len(ws) : ws[i] = w
    BY <1>4 DEF ToSet
  <2> QED
    BY <2>1
<1> HIDE DEF ss, gone, ws, place
<1>8. pfd \in Seq(PollFDs) /\ Len(pfd) = Len(ws)
  <2>1. \A i \in 1 .. Len(ws) : [fd |-> watch[ws[i]].fd, revents |-> {}, of |-> ws[i]] \in PollFDs
    BY <1>6 DEF PollFDs
  <2> QED
    BY <1>4, <2>1
<1>9. wake \in PollFDs
  BY DEF PollFDs
<1>10. /\ <<wake>> \in Seq(PollFDs) /\ Len(<<wake>>) = 1 /\ <<wake>>[1] = wake
  BY <1>9
<1>11. /\ \A i \in 1 .. Len(ws) : pfd[i].fd = watch[ws[i]].fd /\ pfd[i].revents = {} /\ pfd[i].of = ws[i]
       /\ wake.revents = {}
  OBVIOUS
<1> HIDE DEF wake, pfd
<1>12. /\ pfda' \in Seq(PollFDs) /\ Len(pfda') = 1 + Len(ws)
       /\ \A i \in 1 .. 1 + Len(ws) : pfda'[i] = IF i <= 1 THEN <<wake>>[i] ELSE pfd[i - 1]
  <2> DEFINE first == <<wake>>
  <2>1. first \in Seq(PollFDs) /\ pfd \in Seq(PollFDs) /\ Len(first) = 1
    BY <1>8, <1>10
  <2>2. pfda' = first \o pfd
    BY <1>1
  <2> HIDE DEF first
  <2>3. /\ first \o pfd \in Seq(PollFDs) /\ Len(first \o pfd) = Len(first) + Len(pfd)
        /\ \A i \in 1 .. Len(first) + Len(pfd) :
             (first \o pfd)[i] = IF i <= Len(first) THEN first[i] ELSE pfd[i - Len(first)]
    BY <2>1, ConcatProperties
  <2>4. /\ pfda' \in Seq(PollFDs) /\ Len(pfda') = 1 + Len(ws)
        /\ \A i \in 1 .. 1 + Len(ws) : pfda'[i] = IF i <= 1 THEN first[i] ELSE pfd[i - 1]
    BY <1>8, <2>1, <2>2, <2>3
  <2> QED
    BY <2>4 DEF first
<1>13. DOMAIN pfda' = 1 .. 1 + Len(ws)
  BY <1>12, LenProperties
<1>14. \A j \in 1 .. Len(ws) : 1 + j \in DOMAIN pfda' /\ pfda'[1 + j] = pfd[j]
  <2>1. \A j \in 1 .. Len(ws) : 1 + j \in 1 .. 1 + Len(ws) /\ ~(1 + j <= 1) /\ (1 + j) - 1 = j
    BY <1>4
  <2> QED
    BY <1>12, <1>13, <2>1
<1>15. \A i \in DOMAIN pfda' : pfda'[i].revents = {}
  <2> TAKE i \in DOMAIN pfda'
  <2>1. CASE i <= 1
    <3>1. i = 1
      BY <1>4, <1>13, <2>1
    <3> QED
      BY <1>10, <1>11, <1>12, <1>13, <3>1
  <2>2. CASE ~(i <= 1)
    <3>1. i - 1 \in 1 .. Len(ws)
      BY <1>4, <1>13, <2>2
    <3> QED
      <4>1. pfda'[i] = pfd[i - 1]
        BY <1>12, <1>13, <2>2
      <4>2. pfd[i - 1].revents = {}
        BY <1>11, <3>1
      <4> QED
        BY <4>1, <4>2
  <2> QED
    BY <2>1, <2>2
<1>16. ASSUME NEW w \in Watches
       PROVE  /\ watch'[w] \in PollFDSources /\ watch'[w].fd = watch[w].fd
              /\ w \in ToSet(ss) => watch'[w].revents = {}
              /\ w \in ToSet(ss) /\ watch[w].fd # NoFd => watch'[w].idx = 1 + place(w)
  <2>1. watch[w] \in PollFDSources /\ watch[w].idx \in Nat
    BY DEF SourcesTypeOK, PollFDSources
  <2>2. CASE w \notin ToSet(ss)
    BY <1>1, <2>1, <2>2
  <2>3. CASE w \in ToSet(ss)
    <3>1. watch'[w] = [watch[w] EXCEPT !.revents = {},
                            !.idx = IF Pollable(w) THEN 1 + place(w) ELSE watch[w].idx]
      BY <1>1, <2>3
    <3>2. (IF Pollable(w) THEN 1 + place(w) ELSE watch[w].idx) \in Nat
      BY <1>4, <1>5, <1>7, <2>1, <2>3
    <3> QED
      BY <2>1, <2>3, <3>1, <3>2 DEF PollFDSources, Pollable
  <2> QED
    BY <2>2, <2>3
<1>17. watch' \in [Watches -> PollFDSources]
  BY <1>1, <1>16
<1>18. timer' \in [Timers -> [expiration : 0..(MaxClock + Period), first : BOOLEAN, oneshot : BOOLEAN]]
  <2>1. \A t \in Timers : Clamped(t) \in 0..(MaxClock + Period)
    BY ConstantsAre DEF Clamped, Period, SourcesTypeOK
  <2> QED
    BY <1>1, <2>1 DEF SourcesTypeOK
<1>19. timeout' \in Nat
  <2>1. PollTimeout(ss) \in Nat
    <3> DEFINE soon == {Clamped(t) - clock : t \in {t \in Timers \cap ToSet(ss) : ~Expired(t)}}
               usecs == IF soon = {} THEN Forever * Msec ELSE Min(soon)
    <3>1. soon \subseteq Nat
      <4>1. ASSUME NEW t \in Timers, ~Expired(t)
            PROVE  Clamped(t) - clock \in Nat
        BY <4>1, ConstantsAre DEF Clamped, Period, SourcesTypeOK, Expired
      <4> QED
        BY <4>1
    <3>2. usecs \in Nat
      <4>1. Forever * Msec \in Nat
        BY ConstantsAre DEF Forever
      <4> HIDE DEF soon
      <4>2. soon # {} => Min(soon) \in soon
        BY <3>1, LeastOf DEF Min
      <4> QED
        BY <3>1, <4>1, <4>2
    <3>3. PollTimeout(ss) = IF usecs \div Msec = 0 THEN 1 ELSE usecs \div Msec
      BY DEF PollTimeout
    <3> HIDE DEF usecs
    <3>4. \A n \in Nat, m \in Nat \ {0} : n \div m \in Nat
      OBVIOUS
    <3> QED
      BY <3>2, <3>3, <3>4, ConstantsAre
  <2> QED
    BY <1>1, <2>1
<1>20. SourcesTypeOK'
  BY <1>1, <1>2, <1>12, <1>17, <1>18, <1>19 DEF SourcesTypeOK
<1>21. FdsOwned'
  BY <1>1, <1>16 DEF WatchInv, FdsOwned, SourcesTypeOK
<1>22. ASSUME NEW w \in ToSet(ss) \cap Watches
       PROVE  /\ watch'[w].revents = {}
              /\ watch'[w].fd # NoFd => /\ watch'[w].idx \in DOMAIN pfda'
                                 /\ pfda'[watch'[w].idx].of = w /\ pfda'[watch'[w].idx].fd = watch'[w].fd
  <2>1. watch'[w].revents = {}
    BY <1>16
  <2>2. ASSUME watch'[w].fd # NoFd
        PROVE  /\ watch'[w].idx \in DOMAIN pfda'
               /\ pfda'[watch'[w].idx].of = w /\ pfda'[watch'[w].idx].fd = watch'[w].fd
    <3>1. watch'[w].idx = 1 + place(w) /\ w \in ToSet(ws) /\ watch'[w].fd = watch[w].fd
      BY <1>5, <1>16, <2>2 DEF Pollable
    <3>2. place(w) \in 1 .. Len(ws) /\ ws[place(w)] = w
      BY <1>7, <3>1
    <3>3. pfda'[1 + place(w)] = pfd[place(w)] /\ 1 + place(w) \in DOMAIN pfda'
      BY <1>14, <3>2
    <3> QED
      <4>1. pfd[place(w)].of = w /\ pfd[place(w)].fd = watch[w].fd
        BY <1>11, <3>2
      <4> QED
        BY <3>1, <3>3, <4>1
  <2> QED
    BY <2>1, <2>2
<1>23. PollFDsKnown'
  BY <1>1, <1>15, <1>22 DEF PollFDsKnown
<1> QED
  BY <1>20, <1>21, <1>23 DEF WatchInv

-----------------------------------------------------------------------------
\* The source that dispatch() picks was polled and is still in the loop.
LEMMA ChosenIsReady ==
  ASSUME SourcesTypeOK, DispatchSource
  PROVE  Chosen \in ToSet(pollSources) /\ Chosen \in Sources /\ Due(Chosen)
<1> DEFINE S == {i \in 1..Len(pollSources) : Due(pollSources[i])}
<1>1. Len(pollSources) \in Nat /\ DOMAIN pollSources = 1 .. Len(pollSources) /\ \A i \in DOMAIN pollSources : pollSources[i] \in Sources
  BY LenProperties, ElementOfSeq DEF SourcesTypeOK
<1>2. S \in SUBSET Nat /\ S # {}
  BY <1>1 DEF DispatchSource, ToSet
<1>3. Min(S) \in S
  <2> HIDE DEF S
  <2> QED
    BY <1>2, LeastOf DEF Min
<1>4. Chosen = pollSources[Min(S)]
  BY DEF Chosen
<1> HIDE DEF Chosen
<1>5. \A i \in S : i \in DOMAIN pollSources /\ Due(pollSources[i])
  BY <1>1
<1> QED
  BY <1>1, <1>3, <1>4, <1>5 DEF ToSet

\* A slot starts.
LEMMA StartSlotWatches ==
  ASSUME LoopSourcesAssumption, SourcesTypeOK, WatchInv, stage = "dispatch",
         NEW s \in Sources, s \in ToSet(pollSources), StartSlot(s)
  PROVE  SourcesTypeOK' /\ WatchInv'
<1>1. /\ loopState' = [loopState EXCEPT ![s] = "WAITING"]
      /\ timer' = [t \in Timers |-> IF t = s THEN [timer[t] EXCEPT !.first = FALSE] ELSE timer[t]]
      /\ stage' = "slot" /\ slotSource' = s
      /\ UNCHANGED <<clock, inLoop, pfda, timeout, watch, opened, misclosed, waited, pollSources>>
  BY DEF StartSlot, fds
<1>2. timer' \in [Timers -> [expiration : 0..(MaxClock + Period), first : BOOLEAN, oneshot : BOOLEAN]]
  BY <1>1 DEF SourcesTypeOK
<1>3. SourcesTypeOK'
  BY <1>1, <1>2 DEF SourcesTypeOK
<1>4. PollFDsKnown'
  BY <1>1 DEF WatchInv, PollFDsKnown
<1> QED
  BY <1>1, <1>3, <1>4 DEF WatchInv, FdsOwned

\* With nothing polled there is nothing to know.
LEMMA FinishWatches ==
  ASSUME Finish
  PROVE  PollFDsKnown' /\ stage' = "idle" /\ pollSources' \in Seq(Sources) /\ pfda' \in Seq(PollFDs) /\ timeout' \in Nat
<1>1. stage' = "idle" /\ pollSources' = <<>> /\ pfda' = <<>> /\ timeout' = 0
  BY DEF Finish
<1>2. DOMAIN pfda' = {}
  BY <1>1
<1> QED
  BY <1>1, <1>2, EmptySeq DEF PollFDsKnown

\* A watch ends on errors or hangups.
LEMMA EndWatchWatches ==
  ASSUME LoopSourcesAssumption, SourcesTypeOK, WatchInv, NEW s \in Sources, EndWatch(s)
  PROVE  SourcesTypeOK' /\ WatchInv'
<1>1. /\ s \in Watches /\ loopState' = [loopState EXCEPT ![s] = "WAITING"]
      /\ CloseDown(s) /\ LeaveLoop(s) /\ Finish
      /\ UNCHANGED <<clock, timer, slotSource, waited>>
  BY DEF EndWatch
<1>2. Destroy(s)
  BY <1>1 DEF Destroy
<1>3. SourcesTypeOK'
  BY <1>1, <1>2, Leaves, FinishWatches DEF SourcesTypeOK, WatchInv
<1> QED
  BY <1>1, <1>2, <1>3, Leaves, FinishWatches DEF WatchInv

\* Either of them.
LEMMA DispatchWatches ==
  ASSUME LoopSourcesAssumption, SourcesTypeOK, WatchInv, DispatchSource
  PROVE  SourcesTypeOK' /\ WatchInv'
<1>1. stage = "dispatch" /\ (StartSlot(Chosen) \/ EndWatch(Chosen))
  BY DEF DispatchSource
<1> QED
  BY <1>1, ChosenIsReady, StartSlotWatches, EndWatchWatches

\* Nothing is ready.
LEMMA DispatchNothingWatches ==
  ASSUME LoopSourcesAssumption, SourcesTypeOK, WatchInv, DispatchNone
  PROVE  SourcesTypeOK' /\ WatchInv'
<1>1. Finish /\ UNCHANGED <<clock, timer, inLoop, loopState, slotSource, watch, opened, misclosed, waited>>
  BY DEF DispatchNone, fds
<1>2. SourcesTypeOK'
  BY <1>1, FinishWatches DEF SourcesTypeOK
<1> QED
  BY <1>1, <1>2, FinishWatches DEF WatchInv, FdsOwned

\* A slot returns, and its source stays or goes.
LEMMA SlotReturnsWatches ==
  ASSUME LoopSourcesAssumption, SourcesTypeOK, WatchInv, NEW again \in BOOLEAN, SlotReturns(again)
  PROVE  SourcesTypeOK' /\ WatchInv'
<1> DEFINE s == slotSource
<1>1. /\ stage = "slot" /\ Finish /\ UNCHANGED <<clock, loopState>>
      /\ IF Keeps(s, again) THEN UNCHANGED <<inLoop, watch, opened, misclosed>> ELSE LeaveLoop(s) /\ Destroy(s)
      /\ timer' = [t \in Timers |-> IF t = s /\ Keeps(s, again)
                     THEN [timer[t] EXCEPT !.expiration = clock + Interval * Msec]
                   ELSE IF t = s THEN NoTimer ELSE timer[t]]
      /\ waited' = [t \in Timers |-> IF t = s THEN 0 ELSE waited[t]]
  BY DEF SlotReturns, fds
<1>2. s \in Sources
  BY <1>1, Elements DEF WatchInv, PollFDsKnown, SourcesTypeOK
<1>3. timer' \in [Timers -> [expiration : 0..(MaxClock + Period), first : BOOLEAN, oneshot : BOOLEAN]]
  <2>1. clock + Interval * Msec \in 0..(MaxClock + Period) /\ 0 \in 0..(MaxClock + Period)
    BY ConstantsAre DEF SourcesTypeOK, Period
  <2> QED
    BY <1>1, <2>1 DEF SourcesTypeOK, NoTimer
<1>4. waited' \in [Timers -> Nat]
  BY <1>1 DEF SourcesTypeOK
<1>5. /\ inLoop' \in Seq(Sources) /\ FdsOwned'
      /\ watch' \in [Watches -> PollFDSources] /\ opened' \in [Fds -> Watches \cup {Nobody, "user"}]
  <2>1. CASE Keeps(s, again)
    <3>1. UNCHANGED <<inLoop, watch, opened, misclosed>>
      BY <1>1, <2>1
    <3> QED
      BY <3>1 DEF SourcesTypeOK, WatchInv, FdsOwned
  <2>2. CASE ~Keeps(s, again)
    BY <1>1, <1>2, <2>2, Leaves DEF WatchInv
  <2> QED
    BY <2>1, <2>2
<1>6. SourcesTypeOK'
  BY <1>1, <1>3, <1>4, <1>5, FinishWatches DEF SourcesTypeOK
<1> QED
  BY <1>1, <1>5, <1>6, FinishWatches DEF WatchInv

-----------------------------------------------------------------------------
\* At the start the loop is empty.
LEMMA SourcesStart ==
  ASSUME LoopSourcesAssumption, SourcesInit
  PROVE  SourcesTypeOK /\ WatchInv
<1>1. /\ clock = 0
      /\ timer = [t \in Timers |-> NoTimer] /\ watch = [w \in Watches |-> NoWatch]
      /\ inLoop = <<>> /\ loopState = [s \in Sources |-> "WAITING"]
      /\ pollSources = <<>> /\ pfda = <<>> /\ timeout = 0
      /\ stage = "idle" /\ opened = [f \in Fds |-> Nobody]
      /\ waited = [t \in Timers |-> 0] /\ misclosed = FALSE
  BY DEF SourcesInit
<1>2. watch \in [Watches -> PollFDSources] /\ \A w \in Watches : watch[w].fd = NoFd
  BY <1>1 DEF NoWatch, PollFDSources, NoIndex
<1>3. timer \in [Timers -> [expiration : 0..(MaxClock + Period), first : BOOLEAN, oneshot : BOOLEAN]]
  <2>1. 0 \in 0..(MaxClock + Period) /\ 0 \in 0..MaxClock
    BY ConstantsAre
  <2> QED
    BY <1>1, <2>1 DEF NoTimer
<1>4. SourcesTypeOK
  <2>1. 0 \in 0..MaxClock
    BY ConstantsAre
  <2> QED
    BY <1>1, <1>2, <1>3, <2>1, EmptySeq DEF SourcesTypeOK
<1>5. \A f \in Fds : opened[f] \notin Watches
  BY <1>1, ConstantsAre DEF Sources
<1>6. DOMAIN pfda = {}
  BY <1>1
<1> QED
  BY <1>1, <1>2, <1>4, <1>5, <1>6 DEF WatchInv, FdsOwned, PollFDsKnown

\* No step breaks it.
LEMMA WatchesStay ==
  ASSUME LoopSourcesAssumption, SourcesTypeOK, WatchInv, [SourcesNext]_servedVars
  PROVE  SourcesTypeOK' /\ WatchInv'
<1>1. CASE UNCHANGED servedVars
  BY <1>1 DEF servedVars, SourcesTypeOK, WatchInv, FdsOwned, PollFDsKnown
<1>2. CASE SourcesNext
  BY <1>2, AddTimerWatches, AddWatchWatches, RemoveSourceWatches, SlotTakesFdWatches, UserClosesWatches,
     PrepareWatches, ClockWatches, PollWatches, CheckWatches, DispatchWatches, DispatchNothingWatches,
     SlotReturnsWatches DEF SourcesNext
<1> QED
  BY <1>1, <1>2

\* The descriptors that the sources hold are theirs, and the events they see.
LEMMA SafeDescriptors ==
  ASSUME SourcesTypeOK, WatchInv
  PROVE  DescriptorsAreSafe
<1>1. DOMAIN pfda = 1 .. Len(pfda)
  BY LenProperties DEF SourcesTypeOK
<1> QED
  BY <1>1 DEF WatchInv, FdsOwned, PollFDsKnown, DescriptorsAreSafe, SourcesTypeOK

(* Whatever is added, removed and closed at whatever moment, a watch closes only  *)
(* its own descriptor, and events reach a slot from its own PollFD.               *)
THEOREM DescriptorsStaySafe ==
  ASSUME LoopSourcesAssumption
  PROVE  SourcesSpec => [](WatchInv /\ DescriptorsAreSafe)
<1>1. SourcesInit => SourcesTypeOK /\ WatchInv
  BY SourcesStart
<1>2. SourcesTypeOK /\ WatchInv /\ [SourcesNext]_servedVars => (SourcesTypeOK /\ WatchInv)'
  BY WatchesStay
<1>3. SourcesTypeOK /\ WatchInv => DescriptorsAreSafe
  BY SafeDescriptors
<1> QED
  BY <1>1, <1>2, <1>3, PTL DEF SourcesSpec

\* Milliseconds and microseconds: a timeout is rounded down.
LEMMA RoundsDown ==
  ASSUME NEW n \in Nat, NEW m \in Nat \ {0}
  PROVE  n \div m \in Nat /\ (n \div m) * m \in Nat /\ (n \div m) * m <= n
<1>1. n \div m \in Nat /\ n = (m * (n \div m)) + (n % m) /\ n % m \in 0 .. (m - 1)
  <2>1. n \div m \in Nat
    OBVIOUS
  <2>2. n = (m * (n \div m)) + (n % m)
    OBVIOUS
  <2>3. n % m \in 0 .. (m - 1)
    BY Division
  <2> QED
    BY <2>1, <2>2, <2>3
<1> DEFINE q == n \div m
           r == n % m
<1>2. q * m = m * q /\ m * q \in Nat
  BY <1>1
<1> HIDE DEF q, r
<1>3. n = m * q + r /\ r \in Nat
  BY <1>1 DEF q, r
<1> QED
  BY <1>1, <1>2, <1>3 DEF q

\* Products with a positive number compare like the numbers.
LEMMA FewerMilliseconds ==
  ASSUME NEW a \in Nat, NEW b \in Nat, NEW m \in Nat \ {0}, a * m <= b * m
  PROVE  a <= b
<1> SUFFICES ASSUME a >= b + 1 PROVE FALSE
  OBVIOUS
<1>1. a * m >= (b + 1) * m
  <2>1. PICK k \in Nat : a = (b + 1) + k
    <3>1. a = (b + 1) + (a - (b + 1)) /\ a - (b + 1) \in Nat
      OBVIOUS
    <3> QED
      BY <3>1
  <2>2. ((b + 1) + k) * m = (b + 1) * m + k * m /\ k * m \in Nat /\ (b + 1) * m \in Nat
    OBVIOUS
  <2> QED
    BY <2>1, <2>2
<1>2. (b + 1) * m = b * m + m /\ b * m \in Nat
  OBVIOUS
<1> QED
  BY <1>1, <1>2

\* What is waited and left of a timer are numbers.
LEMMA TimerNumbers ==
  ASSUME SourcesTypeOK, LoopSourcesAssumption
  PROVE  /\ clock \in Nat /\ timeout \in Nat /\ timeout * Msec \in Nat /\ SitsFor \in Nat
         /\ \A t \in Timers : /\ waited[t] \in Nat /\ Left(t) \in Int /\ timer[t].expiration \in 0 .. (MaxClock + Period)
                              /\ timer[t].first \in BOOLEAN
         /\ Period \in Nat /\ Msec \in Nat
<1>1. clock \in Nat /\ timeout \in Nat /\ timeout * Msec \in Nat /\ Period \in Nat /\ Msec \in Nat
  BY ConstantsAre DEF SourcesTypeOK
<1>2. \A t \in Timers : /\ waited[t] \in Nat /\ timer[t].expiration \in 0 .. (MaxClock + Period)
                        /\ timer[t].first \in BOOLEAN
  BY DEF SourcesTypeOK
<1>3. \A t \in Timers : timer[t].expiration \in Int
  BY <1>1, <1>2, ConstantsAre
<1> QED
  BY <1>1, <1>2, <1>3 DEF Left, SitsFor

\* Out of poll(2) a timer keeps its bound, or starts anew.
LEMMA NotPolling ==
  ASSUME LoopSourcesAssumption, SourcesTypeOK, SourcesTypeOK', TimersBound, stage' # "poll", clock' = clock,
         \A t \in Repeating' : \/ waited'[t] = 0
                               \/ /\ t \in Repeating /\ waited'[t] = waited[t]
                                  /\ timer'[t].expiration = timer[t].expiration
  PROVE  TimerInv'
<1>1. SitsFor' = 0 /\ TimeoutBound'
  BY DEF SitsFor, TimeoutBound
<1>2. ASSUME NEW t \in Repeating'
      PROVE  /\ waited'[t] + (IF Left(t)' < Period THEN Left(t)' ELSE Period) <= 2 * Period
             /\ Left(t)' > Period => waited'[t] + 0 <= Period
  <2>1. t \in Timers
    BY DEF Repeating
  <2>2. Left(t)' \in Int /\ Left(t)' = timer'[t].expiration - clock'
    BY <2>1, ConstantsAre DEF SourcesTypeOK, Left
  <2>3. CASE waited'[t] = 0
    BY <2>2, <2>3, TimerNumbers
  <2>4. CASE /\ t \in Repeating /\ waited'[t] = waited[t]
             /\ timer'[t].expiration = timer[t].expiration
    <3>1. Left(t)' = Left(t)
      BY <2>2, <2>4 DEF Left
    <3>2. /\ waited[t] + (IF Left(t) < Period THEN Left(t) ELSE Period) <= 2 * Period
          /\ Left(t) > Period => waited[t] + SitsFor <= Period
      BY <2>4 DEF TimersBound
    <3> QED
      BY <2>1, <2>4, <3>1, <3>2, TimerNumbers
  <2> QED
    BY <1>2, <2>3, <2>4
<1> QED
  BY <1>1, <1>2 DEF TimerInv, TimersBound

\* Nothing that a timer goes by changes.
LEMMA TimersStay ==
  ASSUME TimerInv, UNCHANGED <<clock, timer, timeout, stage, slotSource, waited>>,
         Timers \cap ToSet(inLoop') \subseteq ToSet(inLoop)
  PROVE  TimerInv'
<1>1. Repeating' \subseteq Repeating /\ Timers \cap ToSet(inLoop') \subseteq Timers \cap ToSet(inLoop)
  BY DEF Repeating
<1>2. SitsFor' = SitsFor /\ \A t : Left(t)' = Left(t)
  BY DEF SitsFor, Left
<1>3. \A t \in Repeating' : t \in Repeating /\ (t \in Repeating => t \in Timers \cap ToSet(inLoop))
  BY <1>1 DEF Repeating
<1>4. TimersBound'
  BY <1>2, <1>3 DEF TimerInv, TimersBound
<1>5. \A t \in Timers \cap ToSet(inLoop') : t \in Repeating' => t \in Repeating
  BY <1>1
<1>6. TimeoutBound'
  <2> SUFFICES ASSUME stage' = "poll", timeout' > 0, NEW t \in Timers \cap ToSet(inLoop')
               PROVE  /\ timeout' < Forever
                      /\ t \in Repeating' => timeout' * Msec <= Period /\ waited'[t] + timeout' * Msec <= 2 * Period + Msec
    BY DEF TimeoutBound
  <2>1. stage = "poll" /\ timeout > 0 /\ t \in Timers \cap ToSet(inLoop)
    BY <1>1
  <2>2. /\ timeout < Forever
        /\ t \in Repeating => timeout * Msec <= Period /\ waited[t] + timeout * Msec <= 2 * Period + Msec
    BY <2>1 DEF TimerInv, TimeoutBound
  <2> QED
    BY <1>5, <2>2
<1> QED
  BY <1>4, <1>6 DEF TimerInv

\* The timers of prepare(): what the clamped expiration and poll(2)'s timeout are.
LEMMA Clamps ==
  ASSUME LoopSourcesAssumption, SourcesTypeOK, NEW t \in Timers
  PROVE  /\ Clamped(t) \in 0 .. (MaxClock + Period) /\ Clamped(t) <= timer[t].expiration
         /\ ~timer[t].first => Clamped(t) <= clock + Period
<1>1. /\ clock \in 0 .. MaxClock /\ Period \in Nat /\ MaxClock \in Nat
      /\ timer[t].expiration \in 0 .. (MaxClock + Period)
  BY ConstantsAre DEF SourcesTypeOK
<1>2. Clamped(t) = IF ~timer[t].first /\ clock + Period < timer[t].expiration THEN clock + Period ELSE timer[t].expiration
  BY DEF Clamped, Period
<1> QED
  BY <1>1, <1>2

\* The timeout is less than Forever, and at most the time left to any timer, or
\* one millisecond.
LEMMA Timeouts ==
  ASSUME LoopSourcesAssumption, SourcesTypeOK, NEW ss, NEW t \in Timers, t \in ToSet(ss),
         \A u \in Timers \cap ToSet(ss) : ~Expired(u)
  PROVE  /\ Clamped(t) - clock \in Nat
         /\ PollTimeout(ss) \in Nat /\ PollTimeout(ss) < Forever
         /\ \/ PollTimeout(ss) * Msec <= Clamped(t) - clock
            \/ PollTimeout(ss) * Msec = Msec
<1> DEFINE soon == {Clamped(u) - clock : u \in {u \in Timers \cap ToSet(ss) : ~Expired(u)}}
           usecs == IF soon = {} THEN Forever * Msec ELSE Min(soon)
<1>1. \A u \in Timers \cap ToSet(ss) : Clamped(u) - clock \in 0 .. (MaxClock + Period)
  <2> TAKE u \in Timers \cap ToSet(ss)
  <2>1. ~(clock >= timer[u].expiration) /\ timer[u].expiration \in 0 .. (MaxClock + Period) /\ clock \in 0 .. MaxClock
    BY DEF Expired, SourcesTypeOK
  <2>2. Clamped(u) \in 0 .. (MaxClock + Period) /\ (Clamped(u) = timer[u].expiration \/ Clamped(u) = clock + Period)
    BY Clamps DEF Clamped, Period
  <2> QED
    BY <2>1, <2>2, ConstantsAre
<1>2. Clamped(t) - clock \in soon /\ soon \in SUBSET Nat /\ \A n \in soon : n \in 0 .. (MaxClock + Period)
  <2>1. \A n \in soon : n \in 0 .. (MaxClock + Period)
    BY <1>1
  <2>2. \A n \in 0 .. (MaxClock + Period) : n \in Nat
    BY ConstantsAre
  <2> QED
    BY <2>1, <2>2
<1>3. usecs \in soon /\ usecs <= Clamped(t) - clock
  <2> HIDE DEF soon
  <2>1. usecs = Min(soon)
    BY <1>2
  <2>2. PICK m \in soon : \A k \in soon : m <= k
    BY <1>2, LeastOf
  <2>3. Min(soon) \in soon /\ \A k \in soon : Min(soon) <= k
    BY <2>2 DEF Min
  <2> QED
    BY <1>2, <2>1, <2>3
<1>4. PollTimeout(ss) = IF usecs \div Msec = 0 THEN 1 ELSE usecs \div Msec
  BY DEF PollTimeout
<1> HIDE DEF soon, usecs
<1>5. usecs \in Nat /\ usecs <= MaxClock + Period /\ Clamped(t) - clock \in Nat
  <2>1. usecs \in Nat /\ usecs \in 0 .. (MaxClock + Period) /\ Clamped(t) - clock \in Nat
    BY <1>2, <1>3
  <2> QED
    BY <2>1, ConstantsAre
<1>6. usecs \div Msec \in Nat /\ (usecs \div Msec) * Msec \in Nat /\ (usecs \div Msec) * Msec <= usecs
  BY <1>5, RoundsDown, ConstantsAre
<1>7. (MaxClock + Interval) * Msec \in Nat /\ MaxClock + Period <= (MaxClock + Interval) * Msec
  <2>1. \A a, b \in Nat, m \in Nat \ {0} : (a + b) * m = a * m + b * m /\ (a + b) * m \in Nat /\ a * m >= a
    OBVIOUS
  <2>2. (MaxClock + Interval) * Msec = MaxClock * Msec + Interval * Msec /\ MaxClock * Msec >= MaxClock /\ MaxClock * Msec \in Nat
        /\ (MaxClock + Interval) * Msec \in Nat
    BY <2>1, ConstantsAre
  <2> QED
    BY <2>2, ConstantsAre DEF Period
<1>8. usecs \div Msec <= MaxClock + Interval
  <2>1. (usecs \div Msec) * Msec <= (MaxClock + Interval) * Msec
    BY <1>5, <1>6, <1>7, ConstantsAre
  <2> DEFINE q == usecs \div Msec
             b == MaxClock + Interval
  <2>2. q \in Nat /\ b \in Nat /\ q * Msec <= b * Msec
    BY <1>6, <2>1, ConstantsAre
  <2> HIDE DEF q, b
  <2>3. q <= b
    BY <2>2, FewerMilliseconds, ConstantsAre
  <2> QED
    BY <2>3 DEF q, b
<1>9. PollTimeout(ss) \in Nat /\ PollTimeout(ss) < Forever
  BY <1>4, <1>6, <1>8, ConstantsAre DEF Forever
<1>10. CASE usecs \div Msec = 0
  <2>1. PollTimeout(ss) * Msec = Msec
    BY <1>4, <1>10, ConstantsAre
  <2> QED
    BY <1>5, <1>9, <2>1
<1>11. CASE usecs \div Msec # 0
  <2>1. PollTimeout(ss) * Msec <= Clamped(t) - clock
    BY <1>3, <1>4, <1>5, <1>6, <1>11
  <2> QED
    BY <1>5, <1>9, <2>1
<1> QED
  BY <1>10, <1>11

\* prepare() clamps, and has poll(2) wait no longer than until the next timer.
LEMMA PrepareTimers ==
  ASSUME LoopSourcesAssumption, SourcesTypeOK, SourcesTypeOK', WatchInv, TimerInv, Prepare
  PROVE  TimerInv'
<1> DEFINE ss == SourcesToPoll
<1>1. /\ stage = "idle" /\ stage' = "poll" /\ pollSources' = ss
      /\ timer' = [t \in Timers |-> IF t \in ToSet(ss) /\ ~Expired(t)
                    THEN [timer[t] EXCEPT !.expiration = Clamped(t)] ELSE timer[t]]
      /\ timeout' = (IF MustNotBlock(ss) THEN 0 ELSE PollTimeout(ss))
      /\ UNCHANGED <<clock, inLoop, slotSource, waited>>
  BY DEF Prepare
<1>2. \A t \in Timers : t \in ToSet(inLoop) /\ t \notin ToSet(ss) => Waiting # {}
  BY DEF SourcesToPoll
<1> HIDE DEF ss
<1>3. ASSUME NEW t \in Timers
      PROVE  /\ timer'[t].first = timer[t].first
             /\ timer'[t].expiration = IF t \in ToSet(ss) /\ ~Expired(t) THEN Clamped(t) ELSE timer[t].expiration
  BY <1>1 DEF SourcesTypeOK
<1>4. \A t \in Repeating' : t \in Repeating /\ t \in Timers /\ t \in ToSet(inLoop) /\ ~timer[t].first
  BY <1>1, <1>3 DEF Repeating
<1>5. ASSUME NEW t \in Repeating'
      PROVE  /\ waited'[t] + (IF Left(t)' < Period THEN Left(t)' ELSE Period) <= 2 * Period
             /\ Left(t)' > Period => waited'[t] + SitsFor' <= Period
  <2>1. t \in Timers /\ t \in Repeating /\ t \in ToSet(inLoop) /\ ~timer[t].first
    BY <1>4
  <2>2. /\ waited[t] + (IF Left(t) < Period THEN Left(t) ELSE Period) <= 2 * Period
        /\ Left(t) > Period => waited[t] + SitsFor <= Period
    BY <2>1 DEF TimerInv, TimersBound
  <2>3. /\ waited[t] \in Nat /\ Left(t) \in Int /\ Left(t)' \in Int /\ Period \in Nat /\ SitsFor = 0
        /\ waited'[t] = waited[t]
    <3>1. timer'[t].expiration \in 0 .. (MaxClock + Period) /\ clock' \in 0 .. MaxClock
      BY <2>1 DEF SourcesTypeOK
    <3>2. Left(t)' \in Int
      BY <3>1, ConstantsAre DEF Left
    <3> QED
      BY <1>1, <2>1, <3>2, TimerNumbers DEF SitsFor
  <2>4. CASE t \in ToSet(ss) /\ ~Expired(t)
    <3>1. Left(t)' = Clamped(t) - clock
      BY <1>1, <1>3, <2>1, <2>4 DEF Left
    <3>2. Left(t)' <= Left(t) /\ Left(t)' <= Period
      BY <2>1, <3>1, Clamps, TimerNumbers, ConstantsAre DEF Left
    <3> QED
      BY <2>2, <2>3, <3>2
  <2>5. CASE t \in ToSet(ss) /\ Expired(t)
    <3>1. Left(t)' = Left(t)
      BY <1>1, <1>3, <2>1, <2>5 DEF Left
    <3>2. Left(t) <= 0
      BY <2>1, <2>5, TimerNumbers, ConstantsAre DEF Left, Expired
    <3> QED
      BY <2>2, <2>3, <3>1, <3>2
  <2>6. CASE t \notin ToSet(ss)
    <3>1. Left(t)' = Left(t)
      BY <1>1, <1>3, <2>1, <2>6 DEF Left
    <3>2. timeout' = 0
      BY <1>1, <1>2, <2>1, <2>6 DEF MustNotBlock
    <3>3. SitsFor' = 0
      BY <1>1, <3>2, ConstantsAre DEF SitsFor
    <3> QED
      BY <2>2, <2>3, <3>1, <3>3
  <2> QED
    BY <2>4, <2>5, <2>6
<1>6. ASSUME timeout' > 0, NEW t \in Timers \cap ToSet(inLoop)
      PROVE  /\ timeout' < Forever
             /\ t \in Repeating' => timeout' * Msec <= Period /\ waited'[t] + timeout' * Msec <= 2 * Period + Msec
  <2>1. ~MustNotBlock(ss) /\ timeout' = PollTimeout(ss)
    BY <1>1, <1>6
  <2>2. t \in ToSet(ss) /\ \A u \in Timers \cap ToSet(ss) : ~Expired(u)
    BY <1>2, <2>1 DEF MustNotBlock, PreparesReady
  <2>3. /\ Clamped(t) - clock \in Nat /\ timeout' \in Nat /\ timeout' < Forever
        /\ timeout' * Msec <= Clamped(t) - clock \/ timeout' * Msec = Msec
    BY <2>1, <2>2, Timeouts
  <2>4. ASSUME t \in Repeating'
        PROVE  timeout' * Msec <= Period /\ waited'[t] + timeout' * Msec <= 2 * Period + Msec
    <3>1. ~timer[t].first /\ t \in Repeating /\ waited'[t] = waited[t]
      BY <1>1, <1>4, <2>4
    <3>2. Clamped(t) - clock <= Period /\ Clamped(t) - clock <= Left(t)
      BY <2>3, <3>1, Clamps, TimerNumbers, ConstantsAre DEF Left
    <3>3. waited[t] + (IF Left(t) < Period THEN Left(t) ELSE Period) <= 2 * Period
      BY <3>1 DEF TimerInv, TimersBound
    <3>4. waited[t] \in Nat /\ Left(t) \in Int /\ Period \in Nat /\ Msec \in Nat /\ Period >= Msec /\ timeout' * Msec \in Nat
      BY <2>3, TimerNumbers, ConstantsAre
    <3>5. waited[t] + (Clamped(t) - clock) <= 2 * Period
      BY <2>3, <3>2, <3>3, <3>4
    <3> DEFINE clamped == Clamped(t) - clock
               sits == timeout' * Msec
    <3>6. clamped \in Nat /\ sits \in Nat /\ clamped <= Period /\ waited[t] + clamped <= 2 * Period /\ (sits <= clamped \/ sits = Msec)
      BY <2>3, <3>2, <3>4, <3>5
    <3> HIDE DEF clamped, sits
    <3>7. sits <= Period /\ waited[t] + sits <= 2 * Period + Msec
      BY <3>4, <3>6
    <3> QED
      BY <3>1, <3>7 DEF sits
  <2> QED
    BY <2>3, <2>4
<1> QED
  BY <1>1, <1>5, <1>6 DEF TimerInv, TimersBound, TimeoutBound

\* Time in poll(2) is taken off the timeout, off what is left, and is waited.
LEMMA ElapseTimers ==
  ASSUME LoopSourcesAssumption, SourcesTypeOK, SourcesTypeOK', TimerInv, NEW d \in 1..Interval * Msec, Elapse(d)
  PROVE  TimerInv'
<1>1. /\ UserRuns /\ (stage = "poll" => d <= timeout * Msec)
      /\ clock' = clock + d
      /\ timeout' = (IF stage = "poll" /\ timeout # Forever THEN (timeout * Msec - d) \div Msec ELSE timeout)
      /\ waited' = [t \in Timers |->
           IF stage = "slot" \/ timer[t].first \/ waited[t] > 2 * Interval * Msec THEN waited[t] ELSE waited[t] + d]
      /\ UNCHANGED <<timer, inLoop, stage, slotSource>>
  BY DEF Elapse
<1>2. d \in Nat /\ d > 0 /\ 2 * Interval * Msec = 2 * Period
  BY ConstantsAre DEF Period
<1>3. Repeating' = Repeating /\ \A t \in Repeating : t \in Timers /\ ~timer[t].first /\ t \in ToSet(inLoop)
  BY <1>1 DEF Repeating
<1>4. \A t \in Timers : Left(t)' = Left(t) - d /\ Left(t) \in Int /\ waited[t] \in Nat
  BY <1>1, <1>2, TimerNumbers DEF Left, SourcesTypeOK
<1>5. Period \in Nat /\ Msec \in Nat /\ timeout * Msec \in Nat /\ timeout \in Nat /\ Period >= Msec /\ timeout' \in Nat
  BY ConstantsAre, TimerNumbers DEF SourcesTypeOK
<1>6. CASE stage # "poll"
  <2>1. stage' # "poll" /\ SitsFor' = 0 /\ SitsFor = 0 /\ stage = "slot"
    BY <1>1, <1>6 DEF SitsFor, UserRuns
  <2>2. ASSUME NEW t \in Repeating
        PROVE  /\ waited'[t] + (IF Left(t)' < Period THEN Left(t)' ELSE Period) <= 2 * Period
               /\ Left(t)' > Period => waited'[t] + 0 <= Period
    <3>1. /\ waited[t] + (IF Left(t) < Period THEN Left(t) ELSE Period) <= 2 * Period
          /\ Left(t) > Period => waited[t] + 0 <= Period
      BY <2>1 DEF TimerInv, TimersBound
    <3>2. waited'[t] = waited[t]
      BY <1>1, <1>3, <2>1
    <3> QED
      BY <1>2, <1>3, <1>4, <1>5, <3>1, <3>2
  <2> QED
    BY <1>3, <2>1, <2>2 DEF TimerInv, TimersBound, TimeoutBound
<1>7. CASE stage = "poll"
  <2> DEFINE sits == timeout * Msec
             rest == timeout' * Msec
  <2>1. timeout # Forever => rest \in Nat /\ rest <= sits - d
    <3>1. ASSUME timeout # Forever
          PROVE  rest \in Nat /\ rest <= sits - d
      <4>1. timeout' = (timeout * Msec - d) \div Msec /\ timeout * Msec - d \in Nat
        BY <1>1, <1>2, <1>5, <1>7, <3>1
      <4> QED
        BY <4>1, RoundsDown, ConstantsAre
    <3> QED
      BY <3>1
  <2>2. timeout = Forever => sits > Period
    <3>1. Forever * Msec = (MaxClock + 1) * Msec + Interval * Msec /\ (MaxClock + 1) * Msec >= Msec /\ (MaxClock + 1) * Msec \in Nat
      <4>1. \A a, b \in Nat, m \in Nat \ {0} : ((a + 1) + b) * m = (a + 1) * m + b * m /\ (a + 1) * m >= m /\ (a + 1) * m \in Nat
        OBVIOUS
      <4>2. Forever = (MaxClock + 1) + Interval
        BY ConstantsAre DEF Forever
      <4> QED
        BY <4>1, <4>2, ConstantsAre
    <3> QED
      BY <3>1, ConstantsAre DEF Period
  <2>3. sits \in Nat /\ d <= sits /\ SitsFor = sits /\ SitsFor' = rest
    BY <1>1, <1>5, <1>7 DEF SitsFor
  <2> HIDE DEF sits, rest
  <2>4. ASSUME NEW t \in Repeating
        PROVE  /\ waited'[t] + (IF Left(t)' < Period THEN Left(t)' ELSE Period) <= 2 * Period
               /\ Left(t)' > Period => waited'[t] + rest <= Period
    <3>1. /\ waited[t] + (IF Left(t) < Period THEN Left(t) ELSE Period) <= 2 * Period
          /\ Left(t) > Period => waited[t] + sits <= Period
      BY <2>3 DEF TimerInv, TimersBound
    <3>2. waited'[t] = IF waited[t] > 2 * Period THEN waited[t] ELSE waited[t] + d
      BY <1>1, <1>2, <1>3, <1>7
    <3>3. Left(t)' = Left(t) - d /\ Left(t) \in Int /\ waited[t] \in Nat
      BY <1>3, <1>4
    <3>4. Left(t) > Period => timeout # Forever
      BY <1>5, <2>2, <2>3, <3>1, <3>3
    <3>5. CASE Left(t) > Period
      <4>1. rest \in Nat /\ rest <= sits - d
        BY <2>1, <3>4, <3>5
      <4>2. waited[t] + sits <= Period /\ waited'[t] = waited[t] + d
        BY <1>5, <2>3, <3>1, <3>2, <3>3, <3>5
      <4>3. waited'[t] + rest <= Period /\ waited'[t] <= Period /\ waited'[t] \in Nat
        BY <1>2, <1>5, <2>3, <3>3, <4>1, <4>2
      <4> QED
        BY <1>2, <1>5, <3>3, <4>3
    <3>6. CASE ~(Left(t) > Period)
      <4>1. waited[t] + Left(t) <= 2 * Period
        BY <1>5, <3>1, <3>3, <3>6
      <4>2. Left(t)' < Period /\ ~(Left(t)' > Period)
        BY <1>2, <1>5, <3>3, <3>6
      <4>3. waited'[t] + Left(t)' <= 2 * Period
        BY <1>2, <1>5, <3>2, <3>3, <4>1
      <4> QED
        BY <4>2, <4>3
    <3> QED
      BY <3>5, <3>6
  <2>5. ASSUME timeout' > 0, NEW t \in Timers \cap ToSet(inLoop)
        PROVE  /\ timeout' < Forever
               /\ t \in Repeating => rest <= Period /\ waited'[t] + rest <= 2 * Period + Msec
    <3>1. timeout > 0
      <4>1. timeout = 0 => d <= 0
        BY <1>5, <2>3, ConstantsAre DEF sits
      <4> QED
        BY <1>2, <1>5, <4>1
    <3>2. /\ timeout < Forever
          /\ t \in Repeating => sits <= Period /\ waited[t] + sits <= 2 * Period + Msec
      BY <1>7, <3>1 DEF TimerInv, TimeoutBound, sits
    <3>3. Forever \in Nat
      BY ConstantsAre DEF Forever
    <3>4. timeout # Forever /\ rest \in Nat /\ rest <= sits - d
      BY <1>5, <2>1, <3>2, <3>3
    <3>5. timeout' <= timeout
      <4>1. timeout' * Msec <= timeout * Msec
        <5>1. rest <= sits
          BY <1>2, <2>3, <3>4
        <5> QED
          BY <5>1 DEF rest, sits
      <4> QED
        BY <1>5, <4>1, FewerMilliseconds, ConstantsAre
    <3>6. ASSUME t \in Repeating
          PROVE  rest <= Period /\ waited'[t] + rest <= 2 * Period + Msec
      <4>1. waited'[t] <= waited[t] + d /\ waited'[t] \in Nat /\ waited[t] \in Nat
        <5>1. waited'[t] = waited[t] \/ waited'[t] = waited[t] + d
          BY <1>1, <1>7
        <5> QED
          BY <1>2, <1>4, <5>1
      <4> QED
        BY <1>2, <1>5, <2>3, <3>2, <3>4, <3>6, <4>1
    <3> QED
      BY <1>5, <3>2, <3>3, <3>5, <3>6
  <2>6. TimersBound'
    BY <1>3, <2>3, <2>4 DEF TimersBound
  <2>7. TimeoutBound'
    BY <1>1, <1>3, <2>5 DEF TimeoutBound, rest
  <2> QED
    BY <2>6, <2>7 DEF TimerInv
<1> QED
  BY <1>6, <1>7

\* If the clock is set forward less is left; set back, nothing counts as waited.
LEMMA SetClockTimers ==
  ASSUME LoopSourcesAssumption, SourcesTypeOK, SourcesTypeOK', TimerInv, NEW now \in 0..MaxClock, SetClock(now)
  PROVE  TimerInv'
<1>1. /\ now # clock /\ clock' = now
      /\ waited' = [t \in Timers |-> IF now < clock THEN 0 ELSE waited[t]]
      /\ UNCHANGED <<timer, inLoop, timeout, stage, slotSource>>
  BY DEF SetClock
<1>2. Repeating' = Repeating /\ \A t \in Repeating : t \in Timers /\ t \in ToSet(inLoop)
  BY <1>1 DEF Repeating
<1>3. now \in Nat /\ clock \in Nat /\ Period \in Nat /\ Msec \in Nat /\ SitsFor \in Nat /\ timeout * Msec \in Nat /\ timeout \in Nat
  BY TimerNumbers, ConstantsAre
<1>4. SitsFor' = SitsFor
  BY <1>1 DEF SitsFor
<1>5. \A t \in Timers : /\ waited[t] \in Nat /\ Left(t) \in Int /\ Left(t)' = (Left(t) + clock) - now
  BY <1>1, <1>3, TimerNumbers, ConstantsAre DEF Left
<1>6. ASSUME NEW t \in Repeating
      PROVE  SitsFor <= Period
  <2>1. CASE stage = "poll" /\ timeout > 0
    BY <1>2, <2>1 DEF TimerInv, TimeoutBound, SitsFor
  <2>2. CASE ~(stage = "poll" /\ timeout > 0)
    BY <1>3, <2>2, ConstantsAre DEF SitsFor
  <2> QED
    BY <2>1, <2>2
<1>7. ASSUME NEW t \in Repeating
      PROVE  /\ waited'[t] + (IF Left(t)' < Period THEN Left(t)' ELSE Period) <= 2 * Period
             /\ Left(t)' > Period => waited'[t] + SitsFor' <= Period
  <2>1. /\ waited[t] + (IF Left(t) < Period THEN Left(t) ELSE Period) <= 2 * Period
        /\ Left(t) > Period => waited[t] + SitsFor <= Period
    BY DEF TimerInv, TimersBound
  <2>2. waited'[t] = IF now < clock THEN 0 ELSE waited[t]
    BY <1>1, <1>2
  <2>3. waited[t] \in Nat /\ Left(t) \in Int /\ Left(t)' = (Left(t) + clock) - now
    BY <1>2, <1>5
  <2>4. CASE now < clock
    BY <1>3, <1>4, <1>6, <2>2, <2>3, <2>4
  <2>5. CASE ~(now < clock)
    <3>1. Left(t)' < Left(t) /\ Left(t)' \in Int /\ waited'[t] = waited[t]
      BY <1>1, <1>3, <2>2, <2>3, <2>5
    <3> QED
      BY <1>3, <1>4, <2>1, <2>3, <3>1
  <2> QED
    BY <2>4, <2>5
<1>8. TimeoutBound'
  <2> SUFFICES ASSUME stage' = "poll", timeout' > 0, NEW t \in Timers \cap ToSet(inLoop')
               PROVE  /\ timeout' < Forever
                      /\ t \in Repeating' => timeout' * Msec <= Period /\ waited'[t] + timeout' * Msec <= 2 * Period + Msec
    BY DEF TimeoutBound
  <2>1. /\ timeout < Forever
        /\ t \in Repeating => timeout * Msec <= Period /\ waited[t] + timeout * Msec <= 2 * Period + Msec
    BY <1>1 DEF TimerInv, TimeoutBound
  <2>2. waited'[t] <= waited[t] /\ waited'[t] \in Nat /\ waited[t] \in Nat
    BY <1>1, <1>5
  <2> QED
    BY <1>1, <1>2, <1>3, <2>1, <2>2
<1> QED
  BY <1>2, <1>7, <1>8 DEF TimerInv, TimersBound

-----------------------------------------------------------------------------
\* A new timer has not fired yet.
LEMMA AddTimerTimers ==
  ASSUME LoopSourcesAssumption, SourcesTypeOK, SourcesTypeOK', TimerInv, NEW t \in Timers, AddTimer(t)
  PROVE  TimerInv'
<1>1. /\ inLoop' = Append(inLoop, t) /\ stage # "poll"
      /\ UNCHANGED <<clock, stage, slotSource, waited>>
  BY DEF AddTimer, Join
<1>2. ToSet(inLoop') = ToSet(inLoop) \cup {t}
  <2>1. inLoop \in Seq(Sources) /\ t \in Sources
    BY DEF SourcesTypeOK, Sources
  <2> QED
    BY <1>1, <2>1, AppendElements
<1>3. timer'[t].first /\ \A u \in Timers : u # t => timer'[u] = timer[u]
  <2>1. PICK delay \in {0, Interval}, once \in BOOLEAN :
          timer' = [timer EXCEPT ![t] = [NoTimer EXCEPT !.expiration = clock + delay * Msec, !.oneshot = once]]
    BY DEF AddTimer
  <2> QED
    BY <2>1 DEF SourcesTypeOK, NoTimer
<1>4. \A u \in Repeating' : u \in Repeating /\ waited'[u] = waited[u] /\ timer'[u].expiration = timer[u].expiration
  BY <1>1, <1>2, <1>3 DEF Repeating
<1> QED
  BY <1>1, <1>4, NotPolling DEF TimerInv

\* Watches come and go, timers only go.
LEMMA WatchTimers ==
  ASSUME LoopSourcesAssumption, SourcesTypeOK, WatchInv, TimerInv,
         \/ \E w \in Watches : AddWatch(w)
         \/ \E s \in Sources : RemoveSource(s)
         \/ SlotTakesFd \/ \E f \in Fds : UserCloses(f)
  PROVE  TimerInv'
<1>1. UNCHANGED <<clock, timer, timeout, stage, slotSource, waited>>
  BY DEF AddWatch, RemoveSource, SlotTakesFd, UserCloses
<1>2. Timers \cap ToSet(inLoop') \subseteq ToSet(inLoop)
  <2>1. ASSUME NEW w \in Watches, AddWatch(w)
        PROVE  Timers \cap ToSet(inLoop') \subseteq ToSet(inLoop)
    <3>1. ToSet(inLoop') = ToSet(inLoop) \cup {w}
      <4>1. inLoop \in Seq(Sources) /\ w \in Sources /\ inLoop' = Append(inLoop, w)
        BY <2>1 DEF AddWatch, Join, SourcesTypeOK, Sources
      <4> QED
        BY <4>1, AppendElements
    <3> QED
      BY <3>1, ConstantsAre
  <2>2. ASSUME NEW s \in Sources, RemoveSource(s)
        PROVE  Timers \cap ToSet(inLoop') \subseteq ToSet(inLoop)
    BY <2>2, Leaving DEF RemoveSource, LeaveLoop, SourcesTypeOK
  <2>3. CASE SlotTakesFd \/ \E f \in Fds : UserCloses(f)
    BY <2>3 DEF SlotTakesFd, UserCloses
  <2> QED
    BY <2>1, <2>2, <2>3
<1> QED
  BY <1>1, <1>2, TimersStay

\* Steps that leave the timers alone.
LEMMA PollCheckTimers ==
  ASSUME LoopSourcesAssumption, SourcesTypeOK, SourcesTypeOK', WatchInv, TimerInv, Poll \/ Check \/ DispatchNone
  PROVE  TimerInv'
<1>1. /\ stage \in {"poll", "check", "dispatch"} /\ stage' \in {"check", "dispatch", "idle"}
      /\ UNCHANGED <<clock, timer, inLoop, slotSource, waited>>
  BY DEF Poll, Check, DispatchNone, Finish
<1>2. \A u \in Repeating' : u \in Repeating /\ waited'[u] = waited[u] /\ timer'[u].expiration = timer[u].expiration
  BY <1>1 DEF Repeating
<1> QED
  BY <1>1, <1>2, NotPolling DEF TimerInv

\* The timer of a slot that starts is not waited for.
LEMMA DispatchTimers ==
  ASSUME LoopSourcesAssumption, SourcesTypeOK, SourcesTypeOK', WatchInv, TimerInv, DispatchSource
  PROVE  TimerInv'
<1> DEFINE s == Chosen
<1>1. stage = "dispatch" /\ (StartSlot(s) \/ EndWatch(s)) /\ s \in Sources
  BY ChosenIsReady DEF DispatchSource
<1> HIDE DEF s
<1>2. CASE StartSlot(s)
  <2>1. /\ timer' = [t \in Timers |-> IF t = s THEN [timer[t] EXCEPT !.first = FALSE] ELSE timer[t]]
        /\ stage' = "slot" /\ slotSource' = s
        /\ UNCHANGED <<clock, inLoop, waited>>
    BY <1>2 DEF StartSlot
  <2>2. \A u \in Repeating' : u \in Repeating /\ waited'[u] = waited[u] /\ timer'[u].expiration = timer[u].expiration
    BY <1>1, <2>1 DEF Repeating
  <2> QED
    BY <2>1, <2>2, NotPolling DEF TimerInv
<1>3. CASE EndWatch(s)
  <2>1. /\ stage' = "idle" /\ LeaveLoop(s) /\ UNCHANGED <<clock, timer, slotSource, waited>>
    BY <1>3 DEF EndWatch, Finish
  <2>2. ToSet(inLoop') \subseteq ToSet(inLoop)
    BY <2>1, Leaving DEF LeaveLoop, SourcesTypeOK
  <2>3. \A u \in Repeating' : u \in Repeating /\ waited'[u] = waited[u] /\ timer'[u].expiration = timer[u].expiration
    BY <1>1, <2>1, <2>2 DEF Repeating
  <2> QED
    BY <2>1, <2>3, NotPolling DEF TimerInv
<1> QED
  BY <1>1, <1>2, <1>3

\* The timer of a slot that returns starts anew.
LEMMA SlotReturnsTimers ==
  ASSUME LoopSourcesAssumption, SourcesTypeOK, SourcesTypeOK', WatchInv, TimerInv,
         NEW again \in BOOLEAN, SlotReturns(again)
  PROVE  TimerInv'
<1>1. /\ stage = "slot" /\ stage' = "idle" /\ clock' = clock
      /\ timer' = [t \in Timers |-> IF t = slotSource /\ Keeps(slotSource, again)
                     THEN [timer[t] EXCEPT !.expiration = clock + Interval * Msec]
                   ELSE IF t = slotSource THEN NoTimer ELSE timer[t]]
      /\ waited' = [t \in Timers |-> IF t = slotSource THEN 0 ELSE waited[t]]
      /\ inLoop' = inLoop \/ LeaveLoop(slotSource)
  BY DEF SlotReturns, Finish
<1>2. ToSet(inLoop') \subseteq ToSet(inLoop)
  BY <1>1, Leaving DEF LeaveLoop, SourcesTypeOK
<1>3. \A u \in Repeating' : \/ waited'[u] = 0
                            \/ u \in Repeating /\ waited'[u] = waited[u] /\ timer'[u].expiration = timer[u].expiration
  BY <1>1, <1>2 DEF Repeating
<1> QED
  BY <1>1, <1>3, NotPolling DEF TimerInv

\* No step breaks it.
LEMMA TimersKeep ==
  ASSUME LoopSourcesAssumption, SourcesTypeOK, SourcesTypeOK', WatchInv, TimerInv, [SourcesNext]_servedVars
  PROVE  TimerInv'
<1>1. CASE UNCHANGED servedVars
  BY <1>1, TimersStay DEF servedVars
<1>2. CASE SourcesNext
  BY <1>2, AddTimerTimers, WatchTimers, PrepareTimers, ElapseTimers, SetClockTimers, PollCheckTimers,
     DispatchTimers, SlotReturnsTimers DEF SourcesNext
<1> QED
  BY <1>1, <1>2

\* Two periods and a millisecond, in milliseconds.
LEMMA InTime ==
  ASSUME LoopSourcesAssumption, SourcesTypeOK, TimerInv
  PROVE  TimersFireInTime
<1>1. (2 * Interval + 1) * Msec = 2 * Period + Msec
  <2>1. \A a \in Nat, m \in Nat : (2 * a + 1) * m = 2 * (a * m) + m
    OBVIOUS
  <2> QED
    BY <2>1, ConstantsAre DEF Period
<1>2. Forever \in Nat
  BY ConstantsAre DEF Forever
<1> SUFFICES ASSUME stage = "poll", timeout > 0, NEW t \in Timers \cap ToSet(inLoop)
             PROVE  /\ timeout # Forever
                    /\ ~timer[t].first => waited[t] + timeout * Msec <= (2 * Interval + 1) * Msec
  BY DEF TimersFireInTime
<1>3. /\ timeout < Forever
      /\ t \in Repeating => waited[t] + timeout * Msec <= 2 * Period + Msec
  BY DEF TimerInv, TimeoutBound
<1>4. ~timer[t].first => t \in Repeating
  BY DEF Repeating
<1> QED
  BY <1>1, <1>2, <1>3, <1>4

\* The inductive invariant: what the sources of a loop keep to.
SourcesInv == SourcesTypeOK /\ WatchInv /\ TimerInv

(* The sources of a loop are served: descriptors are safe, and poll(2) never sits *)
(* past a timer, however the clock is set: a timer that fired before fires again  *)
(* after two intervals of waiting and a millisecond at most.                      *)
THEOREM SourcesAreServedInTime ==
  ASSUME LoopSourcesAssumption
  PROVE  SourcesSpec => []SourcesAreServed
<1>1. SourcesInit => SourcesInv
  <2> SUFFICES ASSUME SourcesInit PROVE SourcesInv
    OBVIOUS
  <2>1. Repeating = {} /\ stage = "idle"
    <3>1. stage = "idle" /\ \A t \in Timers : timer[t].first
      BY DEF SourcesInit, NoTimer
    <3> QED
      BY <3>1 DEF Repeating
  <2> QED
    BY <2>1, SourcesStart DEF SourcesInv, TimerInv, TimersBound, TimeoutBound
<1>2. SourcesInv /\ [SourcesNext]_servedVars => SourcesInv'
  BY WatchesStay, TimersKeep DEF SourcesInv
<1>3. SourcesInv => SourcesAreServed
  BY SafeDescriptors, InTime DEF SourcesInv, SourcesAreServed
<1> QED
  BY <1>1, <1>2, <1>3, PTL DEF SourcesSpec
=============================================================================
