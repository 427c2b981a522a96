---------------------------- MODULE ThreadsProofs ----------------------------
(***************************************************************************)
(* Proofs about MCThreads, for all values of its constants: the commands   *)
(* of a window, whose emissions are those of Signal, and NothingIsLost,    *)
(* which holds of all specifications side by side.                         *)
(***************************************************************************)
EXTENDS MCThreads

-----------------------------------------------------------------------------
(* WindowCommands: asynchronous emissions.                                   *)

\* The emission of a command refers to its links like one of Signal.
UnderWay == IF emission = NoEmission THEN <<>>
            ELSE IF emission.links = <<>> THEN <<>>
            ELSE <<[links |-> emission.links, running |-> Method]>>

\* The proofs about Signal, for the signal of the window.
WindowSignal == INSTANCE SignalProofs WITH
  Address <- WindowLinks, MaxConnects <- WindowConnects, MaxDepth <- 0,
  heap <- cHeap, ring <- cRing, alive <- cAlive, frames <- UnderWay, ids <- cIds, count <- cCount

\* An emission under way.
Emission == [links : Seq(WindowLinks), current : Nat, future : {"none", "waiting", "handled", "refused"}]

\* Links that were passed were asked, or have no callback any more.
EmissionKnown ==
  \/ emission = NoEmission
  \/ /\ emission \in Emission
     /\ IsInjective(emission.links)
     /\ emission.current <= Len(emission.links)
     /\ emission.future # "none" => emission.current > 0
     /\ \A i \in 1 .. emission.current : cHeap[emission.links[i]].function \in asked \cup {NULL}

\* The inductive invariant of the commands.
CommandInv == WindowSignal!SignalInv /\ EmissionKnown

(* What Signal assumes of its constants. *)
LEMMA WindowAssumption ==
  ASSUME CommandsAssumption
  PROVE  /\ NULL \notin WindowLinks /\ WindowSignal!IsFiniteSet(WindowLinks) /\ NULL \notin Nat /\ WindowConnects \in Nat
         /\ 0 \in Nat
BY DEF CommandsAssumption, WindowSignal!IsFiniteSet, IsFiniteSet

(* Each operator of the window's signal is that of Signal. *)
LEMMA SameLists ==
  /\ \A h, a : Commands!Siblings(h, a) = WindowSignal!Siblings(h, a)
  /\ \A h, s : Commands!Incref(h, s) = WindowSignal!Incref(h, s)
  /\ \A h, s : Commands!Decref(h, s) = WindowSignal!Decref(h, s)
  /\ \A h, a : Commands!UnlinkAll(h, a) = WindowSignal!UnlinkAll(h, a)
  /\ \A h, a : Commands!Unlink(h, a) = WindowSignal!Unlink(h, a)
  /\ \A r, t : Commands!Without(r, t) = Without(r, t)
<1>1. \A h, a : Commands!Trail(h, a) = WindowSignal!Trail(h, a)
  BY DEF Commands!Trail, WindowSignal!Trail, Commands!Cardinality, WindowSignal!Cardinality
<1>2. \A h, a : Commands!Siblings(h, a) = WindowSignal!Siblings(h, a)
  BY DEF Commands!Siblings, WindowSignal!Siblings, Commands!Trail, WindowSignal!Trail,
     Commands!Cardinality, WindowSignal!Cardinality
<1>3. \A h, s : Commands!Incref(h, s) = WindowSignal!Incref(h, s)
  BY DEF Commands!Incref, WindowSignal!Incref
<1>4. \A h, s : Commands!Decref(h, s) = WindowSignal!Decref(h, s)
  BY DEF Commands!Decref, WindowSignal!Decref, Commands!Unused, WindowSignal!Unused
<1>5. \A h, a : Commands!UnlinkAll(h, a) = WindowSignal!UnlinkAll(h, a)
  BY <1>2, <1>4 DEF Commands!UnlinkAll, WindowSignal!UnlinkAll, Commands!Detached,
     WindowSignal!Detached, Commands!ToSet, WindowSignal!ToSet, Commands!Unused,
     WindowSignal!Unused
<1>6. \A h, a : Commands!Unlink(h, a) = WindowSignal!Unlink(h, a)
  BY <1>4 DEF Commands!Unlink, WindowSignal!Unlink, Commands!Detached, WindowSignal!Detached
<1>7. \A r, t : Commands!Without(r, t) = Without(r, t)
  BY DEF Commands!Without, Without
<1> QED
  BY <1>2, <1>3, <1>4, <1>5, <1>6, <1>7

(* Handlers come and go while a command waits. *)
LEMMA HandlersChange ==
  ASSUME CommandsAssumption, CommandInv,
         Commands!Connect \/ \E c \in Commands!Connection : Commands!Disconnect(c),
         UNCHANGED <<emission, asked, failures>>
  PROVE  CommandInv'
<1>1. UnderWay' = UnderWay
  BY DEF UnderWay
<1>2. ASSUME NEW b \in WindowLinks, emission # NoEmission, b \in ToSet(emission.links)
      PROVE  cHeap[b].ref > 0
  <2>1. emission.links # <<>>
    BY <1>2 DEF ToSet
  <2>2. UnderWay = <<[links |-> emission.links, running |-> Method]>>
    BY <1>2, <2>1 DEF UnderWay
  <2>3. 1 \in DOMAIN UnderWay /\ b \in ToSet(UnderWay[1].links)
    BY <1>2, <2>2
  <2> QED
    BY <2>3, WindowSignal!UsedIsAllocated, WindowAssumption DEF CommandInv, WindowSignal!ToSet,
       ToSet
<1>3. CASE Commands!Connect
  <2>1. WindowSignal!Connect
    BY <1>1, <1>3 DEF Commands!Connect, WindowSignal!Connect, Commands!Allocated,
       WindowSignal!Allocated, Commands!AddBefore, WindowSignal!AddBefore,
       Commands!NewHead, WindowSignal!NewHead
  <2>2. WindowSignal!SignalInv' /\ \A b \in WindowLinks : cHeap[b].ref > 0 => cHeap'[b].function = cHeap[b].function
    BY <2>1, WindowSignal!ConnectKeeps, WindowAssumption DEF CommandInv, WindowSignal!Allocated
  <2>3. EmissionKnown'
    BY <1>2, <2>2 DEF CommandInv, EmissionKnown, Emission, ToSet
  <2> QED
    BY <2>2, <2>3 DEF CommandInv
<1>4. CASE \E c \in Commands!Connection : Commands!Disconnect(c)
  <2>1. PICK c \in Commands!Connection : Commands!Disconnect(c)
    BY <1>4
  <2>2. WindowSignal!Disconnect(c) /\ c \in WindowSignal!Connection
    BY <1>1, <2>1, SameLists DEF Commands!Disconnect, WindowSignal!Disconnect,
       Commands!Connection, WindowSignal!Connection, ToSet, WindowSignal!ToSet, Commands!ToSet
  <2>3. /\ WindowSignal!SignalInv'
        /\ \A b \in WindowLinks : cHeap'[b].function \in {cHeap[b].function, NULL}
    BY <2>2, WindowSignal!DisconnectKeeps, WindowAssumption DEF CommandInv
  <2>4. EmissionKnown'
    BY <2>3 DEF CommandInv, EmissionKnown, Emission
  <2> QED
    BY <2>3, <2>4 DEF CommandInv
<1> QED
  BY <1>3, <1>4

(* The references to a link, in terms of the command that waits. *)
LEMMA UsesOfCommand ==
  ASSUME CommandsAssumption, NEW e, NEW a, NEW fs,
         e = NoEmission \/ e \in Emission,
         fs = IF e = NoEmission THEN <<>> ELSE IF e.links = <<>> THEN <<>>
              ELSE <<[links |-> e.links, running |-> Method]>>
  PROVE  /\ fs \in Seq(WindowSignal!Frame)
         /\ WindowSignal!Cardinality(WindowSignal!UsersIn(fs, a)) = IF e # NoEmission /\ a \in ToSet(e.links) THEN 1 ELSE 0
<1>1. WindowSignal!Cardinality(WindowSignal!UsersIn(<<>>, a)) = 0
  BY WindowSignal!UsersNone, WindowAssumption
<1>2. CASE e = NoEmission \/ e.links = <<>>
  BY <1>1, <1>2 DEF ToSet
<1>3. CASE e # NoEmission /\ e.links # <<>>
  <2> DEFINE f == [links |-> e.links, running |-> Method]
  <2>1. f \in WindowSignal!Frame /\ f.links = e.links /\ fs = Append(<<>>, f) /\ fs \in Seq(WindowSignal!Frame)
    BY <1>3 DEF Emission, WindowSignal!Frame, WindowSignal!Callback, WindowSignal!Method, Method
  <2> HIDE DEF f
  <2>2. WindowSignal!Cardinality(WindowSignal!UsersIn(Append(<<>>, f), a)) =
          WindowSignal!Cardinality(WindowSignal!UsersIn(<<>>, a)) + (IF a \in WindowSignal!ToSet(f.links) THEN 1 ELSE 0)
    <3>1. <<>> \in Seq(WindowSignal!Frame)
      OBVIOUS
    <3> QED
      BY <2>1, <3>1, WindowSignal!UsersAppend, WindowAssumption
  <2> QED
    BY <1>1, <1>3, <2>1, <2>2 DEF WindowSignal!ToSet, ToSet
<1> QED
  BY <1>2, <1>3

(* An emission refers to each of its links once. *)
LEMMA CommandBegins ==
  ASSUME CommandsAssumption, CommandInv, Commands!CustomCommand
  PROVE  CommandInv'
<1> DEFINE all   == (IF cRing = NULL THEN <<>> ELSE <<cRing>>) \o WindowSignal!Siblings(cHeap, cRing)
           none  == {a \in WindowLinks : cHeap[a].function = NULL}
           links == Commands!Without(all, none)
           q     == WindowSignal!Siblings(cHeap, cRing)
           first == IF cHeap[cRing].function = NULL THEN <<>> ELSE <<cRing>>
<1>1. /\ emission = NoEmission
      /\ cHeap' = WindowSignal!Incref(cHeap, ToSet(links))
      /\ emission' = [links |-> links, current |-> 0, future |-> "none"]
      /\ UNCHANGED <<cRing, cAlive, cIds, cCount>>
  BY SameLists DEF Commands!CustomCommand, ToSet, Commands!ToSet
<1>2. /\ q \in Seq(WindowLinks) /\ ToSet(q) \subseteq WindowLinks
      /\ cRing = NULL => q = <<>>
      /\ cRing # NULL => cRing \in WindowLinks
  BY WindowSignal!RingFacts, WindowAssumption DEF CommandInv, WindowSignal!ToSet, ToSet
<1>3. \A a \in ToSet(q) : cHeap[a].function # NULL
  <2>1. \A a \in ToSet(q) : cHeap[a].function \in 1 .. cCount
    BY DEF CommandInv, WindowSignal!SignalInv, WindowSignal!HandlersKnown, WindowSignal!ToSet, ToSet
  <2>2. cCount \in Nat
    BY DEF CommandInv, WindowSignal!SignalInv, WindowSignal!SignalTypeOK
  <2> QED
    BY <2>1, <2>2, WindowAssumption
<1> HIDE DEF q
<1>4. Without(q, none) = q
  <2>1. ToSet(q) \cap none = {}
    BY <1>3
  <2> HIDE DEF none
  <2> QED
    BY <1>2, <2>1, WithoutNone
<1>5. /\ links \in Seq(WindowLinks) /\ IsInjective(links)
      /\ \A i \in 2 .. Len(links) : links[i] \in ToSet(q)
  <2>1. CASE cRing = NULL
    <3>1. all = <<>> /\ all \in Seq(WindowLinks)
      BY <1>2, <2>1, ConcatEmptySeq DEF q
    <3>2. links = <<>>
      BY <3>1, WithoutEmpty, SameLists
    <3> HIDE DEF links
    <3> QED
      BY <3>2 DEF IsInjective
  <2>2. CASE cRing # NULL
    <3>1. <<cRing>> \in Seq(WindowLinks) /\ all = <<cRing>> \o q
      BY <1>2, <2>2 DEF q
    <3>2. links = Without(<<cRing>>, none) \o q
      <4>1. links = Without(all, none)
        BY SameLists
      <4> HIDE DEF none, all, links
      <4>2. Without(<<cRing>> \o q, none) = Without(<<cRing>>, none) \o Without(q, none)
        <5> DEFINE one == <<cRing>>
        <5>1. one \in Seq(WindowLinks)
          BY <3>1
        <5> HIDE DEF one
        <5>2. Without(one \o q, none) = Without(one, none) \o Without(q, none)
          BY <1>2, <5>1, WithoutConcat
        <5> QED
          BY <5>2 DEF one
      <4> QED
        BY <1>4, <3>1, <4>1, <4>2
    <3>3. Without(<<cRing>>, none) = first
      <4>1. cRing \in none <=> cHeap[cRing].function = NULL
        BY <1>2, <2>2
      <4> HIDE DEF none
      <4>2. cRing \in WindowLinks
        BY <1>2, <2>2
      <4>3. Without(<<cRing>>, none) = IF cRing \in none THEN <<>> ELSE <<cRing>>
        BY <4>2, WithoutOne
      <4> QED
        BY <4>1, <4>3
    <3>4. links = first \o q
      BY <3>2, <3>3
    <3> HIDE DEF links
    <3> QED
      BY <2>2, <3>4, WindowSignal!LinksToEmit, WindowAssumption DEF CommandInv, q,
         WindowSignal!ToSet, ToSet, WindowSignal!IsInjective, IsInjective
  <2> QED
    BY <2>1, <2>2
<1> HIDE DEF links
<1>6. /\ cHeap' \in [WindowLinks -> WindowSignal!Links]
      /\ \A a \in WindowLinks :
           /\ cHeap'[a].next = cHeap[a].next
           /\ cHeap'[a].prev = cHeap[a].prev
           /\ cHeap'[a].function = cHeap[a].function
           /\ cHeap'[a].ref = IF a \in ToSet(links) THEN cHeap[a].ref + 1 ELSE cHeap[a].ref
  <2>1. cHeap \in [WindowLinks -> WindowSignal!Links]
    BY DEF CommandInv, WindowSignal!SignalInv, WindowSignal!SignalTypeOK
  <2> QED
    BY <1>1, <2>1, WindowSignal!IncrefAt, WindowAssumption
<1>7. emission' \in Emission /\ emission' # NoEmission /\ emission'.links = links
  BY <1>1, <1>5, WindowAssumption DEF Emission, CommandsAssumption
<1>8. UnderWay' = IF links = <<>> THEN <<>> ELSE <<[links |-> links, running |-> Method]>>
  BY <1>1, <1>7 DEF UnderWay
<1>9. /\ UnderWay' \in Seq(WindowSignal!Frame)
      /\ \A a : WindowSignal!Cardinality(WindowSignal!UsersIn(UnderWay', a)) = IF a \in ToSet(links) THEN 1 ELSE 0
  BY <1>7, <1>8, UsesOfCommand
<1>10. \A a \in WindowLinks : cHeap'[a].ref = WindowSignal!Held(a) + WindowSignal!Cardinality(WindowSignal!UsersIn(UnderWay', a))
  <2> SUFFICES ASSUME NEW a \in WindowLinks PROVE cHeap'[a].ref = WindowSignal!Held(a) + WindowSignal!Cardinality(WindowSignal!UsersIn(UnderWay', a))
    OBVIOUS
  <2>1. UnderWay = <<>>
    BY <1>1 DEF UnderWay
  <2>2. WindowSignal!Cardinality(WindowSignal!UsersIn(UnderWay, a)) = 0
    BY <2>1, WindowSignal!UsersNone, WindowAssumption
  <2>3. cHeap[a].ref = WindowSignal!Held(a) + WindowSignal!Cardinality(WindowSignal!UsersIn(UnderWay, a)) /\ WindowSignal!Held(a) \in Nat
    BY WindowSignal!RingFacts, WindowAssumption DEF CommandInv, WindowSignal!SignalInv,
       WindowSignal!References, WindowSignal!Users
  <2> QED
    BY <1>6, <1>9, <2>2, <2>3
<1>11. WindowSignal!SignalInv'
  <2>1. \A k \in DOMAIN UnderWay' :
          /\ UnderWay'[k].links # <<>> /\ WindowSignal!IsInjective(UnderWay'[k].links)
          /\ \A i \in 2 .. Len(UnderWay'[k].links) :
               \/ cHeap[UnderWay'[k].links[i]].function = NULL
               \/ UnderWay'[k].links[i] \in WindowSignal!ToSet(WindowSignal!Siblings(cHeap, cRing))
    BY <1>5, <1>8 DEF q, WindowSignal!ToSet, ToSet, WindowSignal!IsInjective, IsInjective
  <2> QED
    BY <1>1, <1>6, <1>9, <1>10, <2>1, WindowSignal!QuietStep, WindowAssumption DEF CommandInv
<1>12. EmissionKnown'
  BY <1>1, <1>5, <1>7, LenProperties DEF EmissionKnown
<1> QED
  BY <1>11, <1>12 DEF CommandInv

(* Nothing that Signal sees changes. *)
LEMMA CommandRests ==
  ASSUME CommandsAssumption, WindowSignal!SignalInv, UNCHANGED <<cHeap, cRing, cAlive, cIds, cCount, UnderWay>>
  PROVE  WindowSignal!SignalInv'
<1>1. UNCHANGED WindowSignal!signalVars
  BY DEF WindowSignal!signalVars
<1> QED
  BY <1>1, WindowSignal!SignalStep, WindowAssumption

(* One step of a command: who was passed was asked, or is gone. *)
LEMMA CommandSteps ==
  ASSUME CommandsAssumption, CommandInv, emission # NoEmission, Commands!Pending(emission),
         NEW future \in {"waiting", "handled", "refused"},
         NEW e, e = Commands!Step(emission, future),
         asked' = asked \cup IF emission.current < e.current /\ e.future # "none"
                               THEN {cHeap[e.links[e.current]].function} ELSE {}
  PROVE  /\ e \in Emission /\ e.links = emission.links /\ e.current <= Len(e.links) /\ e.current > 0
         /\ \A i \in 1 .. e.current : cHeap[e.links[i]].function \in asked' \cup {NULL}
<1> DEFINE links == emission.links
<1>1. /\ emission \in Emission /\ links \in Seq(WindowLinks) /\ emission.current \in Nat
      /\ emission.current <= Len(links) /\ Len(links) \in Nat
      /\ emission.future # "none" => emission.current > 0
      /\ \A i \in 1 .. emission.current : cHeap[links[i]].function \in asked \cup {NULL}
  BY LenProperties DEF CommandInv, EmissionKnown, Emission
<1>2. CASE emission.future # "none" \/ emission.current = Len(links)
  <2>1. e = emission
    BY <1>2 DEF Commands!Step
  <2>2. e.current > 0
    BY <1>1, <1>2, <2>1 DEF Commands!Pending, Commands!HasValue
  <2> QED
    BY <1>1, <2>1, <2>2
<1>3. CASE emission.future = "none" /\ emission.current # Len(links)
  <2> DEFINE now == IF cHeap[links[emission.current + 1]].function = NULL THEN "none" ELSE future
  <2>1. e = [emission EXCEPT !.current = emission.current + 1, !.future = now]
    BY <1>3 DEF Commands!Step
  <2>2. e \in Emission /\ e.links = links /\ e.current = emission.current + 1 /\ e.future = now
    <3>1. now \in {"none", "waiting", "handled", "refused"} /\ emission.current + 1 \in Nat
      BY <1>1
    <3> HIDE DEF now
    <3> QED
      BY <1>1, <2>1, <3>1 DEF Emission
  <2>3. e.current <= Len(links) /\ e.current > 0 /\ emission.current < e.current
    BY <1>1, <1>3, <2>2
  <2>4. cHeap[links[e.current]].function \in asked' \cup {NULL}
    BY <2>2, <2>3
  <2>5. \A i \in 1 .. e.current : i \in 1 .. emission.current \/ i = e.current
    BY <1>1, <2>2
  <2> HIDE DEF now
  <2> QED
    BY <1>1, <2>2, <2>3, <2>4, <2>5
<1> QED
  BY <1>2, <1>3

(* The emission goes on to the next handler, or ends and lets go of its links. *)
LEMMA CommandGoesOn ==
  ASSUME CommandsAssumption, CommandInv, Commands!CommandDispatcher
  PROVE  /\ CommandInv'
         /\ failures' # failures =>
              \A a \in ToSet(emission.links) : cHeap[a].function \in asked' \cup {NULL}
<1>1. emission # NoEmission /\ Commands!Pending(emission) /\ UNCHANGED <<cRing, cAlive, cIds, cCount>>
  BY DEF Commands!CommandDispatcher
<1>2. PICK future \in {"waiting", "handled", "refused"} :
       LET stepped == Commands!Step(emission, future)
           called  == emission.current < stepped.current /\ stepped.future # "none"
           handled == stepped.future = "handled"
           ends    == handled \/ Commands!Done(Commands!Taken(stepped))
       IN /\ asked' = asked \cup IF called THEN {cHeap[stepped.links[stepped.current]].function} ELSE {}
          /\ emission' = IF ends THEN NoEmission ELSE Commands!Taken(stepped)
          /\ cHeap' = IF ends THEN Commands!Release(stepped) ELSE cHeap
          /\ failures' = IF ends /\ ~handled THEN (failures + 1) % 3 ELSE failures
  BY DEF Commands!CommandDispatcher
<1> DEFINE e == Commands!Step(emission, future)
           ends == e.future = "handled" \/ Commands!Done(Commands!Taken(e))
<1>3. /\ asked' = asked \cup IF emission.current < e.current /\ e.future # "none"
                               THEN {cHeap[e.links[e.current]].function} ELSE {}
      /\ emission' = IF ends THEN NoEmission ELSE Commands!Taken(e)
      /\ cHeap' = IF ends THEN Commands!Release(e) ELSE cHeap
      /\ failures' # failures => ends /\ e.future # "handled"
  BY <1>2
<1> HIDE DEF e
<1>4. /\ e \in Emission /\ e.links = emission.links /\ e.current <= Len(e.links) /\ e.current > 0
      /\ \A i \in 1 .. e.current : cHeap[e.links[i]].function \in asked' \cup {NULL}
  BY <1>1, <1>3, CommandSteps DEF e
<1>5. Commands!Taken(e) \in Emission /\ Commands!Taken(e).links = e.links /\ Commands!Taken(e).current = e.current
  BY <1>4 DEF Commands!Taken, Emission
<1>6. emission \in Emission /\ emission.links \in Seq(WindowLinks) /\ IsInjective(emission.links) /\ emission.links # <<>>
  <2>1. emission \in Emission /\ emission.links \in Seq(WindowLinks) /\ IsInjective(emission.links)
    BY <1>1 DEF CommandInv, EmissionKnown, Emission
  <2>2. Len(<<>>) = 0 /\ e.current \in Nat
    BY <1>4 DEF Emission
  <2>3. Len(emission.links) # 0
    BY <1>4, <2>1, <2>2, LenProperties
  <2> QED
    BY <2>1, <2>2, <2>3
<1>7. UnderWay = <<[links |-> emission.links, running |-> Method]>>
  BY <1>1, <1>6 DEF UnderWay
<1>8. CASE ~ends
  <2>1. cHeap' = cHeap /\ emission' = Commands!Taken(e) /\ emission' \in Emission /\ emission'.links = emission.links
        /\ emission'.current = e.current
    BY <1>3, <1>4, <1>5, <1>8
  <2>2. emission' # NoEmission
    BY <2>1 DEF CommandsAssumption, Emission
  <2>3. UnderWay' = UnderWay
    BY <1>7, <1>6, <2>1, <2>2 DEF UnderWay
  <2>4. EmissionKnown'
    BY <1>4, <1>6, <2>1, <2>2 DEF EmissionKnown
  <2> QED
    BY <1>1, <1>3, <1>8, <2>1, <2>3, <2>4, CommandRests DEF CommandInv
<1>9. CASE ends
  <2>1. emission' = NoEmission /\ cHeap' = WindowSignal!Decref(cHeap, ToSet(emission.links)) /\ UnderWay' = <<>>
    BY <1>3, <1>4, <1>9, SameLists DEF Commands!Release, Commands!ToSet, ToSet, UnderWay
  <2>2. WindowSignal!Stop
    <3> DEFINE f == [links |-> emission.links, running |-> Method]
    <3>1. Len(UnderWay) = 1 /\ UnderWay[1].links = emission.links /\ UnderWay # <<>>
      BY <1>7
    <3>2. WindowSignal!Last(UnderWay).links = emission.links
      BY <3>1 DEF WindowSignal!Last
    <3>3. WindowSignal!Front(UnderWay) = <<>>
      BY <3>1 DEF WindowSignal!Front
    <3> QED
      BY <1>1, <2>1, <3>1, <3>2, <3>3 DEF WindowSignal!Stop, WindowSignal!ToSet, ToSet
  <2>3. WindowSignal!SignalInv'
    BY <2>2, WindowSignal!StopKeeps, WindowAssumption DEF CommandInv
  <2>4. failures' # failures => \A a \in ToSet(emission.links) : cHeap[a].function \in asked' \cup {NULL}
    <3>1. failures' # failures => e.current = Len(e.links)
      BY <1>3, <1>4, <1>5 DEF Commands!Done
    <3>2. ToSet(emission.links) = {emission.links[i] : i \in 1 .. Len(emission.links)}
      BY <1>6, LenProperties DEF ToSet
    <3> QED
      BY <1>4, <3>1, <3>2
  <2> QED
    BY <2>1, <2>3, <2>4 DEF CommandInv, EmissionKnown
<1> QED
  BY <1>8, <1>9

(* A handler answers. *)
LEMMA CommandAnswered ==
  ASSUME CommandsAssumption, CommandInv, Commands!Answer
  PROVE  CommandInv'
<1>1. PICK value_ \in {"handled", "refused"} : emission' = [emission EXCEPT !.future = value_]
  BY DEF Commands!Answer
<1>2. /\ emission # NoEmission /\ emission.future = "waiting"
      /\ UNCHANGED <<cHeap, cRing, cAlive, cIds, cCount, asked>>
  BY DEF Commands!Answer
<1>3. emission \in Emission
  BY <1>2 DEF CommandInv, EmissionKnown
<1>4. emission' \in Emission /\ emission'.links = emission.links /\ emission'.current = emission.current
  BY <1>1, <1>3 DEF Emission
<1>5. emission' # NoEmission
  BY <1>4 DEF CommandsAssumption, Emission
<1>6. UnderWay' = UnderWay
  BY <1>2, <1>4, <1>5 DEF UnderWay
<1>7. EmissionKnown'
  BY <1>2, <1>4, <1>5 DEF CommandInv, EmissionKnown
<1> QED
  BY <1>2, <1>6, <1>7, CommandRests DEF CommandInv

(* The emission goes with its window, then the ring: no link has a reference left. *)
LEMMA WindowGoes ==
  ASSUME CommandsAssumption, CommandInv, Commands!DestroyWindow
  PROVE  CommandInv'
<1> DEFINE q == WindowSignal!Siblings(cHeap, cRing)
<1>1. emission' = NoEmission /\ UnderWay' = <<>> /\ EmissionKnown'
  BY DEF Commands!DestroyWindow, UnderWay, EmissionKnown
<1>2. CASE emission = NoEmission
  <2>1. UnderWay' = UnderWay
    BY <1>1, <1>2 DEF UnderWay
  <2>2. WindowSignal!Destroy
    BY <1>2, <2>1, SameLists DEF Commands!DestroyWindow, Commands!Destroy, WindowSignal!Destroy,
       Commands!Connection, WindowSignal!Connection
  <2> QED
    BY <1>1, <2>2, WindowSignal!DestroyKeeps, WindowAssumption DEF CommandInv
<1>3. CASE emission # NoEmission
  <2> DEFINE kept == WindowSignal!Decref(cHeap, ToSet(emission.links))
  <2>1. /\ cAlive' = FALSE /\ cRing' = NULL /\ cIds' = [c \in WindowSignal!Connection |-> NULL] /\ UNCHANGED cCount
        /\ cHeap' = IF cRing = NULL THEN kept
                    ELSE WindowSignal!Decref(WindowSignal!Decref(WindowSignal!UnlinkAll(kept, cRing), {cRing}), {cRing})
    BY <1>3, SameLists DEF Commands!DestroyWindow, Commands!Release, Commands!Connection,
       WindowSignal!Connection, Commands!ToSet, ToSet
  <2>2. /\ q \in Seq(WindowLinks) /\ ToSet(q) \subseteq WindowLinks /\ cRing \notin ToSet(q)
        /\ cRing = NULL => q = <<>>
        /\ cRing # NULL => cRing \in WindowLinks /\ WindowSignal!Ring(cHeap, cRing, q)
    BY WindowSignal!RingFacts, WindowAssumption DEF CommandInv, WindowSignal!ToSet, ToSet
  <2>3. cHeap \in [WindowLinks -> WindowSignal!Links] /\ emission \in Emission
    BY <1>3 DEF CommandInv, WindowSignal!SignalInv, WindowSignal!SignalTypeOK, EmissionKnown
  <2>4. \A a \in WindowLinks :
          cHeap[a].ref = (IF a = cRing THEN 2 ELSE 0) + (IF a \in ToSet(q) THEN 1 ELSE 0)
                         + (IF a \in ToSet(emission.links) THEN 1 ELSE 0)
    <3> SUFFICES ASSUME NEW a \in WindowLinks
                 PROVE  cHeap[a].ref = (IF a = cRing THEN 2 ELSE 0) + (IF a \in ToSet(q) THEN 1 ELSE 0)
                                       + (IF a \in ToSet(emission.links) THEN 1 ELSE 0)
      OBVIOUS
    <3>1. cHeap[a].ref = WindowSignal!Held(a) + WindowSignal!Cardinality(WindowSignal!UsersIn(UnderWay, a))
      BY DEF CommandInv, WindowSignal!SignalInv, WindowSignal!References, WindowSignal!Users
    <3>2. WindowSignal!Held(a) = (IF a = cRing THEN 2 ELSE 0) + (IF a \in ToSet(q) THEN 1 ELSE 0)
      BY DEF WindowSignal!Held, WindowSignal!ToSet, ToSet
    <3>3. WindowSignal!Cardinality(WindowSignal!UsersIn(UnderWay, a)) = IF a \in ToSet(emission.links) THEN 1 ELSE 0
      BY <1>3, <2>3, UsesOfCommand DEF UnderWay
    <3> QED
      BY <3>1, <3>2, <3>3
  <2> HIDE DEF q
  <2>5. /\ kept \in [WindowLinks -> WindowSignal!Links]
        /\ \A a \in WindowLinks :
             /\ kept[a].ref = (IF a = cRing THEN 2 ELSE 0) + (IF a \in ToSet(q) THEN 1 ELSE 0)
             /\ \/ /\ kept[a].next = cHeap[a].next
                   /\ kept[a].prev = cHeap[a].prev
                   /\ kept[a].function = cHeap[a].function
                \/ kept[a] = WindowSignal!Unused /\ cHeap[a].ref = 1
    <3>1. \A a \in WindowLinks : a \in ToSet(emission.links) => cHeap[a].ref > 0
      BY <2>4
    <3> QED
      BY <2>3, <2>4, <3>1, WindowSignal!DecrefAt, WindowAssumption
  <2> HIDE DEF kept
  <2>6. \A a \in WindowLinks : a # cRing /\ a \notin ToSet(q) => WindowSignal!Removed(kept[a]) \/ (~cAlive /\ WindowSignal!LeftOver(kept[a], a))
    <3> SUFFICES ASSUME NEW a \in WindowLinks, a # cRing, a \notin ToSet(q)
                 PROVE  WindowSignal!Removed(kept[a]) \/ (~cAlive /\ WindowSignal!LeftOver(kept[a], a))
      OBVIOUS
    <3>1. WindowSignal!Removed(cHeap[a]) \/ (~cAlive /\ WindowSignal!LeftOver(cHeap[a], a))
      BY DEF CommandInv, WindowSignal!SignalInv, WindowSignal!RingClosed, WindowSignal!Members,
         q, WindowSignal!ToSet, ToSet
    <3> QED
      BY <2>5, <3>1 DEF WindowSignal!Removed, WindowSignal!LeftOver, WindowSignal!Unused
  <2>7. /\ cHeap' \in [WindowLinks -> WindowSignal!Links]
        /\ \A a \in WindowLinks : cHeap'[a].ref = 0 /\ (WindowSignal!Removed(cHeap'[a]) \/ WindowSignal!LeftOver(cHeap'[a], a))
    <3>1. CASE cRing = NULL
      <4>1. \A a \in WindowLinks : a # cRing /\ a \notin ToSet(q)
        BY <2>2, <3>1, WindowAssumption DEF ToSet
      <4> QED
        BY <2>1, <2>5, <2>6, <3>1, <4>1
    <3>2. CASE cRing # NULL
      <4>1. \A a \in ToSet(q) : kept[a].ref = 1 /\ a \in WindowLinks
        BY <2>2, <2>5, <3>2
      <4>2. kept[cRing].ref = 2
        BY <2>2, <2>5, <3>2
      <4>3. WindowSignal!Ring(kept, cRing, q)
        <5>1. \A a \in {cRing} \cup ToSet(q) : kept[a].next = cHeap[a].next /\ kept[a].prev = cHeap[a].prev
          BY <2>2, <2>5, <3>2, <4>1, <4>2 DEF WindowSignal!Unused
        <5> QED
          BY <2>2, <3>2, <5>1, WindowSignal!RingStays, WindowAssumption DEF WindowSignal!ToSet,
             ToSet
      <4>4. WindowSignal!Siblings(kept, cRing) = q
        BY <2>2, <3>2, <4>3, WindowSignal!SiblingsAre, WindowAssumption
      <4>5. cHeap' = WindowSignal!Decref(WindowSignal!Decref(WindowSignal!UnlinkAll(kept, cRing), {cRing}), {cRing})
        BY <2>1, <3>2
      <4>6. \A a \in WindowSignal!ToSet(q) : kept[a].ref > 0
        BY <4>1 DEF WindowSignal!ToSet, ToSet
      <4>7. /\ cHeap' \in [WindowLinks -> WindowSignal!Links]
            /\ \A a \in WindowSignal!ToSet(q) : WindowSignal!Removed(cHeap'[a]) /\ cHeap'[a].ref = kept[a].ref - 1
            /\ WindowSignal!Removed(cHeap'[cRing]) \/ WindowSignal!LeftOver(cHeap'[cRing], cRing)
            /\ cHeap'[cRing].ref = kept[cRing].ref - 2
            /\ \A b \in WindowLinks \ ({cRing} \cup WindowSignal!ToSet(q)) : cHeap'[b] = kept[b]
        BY <2>2, <2>5, <3>2, <4>2, <4>3, <4>4, <4>5, <4>6, WindowSignal!DestroyRing,
           WindowAssumption
      <4> SUFFICES ASSUME NEW a \in WindowLinks
                   PROVE  cHeap'[a].ref = 0 /\ (WindowSignal!Removed(cHeap'[a]) \/ WindowSignal!LeftOver(cHeap'[a], a))
        BY <4>7
      <4>8. CASE a \in ToSet(q)
        BY <4>1, <4>7, <4>8 DEF WindowSignal!ToSet, ToSet
      <4>9. CASE a = cRing
        BY <4>2, <4>7, <4>9
      <4>10. CASE a # cRing /\ a \notin ToSet(q)
        <5>1. cHeap'[a] = kept[a]
          BY <4>7, <4>10 DEF WindowSignal!ToSet, ToSet
        <5> QED
          BY <2>5, <2>6, <4>10, <5>1
      <4> QED
        BY <4>8, <4>9, <4>10
    <3> QED
      BY <3>1, <3>2
  <2>8. WindowSignal!Siblings(cHeap, cRing)' = <<>> /\ WindowSignal!ToSet(<<>>) = {}
    BY <2>1 DEF WindowSignal!Siblings, WindowSignal!ToSet
  <2>9. WindowSignal!SignalTypeOK'
    <3>1. UnderWay' \in Seq(WindowSignal!Frame)
      BY <1>1, EmptySeq
    <3>2. cCount' \in 0 .. WindowConnects
      BY <2>1 DEF CommandInv, WindowSignal!SignalInv, WindowSignal!SignalTypeOK
    <3>3. cIds' \in [WindowSignal!Connection -> WindowLinks \cup {NULL}]
      BY <2>1
    <3> QED
      BY <2>1, <2>7, <3>1, <3>2, <3>3 DEF WindowSignal!SignalTypeOK
  <2>10. WindowSignal!RingClosed'
    BY <2>1, <2>7 DEF WindowSignal!RingClosed
  <2>11. WindowSignal!References'
    <3>1. \A a \in WindowLinks : WindowSignal!Held(a)' = 0
      BY <2>1, <2>8, WindowAssumption DEF WindowSignal!Held
    <3>2. \A a : WindowSignal!Cardinality(WindowSignal!UsersIn(UnderWay', a)) = 0
      BY <1>1, WindowSignal!UsersNone, WindowAssumption
    <3> QED
      BY <2>7, <3>1, <3>2 DEF WindowSignal!References, WindowSignal!Users
  <2>12. WindowSignal!HandlersKnown'
    BY <2>1, <2>8 DEF WindowSignal!HandlersKnown
  <2>13. WindowSignal!EmissionsKnown'
    BY <1>1 DEF WindowSignal!EmissionsKnown
  <2> QED
    BY <1>1, <2>9, <2>10, <2>11, <2>12, <2>13 DEF CommandInv, WindowSignal!SignalInv
<1> QED
  BY <1>2, <1>3

(* Without handlers and emission the invariant holds. *)
LEMMA CommandStarts ==
  ASSUME CommandsAssumption, Commands!CommandInit
  PROVE  CommandInv
<1>1. UnderWay = <<>> /\ EmissionKnown
  BY DEF Commands!CommandInit, UnderWay, EmissionKnown
<1>2. WindowSignal!SignalInit
  BY <1>1 DEF Commands!CommandInit, Commands!SignalInit, WindowSignal!SignalInit,
     Commands!Unused, WindowSignal!Unused,
     Commands!NewHead, WindowSignal!NewHead, Commands!Method, WindowSignal!Method, Commands!Connection, WindowSignal!Connection
<1> QED
  BY <1>1, <1>2, WindowSignal!SignalStarts, WindowAssumption DEF CommandInv

(* Every step of the window and of its handlers keeps the invariant. *)
LEMMA CommandKeeps ==
  ASSUME CommandsAssumption, CommandInv, [Commands!CommandNext]_commandVars
  PROVE  CommandInv'
<1>1. CASE UNCHANGED commandVars
  <2>1. UNCHANGED <<cHeap, cRing, cAlive, cIds, cCount, emission, asked>> /\ UNCHANGED UnderWay
    BY <1>1 DEF commandVars, UnderWay
  <2> QED
    BY <2>1, CommandRests DEF CommandInv, EmissionKnown
<1>2. CASE Commands!CommandNext
  BY <1>2, HandlersChange, CommandBegins, CommandGoesOn, CommandAnswered, WindowGoes
     DEF Commands!CommandNext
<1> QED
  BY <1>1, <1>2

(* The references of SignalInv are those of EmissionReferences. *)
LEMMA ReferencesOfCommands ==
  ASSUME CommandsAssumption, CommandInv
  PROVE  Commands!EmissionReferences
<1> SUFFICES ASSUME NEW a \in WindowLinks
             PROVE  cHeap[a].ref = (IF a = cRing THEN 2 ELSE 0)
                      + (IF a \in Commands!ToSet(Commands!Siblings(cHeap, cRing)) THEN 1 ELSE 0)
                      + IF emission # NoEmission /\ a \in Commands!ToSet(emission.links) THEN 1 ELSE 0
  BY DEF Commands!EmissionReferences
<1>1. cHeap[a].ref = WindowSignal!Held(a) + WindowSignal!Cardinality(WindowSignal!UsersIn(UnderWay, a))
  BY DEF CommandInv, WindowSignal!SignalInv, WindowSignal!References, WindowSignal!Users
<1>2. WindowSignal!Cardinality(WindowSignal!UsersIn(UnderWay, a)) = IF emission # NoEmission /\ a \in ToSet(emission.links) THEN 1 ELSE 0
  BY UsesOfCommand DEF UnderWay, CommandInv, EmissionKnown
<1> QED
  BY <1>1, <1>2, SameLists DEF WindowSignal!Held, WindowSignal!ToSet, ToSet, Commands!ToSet

(* A window keeps count of the references to its handlers; no handler is left out. *)
THEOREM CommandsAreKept ==
  ASSUME CommandsAssumption
  PROVE  Commands!CommandSpec => []Commands!EmissionReferences /\ Commands!UnhandledWasRefused
<1>1. Commands!CommandInit => CommandInv
  BY CommandStarts
<1>2. CommandInv /\ [Commands!CommandNext]_commandVars => CommandInv'
  BY CommandKeeps
<1>3. CommandInv => Commands!EmissionReferences
  BY ReferencesOfCommands
<1>4. CommandInv /\ [Commands!CommandNext]_commandVars =>
        [failures' # failures =>
           \A a \in Commands!ToSet(emission.links) : cHeap[a].function \in asked' \cup {NULL}]_commandVars
  <2> SUFFICES ASSUME CommandInv, Commands!CommandNext, failures' # failures
               PROVE  \A a \in Commands!ToSet(emission.links) : cHeap[a].function \in asked' \cup {NULL}
    BY DEF commandVars
  <2>1. Commands!CommandDispatcher
    BY DEF Commands!CommandNext, Commands!CustomCommand, Commands!Answer, Commands!DestroyWindow
  <2> QED
    BY <2>1, CommandGoesOn DEF Commands!ToSet, ToSet
<1> QED
  BY <1>1, <1>2, <1>3, <1>4, PTL DEF Commands!CommandSpec, Commands!commandVars, commandVars,
     Commands!UnhandledWasRefused

-----------------------------------------------------------------------------
(* The composition.                                                          *)

(* A step of the composition is a step, or none, of each specification. *)
LEMMA EachPart ==
  ASSUME [NextParts]_partVars
  PROVE  /\ [Calls!Next]_callVars /\ [Commands!CommandNext]_commandVars /\ [Updates!Next]_updateVars
         /\ [Thread!Next]_threadVars /\ [Buffer!Next]_bufferVars
<1>1. CASE UNCHANGED partVars
  BY <1>1 DEF partVars
<1>2. CASE NextParts
  BY <1>2 DEF NextParts, ServerMoves, CallsMove, SignalsMove, CommandsMove, UpdatesMove,
     ThreadMoves, BindingsMove, BufferMoves, Only
<1> QED
  BY <1>1, <1>2

(* A behaviour of the composition is one of each specification. *)
LEMMA PartsRun ==
  FairParts => Calls!Spec /\ Commands!CommandSpec /\ Updates!Spec /\ Thread!Spec /\ Buffer!Spec
<1>1. InitParts => Calls!Init /\ Commands!CommandInit /\ Updates!Init /\ Thread!Init /\ Buffer!Init
  BY DEF InitParts
<1>2. [NextParts]_partVars => [Calls!Next]_(Calls!vars)
  BY EachPart DEF callVars, Calls!vars, Calls!channelVars, Calls!queueVars, Calls!producerVars,
     Calls!consumerVars,
     Calls!clientVars
<1>3. [NextParts]_partVars => [Commands!CommandNext]_(Commands!commandVars)
  BY EachPart DEF commandVars, Commands!commandVars
<1>4. [NextParts]_partVars => [Updates!Next]_(Updates!vars)
  BY EachPart DEF updateVars, Updates!vars
<1>5. [NextParts]_partVars => [Thread!Next]_(Thread!vars)
  BY EachPart DEF threadVars, Thread!vars, Thread!uiVars, Thread!displayVars
<1>6. [NextParts]_partVars => [Buffer!Next]_(Buffer!vars)
  BY EachPart DEF bufferVars, Buffer!vars
<1> QED
  BY <1>1, <1>2, <1>3, <1>4, <1>5, <1>6, PTL
     DEF FairParts, Calls!Spec, Commands!CommandSpec, Updates!Spec, Thread!Spec, Buffer!Spec

(* What one side handed to the other arrives, once and in order: events at the client, the
   content of widgets in the window, bytes at the reader; links of a command that waits are
   kept, and threads end with nothing left to do. *)
THEOREM NothingIsLostHolds == FairParts => []NothingIsLost
<1>1. Calls!Spec => []Calls!EventsInOrder
  BY CallsInOrder, ThreadsAssumption
<1>2. Commands!CommandSpec => []Commands!EmissionReferences
  BY CommandsAreKept, CommandsAssumption
<1>3. Updates!Spec => []Updates!SettledIsDrawn
  BY WindowIsDrawn, ThreadsAssumption
<1>4. Thread!Spec => [](Thread!DriverEndsIdle /\ Thread!NothingRunsAfterShutdown)
  BY ThreadsEnd
<1>5. Buffer!Spec => []Buffer!Fifo
  BY FifoHolds, ThreadsAssumption DEF ThreadsAssumption
<1> QED
  BY <1>1, <1>2, <1>3, <1>4, <1>5, PartsRun, PTL DEF NothingIsLost
=============================================================================
