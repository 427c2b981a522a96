---------------------------- MODULE LibraryProofs ----------------------------
(***************************************************************************)
(* Proofs about parts of the library and of the toolkit that work on their *)
(* own, for all values of their constants: how connections find each other, *)
(* the cross links between widgets, the display driver and scrolling.      *)
(***************************************************************************)
EXTENDS Connections, MCToolkit, SequenceLemmas, FiniteSetTheorems

-----------------------------------------------------------------------------
(* Connections: clients and servers pair up.                                 *)

LEMMA ConnInit == Init => ConnInv
<1> SUFFICES ASSUME Init PROVE ConnInv
  OBVIOUS
<1>1. /\ conns = <<>> /\ registry = <<>> /\ answers = {} /\ dispatchers = {}
      /\ pc = [t \in Threads |-> Idle] /\ frozen = FALSE /\ unloaded = DOMAIN Modules
      /\ aborted = FALSE
  BY DEF Init
<1>2. TypeOK
  <2>1. <<>> \in Seq(Connection) /\ <<>> \in Seq(Nat)
    BY EmptySeq
  <2>2. Idle \in States
    BY DEF Idle, States, None
  <2> QED
    BY <1>1, <2>1, <2>2 DEF TypeOK
<1>3. \A t \in Threads : pc[t].at = "out"
  BY <1>1 DEF Idle
<1>4. RegistryExact
  BY <1>1 DEF RegistryExact, IsInjective, ToSet
<1>5. ServersDiffer /\ Paired
  BY <1>1, <1>3 DEF ServersDiffer, Paired
<1> QED
  BY <1>1, <1>2, <1>3, <1>4, <1>5 DEF ConnInv, OneIsBusy, Pending, Answered, MethodsLoaded

\* What the types say of the connections and of the thread at work.
LEMMA ConnTyped ==
  ASSUME TypeOK
  PROVE  /\ DOMAIN conns = 1 .. Len(conns) /\ Len(conns) \in Nat
         /\ \A c \in DOMAIN conns :
              /\ conns[c] \in Connection /\ conns[c].kind \in {"server", "client"}
              /\ conns[c].protocol \in Protocols /\ conns[c].peer \in Nat
         /\ \A t \in Threads :
              /\ pc[t] \in States /\ pc[t].self \in Nat /\ pc[t].server \in Nat
              /\ pc[t].at \in {"out", "bind", "construct", "attach"}
         /\ Idle \in States /\ Idle.at = "out"
<1>1. conns \in Seq(Connection) /\ pc \in [Threads -> States]
  BY DEF TypeOK
<1>2. DOMAIN conns = 1 .. Len(conns) /\ Len(conns) \in Nat
      /\ \A c \in DOMAIN conns : conns[c] \in Connection
  BY <1>1, LenProperties, ElementOfSeq
<1>3. \A t \in Threads : pc[t] \in States
  BY <1>1
<1>4. Idle \in States /\ Idle.at = "out"
  BY DEF Idle, States, None
<1> QED
  BY <1>2, <1>3, <1>4 DEF Connection, States

(* server_connection_from_protocol() finds the one server of the protocol.   *)
LEMMA LookupFinds ==
  ASSUME ConnInv, NEW p
  PROVE  /\ Lookup(p) # None =>
              /\ Lookup(p) \in DOMAIN conns /\ conns[Lookup(p)].kind = "server"
              /\ conns[Lookup(p)].protocol = p
         /\ (\A c \in DOMAIN conns : conns[c].kind = "server" => conns[c].protocol # p)
              => Lookup(p) = None
<1> DEFINE found == {i \in DOMAIN registry : Matches(i, p)}
<1>1. \A i \in DOMAIN registry : registry[i] \in DOMAIN conns
  BY DEF ConnInv, RegistryExact, ToSet
<1>2. ASSUME NEW i \in found
      PROVE  /\ registry[i] \in DOMAIN conns /\ conns[registry[i]].kind = "server"
             /\ conns[registry[i]].protocol = p
  BY <1>1 DEF Matches
<1>3. ASSUME NEW i \in found, NEW k \in found
      PROVE  i = k
  <2>1. registry[i] = registry[k]
    BY <1>2 DEF ConnInv, ServersDiffer
  <2> QED
    BY <2>1 DEF ConnInv, RegistryExact, IsInjective
<1>4. \A i \in found : i \in Nat
  <2>1. registry \in Seq(Nat)
    BY DEF ConnInv, TypeOK
  <2> QED
    BY <2>1, LenProperties
<1>5. Lookup(p) = IF found = {} THEN None
                  ELSE registry[CHOOSE i \in found : \A k \in found : i <= k]
  BY DEF Lookup
<1> HIDE DEF found
<1>6. CASE found = {}
  BY <1>5, <1>6
<1>7. CASE found # {}
  <2>1. PICK i \in found : \A k \in found : i <= k
    <3>1. PICK i \in found : TRUE
      BY <1>7
    <3>2. \A k \in found : i <= k
      BY <1>3, <1>4, <3>1
    <3> QED
      BY <3>2
  <2>2. (CHOOSE j \in found : \A k \in found : j <= k) \in found
    BY <2>1
  <2> QED
    BY <1>2, <1>5, <1>7, <2>2
<1> QED
  BY <1>6, <1>7

\* register_connection() appends, since there is no free slot.
LEMMA RegisteredAppends ==
  ASSUME ConnInv, NEW c
  PROVE  Registered(registry, c) = Append(registry, c)
<1>1. \A i \in DOMAIN registry : registry[i] # None
  <2>1. \A i \in DOMAIN registry : registry[i] \in DOMAIN conns
    BY DEF ConnInv, RegistryExact, ToSet
  <2>2. None \notin DOMAIN conns
    BY ConnTyped DEF ConnInv, None
  <2> QED
    BY <2>1, <2>2
<1> QED
  BY <1>1 DEF Registered

\* A new connection takes the next id, and the others stay.
LEMMA ConnCreated ==
  ASSUME ConnInv, NEW c \in Connection,
         conns' = Append(conns, c), registry' = Registered(registry, Len(conns) + 1)
  PROVE  /\ conns' \in Seq(Connection) /\ registry' \in Seq(Nat)
         /\ Len(conns) + 1 \notin DOMAIN conns
         /\ DOMAIN conns' = DOMAIN conns \cup {Len(conns) + 1}
         /\ \A a \in DOMAIN conns : conns'[a] = conns[a]
         /\ conns'[Len(conns) + 1] = c
         /\ RegistryExact'
<1> DEFINE n == Len(conns) + 1
<1>1. conns \in Seq(Connection) /\ registry \in Seq(Nat)
  BY DEF ConnInv, TypeOK
<1>2. /\ conns' \in Seq(Connection) /\ Len(conns') = n
      /\ \A a \in 1 .. Len(conns) : conns'[a] = conns[a]
      /\ conns'[n] = c
  BY <1>1, AppendProperties
<1>3. /\ DOMAIN conns = 1 .. Len(conns) /\ Len(conns) \in Nat
      /\ DOMAIN conns' = 1 .. n
  BY <1>1, <1>2, LenProperties
<1>4. n \notin DOMAIN conns /\ DOMAIN conns' = DOMAIN conns \cup {n}
  BY <1>3
<1>5. n \in Nat
  BY <1>3
<1>6. registry' = Append(registry, n)
  BY RegisteredAppends
<1> HIDE DEF n
<1>7. registry' \in Seq(Nat)
  <2>1. Append(registry, n) \in Seq(Nat)
    BY <1>1, <1>5, AppendProperties
  <2> QED
    BY <1>6, <2>1
<1>8. RegistryExact'
  <2>1. /\ ToSet(Append(registry, n)) = ToSet(registry) \cup {n}
        /\ IsInjective(registry) /\ n \notin ToSet(registry) =>
             IsInjective(Append(registry, n))
    BY <1>1, <1>5, AppendElements
  <2>2. IsInjective(registry) /\ ToSet(registry) = DOMAIN conns
    BY DEF ConnInv, RegistryExact
  <2> QED
    BY <1>4, <1>6, <2>1, <2>2 DEF RegistryExact
<1> QED
  BY <1>2, <1>3, <1>4, <1>7, <1>8 DEF n

-----------------------------------------------------------------------------
(* One thread connects or binds at a time.                                   *)

LEMMA OthersAreIdle ==
  ASSUME ConnInv, NEW t \in Threads, pc[t].at # "out" \/ (OneAtATime /\ MayStart(t))
  PROVE  \A u \in Threads : u # t => pc[u].at = "out"
BY DEF ConnInv, OneIsBusy, MayStart

\* Bind() and Connect() go on with a thread that has done nothing yet.
LEMMA ConnStarts ==
  ASSUME ConnInv, NEW t \in Threads, NEW doing \in States,
         \A u \in Threads : pc[u].at = "out", pc' = [pc EXCEPT ![t] = doing],
         UNCHANGED <<conns, registry, answers, methods, aborted>>,
         doing.at = "bind" =>
           \A c \in DOMAIN conns : conns[c].kind = "server" => conns[c].protocol # doing.protocol,
         doing.at = "construct" =>
           /\ doing.server \in DOMAIN conns /\ conns[doing.server].kind = "server"
           /\ ~HasPeer(doing.server) /\ conns[doing.server].protocol = doing.protocol,
         doing.at # "attach", doing.protocol \in Protocols
  PROVE  ConnInv'
<1>1. /\ pc' \in [Threads -> States] /\ pc'[t] = doing
      /\ \A u \in Threads : u # t => pc'[u] = pc[u] /\ pc'[u].at = "out"
  BY DEF ConnInv, TypeOK
<1>2. TypeOK' /\ RegistryExact' /\ MethodsLoaded'
  BY <1>1 DEF ConnInv, TypeOK, RegistryExact, MethodsLoaded, methods
<1>3. OneIsBusy'
  BY <1>1 DEF OneIsBusy
<1>4. ServersDiffer'
  BY <1>1 DEF ConnInv, ServersDiffer
<1>5. ASSUME NEW u \in Threads
      PROVE  Pending(u)'
  BY <1>1 DEF Pending, HasPeer
<1>6. Paired' /\ Answered'
  BY <1>1 DEF ConnInv, Paired, Answered, Attached, HasPeer
<1> QED
  BY <1>2, <1>3, <1>4, <1>5, <1>6 DEF ConnInv

LEMMA BindStep ==
  ASSUME ConnInv, OneAtATime, NEW t \in Threads, NEW p \in Protocols, Bind(t, p)
  PROVE  ConnInv'
<1> DEFINE doing == [Idle EXCEPT !.at = "bind", !.protocol = p]
<1>1. Lookup(p) = None
  BY LookupFinds DEF Bind
<1>2. pc' = [pc EXCEPT ![t] = doing] /\ UNCHANGED <<conns, registry, answers, methods, aborted>>
  BY <1>1 DEF Bind, Proceed
<1>3. doing \in States /\ doing.at = "bind" /\ doing.protocol = p
  BY DEF States, Idle, None
<1>4. \A u \in Threads : pc[u].at = "out"
  BY DEF Bind, MayStart
<1>5. \A c \in DOMAIN conns : conns[c].kind = "server" => conns[c].protocol # p
  BY DEF Bind
<1> HIDE DEF doing
<1> QED
  BY <1>2, <1>3, <1>4, <1>5, ConnStarts

LEMMA ConnectStep ==
  ASSUME ConnInv, OneAtATime, NEW t \in Threads, NEW p \in Protocols, Connect(t, p)
  PROVE  ConnInv'
<1> DEFINE s == Lookup(p)
           doing == [at |-> "construct", protocol |-> p, server |-> s, self |-> None]
           failed(error) ==
             /\ answers' = answers \union {[protocol |-> p, result |-> 0, error |-> error]}
             /\ UNCHANGED pc
<1>1. UNCHANGED <<conns, registry, methods, aborted>>
  BY DEF Connect
<1>2. \/ failed("EHOSTUNREACH") \/ failed("EBUSY")
      \/ s # None /\ ~HasPeer(s) /\ pc' = [pc EXCEPT ![t] = doing] /\ UNCHANGED answers
  BY DEF Connect, Busy, Proceed
<1>3. ASSUME NEW error \in {"EHOSTUNREACH", "EBUSY"}, failed(error)
      PROVE  ConnInv'
  <2>1. TypeOK'
    BY <1>1, <1>3 DEF ConnInv, TypeOK, Answer, methods
  <2>2. Answered'
    BY <1>1, <1>3 DEF ConnInv, Answered, Attached
  <2> QED
    BY <1>1, <1>3, <2>1, <2>2 DEF ConnInv, RegistryExact, OneIsBusy, ServersDiffer, Pending,
                                  Paired, Attached, HasPeer, MethodsLoaded, methods
<1>4. ASSUME s # None, ~HasPeer(s), pc' = [pc EXCEPT ![t] = doing], UNCHANGED answers
      PROVE  ConnInv'
  <2>1. s \in DOMAIN conns /\ conns[s].kind = "server" /\ conns[s].protocol = p
    BY <1>4, LookupFinds
  <2>2. doing \in States /\ doing.at = "construct" /\ doing.protocol = p /\ doing.server = s
    <3>1. s \in Nat
      BY <2>1, ConnTyped DEF ConnInv
    <3> HIDE DEF s
    <3> QED
      BY <3>1 DEF States, None
  <2>3. \A u \in Threads : pc[u].at = "out"
    BY DEF Connect, MayStart
  <2> HIDE DEF doing, s
  <2> QED
    BY <1>1, <1>4, <2>1, <2>2, <2>3, ConnStarts
<1> QED
  BY <1>2, <1>3, <1>4

LEMMA BoundStep ==
  ASSUME ConnInv, NEW t \in Threads, Bound(t)
  PROVE  ConnInv'
<1> DEFINE n == Len(conns) + 1
           new == [kind |-> "server", protocol |-> pc[t].protocol, peer |-> None]
<1>1. /\ pc[t].at = "bind" /\ conns' = Append(conns, new)
      /\ registry' = Registered(registry, n) /\ pc' = [pc EXCEPT ![t] = Idle]
      /\ UNCHANGED <<answers, methods, aborted>>
  BY DEF Bound, Created, Proceed
<1>2. TypeOK /\ pc \in [Threads -> States] /\ \A u \in Threads : pc'[u].at = "out"
  BY <1>1, OthersAreIdle, ConnTyped DEF ConnInv, TypeOK
<1>3. new \in Connection /\ new.kind = "server" /\ new.peer = None
      /\ new.protocol = pc[t].protocol
  BY <1>1 DEF ConnInv, Pending, Connection, None
<1> HIDE DEF n, new
<1>4. /\ conns' \in Seq(Connection) /\ registry' \in Seq(Nat)
      /\ n \notin DOMAIN conns /\ DOMAIN conns' = DOMAIN conns \cup {n}
      /\ \A a \in DOMAIN conns : conns'[a] = conns[a]
      /\ conns'[n] = new /\ RegistryExact'
  BY <1>1, <1>3, ConnCreated DEF n
<1>5. TypeOK'
  BY <1>1, <1>2, <1>4, ConnTyped DEF TypeOK, methods
<1>6. OneIsBusy' /\ \A u \in Threads : Pending(u)'
  BY <1>2 DEF OneIsBusy, Pending
<1>7. ServersDiffer'
  <2>1. \A c \in DOMAIN conns : conns[c].kind = "server" => conns[c].protocol # new.protocol
    BY <1>1, <1>3 DEF ConnInv, ServersDiffer
  <2>2. \A a, b \in DOMAIN conns' :
          conns'[a].kind = "server" /\ conns'[b].kind = "server"
            /\ conns'[a].protocol = conns'[b].protocol => a = b
    BY <1>4, <2>1 DEF ConnInv, ServersDiffer
  <2> QED
    BY <1>2, <2>2 DEF ServersDiffer
<1>8. \A u \in Threads : pc[u].at # "attach"
  BY <1>1, OthersAreIdle
<1>9. Paired'
  <2>1. ASSUME NEW c \in DOMAIN conns
        PROVE  /\ HasPeer(c)' =>
                    /\ conns'[c].peer \in DOMAIN conns'
                    /\ conns'[conns'[c].peer].protocol = conns'[c].protocol
                    /\ conns'[conns'[c].peer].kind # conns'[c].kind
               /\ conns'[c].kind = "client" => HasPeer(c)' /\ Attached(c)'
    BY <1>4, <1>8 DEF ConnInv, Paired, HasPeer, Attached
  <2>2. conns'[n].peer = None /\ conns'[n].kind # "client"
    BY <1>3, <1>4
  <2> QED
    BY <1>4, <2>1, <2>2 DEF Paired, HasPeer
<1>10. Answered'
  BY <1>1, <1>4 DEF ConnInv, Answered, Attached, Paired, HasPeer
<1>11. MethodsLoaded'
  BY <1>1 DEF ConnInv, MethodsLoaded, methods
<1> QED
  BY <1>4, <1>5, <1>6, <1>7, <1>9, <1>10, <1>11 DEF ConnInv

LEMMA ConstructStep ==
  ASSUME ConnInv, NEW t \in Threads, Construct(t)
  PROVE  ConnInv'
<1> DEFINE n == Len(conns) + 1
           s == pc[t].server
           new == [kind |-> "client", protocol |-> pc[t].protocol, peer |-> s]
           doing == [pc[t] EXCEPT !.at = "attach", !.self = n]
<1>1. /\ pc[t].at = "construct" /\ s \in DOMAIN conns /\ conns[s].kind = "server"
      /\ ~HasPeer(s) /\ conns[s].protocol = pc[t].protocol /\ pc[t].protocol \in Protocols
  BY DEF Construct, ConnInv, Pending
<1>2. /\ conns' = Append(conns, new)
      /\ registry' = Registered(registry, n) /\ pc' = [pc EXCEPT ![t] = doing]
      /\ UNCHANGED <<answers, methods, aborted>>
  BY <1>1 DEF Construct, Created, Proceed
<1>3. /\ TypeOK /\ pc \in [Threads -> States] /\ s \in Nat /\ n \in Nat /\ s # None
      /\ \A u \in Threads : u # t => pc[u].at = "out"
  <2>1. TypeOK /\ pc \in [Threads -> States]
    BY DEF ConnInv, TypeOK
  <2>2. s \in Nat /\ n \in Nat /\ s # None
    BY <1>1, <2>1, ConnTyped DEF None
  <2> QED
    BY <1>1, <2>1, <2>2, OthersAreIdle
<1>4. new \in Connection /\ new.kind = "client" /\ new.peer = s
      /\ new.protocol = pc[t].protocol
  BY <1>1, <1>3 DEF Connection
<1>5. doing \in States /\ doing.at = "attach" /\ doing.self = n /\ doing.server = s
      /\ doing.protocol = pc[t].protocol
  <2>1. pc[t] \in States
    BY <1>3
  <2> HIDE DEF n
  <2> QED
    BY <1>3, <2>1 DEF States
<1> HIDE DEF n, new, doing
<1>6. /\ conns' \in Seq(Connection) /\ registry' \in Seq(Nat)
      /\ n \notin DOMAIN conns /\ DOMAIN conns' = DOMAIN conns \cup {n}
      /\ \A a \in DOMAIN conns : conns'[a] = conns[a]
      /\ conns'[n] = new /\ RegistryExact'
  BY <1>2, <1>4, ConnCreated DEF n
<1>7. /\ pc' \in [Threads -> States] /\ pc'[t] = doing
      /\ \A u \in Threads : u # t => pc'[u].at = "out"
  BY <1>2, <1>3, <1>5
<1>8. TypeOK'
  BY <1>2, <1>3, <1>6, <1>7 DEF TypeOK, methods
<1>9. OneIsBusy'
  BY <1>7 DEF OneIsBusy
<1>10. ASSUME NEW u \in Threads
       PROVE  Pending(u)'
  BY <1>1, <1>4, <1>5, <1>6, <1>7 DEF Pending, HasPeer
<1>11. ServersDiffer'
  BY <1>4, <1>5, <1>6, <1>7 DEF ConnInv, ServersDiffer
<1>12. Paired'
  <2>1. \A u \in Threads : pc[u].at # "attach"
    BY <1>1, <1>3
  <2>2. ASSUME NEW c \in DOMAIN conns
        PROVE  /\ HasPeer(c)' =>
                    /\ conns'[c].peer \in DOMAIN conns'
                    /\ conns'[conns'[c].peer].protocol = conns'[c].protocol
                    /\ conns'[conns'[c].peer].kind # conns'[c].kind
               /\ conns'[c].kind = "client" => HasPeer(c)' /\ Attached(c)'
    BY <1>6, <2>1 DEF ConnInv, Paired, HasPeer, Attached
  <2>3. /\ conns'[n].peer # None /\ conns'[n].peer \in DOMAIN conns'
        /\ conns'[conns'[n].peer].protocol = conns'[n].protocol
        /\ conns'[conns'[n].peer].kind # conns'[n].kind
    BY <1>1, <1>3, <1>4, <1>6
  <2>4. pc'[t].at = "attach" /\ pc'[t].self = n
    BY <1>5, <1>7
  <2> QED
    BY <1>6, <2>2, <2>3, <2>4 DEF Paired, HasPeer
<1>13. Answered'
  BY <1>2, <1>6 DEF ConnInv, Answered, Attached, Paired, HasPeer
<1>14. MethodsLoaded'
  BY <1>2 DEF ConnInv, MethodsLoaded, methods
<1> QED
  BY <1>6, <1>8, <1>9, <1>10, <1>11, <1>12, <1>13, <1>14 DEF ConnInv

LEMMA AttachStep ==
  ASSUME ConnInv, NEW t \in Threads, Attach(t)
  PROVE  ConnInv'
<1> DEFINE s == pc[t].server
           c == pc[t].self
           given == [protocol |-> pc[t].protocol, result |-> c, error |-> "none"]
<1>1. /\ pc[t].at = "attach" /\ s \in DOMAIN conns /\ conns[s].kind = "server"
      /\ ~HasPeer(s) /\ conns[s].protocol = pc[t].protocol /\ pc[t].protocol \in Protocols
      /\ c \in DOMAIN conns /\ conns[c].kind = "client" /\ conns[c].peer = s
  BY DEF Attach, ConnInv, Pending
<1>2. /\ aborted' = FALSE /\ conns' = [conns EXCEPT ![s].peer = c]
      /\ answers' = answers \union {given} /\ pc' = [pc EXCEPT ![t] = Idle]
      /\ UNCHANGED <<registry, methods>>
  BY <1>1 DEF Attach, Proceed
<1>3. TypeOK /\ conns \in Seq(Connection) /\ c \in Nat /\ c # None
  BY <1>1, ConnTyped DEF ConnInv, TypeOK, None
<1>4. \A u \in Threads : pc'[u].at = "out"
  BY <1>1, <1>2, <1>3, OthersAreIdle, ConnTyped DEF TypeOK
<1>5. pc' \in [Threads -> States] /\ answers' \subseteq Answer
  <2>1. given \in Answer
    BY <1>1, <1>3 DEF Answer
  <2> HIDE DEF given
  <2> QED
    BY <1>2, <1>3, <2>1, ConnTyped DEF TypeOK
<1>6. /\ conns' \in Seq(Connection) /\ DOMAIN conns' = DOMAIN conns
      /\ \A a \in DOMAIN conns : a # s => conns'[a] = conns[a]
      /\ conns'[s].kind = "server" /\ conns'[s].protocol = conns[s].protocol
      /\ conns'[s].peer = c
  <2> DEFINE new == [conns[s] EXCEPT !.peer = c]
  <2>1. /\ new \in Connection /\ new.kind = conns[s].kind
        /\ new.protocol = conns[s].protocol /\ new.peer = c
    BY <1>1, <1>3, ConnTyped DEF Connection
  <2>2. conns' = [conns EXCEPT ![s] = new]
    BY <1>2
  <2> HIDE DEF new
  <2> QED
    BY <1>1, <1>3, <2>1, <2>2, ExceptSeq
<1> HIDE DEF s, c
<1>7. TypeOK'
  BY <1>2, <1>3, <1>5, <1>6 DEF TypeOK, methods
<1>8. RegistryExact' /\ OneIsBusy' /\ \A u \in Threads : Pending(u)'
  BY <1>2, <1>4, <1>6 DEF ConnInv, RegistryExact, OneIsBusy, Pending
<1>9. ServersDiffer'
  BY <1>1, <1>4, <1>6 DEF ConnInv, ServersDiffer
<1>10. \A a \in DOMAIN conns : conns'[a].kind = conns[a].kind
                               /\ conns'[a].protocol = conns[a].protocol
                               /\ (a # s => conns'[a].peer = conns[a].peer)
  BY <1>1, <1>6
<1>11. ASSUME NEW a \in DOMAIN conns, conns[a].kind = "client"
       PROVE  HasPeer(a)' /\ (a = c \/ Attached(a) => Attached(a)')
  <2>1. a # s /\ HasPeer(a) /\ conns[a].peer \in DOMAIN conns /\ conns'[a] = conns[a]
    BY <1>1, <1>6, <1>11 DEF ConnInv, Paired
  <2>2. ASSUME Attached(a)
        PROVE  conns[a].peer # s
    <3>1. a # None
      BY <1>3, ConnTyped DEF None
    <3> QED
      BY <1>1, <2>2, <3>1 DEF Attached, HasPeer
  <2> QED
    BY <1>1, <1>6, <1>11, <2>1, <2>2 DEF Attached, HasPeer
<1>12. Paired'
  <2>1. ASSUME NEW a \in DOMAIN conns, HasPeer(a)'
        PROVE  /\ conns'[a].peer \in DOMAIN conns
               /\ conns'[conns'[a].peer].protocol = conns'[a].protocol
               /\ conns'[conns'[a].peer].kind # conns'[a].kind
    <3>1. CASE a = s
      <4>1. conns[s].protocol = conns[c].protocol
        BY <1>1, <1>3, ConnTyped DEF ConnInv, Paired, HasPeer, None
      <4> QED
        BY <1>1, <1>6, <1>10, <3>1, <4>1
    <3>2. CASE a # s
      <4>1. HasPeer(a) /\ conns'[a] = conns[a]
        BY <1>6, <2>1, <3>2 DEF HasPeer
      <4>2. /\ conns[a].peer \in DOMAIN conns
            /\ conns[conns[a].peer].protocol = conns[a].protocol
            /\ conns[conns[a].peer].kind # conns[a].kind
        BY <4>1 DEF ConnInv, Paired
      <4> QED
        BY <1>10, <4>1, <4>2
    <3> QED
      BY <3>1, <3>2
  <2>2. ASSUME NEW a \in DOMAIN conns, conns'[a].kind = "client"
        PROVE  HasPeer(a)' /\ Attached(a)'
    <3>1. conns[a].kind = "client"
      BY <1>10, <2>2
    <3>2. a = c \/ Attached(a)
      <4>1. Attached(a) \/ \E u \in Threads : pc[u].at = "attach" /\ pc[u].self = a
        BY <3>1 DEF ConnInv, Paired
      <4>2. \A u \in Threads : pc[u].at = "attach" => u = t
        BY <1>1, OthersAreIdle
      <4> QED
        BY <4>1, <4>2 DEF c
    <3> QED
      BY <1>11, <3>1, <3>2
  <2> QED
    BY <1>6, <2>1, <2>2 DEF Paired
<1>13. Answered'
  <2>1. ASSUME NEW a \in answers', a.error = "none"
        PROVE  a.result \in DOMAIN conns /\ Attached(a.result)'
               /\ conns'[a.result].protocol = a.protocol
    <3>1. CASE a \in answers
      <4>1. a.result \in DOMAIN conns /\ Attached(a.result)
            /\ conns[a.result].protocol = a.protocol
        BY <2>1, <3>1 DEF ConnInv, Answered
      <4>2. Attached(a.result)'
        BY <1>11, <4>1 DEF Attached
      <4> QED
        BY <1>10, <4>1, <4>2
    <3>2. CASE a = given
      <4>1. a.result = c /\ a.protocol = pc[t].protocol
        BY <3>2
      <4>2. Attached(a.result)'
        BY <1>1, <1>11, <4>1
      <4>3. conns[s].protocol = conns[c].protocol
        BY <1>1, <1>3, ConnTyped DEF ConnInv, Paired, HasPeer, None
      <4> QED
        BY <1>1, <1>10, <4>1, <4>2, <4>3
    <3> QED
      BY <1>2, <2>1, <3>1, <3>2
  <2> QED
    BY <1>6, <2>1 DEF Answered
<1>14. MethodsLoaded'
  BY <1>2 DEF ConnInv, MethodsLoaded, methods
<1> QED
  BY <1>7, <1>8, <1>9, <1>12, <1>13, <1>14 DEF ConnInv

-----------------------------------------------------------------------------
(* The methods.                                                              *)

LEMMA MethodsKeep ==
  ASSUME ConnInv, UNCHANGED pairing, TypeOK', MethodsLoaded'
  PROVE  ConnInv'
BY DEF ConnInv, pairing, RegistryExact, OneIsBusy, ServersDiffer, Pending, Paired, Answered,
       Attached, HasPeer

LEMMA LoadStep ==
  ASSUME ConnInv, NEW m \in DOMAIN Modules, Load(m)
  PROVE  ConnInv'
<1>1. m \in unloaded /\ unloaded' = unloaded \ {m} /\ ~frozen /\ UNCHANGED <<pairing, frozen>>
  BY DEF Load, ConnInv, MethodsLoaded
<1>2. dispatchers' = dispatchers \union Modules[m]
      /\ aborted' = (Modules[m] \intersect dispatchers # {})
  BY <1>1 DEF Load
<1>3. unloaded \subseteq DOMAIN Modules
      /\ dispatchers = UNION {Modules[k] : k \in DOMAIN Modules \ unloaded}
  BY DEF ConnInv, TypeOK, MethodsLoaded
<1>4. Modules[m] \intersect dispatchers = {}
  BY <1>1, <1>3, RegistryAssumption
<1>5. TypeOK'
  BY <1>1, <1>2, <1>4 DEF ConnInv, TypeOK, pairing
<1>6. DOMAIN Modules \ unloaded' = (DOMAIN Modules \ unloaded) \cup {m}
  BY <1>1, <1>3
<1>7. MethodsLoaded'
  <2>1. UNION {Modules[k] : k \in (DOMAIN Modules \ unloaded) \cup {m}}
          = (UNION {Modules[k] : k \in DOMAIN Modules \ unloaded}) \cup Modules[m]
    OBVIOUS
  <2> QED
    BY <1>1, <1>2, <1>3, <1>6, <2>1 DEF MethodsLoaded
<1> QED
  BY <1>1, <1>5, <1>7, MethodsKeep

LEMMA FindStep ==
  ASSUME ConnInv, NEW c, NEW method \in Methods, FindMethod(c, method)
  PROVE  ConnInv'
<1>1. unloaded = {} /\ frozen' = TRUE /\ aborted' = (method \notin dispatchers)
      /\ UNCHANGED <<pairing, dispatchers, unloaded>>
  BY DEF FindMethod
<1>2. method \in dispatchers
  BY <1>1, RegistryAssumption DEF ConnInv, MethodsLoaded
<1>3. TypeOK' /\ MethodsLoaded'
  BY <1>1, <1>2 DEF ConnInv, TypeOK, MethodsLoaded, pairing
<1> QED
  BY <1>1, <1>3, MethodsKeep

LEMMA ConnStep == OneAtATime /\ ConnInv /\ [Next]_vars => ConnInv'
<1> SUFFICES ASSUME OneAtATime, ConnInv, [Next]_vars PROVE ConnInv'
  OBVIOUS
<1>1. CASE UNCHANGED vars
  BY <1>1 DEF vars, ConnInv, TypeOK, RegistryExact, OneIsBusy, ServersDiffer, Pending, Paired,
              Answered, Attached, HasPeer, MethodsLoaded
<1> QED
  BY <1>1, BindStep, ConnectStep, BoundStep, ConstructStep, AttachStep, LoadStep, FindStep
     DEF Next

\* Two clients of one protocol have the same server, and that has one peer.
LEMMA PairsFollow == ConnInv => PairsMatch
<1> SUFFICES ASSUME ConnInv PROVE PairsMatch
  OBVIOUS
<1>1. ASSUME NEW a \in answers, NEW b \in answers,
             a.protocol = b.protocol, a.error = "none", b.error = "none"
      PROVE  a = b
  <2>1. /\ a.result \in DOMAIN conns /\ Attached(a.result)
        /\ conns[a.result].protocol = a.protocol
        /\ b.result \in DOMAIN conns /\ Attached(b.result)
        /\ conns[b.result].protocol = b.protocol
    BY <1>1 DEF ConnInv, Answered
  <2> DEFINE s == conns[a.result].peer
             r == conns[b.result].peer
  <2>2. \A x \in DOMAIN conns : conns[x].kind \in {"server", "client"}
    BY ConnTyped DEF ConnInv
  <2>3. /\ s \in DOMAIN conns /\ conns[s].kind = "server" /\ conns[s].protocol = a.protocol
        /\ r \in DOMAIN conns /\ conns[r].kind = "server" /\ conns[r].protocol = b.protocol
    BY <2>1, <2>2 DEF ConnInv, Paired, Attached
  <2>4. s = r
    BY <1>1, <2>3 DEF ConnInv, ServersDiffer
  <2>5. a.result = b.result
    BY <2>1, <2>4 DEF Attached
  <2>6. a \in Answer /\ b \in Answer
    BY DEF ConnInv, TypeOK
  <2> QED
    BY <1>1, <2>5, <2>6 DEF Answer
<1>2. ASSUME NEW c \in DOMAIN conns
      PROVE  /\ HasPeer(c) => /\ conns[conns[c].peer].protocol = conns[c].protocol
                              /\ conns[conns[c].peer].kind # conns[c].kind
             /\ conns[c].kind = "client" =>
                  \/ conns[conns[c].peer].peer = c
                  \/ \E t \in Threads : pc[t].at = "attach" /\ pc[t].self = c
  BY DEF ConnInv, Paired, Attached
<1> QED
  BY <1>1, <1>2 DEF PairsMatch, ConnInv, TypeOK, RegistryExact

(* If the threads of the program connect and bind one after the other, clients *)
(* and servers pair up one to one, and no assertion of bind(), connect() and   *)
(* find_method() fails, for all threads, protocols and modules.                *)
THEOREM PairsAlwaysMatch == OneAtATime => (Spec => []PairsMatch)
<1> SUFFICES ASSUME OneAtATime PROVE Spec => []PairsMatch
  OBVIOUS
<1>1. ConnInv /\ [Next]_vars => ConnInv'
  BY ConnStep
<1> QED
  BY ConnInit, PairsFollow, <1>1, PTL DEF Spec

-----------------------------------------------------------------------------
(* CrossLinks: what owners of links are told.                                *)

LEMMA LinksBegin == LinksInit => LinksInv
<1> SUFFICES ASSUME LinksInit PROVE LinksInv
  OBVIOUS
<1>1. /\ links = <<>> /\ stack = <<>> /\ created = 0
      /\ owned = {} /\ told = {} /\ thrown = FALSE
  BY DEF LinksInit
<1>2. LinksTypeOK
  BY <1>1, EmptySeq DEF LinksTypeOK
<1>3. ToSet(links) = {} /\ InProgress = {} /\ IsInjective(links)
  BY <1>1 DEF ToSet, InProgress, IsInjective
<1> QED
  BY <1>1, <1>2, <1>3 DEF LinksInv, AddressesDiffer, OwnersRely, ToldOnce

\* What the types say of the links and of the calls.
LEMMA LinksTyped ==
  ASSUME LinksTypeOK
  PROVE  /\ DOMAIN links = 1 .. Len(links) /\ Len(links) \in Nat
         /\ \A i \in DOMAIN links : links[i] \in Link /\ links[i] \in ToSet(links)
         /\ \A l \in ToSet(links) : \E i \in DOMAIN links : links[i] = l
         /\ DOMAIN stack = 1 .. Len(stack) /\ Len(stack) \in Nat
         /\ \A i \in DOMAIN stack :
              /\ stack[i] \in Frame /\ stack[i].call \in Calls
              /\ stack[i].clink \in Link \cup {NULL} /\ stack[i].mutable \in BOOLEAN
         /\ stack # <<>> => Len(stack) \in DOMAIN stack
         /\ Last(stack) = stack[Len(stack)]
<1>1. links \in Seq(Link) /\ stack \in Seq(Frame)
  BY DEF LinksTypeOK
<1>2. /\ DOMAIN links = 1 .. Len(links) /\ Len(links) \in Nat
      /\ \A i \in DOMAIN links : links[i] \in Link
  BY <1>1, LenProperties, ElementOfSeq
<1>3. /\ DOMAIN stack = 1 .. Len(stack) /\ Len(stack) \in Nat
      /\ \A i \in DOMAIN stack : stack[i] \in Frame
  BY <1>1, LenProperties, ElementOfSeq
<1>4. stack # <<>> => Len(stack) \in DOMAIN stack
  BY <1>1, <1>3, EmptySeq
<1>5. \A f \in Frame : f.call \in Calls /\ f.clink \in Link \cup {NULL} /\ f.mutable \in BOOLEAN
  BY DEF Frame
<1> QED
  BY <1>2, <1>3, <1>4, <1>5 DEF ToSet, Last

\* Links that a call is about to delete.
LEMMA ProgressIs ==
  ASSUME LinksTypeOK
  PROVE  /\ \A i \in DOMAIN stack : stack[i].clink # NULL => stack[i].clink \in InProgress
         /\ \A l \in InProgress : l \in Link /\ \E i \in DOMAIN stack : stack[i].clink = l /\ l # NULL
BY LinksTyped DEF InProgress

(* The search of widget_cross_unlink() through the list finds the link.      *)
LEMMA PositionFinds ==
  ASSUME LinksInv, NEW l \in ToSet(links)
  PROVE  Position(l) \in DOMAIN links /\ links[Position(l)] = l
<1> DEFINE same == {i \in 1 .. Len(links) :
                      links[i].at = l.at /\ links[i].owner = l.owner /\ links[i].link = l.link}
<1>1. LinksTypeOK
  BY DEF LinksInv
<1>2. Position(l) = IF same # {} THEN Min(same) ELSE 0
  BY DEF Position, SelectInSeq
<1>3. PICK k \in DOMAIN links : links[k] = l
  BY <1>1, LinksTyped
<1>4. k \in same
  BY <1>1, <1>3, LinksTyped
<1>5. ASSUME NEW i \in same PROVE i = k
  <2>1. i \in DOMAIN links /\ links[i] \in ToSet(links) /\ links[i].at = l.at
    BY <1>1, LinksTyped
  <2>2. links[i] = l
    BY <2>1 DEF LinksInv, AddressesDiffer
  <2> QED
    BY <1>3, <2>1, <2>2 DEF LinksInv, AddressesDiffer, IsInjective
<1>6. k \in Nat /\ same = {k}
  BY <1>1, <1>4, <1>5, LinksTyped
<1>7. Min(same) = k
  BY <1>6 DEF Min
<1> QED
  BY <1>2, <1>3, <1>6, <1>7

(* A link that its owner relies on, and whose callback runs, is found on     *)
(* uncross_callback_stack.                                                   *)
LEMMA MarkedFinds ==
  ASSUME LinksInv, NEW l \in owned
  PROVE  \/ /\ Marked(l) \in DOMAIN stack /\ Marked(l) # 0
            /\ stack[Marked(l)].clink = l /\ l # NULL
         \/ Marked(l) = 0 /\ l \in ToSet(links)
<1> DEFINE named == {i \in DOMAIN stack :
        /\ stack[i].clink # NULL /\ stack[i].mutable
        /\ stack[i].clink.at = l.at /\ stack[i].clink.owner = l.owner /\ stack[i].clink.link = l.link}
<1>1. LinksTypeOK /\ l \in ToSet(links) \union InProgress
  BY DEF LinksInv, OwnersRely
<1>2. Marked(l) = IF named = {} THEN 0 ELSE CHOOSE i \in named : \A j \in named : j <= i
  BY DEF Marked
<1>3. ASSUME NEW i \in named PROVE i \in DOMAIN stack /\ stack[i].clink = l /\ l # NULL
  <2>1. i \in DOMAIN stack /\ stack[i].clink \in InProgress /\ stack[i].clink.at = l.at
    BY <1>1, ProgressIs
  <2> QED
    BY <1>1, <2>1 DEF LinksInv, AddressesDiffer
<1>4. ASSUME NEW i \in named, NEW j \in named PROVE i = j
  <2>1. /\ i \in DOMAIN stack /\ stack[i].clink = l /\ l # NULL
        /\ j \in DOMAIN stack /\ stack[j].clink = l
    BY <1>3
  <2> QED
    BY <2>1 DEF LinksInv, AddressesDiffer
<1>5. CASE named = {}
  <2>1. ASSUME NEW i \in DOMAIN stack, stack[i].clink = l, l # NULL PROVE FALSE
    <3>1. stack[i].mutable
      BY <2>1 DEF LinksInv, OwnersRely
    <3>2. i \in named
      BY <2>1, <3>1
    <3> QED
      BY <1>5, <3>2
  <2>2. l \in ToSet(links)
    BY <1>1, <2>1, ProgressIs
  <2> QED
    BY <1>2, <1>5, <2>2
<1>6. CASE named # {}
  <2>1. PICK i \in named : TRUE
    BY <1>6
  <2>2. i \in Nat \ {0}
    BY <1>1, <2>1, LinksTyped
  <2>3. \A j \in named : j <= i
    BY <1>4, <2>1, <2>2
  <2>4. (CHOOSE k \in named : \A j \in named : j <= k) \in named
    BY <2>1, <2>3
  <2>5. Marked(l) \in named
    BY <1>2, <1>6, <2>4
  <2>6. Marked(l) = i
    BY <1>4, <2>1, <2>5
  <2> QED
    BY <1>3, <2>1, <2>2, <2>6
<1> QED
  BY <1>5, <1>6

(* The first link that a call breaks.                                        *)
LEMMA FirstBroken ==
  ASSUME LinksTypeOK, NEW n, n = SelectInSeq(links, LAMBDA l : Breaks(Last(stack).call, l)), n # 0
  PROVE  n \in DOMAIN links /\ links[n] \in ToSet(links) /\ links[n] \in Link
<1> DEFINE broken == {i \in 1 .. Len(links) : Breaks(Last(stack).call, links[i])}
<1>1. n = IF broken # {} THEN Min(broken) ELSE 0
  BY DEF SelectInSeq
<1>2. broken # {} /\ n = Min(broken)
  BY <1>1
<1>3. broken \in SUBSET Nat /\ broken \subseteq DOMAIN links
  BY LinksTyped
<1> HIDE DEF broken
<1>4. \E m \in broken : \A k \in broken : m <= k
  BY <1>2, <1>3, LeastOf
<1>5. n \in broken
  BY <1>2, <1>4 DEF Min
<1> QED
  BY <1>3, <1>5, LinksTyped
-----------------------------------------------------------------------------
(* The steps.                                                                *)

\* One frame of the stack changes.
LEMMA FrameChanges ==
  ASSUME LinksTypeOK, NEW k \in DOMAIN stack, NEW f \in Frame, stack' = [stack EXCEPT ![k] = f]
  PROVE  /\ stack' \in Seq(Frame) /\ DOMAIN stack' = DOMAIN stack /\ stack'[k] = f
         /\ \A i \in DOMAIN stack : i # k => stack'[i] = stack[i]
<1>1. /\ stack \in Seq(Frame) /\ DOMAIN stack = 1 .. Len(stack)
      /\ Len(stack) \in Nat
  BY LinksTyped DEF LinksTypeOK
<1>2. stack' \in Seq(Frame)
  BY <1>1, ExceptSeq
<1> QED
  BY <1>1, <1>2

LEMMA LinkStep ==
  ASSUME LinksInv, NEW o \in Widgets, NEW w \in Widgets, WidgetCrossLink(o, w)
  PROVE  LinksInv'
<1> PICK at \in Addresses \ InUse :
       LET new == [at |-> at, owner |-> o, link |-> w, n |-> created + 1]
       IN links' = <<new>> \o links /\ owned' = owned \union {new}
  BY DEF WidgetCrossLink
<1> DEFINE new == [at |-> at, owner |-> o, link |-> w, n |-> created + 1]
<1>1. /\ links' = <<new>> \o links /\ owned' = owned \union {new} /\ created' = created + 1
      /\ UNCHANGED <<stack, told, thrown>>
  BY DEF WidgetCrossLink
<1>2. LinksTypeOK /\ created \in Nat /\ links \in Seq(Link) /\ owned \subseteq Link
      /\ told \subseteq Link
  BY DEF LinksInv, LinksTypeOK
<1>3. new \in Link /\ new.at = at /\ new.n = created + 1
  BY <1>2 DEF Link
<1>4. \A l \in ToSet(links) \union InProgress : l.at # new.at
  BY <1>3 DEF InUse
<1> HIDE DEF new
<1>5. new \notin ToSet(links) /\ new \notin InProgress
  BY <1>4
<1>6. /\ ToSet(links') = ToSet(links) \cup {new} /\ IsInjective(links')
      /\ links' \in Seq(Link)
  BY <1>1, <1>2, <1>3, <1>5, ConsElements, ConsProperties DEF LinksInv, AddressesDiffer
<1>7. InProgress' = InProgress
  BY <1>1 DEF InProgress
<1>8. LinksTypeOK'
  BY <1>1, <1>2, <1>3, <1>6 DEF LinksTypeOK
<1>9. AddressesDiffer'
  BY <1>1, <1>4, <1>5, <1>6, <1>7 DEF AddressesDiffer, LinksInv
<1>10. OwnersRely'
  <2>1. ToSet(links') \subseteq owned' /\ owned' \subseteq ToSet(links') \union InProgress'
    BY <1>1, <1>6, <1>7 DEF OwnersRely, LinksInv
  <2>2. ASSUME NEW i \in DOMAIN stack, stack[i].clink # NULL
        PROVE  stack[i].mutable <=> stack[i].clink \in owned'
    <3>1. stack[i].clink # new
      BY <1>2, <1>5, <2>2, ProgressIs
    <3> QED
      BY <1>1, <2>2, <3>1 DEF OwnersRely, LinksInv
  <2> QED
    BY <1>1, <2>1, <2>2 DEF OwnersRely
<1>11. ToldOnce'
  <2>1. \A l \in owned \union told : l.n \in Nat /\ l.n <= created
    BY <1>2 DEF Link, ToldOnce, LinksInv
  <2>2. new \notin told
    BY <1>2, <1>3, <2>1
  <2>3. \A l \in owned' \union told' : l.n <= created'
    BY <1>1, <1>2, <1>3, <2>1
  <2>4. told' \intersect ToSet(links') = {}
    BY <1>1, <1>6, <2>2 DEF ToldOnce, LinksInv
  <2> QED
    BY <2>3, <2>4 DEF ToldOnce
<1> QED
  BY <1>8, <1>9, <1>10, <1>11 DEF LinksInv

LEMMA UnlinkStep ==
  ASSUME LinksInv, NEW l \in owned, WidgetCrossUnlink(l)
  PROVE  LinksInv'
<1>1. /\ LinksTypeOK /\ links \in Seq(Link) /\ owned \subseteq Link /\ told \subseteq Link /\ l \in Link
      /\ stack \in Seq(Frame)
  BY DEF LinksInv, LinksTypeOK
<1>2. owned' = owned \ {l} /\ UNCHANGED <<created, told>>
  BY DEF WidgetCrossUnlink
<1>3. CASE Marked(l) # 0
  <2> DEFINE k == Marked(l)
             f == [stack[k] EXCEPT !.mutable = FALSE]
  <2>1. k \in DOMAIN stack /\ stack[k].clink = l /\ l # NULL
    BY <1>3, MarkedFinds
  <2>2. stack' = [stack EXCEPT ![k].mutable = FALSE] /\ UNCHANGED <<links, thrown>>
    BY <1>3 DEF WidgetCrossUnlink
  <2> HIDE DEF k
  <2>3. stack[k] \in Frame
    BY <1>1, <2>1, LinksTyped
  <2>4. f \in Frame /\ f.clink = l /\ f.mutable = FALSE
    BY <2>1, <2>3 DEF Frame
  <2>5. stack' = [stack EXCEPT ![k] = f]
    BY <2>2
  <2> HIDE DEF f
  <2>6. /\ stack' \in Seq(Frame) /\ DOMAIN stack' = DOMAIN stack /\ stack'[k] = f
        /\ \A i \in DOMAIN stack : i # k => stack'[i] = stack[i]
    BY <1>1, <2>1, <2>4, <2>5, FrameChanges
  <2>7. \A i \in DOMAIN stack : stack'[i].clink = stack[i].clink
    BY <2>1, <2>4, <2>6
  <2>8. InProgress' = InProgress
    BY <2>6, <2>7 DEF InProgress
  <2>9. LinksTypeOK'
    BY <1>2, <2>2, <2>6 DEF LinksTypeOK, LinksInv
  <2>10. AddressesDiffer'
    BY <2>2, <2>6, <2>7, <2>8 DEF AddressesDiffer, LinksInv
  <2>11. OwnersRely'
    <3>1. l \in InProgress /\ l \notin ToSet(links)
      BY <1>1, <2>1, ProgressIs DEF LinksInv, AddressesDiffer
    <3>2. ToSet(links') \subseteq owned' /\ owned' \subseteq ToSet(links') \union InProgress'
      BY <1>2, <2>2, <2>8, <3>1 DEF OwnersRely, LinksInv
    <3>3. ASSUME NEW i \in DOMAIN stack, stack[i].clink # NULL
          PROVE  stack'[i].mutable <=> stack'[i].clink \in owned'
      <4>1. CASE i = k
        BY <1>2, <2>4, <2>6, <4>1
      <4>2. CASE i # k
        <5>1. stack[i].clink # l
          BY <2>1, <3>3, <4>2 DEF LinksInv, AddressesDiffer
        <5> QED
          BY <1>2, <2>6, <3>3, <4>2, <5>1 DEF LinksInv, OwnersRely
      <4> QED
        BY <4>1, <4>2
    <3> QED
      BY <2>6, <2>7, <3>2, <3>3 DEF OwnersRely
  <2>12. ToldOnce'
    BY <1>2, <2>2 DEF ToldOnce, LinksInv
  <2> QED
    BY <2>9, <2>10, <2>11, <2>12 DEF LinksInv
<1>4. CASE Marked(l) = 0
  <2> DEFINE p == Position(l)
  <2>1. l \in ToSet(links)
    BY <1>4, MarkedFinds
  <2>2. p \in DOMAIN links /\ links[p] = l
    BY <2>1, PositionFinds
  <2>3. p # 0
    BY <1>1, <2>2, LinksTyped
  <2>4. links' = RemoveAt(links, p) /\ UNCHANGED <<stack, thrown>>
    BY <1>4, <2>3 DEF WidgetCrossUnlink
  <2> HIDE DEF p
  <2>5. /\ links' \in Seq(Link) /\ ToSet(links') = ToSet(links) \ {l} /\ IsInjective(links')
    BY <1>1, <2>2, <2>4, RemoveAtProperties, RemoveAtElements DEF LinksInv, AddressesDiffer
  <2>6. InProgress' = InProgress
    BY <2>4 DEF InProgress
  <2>7. LinksTypeOK'
    BY <1>2, <2>4, <2>5 DEF LinksTypeOK, LinksInv
  <2>8. AddressesDiffer'
    BY <2>4, <2>5, <2>6 DEF AddressesDiffer, LinksInv
  <2>9. OwnersRely'
    <3>1. ToSet(links') \subseteq owned' /\ owned' \subseteq ToSet(links') \union InProgress'
      BY <1>2, <2>5, <2>6 DEF OwnersRely, LinksInv
    <3>2. ASSUME NEW i \in DOMAIN stack, stack[i].clink # NULL
          PROVE  stack[i].mutable <=> stack[i].clink \in owned'
      <4>1. stack[i].clink # l
        BY <1>1, <2>1, <3>2, ProgressIs DEF LinksInv, AddressesDiffer
      <4> QED
        BY <1>2, <3>2, <4>1 DEF LinksInv, OwnersRely
    <3> QED
      BY <2>4, <3>1, <3>2 DEF OwnersRely
  <2>10. ToldOnce'
    BY <1>2, <2>5 DEF ToldOnce, LinksInv
  <2> QED
    BY <2>7, <2>8, <2>9, <2>10 DEF LinksInv
<1> QED
  BY <1>3, <1>4

\* Calls without a link at work come and go.
LEMMA CallsComeAndGo ==
  ASSUME LinksInv, UNCHANGED <<links, created, owned, told, thrown>>, stack' \in Seq(Frame),
         \A i \in DOMAIN stack' :
            stack'[i].clink # NULL => i \in DOMAIN stack /\ stack'[i] = stack[i],
         \A i \in DOMAIN stack :
            stack[i].clink # NULL => i \in DOMAIN stack' /\ stack'[i] = stack[i]
  PROVE  LinksInv'
<1>1. InProgress' = InProgress
  <2>1. \A l \in InProgress : \E i \in DOMAIN stack : l # NULL /\ stack[i].clink = l
    BY DEF InProgress
  <2>2. \A l \in InProgress : l \in InProgress'
    BY <2>1 DEF InProgress
  <2>3. \A l \in InProgress' : \E i \in DOMAIN stack' : l # NULL /\ stack'[i].clink = l
    BY DEF InProgress
  <2>4. \A l \in InProgress' : l \in InProgress
    BY <2>3 DEF InProgress
  <2> QED
    BY <2>2, <2>4
<1>2. LinksTypeOK'
  BY DEF LinksTypeOK, LinksInv
<1>3. AddressesDiffer'
  BY <1>1 DEF AddressesDiffer, LinksInv
<1>4. OwnersRely' /\ ToldOnce'
  BY <1>1 DEF OwnersRely, ToldOnce, LinksInv
<1> QED
  BY <1>2, <1>3, <1>4 DEF LinksInv

LEMMA EnterStep ==
  ASSUME LinksInv, NEW c \in Calls, Enter(c)
  PROVE  LinksInv'
<1> DEFINE new == [call |-> c, clink |-> NULL, mutable |-> FALSE]
<1>1. stack' = Append(stack, new) /\ UNCHANGED <<links, created, owned, told, thrown>>
  BY DEF Enter
<1>2. new \in Frame /\ new.clink = NULL
  BY DEF Frame
<1>3. LinksTypeOK /\ stack \in Seq(Frame)
  BY DEF LinksInv, LinksTypeOK
<1> HIDE DEF new
<1>4. /\ stack' \in Seq(Frame) /\ Len(stack') = Len(stack) + 1
      /\ \A i \in 1 .. Len(stack) : stack'[i] = stack[i]
      /\ stack'[Len(stack) + 1] = new
  BY <1>1, <1>2, <1>3, AppendProperties
<1>5. /\ DOMAIN stack = 1 .. Len(stack) /\ Len(stack) \in Nat
      /\ DOMAIN stack' = 1 .. Len(stack) + 1
  BY <1>3, <1>4, LenProperties
<1>6. \A i \in DOMAIN stack' :
         stack'[i].clink # NULL => i \in DOMAIN stack /\ stack'[i] = stack[i]
  BY <1>2, <1>4, <1>5
<1>7. \A i \in DOMAIN stack : i \in DOMAIN stack' /\ stack'[i] = stack[i]
  BY <1>4, <1>5
<1> QED
  BY <1>1, <1>4, <1>6, <1>7, CallsComeAndGo

LEMMA ReturnStep ==
  ASSUME LinksInv, Return
  PROVE  LinksInv'
<1>1. /\ stack # <<>> /\ Last(stack).clink = NULL /\ stack' = Front(stack)
      /\ UNCHANGED <<links, created, owned, told, thrown>>
  BY DEF Return, Searching
<1>2. LinksTypeOK /\ stack \in Seq(Frame)
  BY DEF LinksInv, LinksTypeOK
<1>3. /\ stack' \in Seq(Frame) /\ DOMAIN stack' = 1 .. (Len(stack) - 1)
      /\ \A i \in 1 .. (Len(stack) - 1) : stack'[i] = stack[i]
  BY <1>1, <1>2, FrontProperties
<1>4. /\ DOMAIN stack = 1 .. Len(stack) /\ Len(stack) \in Nat
      /\ stack[Len(stack)].clink = NULL
  BY <1>1, <1>2, LinksTyped
<1>5. \A i \in DOMAIN stack' : i \in DOMAIN stack /\ stack'[i] = stack[i]
  BY <1>3, <1>4
<1>6. \A i \in DOMAIN stack :
         stack[i].clink # NULL => i \in DOMAIN stack' /\ stack'[i] = stack[i]
  BY <1>3, <1>4
<1> QED
  BY <1>1, <1>3, <1>5, <1>6, CallsComeAndGo

LEMMA UncrossStep ==
  ASSUME LinksInv, Uncross
  PROVE  LinksInv'
<1> DEFINE n == SelectInSeq(links, LAMBDA l : Breaks(Last(stack).call, l))
           l == links[n]
           k == Len(stack)
           f == [stack[k] EXCEPT !.clink = l, !.mutable = TRUE]
<1>1. /\ stack # <<>> /\ Last(stack).clink = NULL /\ n # 0
      /\ stack' = [stack EXCEPT ![k].clink = l, ![k].mutable = TRUE]
      /\ told' = told \union {l} /\ links' = RemoveAt(links, n)
      /\ UNCHANGED <<created, owned, thrown>>
  BY DEF Uncross, Searching, Notify
<1>2. /\ LinksTypeOK /\ links \in Seq(Link) /\ told \subseteq Link
      /\ ToSet(links) \subseteq owned /\ owned \subseteq ToSet(links) \union InProgress
  BY DEF LinksInv, LinksTypeOK, OwnersRely
<1>3. n \in DOMAIN links /\ l \in ToSet(links) /\ l \in Link
  BY <1>1, <1>2, FirstBroken
<1>4. k \in DOMAIN stack /\ stack[k].clink = NULL /\ stack[k] \in Frame
  BY <1>1, <1>2, LinksTyped
<1>5. stack' = [stack EXCEPT ![k] = f]
  BY <1>1
<1> HIDE DEF n, k
<1>6. /\ links' \in Seq(Link) /\ ToSet(links') = ToSet(links) \ {l} /\ IsInjective(links')
  BY <1>1, <1>2, <1>3, RemoveAtProperties, RemoveAtElements DEF LinksInv, AddressesDiffer
<1> HIDE DEF l
<1>7. f \in Frame /\ f.clink = l /\ f.mutable = TRUE
  BY <1>3, <1>4 DEF Frame
<1> HIDE DEF f
<1>8. /\ stack' \in Seq(Frame) /\ DOMAIN stack' = DOMAIN stack /\ stack'[k] = f
      /\ \A i \in DOMAIN stack : i # k => stack'[i] = stack[i]
  BY <1>2, <1>4, <1>5, <1>7, FrameChanges
<1>9. l # NULL /\ l \notin InProgress
  BY <1>3, CrossLinksAssumption DEF LinksInv, AddressesDiffer
<1>10. InProgress' = InProgress \cup {l}
  <2>1. \A x \in InProgress : \E i \in DOMAIN stack : x # NULL /\ stack[i].clink = x
    BY DEF InProgress
  <2>2. \A x \in InProgress : x \in InProgress'
    BY <1>4, <1>8, <2>1 DEF InProgress
  <2>3. \A x \in InProgress' : \E i \in DOMAIN stack' : x # NULL /\ stack'[i].clink = x
    BY DEF InProgress
  <2>4. \A x \in InProgress' : x \in InProgress \cup {l}
    BY <1>7, <1>8, <2>3 DEF InProgress
  <2>5. l \in InProgress'
    BY <1>4, <1>7, <1>8, <1>9 DEF InProgress
  <2> QED
    BY <2>2, <2>4, <2>5
<1>11. LinksTypeOK'
  BY <1>1, <1>2, <1>3, <1>6, <1>8 DEF LinksTypeOK, LinksInv
<1>12. AddressesDiffer'
  <2>1. /\ ToSet(links') \intersect InProgress' = {}
        /\ \A x, y \in ToSet(links') \union InProgress' : x.at = y.at => x = y
    BY <1>3, <1>6, <1>10 DEF AddressesDiffer, LinksInv
  <2>2. ASSUME NEW i \in DOMAIN stack, NEW j \in DOMAIN stack, stack'[i].clink # NULL,
               stack'[i].clink = stack'[j].clink
        PROVE  i = j
    <3>1. \A h \in DOMAIN stack : h # k => stack'[h].clink # l
      BY <1>2, <1>8, <1>9, ProgressIs
    <3> QED
      BY <1>7, <1>8, <2>2, <3>1 DEF AddressesDiffer, LinksInv
  <2> QED
    BY <1>6, <1>8, <2>1, <2>2 DEF AddressesDiffer
<1>13. OwnersRely'
  <2>1. ToSet(links') \subseteq owned' /\ owned' \subseteq ToSet(links') \union InProgress'
    BY <1>1, <1>2, <1>6, <1>10
  <2>2. ASSUME NEW i \in DOMAIN stack, stack'[i].clink # NULL
        PROVE  stack'[i].mutable <=> stack'[i].clink \in owned'
    BY <1>1, <1>2, <1>3, <1>7, <1>8, <2>2 DEF OwnersRely, LinksInv
  <2> QED
    BY <1>8, <2>1, <2>2 DEF OwnersRely
<1>14. ToldOnce'
  BY <1>1, <1>2, <1>3, <1>6 DEF ToldOnce, LinksInv
<1> QED
  BY <1>11, <1>12, <1>13, <1>14 DEF LinksInv

LEMMA CallbackReturnsStep ==
  ASSUME LinksInv, CallbackReturns
  PROVE  LinksInv'
<1> DEFINE k == Len(stack)
           l == stack[k].clink
           f == [stack[k] EXCEPT !.clink = NULL, !.mutable = FALSE]
<1>1. LinksTypeOK /\ stack # <<>>
  BY DEF LinksInv, CallbackReturns
<1>2. k \in DOMAIN stack /\ Last(stack) = stack[k] /\ stack[k] \in Frame
  BY <1>1, LinksTyped
<1>3. /\ l # NULL /\ owned' = owned \ {l}
      /\ stack' = [stack EXCEPT ![k].clink = NULL, ![k].mutable = FALSE]
      /\ UNCHANGED <<links, created, told, thrown>>
  BY <1>1, <1>2 DEF CallbackReturns, Running
<1>4. stack' = [stack EXCEPT ![k] = f]
  BY <1>3
<1>5. f \in Frame /\ f.clink = NULL
  BY <1>2 DEF Frame
<1>6. l \in InProgress /\ l \notin ToSet(links)
  BY <1>1, <1>2, <1>3, ProgressIs DEF LinksInv, AddressesDiffer
<1> HIDE DEF k, f
<1>7. /\ stack' \in Seq(Frame) /\ DOMAIN stack' = DOMAIN stack /\ stack'[k] = f
      /\ \A i \in DOMAIN stack : i # k => stack'[i] = stack[i]
  BY <1>1, <1>2, <1>4, <1>5, FrameChanges
<1>8. \A i \in DOMAIN stack : i # k => stack[i].clink # l
  BY <1>2, <1>3 DEF LinksInv, AddressesDiffer
<1> HIDE DEF l
<1>9. InProgress' = InProgress \ {l}
  <2>1. \A x \in InProgress : \E i \in DOMAIN stack : x # NULL /\ stack[i].clink = x
    BY DEF InProgress
  <2>2. \A x \in InProgress \ {l} : x \in InProgress'
    BY <1>7, <2>1 DEF InProgress, l
  <2>3. \A x \in InProgress' : \E i \in DOMAIN stack' : x # NULL /\ stack'[i].clink = x
    BY DEF InProgress
  <2>4. \A x \in InProgress' : x \in InProgress \ {l}
    BY <1>5, <1>7, <1>8, <2>3 DEF InProgress
  <2> QED
    BY <2>2, <2>4
<1>10. LinksTypeOK'
  BY <1>3, <1>7 DEF LinksTypeOK, LinksInv
<1>11. AddressesDiffer'
  <2>1. /\ ToSet(links') \intersect InProgress' = {} /\ IsInjective(links')
        /\ \A x, y \in ToSet(links') \union InProgress' : x.at = y.at => x = y
    BY <1>3, <1>9 DEF AddressesDiffer, LinksInv
  <2>2. \A i, j \in DOMAIN stack :
           stack'[i].clink # NULL /\ stack'[i].clink = stack'[j].clink => i = j
    BY <1>5, <1>7 DEF AddressesDiffer, LinksInv
  <2> QED
    BY <1>7, <2>1, <2>2 DEF AddressesDiffer
<1>12. OwnersRely'
  <2>1. ToSet(links') \subseteq owned' /\ owned' \subseteq ToSet(links') \union InProgress'
    BY <1>3, <1>6, <1>9 DEF OwnersRely, LinksInv
  <2>2. \A i \in DOMAIN stack :
           stack'[i].clink # NULL => (stack'[i].mutable <=> stack'[i].clink \in owned')
    BY <1>3, <1>5, <1>7, <1>8 DEF OwnersRely, LinksInv
  <2> QED
    BY <1>7, <2>1, <2>2 DEF OwnersRely
<1>13. ToldOnce'
  BY <1>3 DEF ToldOnce, LinksInv
<1> QED
  BY <1>10, <1>11, <1>12, <1>13 DEF LinksInv

LEMMA LinksStep == LinksInv /\ [LinksNext]_linkVars => LinksInv'
<1> SUFFICES ASSUME LinksInv, [LinksNext]_linkVars PROVE LinksInv'
  OBVIOUS
<1>1. CASE UNCHANGED linkVars
  BY <1>1 DEF linkVars, LinksInv, LinksTypeOK, AddressesDiffer, OwnersRely, ToldOnce, InProgress
<1> QED
  BY <1>1, LinkStep, UnlinkStep, EnterStep, UncrossStep, CallbackReturnsStep, ReturnStep DEF LinksNext

\* The invariant says more.
LEMMA LinksFollow == LinksInv => LinksAreKept
BY DEF LinksInv, LinksTypeOK, UnlinkingIsSafe, AddressesDiffer, OwnersRely, ToldOnce, LinksAreKept

(* However deep callbacks link, unlink and uncross: the exception of           *)
(* widget_cross_unlink() is never thrown, the list holds the links that owners *)
(* rely on, but for those whose callbacks run, and nobody is told twice.       *)
THEOREM LinksAreAlwaysKept == LinksSpec => []LinksAreKept
<1> QED
  BY LinksBegin, LinksStep, LinksFollow, PTL DEF LinksSpec

-----------------------------------------------------------------------------
(* The display driver: what the client does not know of its window is always *)
(* under way to it.  The properties are those of DisplayDriver; configures,  *)
(* stamp and heard are its pending, time and told.                           *)

\* The library's operators, as the instance of DisplayDriver has them.
LEMMA SameOperators ==
  /\ \A S : Driver!Cardinality(S) = Cardinality(S)
  /\ \A q, i : Driver!RemoveAt(q, i) = RemoveAt(q, i)
  /\ \A q, x : Driver!Contains(q, x) = Contains(q, x)
<1>1. \A S : Driver!Cardinality(S) = Cardinality(S)
  BY DEF Driver!Cardinality, Cardinality
<1>2. \A q, i : Driver!RemoveAt(q, i) = RemoveAt(q, i)
  BY DEF Driver!RemoveAt, RemoveAt
<1>3. \A q, x : Driver!Contains(q, x) = Contains(q, x)
  BY DEF Driver!Contains, Contains
<1> QED
  BY <1>1, <1>2, <1>3

\* An event that says the new value is appended when the value changes.
LEMMA LeadsMore ==
  ASSUME NEW S, NEW q \in Seq(S), NEW e \in S, NEW E, NEW f, NEW cur, NEW t, NEW u,
         Driver!Leads(q, E, f, cur, t), e \in E => f[e] = u, e \notin E => u = t
  PROVE  Driver!Leads(Append(q, e), E, f, cur, u)
<1> DEFINE r == Append(q, e)
<1>1. /\ DOMAIN q \subseteq Nat /\ Len(q) + 1 \in Nat
      /\ DOMAIN r = DOMAIN q \cup {Len(q) + 1}
      /\ \A k \in DOMAIN q : k < Len(q) + 1 /\ r[k] = q[k]
      /\ r[Len(q) + 1] = e
  BY AppendAt
<1> HIDE DEF r
<1>2. ASSUME NEW i \in DOMAIN r, r[i] \in E, \A j \in DOMAIN r : j > i => r[j] \notin E
      PROVE  f[r[i]] = u
  <2>1. CASE i = Len(q) + 1
    BY <1>1, <1>2, <2>1
  <2>2. CASE i \in DOMAIN q
    <3>1. e \notin E /\ q[i] \in E /\ r[i] = q[i]
      BY <1>1, <1>2, <2>2
    <3>2. \A j \in DOMAIN q : j > i => q[j] \notin E
      BY <1>1, <1>2, <2>2
    <3> QED
      BY <2>2, <3>1, <3>2 DEF Driver!Leads
  <2> QED
    BY <1>1, <1>2, <2>1, <2>2
<1>3. ASSUME \A i \in DOMAIN r : r[i] \notin E
      PROVE  cur = u
  BY <1>1, <1>3 DEF Driver!Leads
<1> QED
  BY <1>2, <1>3 DEF Driver!Leads, r

\* The client takes an event and stores what it says, or has read the value anyway.
LEMMA LeadsLess ==
  ASSUME NEW S, NEW q \in Seq(S), q # <<>>, NEW E, NEW f, NEW cur, NEW t, NEW c,
         Driver!Leads(q, E, f, cur, t), Head(q) \in E => c = f[Head(q)], Head(q) \notin E => c = cur \/ c = t
  PROVE  Driver!Leads(Tail(q), E, f, c, t)
<1> DEFINE r == Tail(q)
<1>1. /\ DOMAIN q \subseteq Nat /\ DOMAIN r \subseteq Nat
      /\ 1 \in DOMAIN q /\ q[1] = Head(q)
      /\ \A k \in DOMAIN r : k + 1 \in DOMAIN q /\ k + 1 > 1 /\ r[k] = q[k + 1]
      /\ \A k \in DOMAIN q : k = 1 \/ (k - 1 \in DOMAIN r /\ k > 1 /\ q[k] = r[k - 1])
  BY TailAt
<1> HIDE DEF r
<1>2. ASSUME NEW i \in DOMAIN r, r[i] \in E, \A j \in DOMAIN r : j > i => r[j] \notin E
      PROVE  f[r[i]] = t
  <2>1. i + 1 \in DOMAIN q /\ q[i + 1] = r[i] /\ i \in Nat
    BY <1>1
  <2>2. ASSUME NEW j \in DOMAIN q, j > i + 1
        PROVE  q[j] \notin E
    <3>1. j \in Nat /\ j - 1 \in DOMAIN r /\ j - 1 > i /\ q[j] = r[j - 1]
      BY <1>1, <2>1, <2>2
    <3> QED
      BY <1>2, <3>1
  <2> QED
    BY <1>2, <2>1, <2>2 DEF Driver!Leads
<1>3. ASSUME \A i \in DOMAIN r : r[i] \notin E
      PROVE  c = t
  <2>1. \A j \in DOMAIN q : j > 1 => q[j] \notin E
    BY <1>1, <1>3
  <2>2. CASE Head(q) \in E
    BY <1>1, <2>1, <2>2 DEF Driver!Leads
  <2>3. CASE Head(q) \notin E
    <3>1. \A j \in DOMAIN q : q[j] \notin E
      BY <1>1, <2>1, <2>3
    <3> QED
      BY <2>3, <3>1 DEF Driver!Leads
  <2> QED
    BY <2>2, <2>3
<1> QED
  BY <1>2, <1>3 DEF Driver!Leads, r

\* It may also read the value before the events are there.
LEMMA LeadsSame ==
  ASSUME NEW q, NEW E, NEW f, NEW cur, NEW t, NEW c, Driver!Leads(q, E, f, cur, t), c = cur \/ c = t
  PROVE  Driver!Leads(q, E, f, c, t)
BY DEF Driver!Leads

\* The ConfigureNotify events under way can be counted.
LEMMA InWireTyped ==
  ASSUME NEW q \in Seq(Driver!Events)
  PROVE  /\ IsFiniteSet({i \in DOMAIN q : q[i].type = "Configure"})
         /\ Driver!InWire(q) \in Nat
<1>1. IsFiniteSet(1 .. Len(q)) /\ DOMAIN q = 1 .. Len(q)
  BY FS_Interval, LenProperties
<1>2. {i \in DOMAIN q : q[i].type = "Configure"} \subseteq 1 .. Len(q)
  BY <1>1
<1>3. IsFiniteSet({i \in DOMAIN q : q[i].type = "Configure"})
  BY <1>1, <1>2, FS_Subset
<1> QED
  BY SameOperators, <1>3, FS_CardinalityType DEF Driver!InWire

\* Their number when an event is reported, taken, or when only the first ones are looked at.
LEMMA InWireMore ==
  ASSUME NEW q \in Seq(Driver!Events), NEW e \in Driver!Events
  PROVE  Driver!InWire(Append(q, e)) \in Nat /\ Driver!InWire(q) <= Driver!InWire(Append(q, e))
<1> DEFINE r == Append(q, e)
           A == {i \in DOMAIN q : q[i].type = "Configure"}
           B == {i \in DOMAIN r : r[i].type = "Configure"}
<1>1. /\ r \in Seq(Driver!Events)
      /\ DOMAIN r = DOMAIN q \cup {Len(q) + 1}
      /\ \A k \in DOMAIN q : r[k] = q[k]
  BY AppendAt
<1>2. A \subseteq B
  BY <1>1
<1>3. IsFiniteSet(B) /\ Driver!InWire(r) \in Nat
  BY <1>1, InWireTyped
<1>4. Cardinality(A) <= Cardinality(B)
  BY <1>2, <1>3, FS_Subset
<1> QED
  BY SameOperators, <1>3, <1>4 DEF Driver!InWire

LEMMA InWireLess ==
  ASSUME NEW q \in Seq(Driver!Events), q # <<>>
  PROVE  /\ Driver!InWire(Tail(q)) \in Nat
         /\ Head(q).type # "Configure" => Driver!InWire(q) <= Driver!InWire(Tail(q))
         /\ Driver!InWire(q) <= Driver!InWire(Tail(q)) + 1
<1> DEFINE r == Tail(q)
           A == {i \in DOMAIN q : q[i].type = "Configure"}
           B == {i \in DOMAIN r : r[i].type = "Configure"}
           f == [i \in A \ {1} |-> i - 1]
<1>1. /\ r \in Seq(Driver!Events)
      /\ DOMAIN q \subseteq Nat
      /\ 1 \in DOMAIN q /\ q[1] = Head(q)
      /\ \A k \in DOMAIN q : k = 1 \/ (k - 1 \in DOMAIN r /\ k > 1 /\ q[k] = r[k - 1])
  BY TailAt
<1>2. IsFiniteSet(A) /\ IsFiniteSet(B) /\ Driver!InWire(q) \in Nat /\ Driver!InWire(r) \in Nat
  BY <1>1, InWireTyped
<1> HIDE DEF r
<1>3. f \in Injection(A \ {1}, B)
  <2>1. \A i \in A \ {1} : i - 1 \in B /\ i \in Nat
    BY <1>1
  <2>2. f \in [A \ {1} -> B]
    BY <2>1
  <2>3. \A i, j \in A \ {1} : f[i] = f[j] => i = j
    BY <2>1
  <2> QED
    BY <2>2, <2>3, Zenon DEF Injection, IsInjective
<1>4. Cardinality(A \ {1}) <= Cardinality(B)
  BY <1>2, <1>3, FS_Injection DEF ExistsInjection
<1>5. Cardinality(A \ {1}) = IF 1 \in A THEN Cardinality(A) - 1 ELSE Cardinality(A)
  <2> HIDE DEF A
  <2> QED
    BY <1>2, FS_RemoveElement
<1>6. 1 \in A => Head(q).type = "Configure"
  BY <1>1
<1>7. Driver!InWire(q) = Cardinality(A) /\ Driver!InWire(r) = Cardinality(B)
  BY SameOperators DEF Driver!InWire
<1> HIDE DEF A, B, f
<1>8. /\ Head(q).type # "Configure" => Driver!InWire(q) <= Driver!InWire(r)
      /\ Driver!InWire(q) <= Driver!InWire(r) + 1
  BY <1>2, <1>4, <1>5, <1>6, <1>7
<1> QED
  BY <1>2, <1>8 DEF r

LEMMA InWirePart ==
  ASSUME NEW q \in Seq(Driver!Events), NEW n \in 0 .. Len(q)
  PROVE  Driver!InWire(SubSeq(q, 1, n)) \in Nat /\ Driver!InWire(SubSeq(q, 1, n)) <= Driver!InWire(q)
<1> DEFINE r == SubSeq(q, 1, n)
           A == {i \in DOMAIN q : q[i].type = "Configure"}
           B == {i \in DOMAIN r : r[i].type = "Configure"}
<1>1. Len(q) \in Nat /\ DOMAIN q = 1 .. Len(q)
  BY LenProperties
<1>2. /\ r \in Seq(Driver!Events) /\ Len(r) = n
      /\ \A i \in 1 .. n : r[i] = q[i]
  BY <1>1, SubSeqProperties
<1>3. DOMAIN r = 1 .. n
  BY <1>2, LenProperties
<1> HIDE DEF r
<1>4. B \subseteq A
  BY <1>1, <1>2, <1>3
<1>5. IsFiniteSet(A) /\ Driver!InWire(r) \in Nat
  BY <1>2, InWireTyped
<1>6. Cardinality(B) <= Cardinality(A)
  BY <1>4, <1>5, FS_Subset
<1> QED
  BY SameOperators, <1>5, <1>6 DEF Driver!InWire, r

\* Reading properties back changes these properties, and the origin with the extents.
LEMMA RereadProperties ==
  ASSUME Driver!DriverTypeOK, NEW s \in Driver!States, NEW names
  PROVE  /\ Driver!Reread(s, names) \in Driver!States
         /\ Driver!Reread(s, names).width = s.width /\ Driver!Reread(s, names).visible = s.visible
         /\ Driver!Reread(s, names).active = s.active
         /\ server.alive /\ Driver!Extents \in names => /\ Driver!Reread(s, names).root = server.x
                                               /\ Driver!Reread(s, names).deco = server.x - server.frame
         /\ \A n \in Driver!Known : Driver!Reread(s, names).prop[n] = IF n \in names THEN Driver!ReadBack(n, s.prop[n]) ELSE s.prop[n]
<1> DEFINE r == [s EXCEPT !.prop = [n \in Driver!Known |-> IF n \in names THEN Driver!ReadBack(n, s.prop[n]) ELSE s.prop[n]]]
<1>1. [n \in Driver!Known |-> IF n \in names THEN Driver!ReadBack(n, s.prop[n]) ELSE s.prop[n]] \in [Driver!Known -> Int]
  BY DEF Driver!DriverTypeOK, Driver!Servers, Driver!States, Driver!ReadBack
<1>2. /\ r \in Driver!States /\ r.width = s.width /\ r.visible = s.visible /\ r.active = s.active
      /\ r.prop = [n \in Driver!Known |-> IF n \in names THEN Driver!ReadBack(n, s.prop[n]) ELSE s.prop[n]]
  BY <1>1 DEF Driver!States
<1> HIDE DEF r
<1>3. /\ Driver!Origin(r) \in Driver!States /\ Driver!Origin(r).width = r.width /\ Driver!Origin(r).visible = r.visible
      /\ Driver!Origin(r).active = r.active /\ Driver!Origin(r).prop = r.prop
      /\ server.alive => Driver!Origin(r).root = server.x /\ Driver!Origin(r).deco = server.x - server.frame
  <2>1. server.x \in Int /\ server.x - server.frame \in Int
    BY DEF Driver!DriverTypeOK, Driver!Servers
  <2>3. CASE server.alive
    <3>1. Driver!Origin(r) = [r EXCEPT !.root = server.x, !.deco = server.x - server.frame]
      BY <2>3 DEF Driver!Origin
    <3> DEFINE o == [r EXCEPT !.root = server.x, !.deco = server.x - server.frame]
    <3>2. /\ o \in Driver!States /\ o.width = r.width /\ o.visible = r.visible /\ o.active = r.active
          /\ o.prop = r.prop /\ o.root = server.x /\ o.deco = server.x - server.frame
      BY <1>2, <2>1 DEF Driver!States
    <3> HIDE DEF o
    <3> QED
      BY <3>1, <3>2 DEF o
  <2>4. CASE ~server.alive
    <3>1. Driver!Origin(r) = [r EXCEPT !.root = 0, !.deco = 0]
      BY <2>4 DEF Driver!Origin
    <3>0. PICK z \in Int : z = 0
      OBVIOUS
    <3> DEFINE o == [r EXCEPT !.root = z, !.deco = z]
    <3>2. o \in Driver!States
      BY <1>2 DEF Driver!States
    <3>3. /\ o.width = r.width /\ o.visible = r.visible /\ o.active = r.active
          /\ o.prop = r.prop
      BY <1>2 DEF Driver!States
    <3> HIDE DEF o
    <3> QED
      BY <2>4, <3>0, <3>1, <3>2, <3>3 DEF o
  <2> QED
    BY <2>3, <2>4
<1>4. Driver!Reread(s, names) = IF Driver!Extents \in names THEN Driver!Origin(r) ELSE r
  BY DEF Driver!Reread, r
<1> HIDE DEF Driver!Extents
<1> QED
  BY <1>2, <1>3, <1>4

\* What kinds of events there are.
LEMMA EventKinds ==
  ASSUME NEW e \in Driver!Events
  PROVE  /\ e \in Driver!Sizes <=> e.type = "Configure" /\ ~e.sent
         /\ e \in Driver!Places <=> e.type = "Configure" /\ e.sent
         /\ e \in Driver!Mappings <=> e.type \in {"Map", "Unmap"}
         /\ e \in Driver!Focuses <=> e.type = "Focus" /\ e.ours
         /\ e \in Driver!Sizes => Driver!WidthOf[e] = e.width
         /\ e \in Driver!Places => Driver!PlaceOf[e] = e.x
         /\ e \in Driver!Mappings => Driver!IsMap[e] = (e.type = "Map")
         /\ e \in Driver!Focuses => Driver!IsIn[e] = e.in
         /\ e.type = "Configure" => e.sent \in BOOLEAN /\ e.width \in Nat /\ e.x \in Int
         /\ e.type = "Focus" => e.in \in BOOLEAN /\ e.ours \in BOOLEAN
         /\ e.type = "Property" => e.name \in Driver!Known \cup {Driver!Extents, "WM_NAME"}
         /\ e.type \in {"Property", "Input"} => e.at \in Nat
<1>1. /\ e \in Driver!Sizes <=> e.type = "Configure" /\ ~e.sent
      /\ e \in Driver!Places <=> e.type = "Configure" /\ e.sent
      /\ e \in Driver!Mappings <=> e.type \in {"Map", "Unmap"}
      /\ e \in Driver!Focuses <=> e.type = "Focus" /\ e.ours
  BY DEF Driver!Sizes, Driver!Places, Driver!Mappings, Driver!Focuses
<1>2. /\ e \in Driver!Sizes => Driver!WidthOf[e] = e.width
      /\ e \in Driver!Places => Driver!PlaceOf[e] = e.x
      /\ e \in Driver!Mappings => Driver!IsMap[e] = (e.type = "Map")
      /\ e \in Driver!Focuses => Driver!IsIn[e] = e.in
  BY DEF Driver!WidthOf, Driver!PlaceOf, Driver!IsMap, Driver!IsIn
<1>3. /\ e.type = "Configure" => e.sent \in BOOLEAN /\ e.width \in Nat /\ e.x \in Int
      /\ e.type = "Focus" => e.in \in BOOLEAN /\ e.ours \in BOOLEAN
      /\ e.type = "Property" => e.name \in Driver!Known \cup {Driver!Extents, "WM_NAME"}
      /\ e.type \in {"Property", "Input"} => e.at \in Nat
  BY DEF Driver!Events
<1> QED
  BY <1>1, <1>2, <1>3

\* The server changes and reports the change.
LEMMA Reported ==
  ASSUME Driver!DriverTypeOK, Driver!Follows, UNCHANGED Driver!client, NEW e \in Driver!Events, wire' = Append(wire, e),
         e.type # "Destroy",
         IF e.type = "Configure" /\ ~e.sent THEN e.width = server'.width ELSE server'.width = server.width,
         IF e.type = "Configure" /\ e.sent THEN e.x = server'.x ELSE server'.x = server.x,
         IF e.type \in {"Map", "Unmap"} THEN server'.mapped = (e.type = "Map") ELSE server'.mapped = server.mapped,
         IF e.type = "Focus" /\ e.ours THEN e.in = server'.focus ELSE server'.focus = server.focus,
         server'.frame = server.frame \/ (e.type = "Property" /\ e.name = Driver!Extents),
         \A n \in Driver!Known : server'.prop[n] = server.prop[n] \/ (e.type = "Property" /\ e.name = n)
  PROVE  Driver!Follows'
<1>1. /\ window' = window /\ state' = state /\ published' = published /\ queued' = queued
      /\ armed' = armed /\ configures' = configures /\ heard' = heard
  BY DEF Driver!client
<1>2. wire \in Seq(Driver!Events)
  BY DEF Driver!DriverTypeOK
<1>3. Driver!Leads(wire', Driver!Sizes, Driver!WidthOf, state'.width, server'.width)
  <2>1. Driver!Leads(wire, Driver!Sizes, Driver!WidthOf, state.width, server.width)
    BY DEF Driver!Follows
  <2>2. /\ e \in Driver!Sizes => Driver!WidthOf[e] = server'.width
        /\ e \notin Driver!Sizes => server'.width = server.width
    BY EventKinds
  <2> QED
    BY <1>1, <1>2, <2>1, <2>2, LeadsMore
<1>4. Driver!Leads(wire', Driver!Places, Driver!PlaceOf, state'.root, server'.x)
  <2>1. Driver!Leads(wire, Driver!Places, Driver!PlaceOf, state.root, server.x)
    BY DEF Driver!Follows
  <2>2. /\ e \in Driver!Places => Driver!PlaceOf[e] = server'.x
        /\ e \notin Driver!Places => server'.x = server.x
    BY EventKinds
  <2> QED
    BY <1>1, <1>2, <2>1, <2>2, LeadsMore
<1>5. Driver!Leads(wire', Driver!Mappings, Driver!IsMap, state'.visible, server'.mapped)
  <2>1. Driver!Leads(wire, Driver!Mappings, Driver!IsMap, state.visible, server.mapped)
    BY DEF Driver!Follows
  <2>2. /\ e \in Driver!Mappings => Driver!IsMap[e] = server'.mapped
        /\ e \notin Driver!Mappings => server'.mapped = server.mapped
    BY EventKinds
  <2> QED
    BY <1>1, <1>2, <2>1, <2>2, LeadsMore
<1>6. Driver!Leads(wire', Driver!Focuses, Driver!IsIn, state'.active, server'.focus)
  <2>1. Driver!Leads(wire, Driver!Focuses, Driver!IsIn, state.active, server.focus)
    BY DEF Driver!Follows
  <2>2. /\ e \in Driver!Focuses => Driver!IsIn[e] = server'.focus
        /\ e \notin Driver!Focuses => server'.focus = server.focus
    BY EventKinds
  <2> QED
    BY <1>1, <1>2, <2>1, <2>2, LeadsMore
<1>7. /\ DOMAIN wire' = DOMAIN wire \cup {Len(wire) + 1}
      /\ \A k \in DOMAIN wire : wire'[k] = wire[k]
      /\ wire'[Len(wire) + 1] = e
  BY <1>2, AppendAt
<1>8. \A i \in DOMAIN wire' : wire'[i].type # "Destroy"
  BY <1>7 DEF Driver!Follows
<1>9. \A n : (Driver!Comes(n) => Driver!Comes(n)') /\ (e.type = "Property" /\ e.name = n => Driver!Comes(n)')
  BY <1>7 DEF Driver!Comes
<1>10. /\ Driver!Extents \in queued'
       /\ Driver!Comes(Driver!Extents)' \/ armed' \/ state'.root - state'.deco = server'.frame
       /\ \A n \in Driver!Known : server'.prop[n] # 0 =>
            Driver!Comes(n)' \/ (n \in queued' /\ (armed' \/ state'.prop[n] = server'.prop[n]))
  BY <1>1, <1>9 DEF Driver!Follows
<1>11. configures' <= Driver!InWire(wire')
  <2>1. Driver!InWire(wire) \in Nat /\ Driver!InWire(wire') \in Nat /\ Driver!InWire(wire) <= Driver!InWire(wire')
    BY <1>2, InWireTyped, InWireMore
  <2> QED
    BY <1>1, <2>1 DEF Driver!Follows, Driver!DriverTypeOK
<1>12. /\ window' /\ (armed' \/ published' = state')
       /\ heard'.width = state'.width /\ heard'.active = state'.active /\ (heard'.more => configures' > 0)
  BY <1>1 DEF Driver!Follows
<1> QED
  BY <1>3, <1>4, <1>5, <1>6, <1>8, <1>10, <1>11, <1>12 DEF Driver!Follows

\* The client takes an event and does with it what it says.
LEMMA Processed ==
  ASSUME Driver!DriverTypeOK, Driver!Follows, server' = server, wire # <<>>, wire' = Tail(wire), NEW e, e = Head(wire), window',
         IF e.type = "Configure" /\ ~e.sent THEN state'.width = e.width ELSE state'.width = state.width,
         IF e.type = "Configure" /\ e.sent THEN state'.root = e.x ELSE state'.root \in {state.root, server.x},
         IF e.type \in {"Map", "Unmap"} THEN state'.visible = (e.type = "Map") ELSE state'.visible = state.visible,
         IF e.type = "Focus" /\ e.ours THEN state'.active = e.in ELSE state'.active = state.active,
         state'.root - state'.deco \in {state.root - state.deco, server.frame},
         queued \subseteq queued', armed => armed', e.type = "Property" => e.name \in queued' /\ armed',
         \A n \in Driver!Known : \/ state'.prop[n] = state.prop[n]
                                 \/ n \in queued /\ (server.prop[n] # 0 => state'.prop[n] = server.prop[n]),
         armed' \/ published' = state',
         heard'.width = state'.width, heard'.active = state'.active, heard'.more => configures' > 0,
         IF e.type = "Configure" THEN configures' <= Driver!InWire(Tail(wire)) ELSE configures' = configures
  PROVE  Driver!Follows'
<1>1. wire \in Seq(Driver!Events) /\ e \in Driver!Events /\ e.type # "Destroy"
  BY TailAt DEF Driver!DriverTypeOK, Driver!Follows
<1>2. Driver!Leads(wire', Driver!Sizes, Driver!WidthOf, state'.width, server'.width)
  <2>1. Driver!Leads(wire, Driver!Sizes, Driver!WidthOf, state.width, server.width)
    BY DEF Driver!Follows
  <2>2. /\ e \in Driver!Sizes => state'.width = Driver!WidthOf[e]
        /\ e \notin Driver!Sizes => state'.width = state.width
    BY <1>1, EventKinds
  <2> QED
    BY <1>1, <2>1, <2>2, LeadsLess
<1>3. Driver!Leads(wire', Driver!Places, Driver!PlaceOf, state'.root, server'.x)
  <2>1. Driver!Leads(wire, Driver!Places, Driver!PlaceOf, state.root, server.x)
    BY DEF Driver!Follows
  <2>2. /\ e \in Driver!Places => state'.root = Driver!PlaceOf[e]
        /\ e \notin Driver!Places => state'.root = state.root \/ state'.root = server.x
    BY <1>1, EventKinds
  <2> QED
    BY <1>1, <2>1, <2>2, LeadsLess
<1>4. Driver!Leads(wire', Driver!Mappings, Driver!IsMap, state'.visible, server'.mapped)
  <2>1. Driver!Leads(wire, Driver!Mappings, Driver!IsMap, state.visible, server.mapped)
    BY DEF Driver!Follows
  <2>2. /\ e \in Driver!Mappings => state'.visible = Driver!IsMap[e]
        /\ e \notin Driver!Mappings => state'.visible = state.visible
    BY <1>1, EventKinds
  <2> QED
    BY <1>1, <2>1, <2>2, LeadsLess
<1>5. Driver!Leads(wire', Driver!Focuses, Driver!IsIn, state'.active, server'.focus)
  <2>1. Driver!Leads(wire, Driver!Focuses, Driver!IsIn, state.active, server.focus)
    BY DEF Driver!Follows
  <2>2. /\ e \in Driver!Focuses => state'.active = Driver!IsIn[e]
        /\ e \notin Driver!Focuses => state'.active = state.active
    BY <1>1, EventKinds
  <2> QED
    BY <1>1, <2>1, <2>2, LeadsLess
<1>6. /\ \A k \in DOMAIN wire' : k + 1 \in DOMAIN wire /\ wire'[k] = wire[k + 1]
      /\ \A k \in DOMAIN wire : k = 1 \/ (k - 1 \in DOMAIN wire' /\ wire[k] = wire'[k - 1])
      /\ wire[1] = e
  BY <1>1, TailAt
<1>7. \A i \in DOMAIN wire' : wire'[i].type # "Destroy"
  BY <1>6 DEF Driver!Follows
<1>8. \A n : Driver!Comes(n) => Driver!Comes(n)' \/ (n \in queued' /\ armed')
  <2> SUFFICES ASSUME NEW n, NEW i \in DOMAIN wire, wire[i].type = "Property", wire[i].name = n,
                      ~(n \in queued' /\ armed')
               PROVE  Driver!Comes(n)'
    BY DEF Driver!Comes
  <2>1. i # 1
    BY <1>6
  <2>2. i - 1 \in DOMAIN wire' /\ wire'[i - 1] = wire[i]
    BY <1>6, <2>1
  <2> QED
    BY <2>2 DEF Driver!Comes
<1>9. Driver!Comes(Driver!Extents)' \/ armed' \/ state'.root - state'.deco = server'.frame
  <2>1. Driver!Comes(Driver!Extents) \/ armed \/ state.root - state.deco = server.frame
    BY DEF Driver!Follows
  <2> HIDE DEF Driver!Extents
  <2> QED
    BY <1>8, <2>1
<1>10. ASSUME NEW n \in Driver!Known, server'.prop[n] # 0
       PROVE  Driver!Comes(n)' \/ (n \in queued' /\ (armed' \/ state'.prop[n] = server'.prop[n]))
  <2>1. Driver!Comes(n) \/ (n \in queued /\ (armed \/ state.prop[n] = server.prop[n]))
    BY <1>10 DEF Driver!Follows
  <2>2. CASE Driver!Comes(n)
    BY <1>8, <2>2
  <2>3. CASE n \in queued /\ (armed \/ state.prop[n] = server.prop[n])
    BY <1>10, <2>3
  <2> QED
    BY <2>1, <2>2, <2>3
<1>11. configures' <= Driver!InWire(wire')
  <2>1. /\ Driver!InWire(wire) \in Nat /\ Driver!InWire(Tail(wire)) \in Nat
        /\ e.type # "Configure" => Driver!InWire(wire) <= Driver!InWire(Tail(wire))
    BY <1>1, InWireTyped, InWireLess
  <2> QED
    BY <2>1 DEF Driver!Follows, Driver!DriverTypeOK
<1>12. Driver!Extents \in queued'
  BY DEF Driver!Follows
<1> HIDE DEF Driver!Extents
<1> QED
  BY <1>2, <1>3, <1>4, <1>5, <1>7, <1>9, <1>10, <1>11, <1>12 DEF Driver!Follows

\* A change is reported with a later time than those before it.
LEMMA Timed ==
  ASSUME Driver!DriverTypeOK, Driver!TimesInOrder, now' = now + 1, UNCHANGED stamp, NEW e \in Driver!Events, wire' = Append(wire, e),
         e.type \in {"Property", "Input"} => e.at = now + 1
  PROVE  Driver!TimesInOrder'
<1>1. /\ DOMAIN wire \subseteq Nat /\ Len(wire) + 1 \in Nat
      /\ DOMAIN wire' = DOMAIN wire \cup {Len(wire) + 1}
      /\ \A k \in DOMAIN wire : k < Len(wire) + 1 /\ wire'[k] = wire[k]
      /\ wire'[Len(wire) + 1] = e
  BY AppendAt DEF Driver!DriverTypeOK
<1>2. stamp \in Nat /\ now \in Nat /\ stamp <= now /\ stamp' <= now'
  BY DEF Driver!DriverTypeOK, Driver!TimesInOrder
<1>3. \A i \in DOMAIN wire : wire[i].type \in {"Property", "Input"} => wire[i].at \in Nat
  <2>1. \A i \in DOMAIN wire : wire[i] \in Driver!Events
    BY ElementOfSeq, LenProperties DEF Driver!DriverTypeOK
  <2> QED
    BY <2>1, EventKinds
<1>4. ASSUME NEW i \in DOMAIN wire', wire'[i].type \in {"Property", "Input"}
      PROVE  stamp' <= wire'[i].at /\ wire'[i].at <= now'
  <2>1. CASE i \in DOMAIN wire
    <3>1. wire'[i] = wire[i]
      BY <1>1, <2>1
    <3>2. stamp <= wire[i].at /\ wire[i].at <= now /\ wire[i].at \in Nat
      BY <1>3, <1>4, <2>1, <3>1 DEF Driver!TimesInOrder
    <3> QED
      BY <1>2, <3>1, <3>2
  <2>2. CASE i = Len(wire) + 1
    BY <1>1, <1>2, <1>4, <2>2
  <2> QED
    BY <1>1, <2>1, <2>2
<1>5. ASSUME NEW i \in DOMAIN wire', NEW j \in DOMAIN wire', i <= j, wire'[i].type \in {"Property", "Input"},
             wire'[j].type \in {"Property", "Input"}
      PROVE  wire'[i].at <= wire'[j].at
  <2>1. CASE j \in DOMAIN wire
    <3>1. i \in DOMAIN wire /\ wire'[i] = wire[i] /\ wire'[j] = wire[j]
      BY <1>1, <1>5, <2>1
    <3> QED
      BY <1>5, <2>1, <3>1 DEF Driver!TimesInOrder
  <2>2. CASE j = Len(wire) + 1
    <3>1. wire'[j].at = now'
      BY <1>1, <1>5, <2>2
    <3> QED
      BY <1>4, <1>5, <3>1
  <2> QED
    BY <1>1, <2>1, <2>2
<1> QED
  BY <1>2, <1>4, <1>5 DEF Driver!TimesInOrder

\* The client takes the time of an event, or keeps its own.
LEMMA TimeGoesOn ==
  ASSUME Driver!DriverTypeOK, Driver!TimesInOrder, now' = now, wire # <<>>, wire' = Tail(wire),
         stamp' = stamp \/ (Head(wire).type \in {"Property", "Input"} /\ stamp' = Head(wire).at)
  PROVE  Driver!TimesInOrder' /\ stamp' >= stamp
<1>1. /\ DOMAIN wire \subseteq Nat /\ DOMAIN wire' \subseteq Nat
      /\ 1 \in DOMAIN wire /\ wire[1] = Head(wire)
      /\ \A k \in DOMAIN wire' : k + 1 \in DOMAIN wire /\ k + 1 > 1 /\ wire'[k] = wire[k + 1]
      /\ \A k \in DOMAIN wire : wire[k] \in Driver!Events
  BY TailAt, ElementOfSeq, LenProperties DEF Driver!DriverTypeOK
<1>2. stamp \in Nat /\ now \in Nat /\ stamp <= now
  BY DEF Driver!DriverTypeOK, Driver!TimesInOrder
<1>3. \A i \in DOMAIN wire : wire[i].type \in {"Property", "Input"} => wire[i].at \in Nat
  BY <1>1, EventKinds
<1>4. /\ stamp' \in Nat /\ stamp <= stamp' /\ stamp' <= now
      /\ \A j \in DOMAIN wire : j > 1 /\ wire[j].type \in {"Property", "Input"} => stamp' <= wire[j].at
  <2>1. CASE stamp' = stamp
    BY <1>2, <2>1 DEF Driver!TimesInOrder
  <2>2. CASE Head(wire).type \in {"Property", "Input"} /\ stamp' = Head(wire).at
    <3>1. stamp <= wire[1].at /\ wire[1].at <= now /\ wire[1].at \in Nat
      BY <1>1, <1>3, <2>2 DEF Driver!TimesInOrder
    <3>2. \A j \in DOMAIN wire : j > 1 /\ wire[j].type \in {"Property", "Input"} => wire[1].at <= wire[j].at
      BY <1>1, <2>2 DEF Driver!TimesInOrder
    <3> QED
      BY <1>1, <2>2, <3>1, <3>2
  <2> QED
    BY <2>1, <2>2
<1>5. ASSUME NEW i \in DOMAIN wire', wire'[i].type \in {"Property", "Input"}
      PROVE  /\ stamp' <= wire'[i].at /\ wire'[i].at <= now'
             /\ \A j \in DOMAIN wire' : i <= j /\ wire'[j].type \in {"Property", "Input"} => wire'[i].at <= wire'[j].at
  <2>1. i + 1 \in DOMAIN wire /\ i + 1 > 1 /\ wire'[i] = wire[i + 1] /\ i \in Nat
    BY <1>1
  <2>2. stamp' <= wire'[i].at /\ wire'[i].at <= now'
    BY <1>4, <1>5, <2>1 DEF Driver!TimesInOrder
  <2>3. ASSUME NEW j \in DOMAIN wire', i <= j, wire'[j].type \in {"Property", "Input"}
        PROVE  wire'[i].at <= wire'[j].at
    <3>1. j + 1 \in DOMAIN wire /\ wire'[j] = wire[j + 1] /\ i + 1 <= j + 1
      BY <1>1, <2>1, <2>3
    <3> QED
      BY <1>5, <2>1, <2>3, <3>1 DEF Driver!TimesInOrder
  <2> QED
    BY <2>2, <2>3
<1>6. stamp' <= now' /\ stamp' >= stamp
  BY <1>2, <1>4
<1> QED
  BY <1>5, <1>6 DEF Driver!TimesInOrder

\* The invariant after the server, or a call of the client, has reported one change.
LEMMA ReportStep ==
  ASSUME Driver!DriverInv, Driver!Changes, UNCHANGED Driver!client, NEW e \in Driver!Events, wire' = wire \o <<e>>, server' \in Driver!Servers,
         e.type \in {"Property", "Input"} => e.at = now + 1,
         server'.alive =>
           /\ e.type # "Destroy"
           /\ IF e.type = "Configure" /\ ~e.sent THEN e.width = server'.width ELSE server'.width = server.width
           /\ IF e.type = "Configure" /\ e.sent THEN e.x = server'.x ELSE server'.x = server.x
           /\ IF e.type \in {"Map", "Unmap"} THEN server'.mapped = (e.type = "Map") ELSE server'.mapped = server.mapped
           /\ IF e.type = "Focus" /\ e.ours THEN e.in = server'.focus ELSE server'.focus = server.focus
           /\ server'.frame = server.frame \/ (e.type = "Property" /\ e.name = Driver!Extents)
           /\ \A n \in Driver!Known : server'.prop[n] = server.prop[n] \/ (e.type = "Property" /\ e.name = n)
  PROVE  Driver!DriverInv'
<1>1. Driver!DriverTypeOK /\ Driver!TimesInOrder /\ Driver!Follows /\ now \in Nat /\ now > 0
  BY DEF Driver!DriverInv, Driver!DriverTypeOK, Driver!Changes
<1>2. wire' = Append(wire, e) /\ wire' \in Seq(Driver!Events)
  BY <1>1, AppendIsConcat, AppendAt DEF Driver!DriverTypeOK
<1>3. now' = now + 1 /\ now' \in Nat /\ now' # 0
  BY <1>1 DEF Driver!Changes
<1>4. Driver!DriverTypeOK'
  BY <1>1, <1>2, <1>3 DEF Driver!DriverTypeOK, Driver!client
<1>5. Driver!TimesInOrder'
  <2>1. stamp' = stamp
    BY DEF Driver!client
  <2> QED
    BY <1>1, <1>2, <1>3, <2>1, Timed
<1>6. server'.alive => Driver!Follows'
  BY <1>1, <1>2, Reported
<1> QED
  BY <1>3, <1>4, <1>5, <1>6 DEF Driver!DriverInv, Driver!Untouched

\* Everything the server, the window manager and the user do.
LEMMA ServerSteps ==
  ASSUME Driver!DriverInv, Driver!DriverAssumption,
         Driver!Shows \/ Driver!Moves \/ Driver!Resizes \/ Driver!Decorates \/ Driver!SetsProperty \/ Driver!MovesFocus \/ Driver!Input \/ Driver!Vanishes
  PROVE  Driver!DriverInv'
<1>1. server \in Driver!Servers /\ now \in Nat /\ now + 1 \in Nat
  BY DEF Driver!DriverInv, Driver!DriverTypeOK
<1>2. ASSUME NEW type \in {"Map", "Unmap", "Destroy", "Input"}
      PROVE  Driver!Event(type) \in Driver!Events /\ Driver!Event(type).type = type /\ Driver!Event(type).at = now + 1
  BY <1>1 DEF Driver!Event, Driver!Events
<1>3. CASE Driver!Shows
  <2>1. PICK m \in BOOLEAN : /\ server.mapped = ~m
                             /\ Driver!Report([server EXCEPT !.mapped = m], <<Driver!Event(IF m THEN "Map" ELSE "Unmap")>>)
    BY <1>1, <1>3 DEF Driver!Shows, Driver!Servers
  <2> DEFINE e == Driver!Event(IF m THEN "Map" ELSE "Unmap")
  <2>2. /\ server' \in Driver!Servers /\ server'.mapped = m /\ server'.width = server.width /\ server'.x = server.x
        /\ server'.focus = server.focus /\ server'.frame = server.frame /\ server'.prop = server.prop
    BY <1>1, <2>1 DEF Driver!Report, Driver!Servers
  <2>3. e \in Driver!Events /\ e.type = (IF m THEN "Map" ELSE "Unmap")
    BY <1>2
  <2>4. Driver!Changes /\ UNCHANGED Driver!client /\ wire' = wire \o <<e>>
    BY <2>1 DEF Driver!Report
  <2> HIDE DEF e
  <2> QED
    BY <2>2, <2>3, <2>4, ReportStep
<1>4. CASE Driver!Moves
  <2> DEFINE e == Driver!Configure(TRUE, server.width, 1 - server.x)
  <2>1. Driver!Changes /\ UNCHANGED Driver!client /\ wire' = wire \o <<e>> /\ server' = [server EXCEPT !.x = 1 - @]
    BY <1>4 DEF Driver!Report, Driver!Moves
  <2>2. /\ server' \in Driver!Servers /\ server'.mapped = server.mapped /\ server'.width = server.width
        /\ server'.x = 1 - server.x
        /\ server'.focus = server.focus /\ server'.frame = server.frame /\ server'.prop = server.prop
    <3>1. PICK x \in Int : x = 1 - server.x
      BY <1>1 DEF Driver!Servers
    <3>2. server' = [server EXCEPT !.x = x]
      BY <2>1, <3>1
    <3> QED
      BY <1>1, <3>1, <3>2 DEF Driver!Servers
  <2>3. e \in Driver!Events /\ e.type = "Configure" /\ e.sent /\ e.x = 1 - server.x
    BY <1>1 DEF Driver!Configure, Driver!Events, Driver!Servers
  <2> HIDE DEF e
  <2> QED
    BY <2>1, <2>2, <2>3, ReportStep
<1>5. CASE Driver!Resizes
  <2>1. PICK w \in {1, 2} : Driver!Report([server EXCEPT !.width = w], <<Driver!Configure(FALSE, w, 0)>>)
    BY <1>5 DEF Driver!Resizes
  <2> DEFINE e == Driver!Configure(FALSE, w, 0)
  <2>2. Driver!Changes /\ UNCHANGED Driver!client /\ wire' = wire \o <<e>> /\ server' = [server EXCEPT !.width = w]
    BY <2>1 DEF Driver!Report
  <2>3. /\ server' \in Driver!Servers /\ server'.mapped = server.mapped /\ server'.width = w /\ server'.x = server.x
        /\ server'.focus = server.focus /\ server'.frame = server.frame /\ server'.prop = server.prop
    BY <1>1, <2>2 DEF Driver!Servers
  <2>4. e \in Driver!Events /\ e.type = "Configure" /\ ~e.sent /\ e.width = w
    BY <1>1 DEF Driver!Configure, Driver!Events
  <2> HIDE DEF e
  <2> QED
    BY <2>2, <2>3, <2>4, ReportStep
<1>6. CASE Driver!Decorates
  <2> DEFINE e == Driver!Property(Driver!Extents)
  <2>1. Driver!Changes /\ UNCHANGED Driver!client /\ wire' = wire \o <<e>> /\ server' = [server EXCEPT !.frame = 1 - @]
    BY <1>6 DEF Driver!Report, Driver!Decorates
  <2>2. /\ server' \in Driver!Servers /\ server'.mapped = server.mapped /\ server'.width = server.width
        /\ server'.x = server.x /\ server'.focus = server.focus /\ server'.prop = server.prop
    <3>1. PICK f \in Int : f = 1 - server.frame
      BY <1>1 DEF Driver!Servers
    <3>2. server' = [server EXCEPT !.frame = f]
      BY <2>1, <3>1
    <3> QED
      BY <1>1, <3>1, <3>2 DEF Driver!Servers
  <2>3. e \in Driver!Events /\ e.type = "Property" /\ e.name = Driver!Extents /\ e.at = now + 1
    BY <1>1 DEF Driver!Property, Driver!Events
  <2> HIDE DEF e, Driver!Extents
  <2> QED
    BY <2>1, <2>2, <2>3, ReportStep
<1>7. CASE Driver!SetsProperty
  <2>1. PICK n \in Changing, v \in 0 .. 2 : Driver!Report([server EXCEPT !.prop[n] = v], <<Driver!Property(n)>>)
    BY <1>7 DEF Driver!SetsProperty
  <2> DEFINE e == Driver!Property(n)
  <2>2. Driver!Changes /\ UNCHANGED Driver!client /\ wire' = wire \o <<e>> /\ server' = [server EXCEPT !.prop[n] = v]
    BY <2>1 DEF Driver!Report
  <2>3. n \in Driver!Known
    BY DEF Driver!DriverAssumption
  <2>4. /\ server' \in Driver!Servers /\ server'.mapped = server.mapped /\ server'.width = server.width
        /\ server'.x = server.x /\ server'.focus = server.focus /\ server'.frame = server.frame
        /\ \A m \in Driver!Known : m # n => server'.prop[m] = server.prop[m]
    <3> DEFINE p == [server.prop EXCEPT ![n] = v]
    <3>1. server.prop \in [Driver!Known -> Int] /\ v \in Int
      BY <1>1 DEF Driver!Servers
    <3>2. p \in [Driver!Known -> Int] /\ \A m \in Driver!Known : m # n => p[m] = server.prop[m]
      BY <3>1
    <3>3. server' = [server EXCEPT !.prop = p]
      BY <2>2
    <3> HIDE DEF p
    <3> QED
      BY <1>1, <3>2, <3>3 DEF Driver!Servers
  <2>5. e \in Driver!Events /\ e.type = "Property" /\ e.name = n /\ e.at = now + 1
    BY <1>1, <2>3 DEF Driver!Property, Driver!Events
  <2> HIDE DEF e
  <2> QED
    BY <2>2, <2>4, <2>5, ReportStep
<1>8. CASE Driver!MovesFocus
  <2>1. ASSUME NEW in \in BOOLEAN, NEW ours \in BOOLEAN
        PROVE  /\ Driver!Focus(in, ours) \in Driver!Events /\ Driver!Focus(in, ours).type = "Focus"
               /\ Driver!Focus(in, ours).in = in /\ Driver!Focus(in, ours).ours = ours
    BY <1>1 DEF Driver!Focus, Driver!Events
  <2>2. CASE Driver!Report([server EXCEPT !.focus = ~@], <<Driver!Focus(~server.focus, TRUE)>>)
    <3> DEFINE e == Driver!Focus(~server.focus, TRUE)
    <3>1. Driver!Changes /\ UNCHANGED Driver!client /\ wire' = wire \o <<e>> /\ server' = [server EXCEPT !.focus = ~@]
      BY <2>2 DEF Driver!Report
    <3>2. /\ server' \in Driver!Servers /\ server'.mapped = server.mapped /\ server'.width = server.width
          /\ server'.x = server.x /\ server'.focus = ~server.focus /\ server'.frame = server.frame
          /\ server'.prop = server.prop
      BY <1>1, <3>1 DEF Driver!Servers
    <3>3. e \in Driver!Events /\ e.type = "Focus" /\ e.ours /\ e.in = ~server.focus
      BY <1>1, <2>1 DEF Driver!Servers
    <3> HIDE DEF e
    <3> QED
      BY <3>1, <3>2, <3>3, ReportStep
  <2>3. CASE \E in \in BOOLEAN : Driver!Report(server, <<Driver!Focus(in, FALSE)>>)
    <3>1. PICK in \in BOOLEAN : Driver!Report(server, <<Driver!Focus(in, FALSE)>>)
      BY <2>3
    <3> DEFINE e == Driver!Focus(in, FALSE)
    <3>2. Driver!Changes /\ UNCHANGED Driver!client /\ wire' = wire \o <<e>> /\ server' = server
      BY <3>1 DEF Driver!Report
    <3>3. e \in Driver!Events /\ e.type = "Focus" /\ ~e.ours
      BY <2>1
    <3> HIDE DEF e
    <3> QED
      BY <1>1, <3>2, <3>3, ReportStep
  <2> QED
    BY <1>8, <2>2, <2>3 DEF Driver!MovesFocus
<1>9. CASE Driver!Input
  <2>1. PICK e \in Driver!Events : /\ Driver!Report(server, <<e>>) /\ e.type \in {"Input", "Key", "Delete"}
                                   /\ e.type = "Input" => e.at = now + 1
    <3>1. CASE Driver!Report(server, <<Driver!Event("Input")>>)
      BY <1>2, <3>1
    <3>2. CASE Driver!Report(server, <<[type |-> "Key", at |-> 0]>>)
      <4>1. [type |-> "Key", at |-> 0] \in Driver!Events
        BY DEF Driver!Events
      <4> QED
        BY <3>2, <4>1
    <3>3. CASE Driver!Report(server, <<[type |-> "Delete", at |-> 0]>>)
      <4>1. [type |-> "Delete", at |-> 0] \in Driver!Events
        BY DEF Driver!Events
      <4> QED
        BY <3>3, <4>1
    <3> QED
      BY <1>9, <3>1, <3>2, <3>3 DEF Driver!Input
  <2>2. Driver!Changes /\ UNCHANGED Driver!client /\ wire' = wire \o <<e>> /\ server' = server
    BY <2>1 DEF Driver!Report
  <2> QED
    BY <1>1, <2>1, <2>2, ReportStep
<1>10. CASE Driver!Vanishes
  <2> DEFINE e == Driver!Event("Destroy")
  <2>1. Driver!Changes /\ UNCHANGED Driver!client /\ wire' = wire \o <<e>> /\ server' = [server EXCEPT !.alive = FALSE]
    BY <1>10 DEF Driver!Report, Driver!Vanishes
  <2>2. server' \in Driver!Servers /\ ~server'.alive
    BY <1>1, <2>1 DEF Driver!Servers
  <2>3. e \in Driver!Events /\ e.type = "Destroy"
    BY <1>2
  <2> HIDE DEF e
  <2> QED
    BY <2>1, <2>2, <2>3, ReportStep
<1> QED
  BY <1>3, <1>4, <1>5, <1>6, <1>7, <1>8, <1>9, <1>10

\* force_update() reads everything queued back.
LEMMA Updated ==
  ASSUME Driver!DriverTypeOK, Driver!Follows, server' = server, server.alive, window' = window, configures' = configures,
         NEW s \in Driver!States, s.width = state.width, s.visible = state.visible, s.active = state.active,
         Driver!ForceUpdate(s, queued), heard'.width = state'.width, heard'.active = state'.active,
         heard'.more => configures' > 0,
         wire' = wire \/ \E e \in Driver!Events : e.type = "Property" /\ wire' = Append(wire, e)
  PROVE  Driver!Follows'
<1>1. Driver!Extents \in queued /\ wire \in Seq(Driver!Events)
  BY DEF Driver!Follows, Driver!DriverTypeOK
<1>2. /\ state' = Driver!Reread(s, queued) /\ queued' = queued /\ published' = state'
  BY <1>1 DEF Driver!ForceUpdate, Driver!UpdateKeeping
<1>3. /\ state'.width = state.width /\ state'.visible = state.visible /\ state'.active = state.active
      /\ state'.root = server.x /\ state'.deco = server.x - server.frame
      /\ \A n \in Driver!Known : n \in queued => state'.prop[n] = Driver!ReadBack(n, s.prop[n])
  <2> HIDE DEF Driver!Extents
  <2> QED
    BY <1>1, <1>2, RereadProperties
<1>4. state'.root - state'.deco = server'.frame
  BY <1>3 DEF Driver!DriverTypeOK, Driver!Servers
<1>5. ASSUME NEW E, NEW f, NEW cur, NEW t, NEW c, Driver!Leads(wire, E, f, cur, t), c = cur \/ c = t,
             \A e \in Driver!Events : e.type = "Property" => e \notin E
      PROVE  Driver!Leads(wire', E, f, c, t)
  <2>1. Driver!Leads(wire, E, f, c, t)
    BY <1>5, LeadsSame
  <2>2. CASE wire' = wire
    BY <2>1, <2>2
  <2>3. CASE wire' # wire
    <3>1. PICK e \in Driver!Events : e.type = "Property" /\ wire' = Append(wire, e)
      BY <2>3
    <3>2. e \notin E
      BY <1>5, <3>1
    <3> QED
      BY <1>1, <2>1, <3>1, <3>2, LeadsMore
  <2> QED
    BY <2>2, <2>3
<1>6. \A e \in Driver!Events : e.type = "Property" =>
        e \notin Driver!Sizes /\ e \notin Driver!Places /\ e \notin Driver!Mappings /\ e \notin Driver!Focuses
  BY EventKinds
<1>7. /\ Driver!Leads(wire', Driver!Sizes, Driver!WidthOf, state'.width, server.width)
      /\ Driver!Leads(wire', Driver!Places, Driver!PlaceOf, state'.root, server.x)
      /\ Driver!Leads(wire', Driver!Mappings, Driver!IsMap, state'.visible, server.mapped)
      /\ Driver!Leads(wire', Driver!Focuses, Driver!IsIn, state'.active, server.focus)
  <2>1. /\ Driver!Leads(wire, Driver!Sizes, Driver!WidthOf, state.width, server.width)
        /\ Driver!Leads(wire, Driver!Places, Driver!PlaceOf, state.root, server.x)
        /\ Driver!Leads(wire, Driver!Mappings, Driver!IsMap, state.visible, server.mapped)
        /\ Driver!Leads(wire, Driver!Focuses, Driver!IsIn, state.active, server.focus)
    BY DEF Driver!Follows
  <2>2. Driver!Leads(wire', Driver!Sizes, Driver!WidthOf, state'.width, server.width)
    BY <1>3, <1>5, <1>6, <2>1
  <2>3. Driver!Leads(wire', Driver!Places, Driver!PlaceOf, state'.root, server.x)
    BY <1>3, <1>5, <1>6, <2>1
  <2>4. Driver!Leads(wire', Driver!Mappings, Driver!IsMap, state'.visible, server.mapped)
    BY <1>3, <1>5, <1>6, <2>1
  <2>5. Driver!Leads(wire', Driver!Focuses, Driver!IsIn, state'.active, server.focus)
    BY <1>3, <1>5, <1>6, <2>1
  <2> QED
    BY <2>2, <2>3, <2>4, <2>5
<1>8. /\ \A i \in DOMAIN wire : i \in DOMAIN wire' /\ wire'[i] = wire[i]
      /\ \A i \in DOMAIN wire' : i \in DOMAIN wire \/ wire'[i].type = "Property"
      /\ Driver!InWire(wire) <= Driver!InWire(wire') /\ Driver!InWire(wire) \in Nat /\ Driver!InWire(wire') \in Nat
  <2>1. CASE wire' = wire
    <3>1. Driver!InWire(wire) \in Nat
      BY <1>1, InWireTyped
    <3>2. Driver!InWire(wire') = Driver!InWire(wire)
      BY <2>1
    <3> QED
      BY <2>1, <3>1, <3>2
  <2>2. CASE wire' # wire
    <3>1. PICK e \in Driver!Events : e.type = "Property" /\ wire' = Append(wire, e)
      BY <2>2
    <3>2. /\ DOMAIN wire' = DOMAIN wire \cup {Len(wire) + 1}
          /\ \A k \in DOMAIN wire : wire'[k] = wire[k]
          /\ wire'[Len(wire) + 1] = e
      BY <1>1, <3>1, AppendAt
    <3>3. Driver!InWire(wire) <= Driver!InWire(wire') /\ Driver!InWire(wire) \in Nat /\ Driver!InWire(wire') \in Nat
      BY <1>1, <3>1, InWireTyped, InWireMore
    <3> QED
      BY <3>1, <3>2, <3>3
  <2> QED
    BY <2>1, <2>2
<1>9. ASSUME NEW n \in Driver!Known, server'.prop[n] # 0
      PROVE  Driver!Comes(n)' \/ (n \in queued' /\ (armed' \/ state'.prop[n] = server'.prop[n]))
  <2>1. Driver!Comes(n) \/ n \in queued
    BY <1>9 DEF Driver!Follows
  <2>2. Driver!Comes(n) => Driver!Comes(n)'
    BY <1>8 DEF Driver!Comes
  <2>3. n \in queued => state'.prop[n] = server.prop[n]
    BY <1>3, <1>9 DEF Driver!ReadBack
  <2> QED
    BY <1>2, <2>1, <2>2, <2>3
<1>10. \A i \in DOMAIN wire' : wire'[i].type # "Destroy"
  BY <1>8 DEF Driver!Follows
<1>11. configures' <= Driver!InWire(wire')
  BY <1>8 DEF Driver!Follows, Driver!DriverTypeOK
<1>12. window'
  BY DEF Driver!Follows
<1> HIDE DEF Driver!Extents
<1> QED
  BY <1>1, <1>2, <1>4, <1>7, <1>9, <1>10, <1>11, <1>12 DEF Driver!Follows

\* The client's calls.
LEMMA CreateStep == ASSUME Driver!DriverInv, Driver!CreateWindow PROVE Driver!DriverInv'
<1>1. Driver!Init
  BY DEF Driver!DriverInv, Driver!Untouched, Driver!CreateWindow
<1> DEFINE a == [type |-> "Property", at |-> 1, name |-> "_NET_WM_STATE"]
           b == [type |-> "Property", at |-> 1, name |-> "_MOTIF_WM_HINTS"]
           c == [type |-> "Property", at |-> 1, name |-> "WM_NAME"]
<1>2. wire' = <<a, b, c>> /\ now' = 1
  BY DEF Driver!CreateWindow, Driver!Property
<1>3. a \in Driver!Events /\ b \in Driver!Events /\ c \in Driver!Events
  BY DEF Driver!Events, Driver!Known
<1>4. wire' \in Seq(Driver!Events)
  <2> HIDE DEF a, b, c
  <2> QED
    BY <1>2, <1>3
<1>5. /\ DOMAIN wire' = 1 .. 3 /\ wire'[1] = a /\ wire'[2] = b /\ wire'[3] = c
  <2> HIDE DEF a, b, c
  <2> QED
    BY <1>2
<1>6. \A i \in DOMAIN wire' : wire'[i].type = "Property" /\ wire'[i].at = 1
  BY <1>5
<1>7. server \in Driver!Servers /\ heard \in [width : Nat, more : BOOLEAN, active : BOOLEAN, gone : BOOLEAN]
  BY DEF Driver!DriverInv, Driver!DriverTypeOK
<1>8. /\ server' \in Driver!Servers /\ server'.width = 1 /\ server'.x = 0 /\ ~server'.mapped /\ ~server'.focus
      /\ \A n \in Driver!Known : server'.prop[n] # 0 => n \in {"_NET_WM_STATE", "_MOTIF_WM_HINTS"}
  <2> DEFINE p == [[server.prop EXCEPT !["_NET_WM_STATE"] = 1] EXCEPT !["_MOTIF_WM_HINTS"] = 1]
  <2>1. server' = [server EXCEPT !.alive = TRUE, !.prop = p]
    BY <1>7 DEF Driver!CreateWindow, Driver!Servers
  <2>2. p \in [Driver!Known -> Int] /\ \A n \in Driver!Known : p[n] # 0 => n \in {"_NET_WM_STATE", "_MOTIF_WM_HINTS"}
    <3> DEFINE o == server.prop
    <3>1. o \in [Driver!Known -> Int] /\ \A n \in Driver!Known : o[n] = 0
      BY <1>1, <1>7 DEF Driver!Init, Driver!Servers
    <3>2. PICK l \in Int : l = 1
      OBVIOUS
    <3>3. p = [[o EXCEPT !["_NET_WM_STATE"] = l] EXCEPT !["_MOTIF_WM_HINTS"] = l]
      BY <3>2
    <3> HIDE DEF o, p
    <3>4. p \in [Driver!Known -> Int]
      BY <3>1, <3>3
    <3>5. \A n \in Driver!Known : n \notin {"_NET_WM_STATE", "_MOTIF_WM_HINTS"} => p[n] = o[n]
      BY <3>1, <3>3
    <3> QED
      BY <3>1, <3>4, <3>5
  <2> HIDE DEF p
  <2>3. server.width = 1 /\ server.x = 0 /\ ~server.mapped /\ ~server.focus
    BY <1>1 DEF Driver!Init
  <2> QED
    BY <1>7, <2>1, <2>2, <2>3 DEF Driver!Servers
<1>9. Driver!Blank \in Driver!States /\ Driver!Blank.width = 1 /\ Driver!Blank.root = 0 /\ ~Driver!Blank.visible /\ ~Driver!Blank.active
  BY DEF Driver!Blank, Driver!States
<1>10. state' \in Driver!States /\ state'.width = 1 /\ state'.root = 0 /\ ~state'.visible /\ ~state'.active
  <2>1. [Driver!Blank.prop EXCEPT ![Driver!Title] = 1] \in [Driver!Known -> Int]
    <3>1. Driver!Blank.prop \in [Driver!Known -> Int]
      BY DEF Driver!Blank
    <3>2. PICK o \in Int : o = 1
      OBVIOUS
    <3> HIDE DEF Driver!Title
    <3> QED
      BY <3>1, <3>2
  <2> DEFINE p == [Driver!Blank.prop EXCEPT ![Driver!Title] = 1]
  <2>2. state' = [Driver!Blank EXCEPT !.prop = p]
    BY DEF Driver!CreateWindow
  <2>3. p \in [Driver!Known -> Int]
    BY <2>1
  <2> HIDE DEF p
  <2> QED
    BY <1>9, <2>2, <2>3 DEF Driver!States
<1>11. /\ heard' \in [width : Nat, more : BOOLEAN, active : BOOLEAN, gone : BOOLEAN]
       /\ heard'.width = 1 /\ ~heard'.active /\ ~heard'.more
  <2>1. ~heard.active /\ ~heard.more
    BY <1>1 DEF Driver!Init
  <2>2. PICK w \in Nat : w = 1
    OBVIOUS
  <2>3. heard' = [heard EXCEPT !.width = w]
    BY <2>2 DEF Driver!CreateWindow
  <2> QED
    BY <1>7, <2>1, <2>2, <2>3
<1>12. /\ window' = TRUE /\ queued' = {Driver!Extents} /\ armed' = TRUE /\ stamp' = 0 /\ configures' = 0
  BY <1>1 DEF Driver!CreateWindow, Driver!Init
<1>13. Driver!DriverTypeOK'
  BY <1>2, <1>4, <1>8, <1>10, <1>11, <1>12 DEF Driver!DriverTypeOK
<1>14. Driver!TimesInOrder'
  BY <1>2, <1>6, <1>12 DEF Driver!TimesInOrder
<1>15. \A i \in DOMAIN wire' : /\ wire'[i] \notin Driver!Sizes /\ wire'[i] \notin Driver!Places
                             /\ wire'[i] \notin Driver!Mappings /\ wire'[i] \notin Driver!Focuses
  BY <1>6 DEF Driver!Sizes, Driver!Places, Driver!Mappings, Driver!Focuses
<1>16. /\ Driver!Leads(wire', Driver!Sizes, Driver!WidthOf, state'.width, server'.width)
       /\ Driver!Leads(wire', Driver!Places, Driver!PlaceOf, state'.root, server'.x)
       /\ Driver!Leads(wire', Driver!Mappings, Driver!IsMap, state'.visible, server'.mapped)
       /\ Driver!Leads(wire', Driver!Focuses, Driver!IsIn, state'.active, server'.focus)
  <2>1. Driver!Leads(wire', Driver!Sizes, Driver!WidthOf, state'.width, server'.width)
    BY <1>8, <1>10, <1>15 DEF Driver!Leads
  <2>2. Driver!Leads(wire', Driver!Places, Driver!PlaceOf, state'.root, server'.x)
    BY <1>8, <1>10, <1>15 DEF Driver!Leads
  <2>3. Driver!Leads(wire', Driver!Mappings, Driver!IsMap, state'.visible, server'.mapped)
    <3>1. state'.visible = server'.mapped
      BY <1>8, <1>10 DEF Driver!Servers, Driver!States
    <3> QED
      BY <1>15, <3>1 DEF Driver!Leads
  <2>4. Driver!Leads(wire', Driver!Focuses, Driver!IsIn, state'.active, server'.focus)
    <3>1. state'.active = server'.focus
      BY <1>8, <1>10 DEF Driver!Servers, Driver!States
    <3> QED
      BY <1>15, <3>1 DEF Driver!Leads
  <2> QED
    BY <2>1, <2>2, <2>3, <2>4
<1>17. Driver!Comes("_NET_WM_STATE")' /\ Driver!Comes("_MOTIF_WM_HINTS")'
  BY <1>5 DEF Driver!Comes
<1>18. Driver!InWire(wire') \in Nat
  BY <1>4, InWireTyped
<1>19. Driver!Follows'
  <2>1. \A n \in Driver!Known : server'.prop[n] # 0 => Driver!Comes(n)'
    BY <1>8, <1>17
  <2>2. /\ window' /\ \A i \in DOMAIN wire' : wire'[i].type # "Destroy"
    BY <1>6, <1>12
  <2>3. configures' <= Driver!InWire(wire')
    BY <1>12, <1>18
  <2>4. heard'.width = state'.width /\ heard'.active = state'.active
    BY <1>10, <1>11 DEF Driver!States
  <2> QED
    BY <1>11, <1>12, <1>16, <2>1, <2>2, <2>3, <2>4 DEF Driver!Follows
<1> QED
  BY <1>2, <1>13, <1>14, <1>19 DEF Driver!DriverInv, Driver!Untouched

LEMMA ConfigureStep == ASSUME Driver!DriverInv, Driver!ConfigureWindow PROVE Driver!DriverInv'
<1> DEFINE s == [state EXCEPT !.prop[Driver!Title] = 2]
           e == Driver!Property("WM_NAME")
<1>1. Driver!DriverTypeOK /\ Driver!TimesInOrder /\ Driver!Follows /\ server.alive /\ now \in Nat /\ wire \in Seq(Driver!Events)
  BY DEF Driver!DriverInv, Driver!DriverTypeOK, Driver!ConfigureWindow, Driver!Changes
<1>2. s \in Driver!States /\ s.width = state.width /\ s.visible = state.visible /\ s.active = state.active
  <2>1. PICK l \in Int : l = 2
    OBVIOUS
  <2> DEFINE p == [state.prop EXCEPT ![Driver!Title] = l]
  <2>2. p \in [Driver!Known -> Int]
    BY <1>1 DEF Driver!DriverTypeOK, Driver!States
  <2>3. s = [state EXCEPT !.prop = p]
    BY <2>1
  <2> HIDE DEF p, s
  <2> QED
    BY <1>1, <2>2, <2>3 DEF Driver!DriverTypeOK, Driver!States
<1>3. e \in Driver!Events /\ e.type = "Property" /\ e.at = now + 1
  BY <1>1 DEF Driver!Property, Driver!Events
<1>4. /\ Driver!ForceUpdate(s, queued) /\ wire' = Append(wire, e) /\ server' = server /\ window' = window
      /\ armed' = armed /\ configures' = configures /\ stamp' = stamp /\ now' = now + 1
      /\ heard' = [heard EXCEPT !.width = state'.width, !.more = configures > 0]
  BY DEF Driver!ConfigureWindow, Driver!Changes
<1> HIDE DEF s, e
<1>5. state' = Driver!Reread(s, queued) /\ queued' = queued /\ state' \in Driver!States /\ state'.active = state.active
  BY <1>1, <1>2, <1>4, RereadProperties DEF Driver!ForceUpdate, Driver!UpdateKeeping
<1>6. /\ heard' \in [width : Nat, more : BOOLEAN, active : BOOLEAN, gone : BOOLEAN]
      /\ heard'.width = state'.width /\ heard'.active = heard.active /\ heard'.more = (configures > 0)
  <2>1. heard \in [width : Nat, more : BOOLEAN, active : BOOLEAN, gone : BOOLEAN]
    BY <1>1 DEF Driver!DriverTypeOK
  <2>2. PICK m \in BOOLEAN : m = (configures > 0)
    <3>1. (configures > 0) \in BOOLEAN
      OBVIOUS
    <3> QED
      BY <3>1, Zenon
  <2>3. state'.width \in Nat
    BY <1>5 DEF Driver!States
  <2>4. heard' = [heard EXCEPT !.width = state'.width, !.more = m]
    BY <1>4, <2>2
  <2> QED
    BY <2>1, <2>2, <2>3, <2>4
<1>7. wire' \in Seq(Driver!Events)
  BY <1>1, <1>3, <1>4, AppendAt
<1>8. Driver!DriverTypeOK'
  BY <1>1, <1>4, <1>5, <1>6, <1>7 DEF Driver!DriverTypeOK
<1>9. Driver!TimesInOrder'
  BY <1>1, <1>3, <1>4, Timed
<1>10. Driver!Follows'
  <2>1. heard'.active = state'.active /\ (heard'.more => configures' > 0)
    BY <1>1, <1>4, <1>5, <1>6 DEF Driver!Follows
  <2> QED
    BY <1>1, <1>2, <1>3, <1>4, <1>6, <2>1, Updated
<1> QED
  BY <1>1, <1>4, <1>8, <1>9, <1>10 DEF Driver!DriverInv, Driver!Untouched

LEMMA DestroyStep == ASSUME Driver!DriverInv, Driver!DestroyWindow PROVE Driver!DriverInv'
<1>1. Driver!DriverTypeOK /\ Driver!TimesInOrder /\ now \in Nat /\ wire \in Seq(Driver!Events)
  BY DEF Driver!DriverInv, Driver!DriverTypeOK
<1>2. Driver!Event("Destroy") \in Driver!Events /\ Driver!Event("Destroy").type = "Destroy"
  BY <1>1 DEF Driver!Event, Driver!Events
<1>3. /\ wire' = Append(wire, Driver!Event("Destroy")) /\ window' = FALSE /\ now' = now + 1
      /\ server' = [server EXCEPT !.alive = FALSE]
      /\ UNCHANGED <<state, published, queued, armed, configures, stamp, heard>>
  BY DEF Driver!DestroyWindow, Driver!Changes
<1>4. server' \in Driver!Servers /\ ~server'.alive
  BY <1>1, <1>3 DEF Driver!DriverTypeOK, Driver!Servers
<1>5. wire' \in Seq(Driver!Events)
  BY <1>1, <1>2, <1>3, AppendAt
<1>6. Driver!DriverTypeOK'
  <2>1. now' = now + 1 /\ window' = FALSE
    BY <1>3
  <2>2. now' \in Nat
    BY <1>1, <2>1
  <2>3. window' \in BOOLEAN
    BY <2>1
  <2> QED
    BY <1>1, <1>3, <1>4, <1>5, <2>2, <2>3 DEF Driver!DriverTypeOK
<1>7. Driver!TimesInOrder'
  BY <1>1, <1>2, <1>3, Timed
<1> QED
  BY <1>1, <1>3, <1>4, <1>6, <1>7 DEF Driver!DriverInv, Driver!Untouched

\* The 50 ms timer.
LEMMA UpdatesStep == ASSUME Driver!DriverInv, Driver!ProcessUpdates PROVE Driver!DriverInv'
<1>1. Driver!DriverTypeOK /\ Driver!TimesInOrder /\ (server.alive => Driver!Follows)
  BY DEF Driver!DriverInv
<1>2. /\ armed /\ armed' = FALSE /\ UNCHANGED <<server, now, wire, window, configures, stamp, heard>>
      /\ IF window THEN Driver!ForceUpdate(state, queued) ELSE UNCHANGED <<state, queued, published>>
  BY DEF Driver!ProcessUpdates
<1>3. Driver!Untouched'
  BY <1>2 DEF Driver!Untouched, Driver!DriverInv, Driver!Init
<1>4. state \in Driver!States
  BY <1>1 DEF Driver!DriverTypeOK
<1>5. state' \in Driver!States /\ queued' = queued /\ state'.width = state.width /\ state'.active = state.active
  <2>1. CASE window
    <3>1. state' = Driver!Reread(state, queued) /\ queued' = queued
      BY <1>2, <2>1 DEF Driver!ForceUpdate, Driver!UpdateKeeping
    <3> QED
      BY <1>1, <1>4, <3>1, RereadProperties
  <2>2. CASE ~window
    BY <1>2, <1>4, <2>2
  <2> QED
    BY <2>1, <2>2
<1>6. Driver!DriverTypeOK'
  BY <1>1, <1>2, <1>5 DEF Driver!DriverTypeOK
<1>7. Driver!TimesInOrder'
  BY <1>1, <1>2 DEF Driver!TimesInOrder
<1>8. ASSUME server'.alive
      PROVE  Driver!Follows'
  <2>1. Driver!Follows /\ server.alive /\ window /\ Driver!ForceUpdate(state, queued)
    BY <1>1, <1>2, <1>8 DEF Driver!Follows
  <2>2. heard'.width = state'.width /\ heard'.active = state'.active /\ (heard'.more => configures' > 0)
    BY <1>2, <1>5, <2>1 DEF Driver!Follows
  <2> QED
    BY <1>1, <1>2, <1>4, <2>1, <2>2, Updated
<1> QED
  BY <1>3, <1>6, <1>7, <1>8 DEF Driver!DriverInv

\* The handlers, one for each kind of event.
LEMMA ConfigureNotified ==
  ASSUME Driver!DriverTypeOK, server' = server, wire # <<>>, wire' = Tail(wire), NEW e \in Driver!Events, e = Head(wire),
         e.type = "Configure", window, Driver!ConfigureNotify(e, Tail(wire))
  PROVE  Driver!ClientTypeOK' /\ (Driver!Follows => Driver!Follows') /\ stamp' = stamp
<1>1. e.sent \in BOOLEAN /\ e.width \in Nat /\ e.x \in Int
  BY EventKinds
<1>2. state \in Driver!States /\ heard \in [width : Nat, more : BOOLEAN, active : BOOLEAN, gone : BOOLEAN]
      /\ configures \in Nat /\ wire \in Seq(Driver!Events) /\ Tail(wire) \in Seq(Driver!Events) /\ armed \in BOOLEAN
      /\ queued \subseteq Driver!Known \cup {Driver!Extents, "WM_NAME"}
  BY TailAt DEF Driver!DriverTypeOK
<1>3. Driver!InWire(Tail(wire)) \in Nat /\ Driver!InWire(wire) \in Nat /\ Driver!InWire(wire) <= Driver!InWire(Tail(wire)) + 1
  BY <1>2, InWireTyped, InWireLess
<1>4. configures' \in Nat /\ (configures <= Driver!InWire(wire) => configures' <= Driver!InWire(Tail(wire)))
  <2>1. configures' \in Driver!StillPending(Tail(wire))
    BY DEF Driver!ConfigureNotify
  <2>2. CASE configures > 1
    <3>1. configures' = configures - 1
      BY <2>1, <2>2 DEF Driver!StillPending
    <3> QED
      BY <1>2, <1>3, <2>2, <3>1
  <2>3. CASE ~(configures > 1)
    <3>1. PICK n \in 0 .. Len(Tail(wire)) : configures' = Driver!InWire(SubSeq(Tail(wire), 1, n))
      BY <2>1, <2>3 DEF Driver!StillPending, Driver!Arrived
    <3>2. Driver!InWire(SubSeq(Tail(wire), 1, n)) \in Nat /\ Driver!InWire(SubSeq(Tail(wire), 1, n)) <= Driver!InWire(Tail(wire))
      BY <1>2, InWirePart
    <3> QED
      BY <3>1, <3>2
  <2> QED
    BY <2>2, <2>3
<1>5. /\ state' \in Driver!States /\ state'.visible = state.visible /\ state'.active = state.active
      /\ state'.prop = state.prop
      /\ e.sent => /\ state'.width = state.width /\ state'.root = e.x
                   /\ state'.root - state'.deco = state.root - state.deco
      /\ ~e.sent => state'.width = e.width /\ state'.root = state.root /\ state'.deco = state.deco
      /\ ~e.sent /\ e.width = state.width => state' = state
  <2>1. CASE e.sent
    <3>1. PICK d \in Int : d = state.deco - state.root + e.x
      BY <1>1, <1>2 DEF Driver!States
    <3>2. state' = [state EXCEPT !.deco = d, !.root = e.x]
      BY <2>1, <3>1 DEF Driver!ConfigureNotify
    <3>3. state.root \in Int /\ state.deco \in Int
      BY <1>2 DEF Driver!States
    <3>4. /\ state' \in Driver!States /\ state'.visible = state.visible /\ state'.active = state.active
          /\ state'.prop = state.prop /\ state'.width = state.width /\ state'.root = e.x /\ state'.deco = d
      BY <1>1, <1>2, <3>2 DEF Driver!States
    <3> QED
      BY <1>1, <2>1, <3>1, <3>3, <3>4
  <2>2. CASE ~e.sent
    <3>1. state' = [state EXCEPT !.width = e.width]
      BY <2>2 DEF Driver!ConfigureNotify
    <3> QED
      BY <1>1, <1>2, <2>2, <3>1 DEF Driver!States
  <2> QED
    BY <1>1, <2>1, <2>2
<1>6. /\ heard' \in [width : Nat, more : BOOLEAN, active : BOOLEAN, gone : BOOLEAN]
      /\ heard'.width = state'.width /\ heard'.active = heard.active /\ heard'.more = (configures' > 0)
  <2>1. PICK m \in BOOLEAN : m = (configures' > 0)
    <3>1. (configures' > 0) \in BOOLEAN
      OBVIOUS
    <3> QED
      BY <3>1, Zenon
  <2>2. state'.width \in Nat
    BY <1>5 DEF Driver!States
  <2>3. heard' = [heard EXCEPT !.width = state'.width, !.more = m]
    BY <2>1 DEF Driver!ConfigureNotify
  <2> QED
    BY <1>2, <2>1, <2>2, <2>3
<1>7. /\ window' = window /\ stamp' = stamp
      /\ published' = IF e.sent \/ e.width # state.width THEN state' ELSE published
      /\ \/ queued' = queued \cup {Driver!Extents} /\ armed' = TRUE
         \/ queued' = queued /\ armed' = armed
  BY DEF Driver!ConfigureNotify
<1>8. Driver!ClientTypeOK'
  <2>1. stamp' \in Nat /\ window' \in BOOLEAN
    BY <1>7 DEF Driver!DriverTypeOK
  <2>2. armed' \in BOOLEAN
    BY <1>2, <1>7
  <2>3. queued' \subseteq Driver!Known \cup {Driver!Extents, "WM_NAME"}
    BY <1>2, <1>7
  <2> QED
    BY <1>4, <1>5, <1>6, <2>1, <2>2, <2>3 DEF Driver!ClientTypeOK
<1>9. ASSUME Driver!Follows
      PROVE  Driver!Follows'
  <2>1. armed' \/ published' = state'
    BY <1>5, <1>7, <1>9 DEF Driver!Follows
  <2>2. heard'.active = state'.active
    BY <1>5, <1>6, <1>9 DEF Driver!Follows
  <2>3. configures' <= Driver!InWire(Tail(wire))
    BY <1>4, <1>9 DEF Driver!Follows
  <2>4. queued \subseteq queued' /\ (armed => armed')
    BY <1>7
  <2>5. state'.root - state'.deco = state.root - state.deco
    BY <1>1, <1>5
  <2>6. /\ IF e.type = "Configure" /\ ~e.sent THEN state'.width = e.width ELSE state'.width = state.width
        /\ IF e.type = "Configure" /\ e.sent THEN state'.root = e.x ELSE state'.root \in {state.root, server.x}
    BY <1>1, <1>5
  <2>7. IF e.type = "Configure" THEN configures' <= Driver!InWire(Tail(wire)) ELSE configures' = configures
    BY <2>3
  <2>8. e.type \notin {"Map", "Unmap", "Focus", "Property"}
    OBVIOUS
  <2> QED
    BY <1>5, <1>6, <1>7, <1>9, <2>1, <2>2, <2>4, <2>5, <2>6, <2>7, <2>8, Processed
<1> QED
  BY <1>7, <1>8, <1>9

LEMMA MapNotified ==
  ASSUME Driver!DriverTypeOK, server' = server, wire # <<>>, wire' = Tail(wire), NEW e \in Driver!Events, e = Head(wire),
         e.type = "Map", window, Driver!MapNotify
  PROVE  Driver!ClientTypeOK' /\ (Driver!Follows /\ server.alive => Driver!Follows') /\ stamp' = stamp
<1> DEFINE s == [state EXCEPT !.visible = TRUE]
<1>1. state \in Driver!States
  BY DEF Driver!DriverTypeOK
<1>2. /\ s \in Driver!States /\ s.visible = TRUE /\ s.width = state.width /\ s.active = state.active
      /\ s.prop = state.prop
  BY <1>1 DEF Driver!States
<1>3. /\ state' = Driver!Reread(s, queued \cup {Driver!Extents}) /\ queued' = queued \cup {Driver!Extents} /\ published' = state'
      /\ UNCHANGED <<window, armed, configures, stamp, heard>>
  BY DEF Driver!MapNotify, Driver!ForceUpdate, Driver!UpdateKeeping
<1> HIDE DEF s, Driver!Extents
<1>4. /\ state' \in Driver!States /\ state'.width = state.width /\ state'.visible = TRUE
      /\ state'.active = state.active
      /\ server.alive => state'.root = server.x /\ state'.deco = server.x - server.frame
      /\ \A n \in Driver!Known : state'.prop[n] = IF n \in queued' THEN Driver!ReadBack(n, state.prop[n]) ELSE state.prop[n]
  BY <1>2, <1>3, RereadProperties
<1>5. Driver!ClientTypeOK'
  BY <1>3, <1>4 DEF Driver!ClientTypeOK, Driver!DriverTypeOK
<1>6. ASSUME Driver!Follows, server.alive
      PROVE  Driver!Follows'
  <2>1. Driver!Extents \in queued /\ queued' = queued
    BY <1>3, <1>6 DEF Driver!Follows
  <2>2. ASSUME NEW n \in Driver!Known
        PROVE  \/ state'.prop[n] = state.prop[n]
               \/ n \in queued /\ (server.prop[n] # 0 => state'.prop[n] = server.prop[n])
    <3>1. state'.prop[n] = IF n \in queued THEN Driver!ReadBack(n, state.prop[n]) ELSE state.prop[n]
      BY <1>4, <2>1
    <3>2. server.prop[n] # 0 => Driver!ReadBack(n, state.prop[n]) = server.prop[n]
      BY DEF Driver!ReadBack
    <3> QED
      BY <3>1, <3>2
  <2>3. server.x - (server.x - server.frame) = server.frame
    BY DEF Driver!DriverTypeOK, Driver!Servers
  <2>4. state'.root - state'.deco = server.frame
    BY <1>4, <1>6, <2>3
  <2>5. heard'.width = state'.width /\ heard'.active = state'.active /\ (heard'.more => configures' > 0)
    BY <1>3, <1>4, <1>6 DEF Driver!Follows
  <2>6. e.type \notin {"Configure", "Unmap", "Focus", "Property"}
    OBVIOUS
  <2> QED
    BY <1>3, <1>4, <1>6, <2>1, <2>2, <2>4, <2>5, <2>6, Processed
<1> QED
  BY <1>3, <1>5, <1>6

LEMMA OtherNotified ==
  ASSUME Driver!DriverTypeOK, server' = server, wire # <<>>, wire' = Tail(wire), NEW e \in Driver!Events, e = Head(wire),
         window, UNCHANGED <<window, state, published, configures, heard>>, queued \subseteq queued',
         queued' \subseteq Driver!Known \cup {Driver!Extents, "WM_NAME"}, armed' \in BOOLEAN, armed => armed', stamp' \in Nat,
         e.type \notin {"Configure", "Map", "Unmap"}, e.type = "Focus" /\ e.ours => e.in = state.active,
         e.type = "Property" => e.name \in queued' /\ armed'
  PROVE  Driver!ClientTypeOK' /\ (Driver!Follows => Driver!Follows')
<1>1. Driver!ClientTypeOK'
  BY DEF Driver!ClientTypeOK, Driver!DriverTypeOK
<1>2. ASSUME Driver!Follows
      PROVE  Driver!Follows'
  <2>1. armed' \/ published' = state'
    BY <1>2 DEF Driver!Follows
  <2>2. heard'.width = state'.width /\ heard'.active = state'.active /\ (heard'.more => configures' > 0)
    BY <1>2 DEF Driver!Follows
  <2> QED
    BY <1>2, <2>1, <2>2, Processed
<1> QED
  BY <1>1, <1>2

LEMMA UnmapNotified ==
  ASSUME Driver!DriverTypeOK, server' = server, wire # <<>>, wire' = Tail(wire), NEW e \in Driver!Events, e = Head(wire),
         e.type = "Unmap", window, Driver!UnmapNotify
  PROVE  Driver!ClientTypeOK' /\ (Driver!Follows => Driver!Follows') /\ stamp' = stamp
<1>1. /\ state' = [state EXCEPT !.visible = FALSE] /\ published' = state'
      /\ UNCHANGED <<window, queued, armed, configures, stamp, heard>>
  BY DEF Driver!UnmapNotify
<1>2. /\ state' \in Driver!States /\ state'.visible = FALSE /\ state'.width = state.width
      /\ state'.active = state.active /\ state'.prop = state.prop /\ state'.root = state.root
      /\ state'.deco = state.deco
  BY <1>1 DEF Driver!DriverTypeOK, Driver!States
<1>3. Driver!ClientTypeOK'
  BY <1>1, <1>2 DEF Driver!ClientTypeOK, Driver!DriverTypeOK
<1>4. ASSUME Driver!Follows
      PROVE  Driver!Follows'
  <2>1. heard'.width = state'.width /\ heard'.active = state'.active /\ (heard'.more => configures' > 0)
    BY <1>1, <1>2, <1>4 DEF Driver!Follows
  <2>2. e.type \notin {"Configure", "Map", "Focus", "Property"}
    OBVIOUS
  <2> QED
    BY <1>1, <1>2, <1>4, <2>1, <2>2, Processed
<1> QED
  BY <1>1, <1>3, <1>4

LEMMA FocusChanged ==
  ASSUME Driver!DriverTypeOK, server' = server, wire # <<>>, wire' = Tail(wire), NEW e \in Driver!Events, e = Head(wire),
         e.type = "Focus", window, Driver!FocusChange(e)
  PROVE  Driver!ClientTypeOK' /\ (Driver!Follows => Driver!Follows') /\ stamp' = stamp
<1>1. e.in \in BOOLEAN /\ e.ours \in BOOLEAN
  BY EventKinds
<1>2. state \in Driver!States /\ heard \in [width : Nat, more : BOOLEAN, active : BOOLEAN, gone : BOOLEAN]
      /\ armed \in BOOLEAN /\ stamp \in Nat /\ queued \subseteq Driver!Known \cup {Driver!Extents, "WM_NAME"}
  BY DEF Driver!DriverTypeOK
<1>3. UNCHANGED <<window, queued, armed, configures, stamp>>
  BY DEF Driver!FocusChange
<1>4. CASE e.ours /\ e.in # state.active
  <2>1. /\ state' = [state EXCEPT !.active = e.in] /\ published' = state'
        /\ heard' = [heard EXCEPT !.active = e.in]
    BY <1>4 DEF Driver!FocusChange
  <2>2. /\ state' \in Driver!States /\ state'.visible = state.visible /\ state'.width = state.width
        /\ state'.active = e.in /\ state'.prop = state.prop /\ state'.root = state.root
        /\ state'.deco = state.deco
    BY <1>1, <1>2, <2>1 DEF Driver!States
  <2>3. /\ heard' \in [width : Nat, more : BOOLEAN, active : BOOLEAN, gone : BOOLEAN]
        /\ heard'.width = heard.width /\ heard'.more = heard.more /\ heard'.active = e.in
    BY <1>1, <1>2, <2>1
  <2>4. Driver!ClientTypeOK'
    BY <1>3, <2>2, <2>3 DEF Driver!ClientTypeOK, Driver!DriverTypeOK
  <2>5. ASSUME Driver!Follows
        PROVE  Driver!Follows'
    <3>1. heard'.width = state'.width /\ heard'.active = state'.active /\ (heard'.more => configures' > 0)
      BY <1>3, <2>2, <2>3, <2>5 DEF Driver!Follows
    <3>2. e.type \notin {"Configure", "Map", "Unmap", "Property"}
      OBVIOUS
    <3> QED
      BY <1>3, <1>4, <2>1, <2>2, <2>5, <3>1, <3>2, Processed
  <2> QED
    BY <1>3, <2>4, <2>5
<1>5. CASE ~(e.ours /\ e.in # state.active)
  <2>1. UNCHANGED <<state, published, heard>>
    BY <1>5 DEF Driver!FocusChange
  <2>2. e.type \notin {"Configure", "Map", "Unmap"} /\ e.type # "Property"
    OBVIOUS
  <2>3. e.ours => e.in = state.active
    BY <1>5
  <2>4. /\ UNCHANGED <<window, state, published, configures, heard>> /\ queued' = queued /\ armed' = armed
        /\ stamp' = stamp
    BY <1>3, <2>1
  <2> QED
    BY <1>2, <2>2, <2>3, <2>4, OtherNotified
<1> QED
  BY <1>4, <1>5

\* Whichever event process_x11() takes.
LEMMA X11Step == ASSUME Driver!DriverInv, Driver!ProcessX11 PROVE Driver!DriverInv' /\ stamp' >= stamp
<1> DEFINE e == Head(wire)
           quiet == UNCHANGED <<window, state, published, queued, armed, configures, heard>>
<1>1. Driver!DriverTypeOK /\ Driver!TimesInOrder /\ (server.alive => Driver!Follows) /\ wire \in Seq(Driver!Events)
  BY DEF Driver!DriverInv, Driver!DriverTypeOK
<1>2. /\ wire # <<>> /\ wire' = Tail(wire) /\ server' = server /\ now' = now
      /\ \/ window /\ Driver!ProcessEvent(e, Tail(wire))
         \/ window /\ e.type = "Input" /\ stamp' = e.at /\ quiet
         \/ ~window /\ UNCHANGED Driver!client
  BY DEF Driver!ProcessX11
<1>3. e \in Driver!Events /\ Tail(wire) \in Seq(Driver!Events)
  BY <1>1, <1>2, TailAt
<1>4. Driver!Untouched'
  BY <1>2 DEF Driver!DriverInv, Driver!Untouched, Driver!Init
<1> HIDE DEF e
<1> DEFINE fine == /\ Driver!ClientTypeOK' /\ (Driver!Follows /\ server.alive => Driver!Follows')
                   /\ (stamp' = stamp \/ (e.type \in {"Property", "Input"} /\ stamp' = e.at))
<1>5. ASSUME window /\ Driver!ProcessEvent(e, Tail(wire)) /\ e.type = "Configure"
      PROVE  fine
  <2>1. Driver!ConfigureNotify(e, Tail(wire))
    BY <1>5 DEF Driver!ProcessEvent
  <2>2. Driver!ClientTypeOK' /\ (Driver!Follows => Driver!Follows') /\ stamp' = stamp
    BY <1>1, <1>2, <1>3, <1>5, <2>1, ConfigureNotified DEF e
  <2> QED
    BY <2>2
<1>6. ASSUME window /\ Driver!ProcessEvent(e, Tail(wire)) /\ e.type = "Map"
      PROVE  fine
  <2>1. Driver!MapNotify
    BY <1>6 DEF Driver!ProcessEvent
  <2>2. Driver!ClientTypeOK' /\ (Driver!Follows /\ server.alive => Driver!Follows') /\ stamp' = stamp
    BY <1>1, <1>2, <1>3, <1>6, <2>1, MapNotified DEF e
  <2> QED
    BY <2>2
<1>7. ASSUME window /\ Driver!ProcessEvent(e, Tail(wire)) /\ e.type = "Unmap"
      PROVE  fine
  <2>1. Driver!UnmapNotify
    BY <1>7 DEF Driver!ProcessEvent
  <2>2. Driver!ClientTypeOK' /\ (Driver!Follows => Driver!Follows') /\ stamp' = stamp
    BY <1>1, <1>2, <1>3, <1>7, <2>1, UnmapNotified DEF e
  <2> QED
    BY <2>2
<1>8. ASSUME window /\ Driver!ProcessEvent(e, Tail(wire)) /\ e.type = "Property"
      PROVE  fine
  <2>1. /\ stamp' = e.at /\ queued' = queued \cup {e.name} /\ armed' = TRUE
        /\ UNCHANGED <<window, state, published, configures, heard>>
    BY <1>8 DEF Driver!ProcessEvent, Driver!PropertyNotify
  <2>2. e.at \in Nat /\ e.name \in Driver!Known \cup {Driver!Extents, "WM_NAME"}
    BY <1>3, <1>8, EventKinds
  <2>3. queued \subseteq Driver!Known \cup {Driver!Extents, "WM_NAME"}
    BY <1>1 DEF Driver!DriverTypeOK
  <2>4. /\ queued \subseteq queued' /\ e.name \in queued' /\ armed' \in BOOLEAN /\ stamp' \in Nat
        /\ queued' \subseteq Driver!Known \cup {Driver!Extents, "WM_NAME"}
    BY <2>1, <2>2, <2>3
  <2>5. e.type \notin {"Configure", "Map", "Unmap"} /\ e.type # "Focus"
    BY <1>8
  <2>6. Driver!ClientTypeOK' /\ (Driver!Follows => Driver!Follows')
    BY <1>1, <1>2, <1>3, <1>8, <2>1, <2>4, <2>5, OtherNotified DEF e
  <2> QED
    BY <1>8, <2>1, <2>6
<1>9. ASSUME window /\ Driver!ProcessEvent(e, Tail(wire)) /\ e.type = "Focus"
      PROVE  fine
  <2>1. Driver!FocusChange(e)
    BY <1>9 DEF Driver!ProcessEvent
  <2>2. Driver!ClientTypeOK' /\ (Driver!Follows => Driver!Follows') /\ stamp' = stamp
    BY <1>1, <1>2, <1>3, <1>9, <2>1, FocusChanged DEF e
  <2> QED
    BY <2>2
<1>10. ASSUME window /\ Driver!ProcessEvent(e, Tail(wire)) /\ e.type = "Destroy"
       PROVE  fine
  <2>1. /\ window' = FALSE /\ heard' = [heard EXCEPT !.gone = TRUE]
        /\ UNCHANGED <<state, published, queued, armed, configures, stamp>>
    BY <1>10 DEF Driver!ProcessEvent, Driver!DestroyNotify
  <2>2. heard' \in [width : Nat, more : BOOLEAN, active : BOOLEAN, gone : BOOLEAN]
    BY <1>1, <2>1 DEF Driver!DriverTypeOK
  <2>3. Driver!ClientTypeOK'
    BY <1>1, <2>1, <2>2 DEF Driver!ClientTypeOK, Driver!DriverTypeOK
  <2>4. ~Driver!Follows
    <3>1. 1 \in DOMAIN wire /\ wire[1] = e
      BY <1>1, <1>2, TailAt DEF e
    <3> QED
      BY <1>10, <3>1 DEF Driver!Follows
  <2> QED
    BY <2>1, <2>3, <2>4
<1>11. ASSUME window /\ (Driver!ProcessEvent(e, Tail(wire)) \/ (stamp' = e.at /\ quiet)) /\ e.type = "Input"
       PROVE  fine
  <2>1. stamp' = e.at /\ quiet
    BY <1>11 DEF Driver!ProcessEvent, Driver!InputNotify, Driver!InputTime
  <2>2. e.at \in Nat
    BY <1>3, <1>11, EventKinds
  <2>3. queued \subseteq Driver!Known \cup {Driver!Extents, "WM_NAME"} /\ armed \in BOOLEAN
    BY <1>1 DEF Driver!DriverTypeOK
  <2>4. e.type \notin {"Configure", "Map", "Unmap"} /\ e.type # "Focus" /\ e.type # "Property"
    BY <1>11
  <2>5. /\ UNCHANGED <<window, state, published, configures, heard>> /\ queued' = queued /\ armed' = armed
        /\ stamp' \in Nat
    BY <2>1, <2>2
  <2>6. Driver!ClientTypeOK' /\ (Driver!Follows => Driver!Follows')
    BY <1>1, <1>2, <1>3, <1>11, <2>3, <2>4, <2>5, OtherNotified DEF e
  <2> QED
    BY <1>11, <2>1, <2>6
<1>12. ASSUME window /\ Driver!ProcessEvent(e, Tail(wire)) /\ e.type \in {"Key", "Delete"}
       PROVE  fine
  <2>1. stamp' = stamp /\ quiet
    BY <1>12 DEF Driver!ProcessEvent, Driver!InputNotify, Driver!InputTime
  <2>2. queued \subseteq Driver!Known \cup {Driver!Extents, "WM_NAME"} /\ armed \in BOOLEAN /\ stamp \in Nat
    BY <1>1 DEF Driver!DriverTypeOK
  <2>3. e.type \notin {"Configure", "Map", "Unmap"} /\ e.type # "Focus" /\ e.type # "Property"
    BY <1>12
  <2>4. /\ UNCHANGED <<window, state, published, configures, heard>> /\ queued' = queued /\ armed' = armed
        /\ stamp' \in Nat
    BY <2>1, <2>2
  <2>5. Driver!ClientTypeOK' /\ (Driver!Follows => Driver!Follows')
    BY <1>1, <1>2, <1>3, <1>12, <2>2, <2>3, <2>4, OtherNotified DEF e
  <2> QED
    BY <2>1, <2>5
<1>13. ASSUME ~window /\ UNCHANGED Driver!client
       PROVE  fine
  <2>1. Driver!ClientTypeOK' /\ stamp' = stamp
    BY <1>1, <1>13 DEF Driver!ClientTypeOK, Driver!DriverTypeOK, Driver!client
  <2>2. ~Driver!Follows
    BY <1>13 DEF Driver!Follows
  <2> QED
    BY <2>1, <2>2
<1>14. e.type \in {"Configure", "Map", "Unmap", "Property", "Focus", "Destroy", "Input", "Key", "Delete"}
  BY <1>3 DEF Driver!Events
<1>15. fine
  <2> HIDE DEF fine, quiet
  <2> QED
    BY <1>2, <1>5, <1>6, <1>7, <1>8, <1>9, <1>10, <1>11, <1>12, <1>13, <1>14
<1>16. Driver!DriverTypeOK'
  BY <1>1, <1>2, <1>3, <1>15 DEF Driver!DriverTypeOK, Driver!ClientTypeOK
<1>17. Driver!TimesInOrder' /\ stamp' >= stamp
  BY <1>1, <1>2, <1>15, TimeGoesOn DEF e
<1>18. server'.alive => Driver!Follows'
  BY <1>1, <1>2, <1>15
<1> QED
  BY <1>4, <1>16, <1>17, <1>18 DEF Driver!DriverInv

\* The invariant holds at first, is kept by every step, while time moves on, and implies
\* the property.
LEMMA DriverStarts == Driver!Init => Driver!DriverInv
<1> SUFFICES ASSUME Driver!Init PROVE Driver!DriverInv
  OBVIOUS
<1>1. [n \in Driver!Known |-> 0] \in [Driver!Known -> Int]
  OBVIOUS
<1>2. /\ server \in Driver!Servers /\ ~server.alive
  BY <1>1 DEF Driver!Init, Driver!Servers
<1>3. state \in Driver!States
  BY <1>1 DEF Driver!Init, Driver!Blank, Driver!States
<1>4. <<>> \in Seq(Driver!Events)
  BY EmptySeq
<1>5. heard \in [width : Nat, more : BOOLEAN, active : BOOLEAN, gone : BOOLEAN]
  BY DEF Driver!Init
<1>6. /\ now = 0 /\ wire = <<>> /\ window = FALSE /\ armed = FALSE /\ queued = {} /\ configures = 0 /\ stamp = 0
  BY DEF Driver!Init
<1>7. Driver!DriverTypeOK
  BY <1>2, <1>3, <1>4, <1>5, <1>6 DEF Driver!DriverTypeOK
<1>8. Driver!TimesInOrder
  BY <1>6 DEF Driver!TimesInOrder
<1> QED
  BY <1>2, <1>7, <1>8 DEF Driver!DriverInv, Driver!Untouched

LEMMA DriverSteps == Driver!DriverAssumption /\ Driver!DriverInv /\ [Driver!Next]_(Driver!vars) => Driver!DriverInv' /\ stamp' >= stamp
<1> SUFFICES ASSUME Driver!DriverAssumption, Driver!DriverInv, [Driver!Next]_(Driver!vars) PROVE Driver!DriverInv' /\ stamp' >= stamp
  OBVIOUS
<1>1. stamp \in Nat
  BY DEF Driver!DriverInv, Driver!DriverTypeOK
<1>2. ASSUME stamp' = stamp PROVE stamp' >= stamp
  BY <1>1, <1>2
<1>3. CASE Driver!CreateWindow
  BY <1>2, <1>3, CreateStep DEF Driver!CreateWindow
<1>4. CASE Driver!ConfigureWindow
  BY <1>2, <1>4, ConfigureStep DEF Driver!ConfigureWindow
<1>5. CASE Driver!DestroyWindow
  BY <1>2, <1>5, DestroyStep DEF Driver!DestroyWindow
<1>6. CASE Driver!Shows \/ Driver!Moves \/ Driver!Resizes \/ Driver!Decorates \/ Driver!SetsProperty \/ Driver!MovesFocus \/ Driver!Input \/ Driver!Vanishes
  <2>1. UNCHANGED Driver!client
    BY <1>6 DEF Driver!Shows, Driver!Moves, Driver!Resizes, Driver!Decorates, Driver!SetsProperty, Driver!MovesFocus, Driver!Input, Driver!Vanishes, Driver!Report
  <2> QED
    BY <1>2, <1>6, <2>1, ServerSteps DEF Driver!client
<1>7. CASE Driver!ProcessX11
  BY <1>7, X11Step
<1>8. CASE Driver!ProcessUpdates
  BY <1>2, <1>8, UpdatesStep DEF Driver!ProcessUpdates
<1>9. CASE UNCHANGED Driver!vars
  <2>1. Driver!DriverInv'
    BY <1>9 DEF Driver!vars, Driver!DriverInv, Driver!DriverTypeOK, Driver!TimesInOrder, Driver!Untouched, Driver!Init, Driver!Follows, Driver!Comes
  <2> QED
    BY <1>2, <1>9, <2>1 DEF Driver!vars
<1> QED
  BY <1>3, <1>4, <1>5, <1>6, <1>7, <1>8, <1>9 DEF Driver!Next

LEMMA DriverConverges == Driver!DriverInv => Driver!StateConverges
<1> SUFFICES ASSUME Driver!DriverInv, window, server.alive, wire = <<>>, ~armed
             PROVE  /\ state.width = server.width /\ heard.width = server.width /\ ~heard.more
                    /\ state.root = server.x /\ state.deco = server.x - server.frame
                    /\ state.visible = server.mapped
                    /\ state.active = server.focus /\ heard.active = server.focus
                    /\ \A n \in Driver!Known : server.prop[n] # 0 => state.prop[n] = server.prop[n]
                    /\ published = state
  BY DEF Driver!StateConverges
<1>1. Driver!Follows /\ Driver!DriverTypeOK
  BY DEF Driver!DriverInv
<1>2. DOMAIN wire = {}
  OBVIOUS
<1>3. state.width = server.width
  BY <1>1, <1>2 DEF Driver!Follows, Driver!Leads
<1>4. state.root = server.x
  BY <1>1, <1>2 DEF Driver!Follows, Driver!Leads
<1>5. state.visible = server.mapped
  BY <1>1, <1>2 DEF Driver!Follows, Driver!Leads
<1>6. state.active = server.focus
  BY <1>1, <1>2 DEF Driver!Follows, Driver!Leads
<1>7. \A n : ~Driver!Comes(n)
  BY <1>2 DEF Driver!Comes
<1>8. state.deco = server.x - server.frame
  <2>1. state.root - state.deco = server.frame
    BY <1>1, <1>7 DEF Driver!Follows
  <2>2. server.x \in Int /\ server.frame \in Int /\ state.deco \in Int
    BY <1>1 DEF Driver!DriverTypeOK, Driver!Servers, Driver!States
  <2> QED
    BY <1>4, <2>1, <2>2
<1>9. Driver!InWire(wire) = 0
  <2>1. {i \in DOMAIN wire : wire[i].type = "Configure"} = {}
    BY <1>2
  <2> QED
    BY SameOperators, <2>1, FS_EmptySet DEF Driver!InWire
<1>10. ~heard.more
  BY <1>1, <1>9 DEF Driver!Follows, Driver!DriverTypeOK
<1>11. \A n \in Driver!Known : server.prop[n] # 0 => state.prop[n] = server.prop[n]
  BY <1>1, <1>7 DEF Driver!Follows
<1>12. heard.width = state.width /\ heard.active = state.active /\ published = state
  BY <1>1 DEF Driver!Follows
<1> QED
  BY <1>3, <1>4, <1>5, <1>6, <1>8, <1>10, <1>11, <1>12

-----------------------------------------------------------------------------
(* Large selections: where each transfer is, and who needs which events.     *)

\* A piece of whole elements.
LEMMA PieceSizes ==
  ASSUME NEW w \in Nat \ {0}, NEW l \in Nat
  PROVE  /\ w * (l \div w) \in 0 .. l
         /\ (w * (l \div w)) % w = 0
<1>1. l \div w \in Nat
  OBVIOUS
<1>2. w * (l \div w) \in Nat
  BY <1>1
<1>3. w * (l \div w) <= l
  OBVIOUS
<1>4. (w * (l \div w) + 0) % w = 0
  BY <1>1, Remainder
<1> QED
  BY <1>2, <1>3, <1>4

\* The transfers to a window can be counted.
LEMMA ToWindowFinite ==
  ASSUME NEW S, NEW q \in Seq(S), NEW w
  PROVE  IsFiniteSet(Driver!ToWindow(q, w)) /\ Cardinality(Driver!ToWindow(q, w)) \in Nat
<1>1. DOMAIN q = 1 .. Len(q) /\ Len(q) \in Nat
  BY LenProperties
<1>2. IsFiniteSet(1 .. Len(q))
  BY <1>1, FS_Interval
<1>3. Driver!ToWindow(q, w) \in SUBSET (1 .. Len(q))
  BY <1>1 DEF Driver!ToWindow
<1> QED
  BY <1>2, <1>3, FS_Subset, FS_CardinalityType

\* A transfer starts.
LEMMA TransferAppended ==
  ASSUME NEW S, NEW q \in Seq(S), NEW x \in S
  PROVE  /\ \A w : w # x.to[1] => Driver!ToWindow(Append(q, x), w) = Driver!ToWindow(q, w)
         /\ Cardinality(Driver!ToWindow(Append(q, x), x.to[1])) = Cardinality(Driver!ToWindow(q, x.to[1])) + 1
         /\ \A s : s # x.to /\ Driver!NoneTo(q, s) => Driver!NoneTo(Append(q, x), s)
         /\ \A s, o : s # x.to /\ Driver!Sole(q, s, o) => Driver!Sole(Append(q, x), s, o)
         /\ \A o : x = Driver!Goes(x.to, o) /\ Driver!NoneTo(q, x.to) => Driver!Sole(Append(q, x), x.to, o)
<1> DEFINE r == Append(q, x)
           n == Len(q) + 1
<1>1. /\ r \in Seq(S) /\ DOMAIN q \subseteq Nat /\ n \in Nat
      /\ DOMAIN r = DOMAIN q \cup {n}
      /\ \A k \in DOMAIN q : k < n /\ r[k] = q[k]
      /\ r[n] = x
  BY AppendAt
<1> HIDE DEF r, n
<1>2. n \notin DOMAIN q
  BY <1>1
<1>3. \A w : w # x.to[1] => Driver!ToWindow(r, w) = Driver!ToWindow(q, w)
  BY <1>1, <1>2 DEF Driver!ToWindow
<1>4. Driver!ToWindow(r, x.to[1]) = Driver!ToWindow(q, x.to[1]) \cup {n} /\ n \notin Driver!ToWindow(q, x.to[1])
  BY <1>1, <1>2 DEF Driver!ToWindow
<1>5. Cardinality(Driver!ToWindow(r, x.to[1])) = Cardinality(Driver!ToWindow(q, x.to[1])) + 1
  BY <1>4, ToWindowFinite, FS_AddElement
<1>6. \A s : s # x.to /\ Driver!NoneTo(q, s) => Driver!NoneTo(r, s)
  BY <1>1 DEF Driver!NoneTo
<1>7. ASSUME NEW s, NEW o, s # x.to, Driver!Sole(q, s, o) PROVE Driver!Sole(r, s, o)
  <2>1. PICK k \in DOMAIN q : q[k] = Driver!Goes(s, o) /\ \A j \in DOMAIN q : q[j].to = s => j = k
    BY <1>7 DEF Driver!Sole
  <2>2. k \in DOMAIN r /\ r[k] = Driver!Goes(s, o)
    BY <1>1, <2>1
  <2>3. \A j \in DOMAIN r : r[j].to = s => j = k
    BY <1>1, <1>7, <2>1
  <2> QED
    BY <2>2, <2>3 DEF Driver!Sole
<1>8. ASSUME NEW o, x = Driver!Goes(x.to, o), Driver!NoneTo(q, x.to) PROVE Driver!Sole(r, x.to, o)
  <2>1. n \in DOMAIN r /\ r[n] = Driver!Goes(x.to, o)
    BY <1>1, <1>8
  <2>2. \A j \in DOMAIN r : r[j].to = x.to => j = n
    BY <1>1, <1>8 DEF Driver!NoneTo
  <2> QED
    BY <2>1, <2>2 DEF Driver!Sole
<1> QED
  BY <1>3, <1>5, <1>6, <1>7, <1>8 DEF r

\* A transfer ends; the ones behind it move up.
LEMMA TransferRemoved ==
  ASSUME NEW S, NEW q \in Seq(S), NEW i \in DOMAIN q
  PROVE  /\ RemoveAt(q, i) \in Seq(S)
         /\ \A w : Cardinality(Driver!ToWindow(RemoveAt(q, i), w)) <= Cardinality(Driver!ToWindow(q, w))
         /\ Cardinality(Driver!ToWindow(RemoveAt(q, i), q[i].to[1])) <= Cardinality(Driver!ToWindow(q, q[i].to[1])) - 1
         /\ \A s : Driver!NoneTo(q, s) => Driver!NoneTo(RemoveAt(q, i), s)
         /\ \A s, o : s # q[i].to /\ Driver!Sole(q, s, o) => Driver!Sole(RemoveAt(q, i), s, o)
         /\ \A o : Driver!Sole(q, q[i].to, o) => Driver!NoneTo(RemoveAt(q, i), q[i].to)
<1> DEFINE r == RemoveAt(q, i)
           Old(j) == IF j < i THEN j ELSE j + 1
<1>1. /\ r \in Seq(S) /\ Len(r) = Len(q) - 1 /\ Len(q) \in Nat /\ DOMAIN r = 1 .. Len(r)
      /\ DOMAIN q = 1 .. Len(q) /\ i \in 1 .. Len(q)
      /\ \A j \in 1 .. (Len(q) - 1) : r[j] = IF j < i THEN q[j] ELSE q[j + 1]
  BY RemoveAtProperties, LenProperties
<1> HIDE DEF r
<1>2. /\ \A j \in DOMAIN r : Old(j) \in DOMAIN q \ {i} /\ r[j] = q[Old(j)]
      /\ \A j, k \in DOMAIN r : Old(j) = Old(k) => j = k
      /\ \A k \in DOMAIN q \ {i} : \E j \in DOMAIN r : Old(j) = k
  <2>1. \A j \in DOMAIN r : Old(j) \in DOMAIN q \ {i} /\ r[j] = q[Old(j)]
    BY <1>1
  <2>2. \A j, k \in DOMAIN r : Old(j) = Old(k) => j = k
    BY <1>1
  <2>3. ASSUME NEW k \in DOMAIN q \ {i} PROVE \E j \in DOMAIN r : Old(j) = k
    <3>1. CASE k < i
      <4>1. k \in DOMAIN r /\ Old(k) = k
        BY <1>1, <3>1
      <4> QED
        BY <4>1
    <3>2. CASE ~(k < i)
      <4>1. k - 1 \in DOMAIN r /\ Old(k - 1) = k
        BY <1>1, <3>2
      <4> QED
        BY <4>1
    <3> QED
      BY <3>1, <3>2
  <2> QED
    BY <2>1, <2>2, <2>3
<1> HIDE DEF Old
<1>3. ASSUME NEW w PROVE Cardinality(Driver!ToWindow(r, w)) <= Cardinality(Driver!ToWindow(q, w) \ {i})
  <2> DEFINE A == Driver!ToWindow(r, w)
             B == Driver!ToWindow(q, w) \ {i}
             f == [j \in A |-> Old(j)]
  <2>1. \A j \in A : Old(j) \in B
    BY <1>2 DEF Driver!ToWindow
  <2>2. \A j, k \in A : Old(j) = Old(k) => j = k
    BY <1>2 DEF Driver!ToWindow
  <2>3. IsFiniteSet(B)
    BY ToWindowFinite, FS_RemoveElement
  <2> HIDE DEF A, B
  <2>4. f \in Injection(A, B)
    BY <2>1, <2>2 DEF Injection, IsInjective
  <2>5. Cardinality(A) <= Cardinality(B)
    BY <2>3, <2>4, FS_Injection
  <2> QED
    BY <2>5 DEF A, B
<1>4. \A w : IsFiniteSet(Driver!ToWindow(q, w)) /\ Cardinality(Driver!ToWindow(q, w)) \in Nat /\ Cardinality(Driver!ToWindow(r, w)) \in Nat
  BY <1>1, ToWindowFinite
<1>5. \A w : Cardinality(Driver!ToWindow(r, w)) <= Cardinality(Driver!ToWindow(q, w))
  <2> SUFFICES ASSUME NEW w PROVE Cardinality(Driver!ToWindow(r, w)) <= Cardinality(Driver!ToWindow(q, w))
    OBVIOUS
  <2>1. Cardinality(Driver!ToWindow(q, w) \ {i}) = IF i \in Driver!ToWindow(q, w) THEN Cardinality(Driver!ToWindow(q, w)) - 1
                                            ELSE Cardinality(Driver!ToWindow(q, w))
    BY <1>4, FS_RemoveElement
  <2> QED
    BY <2>1, <1>3, <1>4
<1>6. Cardinality(Driver!ToWindow(r, q[i].to[1])) <= Cardinality(Driver!ToWindow(q, q[i].to[1])) - 1
  <2> DEFINE w == q[i].to[1]
  <2>1. i \in Driver!ToWindow(q, w)
    BY DEF Driver!ToWindow
  <2> HIDE DEF w
  <2>2. Cardinality(Driver!ToWindow(q, w) \ {i}) = Cardinality(Driver!ToWindow(q, w)) - 1
    BY <1>4, <2>1, FS_RemoveElement
  <2>3. Cardinality(Driver!ToWindow(r, w)) <= Cardinality(Driver!ToWindow(q, w)) - 1
    BY <2>2, <1>3
  <2> QED
    BY <2>3 DEF w
<1>7. \A s : Driver!NoneTo(q, s) => Driver!NoneTo(r, s)
  BY <1>2 DEF Driver!NoneTo
<1>8. ASSUME NEW s, NEW o, s # q[i].to, Driver!Sole(q, s, o) PROVE Driver!Sole(r, s, o)
  <2>1. PICK k \in DOMAIN q : q[k] = Driver!Goes(s, o) /\ \A j \in DOMAIN q : q[j].to = s => j = k
    BY <1>8 DEF Driver!Sole
  <2>2. q[k].to = s /\ k # i
    BY <2>1, <1>8 DEF Driver!Goes
  <2>3. PICK j \in DOMAIN r : Old(j) = k
    BY <1>2, <2>2
  <2>4. r[j] = Driver!Goes(s, o)
    BY <1>2, <2>1, <2>3
  <2>5. \A l \in DOMAIN r : r[l].to = s => l = j
    BY <1>2, <2>1, <2>3
  <2> QED
    BY <2>4, <2>5 DEF Driver!Sole
<1>9. ASSUME NEW o, Driver!Sole(q, q[i].to, o) PROVE Driver!NoneTo(r, q[i].to)
  <2>1. PICK k \in DOMAIN q : \A j \in DOMAIN q : q[j].to = q[i].to => j = k
    BY <1>9 DEF Driver!Sole
  <2>2. i = k
    BY <2>1
  <2> QED
    BY <1>2, <2>1, <2>2 DEF Driver!NoneTo
<1> QED
  BY <1>1, <1>5, <1>6, <1>7, <1>8, <1>9 DEF r

\* A transfer sends its next piece.
LEMMA TransferAdvanced ==
  ASSUME NEW q \in Seq(Driver!Transfers), NEW i \in DOMAIN q, NEW n \in Nat, q[i].offset + n \in 0 .. Size
  PROVE  /\ [q EXCEPT ![i].offset = @ + n] \in Seq(Driver!Transfers)
         /\ \A w : Driver!ToWindow([q EXCEPT ![i].offset = @ + n], w) = Driver!ToWindow(q, w)
         /\ \A s : Driver!NoneTo(q, s) => Driver!NoneTo([q EXCEPT ![i].offset = @ + n], s)
         /\ \A s, o : s # q[i].to /\ Driver!Sole(q, s, o) => Driver!Sole([q EXCEPT ![i].offset = @ + n], s, o)
         /\ \A o : Driver!Sole(q, q[i].to, o) => Driver!Sole([q EXCEPT ![i].offset = @ + n], q[i].to, o + n)
<1> DEFINE r == [q EXCEPT ![i].offset = @ + n]
<1>1. DOMAIN q = 1 .. Len(q) /\ Len(q) \in Nat /\ \A k \in DOMAIN q : q[k] \in Driver!Transfers
  BY LenProperties, ElementOfSeq
<1>2. PICK m : m = q[i].offset + n
  OBVIOUS
<1>3. r = [q EXCEPT ![i] = [q[i] EXCEPT !.offset = m]]
  BY <1>2
<1>4. q[i] = Driver!Goes(q[i].to, q[i].offset)
  BY <1>1 DEF Driver!Transfers, Driver!Goes
<1>5. [q[i] EXCEPT !.offset = m] = Driver!Goes(q[i].to, m) /\ Driver!Goes(q[i].to, m) \in Driver!Transfers
  BY <1>1, <1>2 DEF Driver!Transfers, Driver!Goes
<1>6. /\ DOMAIN r = DOMAIN q /\ r[i] = Driver!Goes(q[i].to, m) /\ r[i].to = q[i].to
      /\ \A j \in DOMAIN q : (j # i => r[j] = q[j]) /\ r[j].to = q[j].to
  BY <1>1, <1>3, <1>5 DEF Driver!Goes
<1>7. r \in Seq(Driver!Transfers)
  BY <1>1, <1>3, <1>5, ExceptSeq
<1> HIDE DEF r
<1>8. \A w : Driver!ToWindow(r, w) = Driver!ToWindow(q, w)
  BY <1>6 DEF Driver!ToWindow
<1>9. \A s : Driver!NoneTo(q, s) => Driver!NoneTo(r, s)
  BY <1>6 DEF Driver!NoneTo
<1>10. ASSUME NEW s, NEW o, s # q[i].to, Driver!Sole(q, s, o) PROVE Driver!Sole(r, s, o)
  <2>1. PICK k \in DOMAIN q : q[k] = Driver!Goes(s, o) /\ \A j \in DOMAIN q : q[j].to = s => j = k
    BY <1>10 DEF Driver!Sole
  <2>2. k # i /\ r[k] = q[k]
    BY <2>1, <1>10, <1>6 DEF Driver!Goes
  <2> QED
    BY <2>1, <2>2, <1>6 DEF Driver!Sole
<1>11. ASSUME NEW o, Driver!Sole(q, q[i].to, o) PROVE Driver!Sole(r, q[i].to, o + n)
  <2>1. PICK k \in DOMAIN q : q[k] = Driver!Goes(q[i].to, o) /\ \A j \in DOMAIN q : q[j].to = q[i].to => j = k
    BY <1>11 DEF Driver!Sole
  <2>2. k = i /\ q[i].offset = o
    BY <2>1 DEF Driver!Goes
  <2>3. r[i] = Driver!Goes(q[i].to, o + n)
    BY <2>2, <1>2, <1>6
  <2> QED
    BY <2>1, <2>2, <2>3, <1>6 DEF Driver!Sole
<1> QED
  BY <1>7, <1>8, <1>9, <1>10, <1>11 DEF r

\* The server reports that a property was deleted; filter_event() takes the report.
LEMMA DeleteReported ==
  ASSUME NEW S, NEW d \in Seq(S), NEW x \in S
  PROVE  /\ \A s : s # x /\ Driver!Once(d, s) => Driver!Once(Append(d, x), s)
         /\ \A s : s # x /\ Driver!Never(d, s) => Driver!Never(Append(d, x), s)
         /\ Driver!Never(d, x) => Driver!Once(Append(d, x), x)
<1> DEFINE r == Append(d, x)
           n == Len(d) + 1
<1>1. /\ DOMAIN d \subseteq Nat /\ n \in Nat
      /\ DOMAIN r = DOMAIN d \cup {n}
      /\ \A k \in DOMAIN d : k < n /\ r[k] = d[k]
      /\ r[n] = x
  BY AppendAt
<1> HIDE DEF r, n
<1>2. \A s : s # x /\ Driver!Once(d, s) => Driver!Once(r, s)
  BY <1>1 DEF Driver!Once
<1>3. \A s : s # x /\ Driver!Never(d, s) => Driver!Never(r, s)
  BY <1>1 DEF Driver!Never
<1>4. Driver!Never(d, x) => Driver!Once(r, x)
  BY <1>1 DEF Driver!Never, Driver!Once
<1> QED
  BY <1>2, <1>3, <1>4 DEF r

LEMMA DeleteHandled ==
  ASSUME NEW S, NEW d \in Seq(S), d # <<>>
  PROVE  /\ \A s : s # Head(d) /\ Driver!Once(d, s) => Driver!Once(Tail(d), s)
         /\ \A s : Driver!Never(d, s) => Driver!Never(Tail(d), s)
         /\ Driver!Once(d, Head(d)) => Driver!Never(Tail(d), Head(d))
         /\ ~Driver!Never(d, Head(d))
<1> DEFINE r == Tail(d)
           h == Head(d)
<1>1. /\ DOMAIN d \subseteq Nat /\ DOMAIN r \subseteq Nat
      /\ 1 \in DOMAIN d /\ d[1] = h
      /\ \A k \in DOMAIN r : k + 1 \in DOMAIN d /\ k + 1 > 1 /\ r[k] = d[k + 1]
      /\ \A k \in DOMAIN d : k = 1 \/ (k - 1 \in DOMAIN r /\ k > 1 /\ d[k] = r[k - 1])
  BY TailAt
<1> HIDE DEF r, h
<1>2. ASSUME NEW s, s # h, Driver!Once(d, s) PROVE Driver!Once(r, s)
  <2>1. PICK k \in DOMAIN d : d[k] = s /\ \A j \in DOMAIN d : d[j] = s => j = k
    BY <1>2 DEF Driver!Once
  <2>2. k - 1 \in DOMAIN r /\ r[k - 1] = s
    BY <1>1, <1>2, <2>1
  <2>3. \A j \in DOMAIN r : r[j] = s => j = k - 1
    BY <1>1, <2>1
  <2> QED
    BY <2>2, <2>3 DEF Driver!Once
<1>3. \A s : Driver!Never(d, s) => Driver!Never(r, s)
  BY <1>1 DEF Driver!Never
<1>4. ASSUME Driver!Once(d, h) PROVE Driver!Never(r, h)
  <2>1. PICK k \in DOMAIN d : \A j \in DOMAIN d : d[j] = h => j = k
    BY <1>4 DEF Driver!Once
  <2>2. k = 1
    BY <1>1, <2>1
  <2> QED
    BY <1>1, <2>1, <2>2 DEF Driver!Never
<1>5. ~Driver!Never(d, h)
  BY <1>1 DEF Driver!Never
<1> QED
  BY <1>2, <1>3, <1>4, <1>5 DEF r, h

\* A transfer is where it was if a step does not concern it.
LEMMA StageKept ==
  ASSUME NEW s \in Driver!Slots, Driver!Stage(s), Driver!Kept(s)
  PROVE  Driver!Stage(s)'
<1>1. CASE Driver!AtRest(s)
  BY <1>1 DEF Driver!Kept, Driver!Stage, Driver!AtRest
<1>2. CASE Driver!Ended(s)
  BY <1>2 DEF Driver!Kept, Driver!Stage, Driver!Ended
<1>3. CASE Driver!Waits(s)
  BY <1>3 DEF Driver!Kept, Driver!Stage, Driver!Waits
<1>4. CASE Driver!Asks(s)
  BY <1>4 DEF Driver!Kept, Driver!Stage, Driver!Asks
<1>5. CASE Driver!Unread(s)
  BY <1>5 DEF Driver!Kept, Driver!Stage, Driver!Unread
<1> QED
  BY <1>1, <1>2, <1>3, <1>4, <1>5 DEF Driver!Stage

LEMMA SlotParts ==
  ASSUME NEW s \in Driver!Slots
  PROVE  s[1] \in Driver!Windows
BY DEF Driver!Slots

\* How many users the events of a window have.
LEMMA UsersTyped ==
  ASSUME Driver!IncrTypeOK, NEW w
  PROVE  /\ Driver!Users(w) = Cardinality(Driver!ToWindow(transfers, w)) + (IF w \in Ours THEN 1 ELSE 0)
         /\ Driver!Users(w) \in Nat /\ Cardinality(Driver!ToWindow(transfers, w)) \in Nat
<1>1. Driver!Users(w) = Cardinality(Driver!ToWindow(transfers, w)) + (IF w \in Ours THEN 1 ELSE 0)
  BY SameOperators DEF Driver!Users, Driver!ToWindow
<1>2. Cardinality(Driver!ToWindow(transfers, w)) \in Nat
  BY ToWindowFinite DEF Driver!IncrTypeOK
<1> QED
  BY <1>1, <1>2

\* The windows whose stakes and transfers a step leaves alone.
LEMMA StakesKept ==
  ASSUME NEW w, Driver!Staked(w), Driver!IncrTypeOK, Driver!IncrTypeOK', stakes'[w] = stakes[w], w \in selected => w \in selected',
         Cardinality(Driver!ToWindow(transfers', w)) <= Cardinality(Driver!ToWindow(transfers, w)), w \in Driver!Windows
  PROVE  Driver!Staked(w)'
<1>1. Driver!Users(w)' = Cardinality(Driver!ToWindow(transfers', w)) + (IF w \in Ours THEN 1 ELSE 0)
  BY SameOperators DEF Driver!Users, Driver!ToWindow
<1>2. Driver!Users(w) = Cardinality(Driver!ToWindow(transfers, w)) + (IF w \in Ours THEN 1 ELSE 0) /\ Cardinality(Driver!ToWindow(transfers, w)) \in Nat
  BY UsersTyped
<1>3. Cardinality(Driver!ToWindow(transfers', w)) \in Nat
  BY ToWindowFinite DEF Driver!IncrTypeOK
<1>4. stakes[w].ref \in Nat
  BY DEF Driver!IncrTypeOK, Driver!Stakes
<1>5. stakes[w].ref >= Driver!Users(w)'
  BY <1>1, <1>2, <1>3, <1>4 DEF Driver!Staked
<1> QED
  BY <1>5 DEF Driver!Staked

LEMMA NothingMoves ==
  ASSUME Driver!IncrInv, UNCHANGED <<alive, recycled, selected, slot, got, deletes, stakes, transfers>>
  PROVE  Driver!IncrInv'
<1>1. Driver!IncrTypeOK'
  BY DEF Driver!IncrInv, Driver!IncrTypeOK
<1>2. \A s \in Driver!Slots : s[1] \notin alive' => slot'[s] = Driver!None
  BY DEF Driver!IncrInv
<1>3. ASSUME NEW s \in Driver!Slots, s[1] \in Driver!Steady' PROVE Driver!Stage(s)'
  <2>1. Driver!Stage(s)
    BY <1>3 DEF Driver!IncrInv, Driver!Steady
  <2>2. Driver!Kept(s)
    BY DEF Driver!Kept
  <2> QED
    BY <2>1, <2>2, StageKept
<1>4. ASSUME NEW w \in Driver!Steady' PROVE Driver!Staked(w)'
  BY DEF Driver!IncrInv, Driver!Steady, Driver!Staked, Driver!Users
<1> QED
  BY <1>1, <1>2, <1>3, <1>4 DEF Driver!IncrInv

\* transfer_incr_property(): the requestor's transfer was at rest.
LEMMA StartStep ==
  ASSUME Driver!IncrAssumption, Driver!IncrInv, NEW s \in Driver!Slots, Driver!TransferIncrProperty(s)
  PROVE  Driver!IncrInv'
<1>1. CASE s[1] \notin alive
  <2>1. UNCHANGED <<alive, recycled, selected, slot, got, deletes, stakes, transfers>>
    BY <1>1 DEF Driver!TransferIncrProperty
  <2> QED
    BY <2>1, NothingMoves
<1>2. CASE s[1] \in alive
  <2> DEFINE w == s[1]
             x == Driver!Goes(s, 0)
  <2>1. /\ got[s] = -1 /\ slot[s] = Driver!None /\ ~Contains(deletes, s)
        /\ Driver!RefEvents(w)
        /\ slot' = [slot EXCEPT ![s] = Driver!Announced] /\ got' = [got EXCEPT ![s] = 0]
        /\ transfers' = Append(transfers, x)
        /\ UNCHANGED <<alive, recycled, deletes>>
    BY SameOperators, <1>2 DEF Driver!TransferIncrProperty, Driver!Goes
  <2>2. /\ alive \subseteq Driver!Windows /\ recycled \subseteq Driver!Windows
        /\ slot \in [Driver!Slots -> Driver!Slotted] /\ got \in [Driver!Slots -> Int]
        /\ deletes \in Seq(Driver!Slots) /\ transfers \in Seq(Driver!Transfers)
        /\ stakes \in [Driver!Windows -> Driver!Stakes]
    BY DEF Driver!IncrInv, Driver!IncrTypeOK
  <2>3. x \in Driver!Transfers /\ x.to = s /\ x = Driver!Goes(x.to, 0) /\ w \in Driver!Windows /\ Driver!Announced \in Driver!Slotted
    BY SlotParts DEF Driver!Transfers, Driver!Goes, Driver!IncrAssumption, Driver!Announced, Driver!Slotted
  <2>4. /\ \A v : v # w => Driver!ToWindow(transfers', v) = Driver!ToWindow(transfers, v)
        /\ Cardinality(Driver!ToWindow(transfers', w)) = Cardinality(Driver!ToWindow(transfers, w)) + 1
        /\ \A r : r # s /\ Driver!NoneTo(transfers, r) => Driver!NoneTo(transfers', r)
        /\ \A r, o : r # s /\ Driver!Sole(transfers, r, o) => Driver!Sole(transfers', r, o)
        /\ Driver!NoneTo(transfers, s) => Driver!Sole(transfers', s, 0)
        /\ transfers' \in Seq(Driver!Transfers)
    <3> HIDE DEF x
    <3>1. Append(transfers, x) \in Seq(Driver!Transfers)
      BY <2>2, <2>3, AppendAt
    <3> QED
      BY <2>1, <2>2, <2>3, <3>1, TransferAppended
  <2> HIDE DEF x
  <2>5. PICK k \in Nat : k = stakes[w].ref + 1
    BY <2>2, <2>3 DEF Driver!Stakes
  <2>6. PICK e \in BOOLEAN : e = (stakes[w].destroyed \/ (~stakes[w].mask /\ ~stakes[w].destroyed /\ w \notin alive))
    OBVIOUS
  <2>7. /\ stakes' = [stakes EXCEPT ![w] = [ref |-> k, mask |-> TRUE, destroyed |-> e]]
        /\ selected' = IF ~stakes[w].mask /\ ~stakes[w].destroyed THEN selected \cup ({w} \cap alive) ELSE selected
    BY <2>1, <2>5, <2>6 DEF Driver!RefEvents
  <2>8. [ref |-> k, mask |-> TRUE, destroyed |-> e] \in Driver!Stakes
    BY DEF Driver!Stakes
  <2>9. Driver!IncrTypeOK'
    BY <2>1, <2>2, <2>3, <2>4, <2>7, <2>8 DEF Driver!IncrTypeOK
  <2>10. \A r \in Driver!Slots : r[1] \notin alive' => slot'[r] = Driver!None
    BY <2>1, <2>2, <1>2 DEF Driver!IncrInv
  <2>11. Driver!Steady' = Driver!Steady
    BY <2>1 DEF Driver!Steady
  <2>12. ASSUME NEW r \in Driver!Slots, r[1] \in Driver!Steady PROVE Driver!Stage(r)'
    <3>1. Driver!Stage(r)
      BY <2>12 DEF Driver!IncrInv
    <3>2. CASE r # s
      <4>1. Driver!Kept(r)
        BY <3>2, <2>1, <2>2, <2>4 DEF Driver!Kept
      <4> QED
        BY <3>1, <4>1, StageKept
    <3>3. CASE r = s
      <4>1. Driver!NoneTo(transfers, s)
        BY <3>1, <3>3, <2>1 DEF Driver!Stage, Driver!AtRest, Driver!Ended, Driver!Waits, Driver!Asks, Driver!Unread, Driver!None, Driver!Announced
      <4>2. slot'[s] = Driver!Announced /\ got'[s] = 0
        BY <2>1, <2>2
      <4>3. Driver!Never(deletes', s)
        <5>1. DOMAIN deletes = 1 .. Len(deletes)
          BY <2>2, LenProperties
        <5> QED
          BY <5>1, <2>1 DEF Driver!Never, Contains
      <4> QED
        BY <3>3, <4>1, <4>2, <4>3, <2>4 DEF Driver!Stage, Driver!Waits
    <3> QED
      BY <3>2, <3>3
  <2>13. ASSUME NEW v \in Driver!Steady PROVE Driver!Staked(v)'
    <3>1. Driver!Staked(v) /\ v \in Driver!Windows
      BY <2>2 DEF Driver!IncrInv, Driver!Steady
    <3>2. CASE v # w
      <4>1. stakes'[v] = stakes[v] /\ (v \in selected => v \in selected')
        BY <3>1, <3>2, <2>7, <2>2
      <4>2. Cardinality(Driver!ToWindow(transfers', v)) <= Cardinality(Driver!ToWindow(transfers, v))
        <5>1. Cardinality(Driver!ToWindow(transfers, v)) \in Nat
          BY <2>2, ToWindowFinite
        <5> QED
          BY <5>1, <2>4, <3>2
      <4>3. Driver!IncrTypeOK
        BY DEF Driver!IncrInv
      <4> QED
        BY <3>1, <4>1, <4>2, <4>3, <2>9, StakesKept
    <3>3. CASE v = w
      <4>1. /\ stakes'[w].ref = k /\ stakes'[w].mask = TRUE /\ stakes'[w].destroyed = e
        BY <2>2, <2>3, <2>7
      <4>2. e = FALSE /\ stakes[w].ref >= Driver!Users(w)
        BY <2>6, <3>1, <3>3, <1>2 DEF Driver!Staked
      <4>3. w \in selected'
        <5>1. CASE stakes[w].mask
          <6>1. stakes[w].ref > 0
            BY <5>1, <3>1, <3>3, <2>2, <2>3 DEF Driver!Staked, Driver!Stakes
          <6> QED
            BY <6>1, <3>1, <3>3, <2>7 DEF Driver!Staked
        <5>2. CASE ~stakes[w].mask
          BY <5>2, <3>1, <3>3, <2>7, <1>2 DEF Driver!Staked
        <5> QED
          BY <5>1, <5>2
      <4>4. Driver!Users(w)' = Driver!Users(w) + 1
        <5>1. Driver!Users(w)' = Cardinality(Driver!ToWindow(transfers', w)) + (IF w \in Ours THEN 1 ELSE 0)
          BY SameOperators DEF Driver!Users, Driver!ToWindow
        <5>2. Driver!Users(w) = Cardinality(Driver!ToWindow(transfers, w)) + (IF w \in Ours THEN 1 ELSE 0) /\ Cardinality(Driver!ToWindow(transfers, w)) \in Nat
          BY UsersTyped DEF Driver!IncrInv
        <5> QED
          BY <5>1, <5>2, <2>4
      <4>5. Driver!Users(w) \in Nat /\ stakes[w].ref \in Nat
        BY <2>2, <2>3, UsersTyped DEF Driver!Stakes, Driver!IncrInv
      <4>6. stakes'[w].ref >= Driver!Users(w)' /\ stakes'[w].ref # 0
        BY <4>1, <4>2, <4>4, <4>5, <2>5
      <4> QED
        BY <3>3, <4>1, <4>2, <4>3, <4>6 DEF Driver!Staked
    <3> QED
      BY <3>2, <3>3
  <2> QED
    BY <2>9, <2>10, <2>11, <2>12, <2>13 DEF Driver!IncrInv
<1> QED
  BY <1>1, <1>2

\* A requestor reads a piece; its deletion is reported, as the events of a window with
\* a transfer are selected.
LEMMA ReadStep ==
  ASSUME Driver!IncrAssumption, Driver!IncrInv, NEW s \in Driver!Slots, Driver!Read(s)
  PROVE  Driver!IncrInv'
<1>1. /\ s[1] \in alive /\ slot[s] # Driver!None
      /\ slot' = [slot EXCEPT ![s] = Driver!None]
      /\ got' = [got EXCEPT ![s] = IF slot[s].kind = "data" /\ slot[s].size = 0 THEN -1 ELSE @ + slot[s].size]
      /\ deletes' = IF s[1] \in selected THEN Append(deletes, s) ELSE deletes
      /\ UNCHANGED <<alive, recycled, selected, stakes, transfers>>
  BY DEF Driver!Read
<1>2. /\ alive \subseteq Driver!Windows /\ recycled \subseteq Driver!Windows
      /\ slot \in [Driver!Slots -> Driver!Slotted] /\ got \in [Driver!Slots -> Int]
      /\ deletes \in Seq(Driver!Slots) /\ transfers \in Seq(Driver!Transfers)
      /\ stakes \in [Driver!Windows -> Driver!Stakes]
  BY DEF Driver!IncrInv, Driver!IncrTypeOK
<1>3. Driver!None \in Driver!Slotted /\ slot[s] \in Driver!Slotted /\ slot[s].size \in Nat /\ got[s] \in Int
  BY <1>2 DEF Driver!None, Driver!Slotted
<1>4. PICK n \in Int : n = IF slot[s].kind = "data" /\ slot[s].size = 0 THEN -1 ELSE got[s] + slot[s].size
  BY <1>3
<1>5. got' = [got EXCEPT ![s] = n]
  BY <1>1, <1>2, <1>4
<1>6. deletes' \in Seq(Driver!Slots)
  BY <1>1, <1>2, AppendAt
<1>7. Driver!IncrTypeOK'
  BY <1>1, <1>2, <1>3, <1>5, <1>6 DEF Driver!IncrTypeOK
<1>8. \A r \in Driver!Slots : r[1] \notin alive' => slot'[r] = Driver!None
  BY <1>1, <1>2 DEF Driver!IncrInv
<1>9. Driver!Steady' = Driver!Steady
  BY <1>1 DEF Driver!Steady
<1>10. ASSUME NEW r \in Driver!Slots, r[1] \in Driver!Steady PROVE Driver!Stage(r)'
  <2>1. Driver!Stage(r)
    BY <1>10 DEF Driver!IncrInv
  <2>2. CASE r # s
    <3>1. (Driver!Once(deletes, r) => Driver!Once(deletes', r)) /\ (Driver!Never(deletes, r) => Driver!Never(deletes', r))
      BY <2>2, <1>1, <1>2, DeleteReported
    <3>2. Driver!Kept(r)
      BY <2>2, <1>1, <1>2, <1>5, <3>1 DEF Driver!Kept
    <3> QED
      BY <2>1, <3>2, StageKept
  <2>3. CASE r = s
    <3>1. slot'[s] = Driver!None /\ got'[s] = n
      BY <1>1, <1>2, <1>5
    <3>2. CASE Driver!Ended(s)
      BY <3>1, <3>2, <2>3, <1>1, <1>4 DEF Driver!Ended, Driver!Stage, Driver!AtRest
    <3>3. ASSUME Driver!Waits(s) \/ Driver!Unread(s) PROVE Driver!Stage(s)'
      <4>1. Driver!Never(deletes, s) /\ Driver!Sole(transfers, s, n) /\ n >= 0
        <5>1. CASE Driver!Waits(s)
          BY <5>1, <1>4 DEF Driver!Waits, Driver!Announced
        <5>2. CASE Driver!Unread(s)
          BY <5>2, <1>3, <1>4 DEF Driver!Unread, Driver!Slotted
        <5> QED
          BY <3>3, <5>1, <5>2
      <4>2. s[1] \in selected
        <5>1. Driver!Staked(s[1])
          BY <1>10, <2>3 DEF Driver!IncrInv
        <5>2. PICK i \in DOMAIN transfers : transfers[i] = Driver!Goes(s, n)
          BY <4>1 DEF Driver!Sole
        <5>3. i \in Driver!ToWindow(transfers, s[1])
          BY <5>2 DEF Driver!ToWindow, Driver!Goes
        <5>4. Cardinality(Driver!ToWindow(transfers, s[1])) # 0
          BY <5>3, <1>2, ToWindowFinite, FS_EmptySet
        <5>5. Driver!Users(s[1]) > 0 /\ Driver!Users(s[1]) \in Nat
          BY <5>4, UsersTyped DEF Driver!IncrInv
        <5>6. stakes[s[1]].ref \in Nat
          BY <1>2, SlotParts DEF Driver!Stakes
        <5> QED
          BY <5>1, <5>5, <5>6 DEF Driver!Staked
      <4>3. Driver!Once(deletes', s)
        BY <4>1, <4>2, <1>1, <1>2, DeleteReported
      <4> QED
        BY <3>1, <4>1, <4>3, <1>1 DEF Driver!Stage, Driver!Asks
    <3> QED
      BY <2>1, <2>3, <3>2, <3>3, <1>1 DEF Driver!Stage, Driver!AtRest, Driver!Asks
  <2> QED
    BY <2>2, <2>3
<1>11. ASSUME NEW v \in Driver!Steady PROVE Driver!Staked(v)'
  BY <1>1 DEF Driver!IncrInv, Driver!Staked, Driver!Users
<1> QED
  BY <1>7, <1>8, <1>9, <1>10, <1>11 DEF Driver!IncrInv

\* x11_timer() ends a transfer, wherever it is.
LEMMA ExpireStep ==
  ASSUME Driver!IncrAssumption, Driver!IncrInv, Driver!Expire
  PROVE  Driver!IncrInv'
<1>1. PICK i \in DOMAIN transfers :
        /\ slot' = IF transfers[i].to[1] \in alive THEN [slot EXCEPT ![transfers[i].to] = Driver!Piece(0, 0)] ELSE slot
        /\ transfers' = RemoveAt(transfers, i)
        /\ UNCHANGED <<alive, recycled, selected, got, deletes, stakes>>
  BY SameOperators DEF Driver!Expire
<1> DEFINE s == transfers[i].to
<1>2. /\ alive \subseteq Driver!Windows /\ recycled \subseteq Driver!Windows
      /\ slot \in [Driver!Slots -> Driver!Slotted] /\ got \in [Driver!Slots -> Int]
      /\ deletes \in Seq(Driver!Slots) /\ transfers \in Seq(Driver!Transfers)
      /\ stakes \in [Driver!Windows -> Driver!Stakes]
  BY DEF Driver!IncrInv, Driver!IncrTypeOK
<1>3. s \in Driver!Slots /\ s[1] \in Driver!Windows
  <2>1. transfers[i] \in Driver!Transfers
    BY <1>2, ElementOfSeq
  <2> QED
    BY <2>1, SlotParts DEF Driver!Transfers
<1>4. /\ transfers' \in Seq(Driver!Transfers)
      /\ \A w : Cardinality(Driver!ToWindow(transfers', w)) <= Cardinality(Driver!ToWindow(transfers, w))
      /\ \A r : Driver!NoneTo(transfers, r) => Driver!NoneTo(transfers', r)
      /\ \A r, o : r # s /\ Driver!Sole(transfers, r, o) => Driver!Sole(transfers', r, o)
      /\ \A o : Driver!Sole(transfers, s, o) => Driver!NoneTo(transfers', s)
  BY <1>1, <1>2, TransferRemoved
<1>5. /\ i \in DOMAIN transfers /\ transfers[i].to = s
      /\ slot' = IF s[1] \in alive THEN [slot EXCEPT ![s] = Driver!Piece(0, 0)] ELSE slot
  BY <1>1
<1> HIDE DEF s
<1>6. Driver!Piece(0, 0) \in Driver!Slotted
  BY DEF Driver!Piece, Driver!Slotted
<1>7. Driver!IncrTypeOK'
  BY <1>1, <1>2, <1>3, <1>4, <1>5, <1>6 DEF Driver!IncrTypeOK
<1>8. \A r \in Driver!Slots : r[1] \notin alive' => slot'[r] = Driver!None
  BY <1>1, <1>2, <1>5 DEF Driver!IncrInv
<1>9. Driver!Steady' = Driver!Steady /\ Driver!Steady \subseteq Driver!Windows /\ Driver!Steady \subseteq alive
  BY <1>1, <1>2 DEF Driver!Steady
<1>10. ASSUME NEW r \in Driver!Slots, r[1] \in Driver!Steady PROVE Driver!Stage(r)'
  <2>1. Driver!Stage(r)
    BY <1>10 DEF Driver!IncrInv
  <2>2. CASE r # s
    <3>1. Driver!Kept(r)
      BY <2>2, <1>1, <1>2, <1>4, <1>5 DEF Driver!Kept
    <3> QED
      BY <2>1, <3>1, StageKept
  <2>3. CASE r = s
    <3>1. ~Driver!NoneTo(transfers, s)
      BY <1>5 DEF Driver!NoneTo
    <3>2. slot'[s] = Driver!Piece(0, 0) /\ got'[s] = got[s]
      BY <1>1, <1>2, <1>3, <1>5, <1>9, <1>10, <2>3
    <3>3. Driver!NoneTo(transfers', s) /\ got[s] >= 0
      <4>1. CASE Driver!Waits(s)
        BY <4>1, <1>4 DEF Driver!Waits
      <4>2. CASE Driver!Asks(s)
        BY <4>2, <1>4 DEF Driver!Asks
      <4>3. CASE Driver!Unread(s)
        <5>1. slot[s].from \in Nat
          BY <1>2, <1>3 DEF Driver!Slotted
        <5> QED
          BY <4>3, <1>4, <5>1 DEF Driver!Unread
      <4> QED
        BY <2>1, <2>3, <3>1, <4>1, <4>2, <4>3 DEF Driver!Stage, Driver!AtRest, Driver!Ended
    <3> QED
      BY <2>3, <3>2, <3>3 DEF Driver!Stage, Driver!Ended, Driver!Piece
  <2> QED
    BY <2>2, <2>3
<1>11. ASSUME NEW v \in Driver!Steady PROVE Driver!Staked(v)'
  <2>1. Driver!Staked(v) /\ v \in Driver!Windows /\ Driver!IncrTypeOK
    BY <1>9 DEF Driver!IncrInv
  <2> QED
    BY <2>1, <1>1, <1>4, <1>7, StakesKept
<1> QED
  BY <1>7, <1>8, <1>9, <1>10, <1>11 DEF Driver!IncrInv

\* Clients come and go.
LEMMA VanishStep ==
  ASSUME Driver!IncrInv, NEW w \in Foreign, Driver!Vanish(w)
  PROVE  Driver!IncrInv'
<1>1. /\ w \in alive
      /\ alive' = alive \ {w} /\ selected' = selected \ {w}
      /\ slot' = Driver!Forgotten(slot, w, Driver!None) /\ got' = Driver!Forgotten(got, w, -1)
      /\ UNCHANGED <<recycled, deletes, stakes, transfers>>
  BY DEF Driver!Vanish
<1>2. /\ alive \subseteq Driver!Windows /\ recycled \subseteq Driver!Windows
      /\ slot \in [Driver!Slots -> Driver!Slotted] /\ got \in [Driver!Slots -> Int]
      /\ deletes \in Seq(Driver!Slots) /\ transfers \in Seq(Driver!Transfers)
      /\ stakes \in [Driver!Windows -> Driver!Stakes]
  BY DEF Driver!IncrInv, Driver!IncrTypeOK
<1>3. Driver!None \in Driver!Slotted /\ -1 \in Int
  BY DEF Driver!None, Driver!Slotted
<1>4. slot' \in [Driver!Slots -> Driver!Slotted] /\ \A s \in Driver!Slots : slot'[s] = IF s[1] = w THEN Driver!None ELSE slot[s]
  BY <1>1, <1>2, <1>3 DEF Driver!Forgotten
<1>5. got' \in [Driver!Slots -> Int] /\ \A s \in Driver!Slots : got'[s] = IF s[1] = w THEN -1 ELSE got[s]
  BY <1>1, <1>2, <1>3 DEF Driver!Forgotten
<1>6. Driver!IncrTypeOK'
  BY <1>1, <1>2, <1>4, <1>5 DEF Driver!IncrTypeOK
<1>7. \A s \in Driver!Slots : s[1] \notin alive' => slot'[s] = Driver!None
  BY <1>1, <1>4 DEF Driver!IncrInv
<1>8. Driver!Steady' = Driver!Steady \ {w}
  BY <1>1 DEF Driver!Steady
<1>9. ASSUME NEW s \in Driver!Slots, s[1] \in Driver!Steady' PROVE Driver!Stage(s)'
  <2>1. Driver!Stage(s)
    BY <1>8, <1>9 DEF Driver!IncrInv
  <2>2. Driver!Kept(s)
    BY <1>1, <1>4, <1>5, <1>8, <1>9 DEF Driver!Kept
  <2> QED
    BY <2>1, <2>2, StageKept
<1>10. ASSUME NEW v \in Driver!Steady' PROVE Driver!Staked(v)'
  BY <1>1, <1>8 DEF Driver!IncrInv, Driver!Staked, Driver!Users
<1> QED
  BY <1>6, <1>7, <1>9, <1>10 DEF Driver!IncrInv

LEMMA RecycleStep ==
  ASSUME Driver!IncrInv, NEW w \in Foreign, Driver!Recycle(w)
  PROVE  Driver!IncrInv'
<1>1. /\ w \notin alive /\ alive' = alive \cup {w} /\ recycled' = recycled \cup {w}
      /\ UNCHANGED <<selected, slot, got, deletes, stakes, transfers>>
  BY DEF Driver!Recycle, Driver!requestor
<1>2. w \in Driver!Windows
  BY DEF Driver!Windows
<1>3. Driver!Steady' = Driver!Steady
  BY <1>1 DEF Driver!Steady
<1>4. Driver!IncrTypeOK'
  BY <1>1, <1>2 DEF Driver!IncrTypeOK, Driver!IncrInv
<1>5. \A s \in Driver!Slots : s[1] \notin alive' => slot'[s] = Driver!None
  BY <1>1 DEF Driver!IncrInv
<1>6. ASSUME NEW s \in Driver!Slots, s[1] \in Driver!Steady PROVE Driver!Stage(s)'
  <2>1. Driver!Stage(s)
    BY <1>6 DEF Driver!IncrInv
  <2>2. Driver!Kept(s)
    BY <1>1 DEF Driver!Kept
  <2> QED
    BY <2>1, <2>2, StageKept
<1>7. ASSUME NEW v \in Driver!Steady PROVE Driver!Staked(v)'
  BY <1>1 DEF Driver!IncrInv, Driver!Staked, Driver!Users
<1> QED
  BY <1>3, <1>4, <1>5, <1>6, <1>7 DEF Driver!IncrInv

\* continue_incr(): the transfer waited for this deletion; if it ends, its stake goes.
LEMMA ContinueStep ==
  ASSUME Driver!IncrAssumption, Driver!IncrInv, Driver!PropertyDeleted, Driver!To(Head(deletes)) # {}
  PROVE  Driver!IncrInv'
<1>0. PICK h : h = Head(deletes)
  OBVIOUS
<1> DEFINE w == h[1]
<1>1. /\ alive \subseteq Driver!Windows /\ recycled \subseteq Driver!Windows
      /\ slot \in [Driver!Slots -> Driver!Slotted] /\ got \in [Driver!Slots -> Int]
      /\ deletes \in Seq(Driver!Slots) /\ transfers \in Seq(Driver!Transfers)
      /\ stakes \in [Driver!Windows -> Driver!Stakes]
  BY DEF Driver!IncrInv, Driver!IncrTypeOK
<1>2. deletes # <<>> /\ deletes' = Tail(deletes) /\ UNCHANGED <<alive, recycled, got>>
  BY DEF Driver!PropertyDeleted
<1>3. /\ deletes' \in Seq(Driver!Slots) /\ h \in Driver!Slots /\ w \in Driver!Windows
      /\ \A s : s # h /\ Driver!Once(deletes, s) => Driver!Once(deletes', s)
      /\ \A s : Driver!Never(deletes, s) => Driver!Never(deletes', s)
      /\ Driver!Once(deletes, h) => Driver!Never(deletes', h)
      /\ ~Driver!Never(deletes, h)
  BY <1>0, <1>1, <1>2, TailAt, DeleteHandled, SlotParts
<1>4. PICK i \in Driver!To(h) : Driver!Continue(i)
  <2>1. DOMAIN transfers \subseteq Nat
    BY <1>1, LenProperties
  <2>2. Driver!To(h) \in SUBSET Nat
    BY <2>1 DEF Driver!To
  <2>3. \E m \in Driver!To(h) : \A k \in Driver!To(h) : m <= k
    BY <1>0, <2>2, LeastOf
  <2>4. (CHOOSE m \in Driver!To(h) : \A k \in Driver!To(h) : m <= k) \in Driver!To(h)
    BY <2>3
  <2> QED
    BY <1>0, <2>4 DEF Driver!PropertyDeleted
<1>5. i \in DOMAIN transfers /\ transfers[i].to = h
  BY <1>4 DEF Driver!To
<1>6. transfers[i] \in Driver!Transfers /\ transfers[i].offset \in 0 .. Size /\ {Size, Most} \subseteq Nat /\ Width \in Nat \ {0}
  <2>1. transfers[i] \in Driver!Transfers
    BY <1>1, <1>5, ElementOfSeq
  <2> QED
    BY <2>1 DEF Driver!Transfers, Driver!IncrAssumption
<1>7. PICK o \in Nat : o = transfers[i].offset
  BY <1>6
<1>8. PICK n \in Nat : /\ n = Driver!PieceSize(transfers[i]) /\ n % Width = 0 /\ o + n \in 0 .. Size
  <2>1. Driver!Lesser(Size - o, Most) \in Nat /\ Driver!Lesser(Size - o, Most) <= Size - o
    BY <1>6, <1>7 DEF Driver!Lesser
  <2>2. /\ Driver!PieceSize(transfers[i]) \in 0 .. Driver!Lesser(Size - o, Most)
        /\ Driver!PieceSize(transfers[i]) % Width = 0
    BY <2>1, <1>6, <1>7, PieceSizes DEF Driver!PieceSize
  <2> QED
    BY <2>1, <2>2, <1>6, <1>7
<1>9. /\ slot' = IF w \notin alive THEN slot ELSE [slot EXCEPT ![h] = Driver!Piece(o, n)]
      /\ IF n = 0 \/ w \notin alive
         THEN transfers' = RemoveAt(transfers, i) /\ Driver!UnrefEvents(w)
         ELSE /\ transfers' = [transfers EXCEPT ![i].offset = @ + n]
              /\ UNCHANGED <<stakes, selected>>
  BY SameOperators, <1>4, <1>5, <1>7, <1>8 DEF Driver!Continue
<1>10. Driver!Piece(o, n) \in Driver!Slotted /\ Driver!Piece(o, n).size = n /\ Driver!Piece(o, n).from = o /\ Driver!Piece(o, n).kind = "data"
  BY DEF Driver!Piece, Driver!Slotted
<1>11. slot' \in [Driver!Slots -> Driver!Slotted] /\ (\A s \in Driver!Slots \ {h} : slot'[s] = slot[s]) /\ (w \in alive => slot'[h] = Driver!Piece(o, n))
       /\ (w \notin alive => slot' = slot)
  BY <1>1, <1>3, <1>9, <1>10
<1>12. \A s \in Driver!Slots : s[1] \notin alive' => slot'[s] = Driver!None
  BY <1>1, <1>2, <1>3, <1>11 DEF Driver!IncrInv
<1>13. Driver!Steady' = Driver!Steady /\ Driver!Steady \subseteq Driver!Windows /\ Driver!Steady \subseteq alive
  BY <1>1, <1>2 DEF Driver!Steady
<1>14. w \in Driver!Steady => Driver!Asks(h) /\ got[h] = o
  <2> HAVE w \in Driver!Steady
  <2>1. Driver!Stage(h)
    BY <1>3 DEF Driver!IncrInv
  <2>2. ~Driver!NoneTo(transfers, h)
    BY <1>5 DEF Driver!NoneTo
  <2>3. Driver!Asks(h)
    BY <2>1, <2>2, <1>3 DEF Driver!Stage, Driver!AtRest, Driver!Ended, Driver!Waits, Driver!Unread
  <2>4. got[h] = o
    BY <2>3, <1>5, <1>7 DEF Driver!Asks, Driver!Sole, Driver!Goes
  <2> QED
    BY <2>3, <2>4
<1> HIDE DEF w
<1>15. CASE n = 0 \/ w \notin alive
  <2>1. transfers' = RemoveAt(transfers, i) /\ Driver!UnrefEvents(w)
    BY <1>9, <1>15
  <2>2. /\ transfers' \in Seq(Driver!Transfers)
        /\ \A v : Cardinality(Driver!ToWindow(transfers', v)) <= Cardinality(Driver!ToWindow(transfers, v))
        /\ Cardinality(Driver!ToWindow(transfers', w)) <= Cardinality(Driver!ToWindow(transfers, w)) - 1
        /\ \A r : Driver!NoneTo(transfers, r) => Driver!NoneTo(transfers', r)
        /\ \A r, p : r # h /\ Driver!Sole(transfers, r, p) => Driver!Sole(transfers', r, p)
        /\ \A p : Driver!Sole(transfers, h, p) => Driver!NoneTo(transfers', h)
    BY <2>1, <1>1, <1>5, TransferRemoved DEF w
  <2>3. PICK l \in Int : l = stakes[w].ref - 1
    BY <1>1, <1>3 DEF Driver!Stakes
  <2>4. /\ stakes[w].ref > 1 => stakes' = [stakes EXCEPT ![w] = [stakes[w] EXCEPT !.ref = l]] /\ selected' = selected
        /\ ~(stakes[w].ref > 1) => /\ stakes' = [stakes EXCEPT ![w] = Driver!NoStake]
                                   /\ selected' = IF stakes[w].destroyed THEN selected ELSE selected \ {w}
    BY <2>1, <2>3 DEF Driver!UnrefEvents
  <2>5. Driver!NoStake \in Driver!Stakes /\ (stakes[w].ref > 1 => [stakes[w] EXCEPT !.ref = l] \in Driver!Stakes)
    <3>1. stakes[w] \in Driver!Stakes /\ (stakes[w].ref > 1 => l \in Nat)
      BY <1>1, <1>3, <2>3 DEF Driver!Stakes
    <3> QED
      BY <3>1 DEF Driver!Stakes, Driver!NoStake
  <2>6. stakes' \in [Driver!Windows -> Driver!Stakes] /\ (\A v \in Driver!Windows : v # w => stakes'[v] = stakes[v] /\ (v \in selected => v \in selected'))
    BY <1>1, <2>4, <2>5
  <2>7. Driver!IncrTypeOK'
    BY <1>1, <1>2, <1>3, <1>11, <2>2, <2>6 DEF Driver!IncrTypeOK
  <2>8. ASSUME NEW r \in Driver!Slots, r[1] \in Driver!Steady PROVE Driver!Stage(r)'
    <3>1. Driver!Stage(r)
      BY <2>8 DEF Driver!IncrInv
    <3>2. CASE r # h
      <4>1. Driver!Kept(r)
        BY <3>2, <1>2, <1>3, <1>11, <2>2 DEF Driver!Kept
      <4> QED
        BY <3>1, <4>1, StageKept
    <3>3. CASE r = h
      <4>1. w \in Driver!Steady /\ w \in alive /\ n = 0
        BY <2>8, <3>3, <1>13, <1>15 DEF w
      <4>2. slot'[h].size = 0 /\ slot'[h].kind = "data"
        BY <4>1, <1>10, <1>11
      <4>3. got'[h] >= 0 /\ Driver!NoneTo(transfers', h)
        BY <4>1, <1>14, <1>2, <2>2 DEF Driver!Asks
      <4> QED
        BY <3>3, <4>2, <4>3 DEF Driver!Stage, Driver!Ended
    <3> QED
      BY <3>2, <3>3
  <2>9. ASSUME NEW v \in Driver!Steady PROVE Driver!Staked(v)'
    <3>1. Driver!Staked(v) /\ v \in Driver!Windows /\ Driver!IncrTypeOK
      BY <1>13 DEF Driver!IncrInv
    <3>2. CASE v # w
      BY <3>1, <3>2, <2>2, <2>6, <2>7, StakesKept
    <3>3. CASE v = w
      <4>1. Driver!Users(w) = Cardinality(Driver!ToWindow(transfers, w)) + (IF w \in Ours THEN 1 ELSE 0)
            /\ Cardinality(Driver!ToWindow(transfers, w)) \in Nat
        BY <3>1, UsersTyped
      <4>2. Driver!Users(w)' = Cardinality(Driver!ToWindow(transfers', w)) + (IF w \in Ours THEN 1 ELSE 0)
        BY SameOperators DEF Driver!Users, Driver!ToWindow
      <4>3. Cardinality(Driver!ToWindow(transfers', w)) \in Nat
        BY <2>2, ToWindowFinite
      <4>4. stakes[w].ref \in Nat /\ stakes[w].ref >= Driver!Users(w) /\ stakes[w] \in Driver!Stakes
        BY <3>1, <3>3, <1>1 DEF Driver!Stakes, Driver!Staked
      <4>5. Driver!Users(w)' \in Nat /\ stakes[w].ref - 1 >= Driver!Users(w)'
        BY <4>1, <4>2, <4>3, <4>4, <2>2
      <4>6. CASE stakes[w].ref > 1
        <5>1. stakes'[w] = [stakes[w] EXCEPT !.ref = l] /\ selected' = selected
          BY <1>1, <1>3, <2>4, <4>6
        <5>2. stakes'[w].ref = l /\ stakes'[w].mask = stakes[w].mask /\ stakes'[w].destroyed = stakes[w].destroyed
          BY <5>1, <4>4 DEF Driver!Stakes
        <5> QED
          <6>1. stakes'[w].ref >= Driver!Users(w)' /\ stakes'[w].ref > 0
            BY <5>2, <2>3, <4>4, <4>5, <4>6
          <6>2. stakes[w].mask /\ w \in selected /\ ~stakes[w].destroyed
            BY <3>1, <3>3, <4>4, <4>6 DEF Driver!Staked
          <6> QED
            BY <6>1, <6>2, <3>3, <5>1, <5>2, <4>4, <2>3, <4>6 DEF Driver!Staked
      <4>7. CASE ~(stakes[w].ref > 1)
        <5>1. stakes'[w] = Driver!NoStake
          BY <1>1, <1>3, <2>4, <4>7
        <5>2. Driver!Users(w)' = 0
          BY <4>4, <4>5, <4>7
        <5> QED
          BY <3>3, <5>1, <5>2 DEF Driver!Staked, Driver!NoStake
      <4> QED
        BY <4>6, <4>7
    <3> QED
      BY <3>2, <3>3
  <2> QED
    BY <2>7, <1>12, <1>13, <2>8, <2>9 DEF Driver!IncrInv
<1>16. CASE ~(n = 0 \/ w \notin alive)
  <2>1. transfers' = [transfers EXCEPT ![i].offset = @ + n] /\ UNCHANGED <<stakes, selected>>
    BY <1>9, <1>16
  <2>2. /\ transfers' \in Seq(Driver!Transfers)
        /\ \A v : Driver!ToWindow(transfers', v) = Driver!ToWindow(transfers, v)
        /\ \A r : Driver!NoneTo(transfers, r) => Driver!NoneTo(transfers', r)
        /\ \A r, p : r # h /\ Driver!Sole(transfers, r, p) => Driver!Sole(transfers', r, p)
        /\ \A p : Driver!Sole(transfers, h, p) => Driver!Sole(transfers', h, p + n)
    <3>1. transfers[i].offset + n \in 0 .. Size
      BY <1>7, <1>8
    <3>2. transfers \in Seq(Driver!Transfers) /\ i \in DOMAIN transfers /\ n \in Nat
      BY <1>1, <1>5, <1>8
    <3> DEFINE r == [transfers EXCEPT ![i].offset = @ + n]
    <3>3. /\ r \in Seq(Driver!Transfers)
          /\ \A v : Driver!ToWindow(r, v) = Driver!ToWindow(transfers, v)
          /\ \A s : Driver!NoneTo(transfers, s) => Driver!NoneTo(r, s)
          /\ \A s, p : s # transfers[i].to /\ Driver!Sole(transfers, s, p) => Driver!Sole(r, s, p)
          /\ \A p : Driver!Sole(transfers, transfers[i].to, p) => Driver!Sole(r, transfers[i].to, p + n)
      BY <3>1, <3>2, TransferAdvanced
    <3> HIDE DEF r
    <3>4. transfers' = r
      BY <2>1 DEF r
    <3> QED
      BY <3>3, <3>4, <1>5
  <2>3. Driver!IncrTypeOK'
    BY <1>1, <1>2, <1>3, <1>11, <2>1, <2>2 DEF Driver!IncrTypeOK
  <2>4. ASSUME NEW r \in Driver!Slots, r[1] \in Driver!Steady PROVE Driver!Stage(r)'
    <3>1. Driver!Stage(r)
      BY <2>4 DEF Driver!IncrInv
    <3>2. CASE r # h
      <4>1. Driver!Kept(r)
        BY <3>2, <1>2, <1>3, <1>11, <2>2 DEF Driver!Kept
      <4> QED
        BY <3>1, <4>1, StageKept
    <3>3. CASE r = h
      <4>1. w \in Driver!Steady /\ w \in alive /\ n # 0
        BY <2>4, <3>3, <1>13, <1>16 DEF w
      <4>2. slot'[h].size = n /\ slot'[h].kind = "data" /\ slot'[h].from = o
        BY <4>1, <1>10, <1>11
      <4>3. got'[h] = o /\ Driver!Sole(transfers', h, o + n) /\ Driver!Never(deletes', h)
        BY <4>1, <1>14, <1>2, <1>3, <2>2 DEF Driver!Asks
      <4> QED
        BY <3>3, <4>1, <4>2, <4>3, <1>8 DEF Driver!Stage, Driver!Unread
    <3> QED
      BY <3>2, <3>3
  <2>5. ASSUME NEW v \in Driver!Steady PROVE Driver!Staked(v)'
    <3>1. Driver!Staked(v) /\ v \in Driver!Windows /\ Driver!IncrTypeOK
      BY <1>13 DEF Driver!IncrInv
    <3>2. Cardinality(Driver!ToWindow(transfers, v)) \in Nat
      BY <1>1, ToWindowFinite
    <3>3. Cardinality(Driver!ToWindow(transfers', v)) <= Cardinality(Driver!ToWindow(transfers, v))
      BY <3>2, <2>2
    <3> QED
      BY <3>1, <3>3, <2>1, <2>3, StakesKept
  <2> QED
    BY <2>3, <1>12, <1>13, <2>4, <2>5 DEF Driver!IncrInv
<1> QED
  BY <1>15, <1>16

\* A deletion that no transfer waits for.
LEMMA DeletedStep ==
  ASSUME Driver!IncrInv, Driver!PropertyDeleted, Driver!To(Head(deletes)) = {}
  PROVE  Driver!IncrInv'
<1> DEFINE h == Head(deletes)
<1>1. deletes # <<>> /\ deletes' = Tail(deletes) /\ UNCHANGED <<alive, recycled, got, slot, transfers, stakes, selected>>
  BY DEF Driver!PropertyDeleted
<1>2. deletes \in Seq(Driver!Slots)
  BY DEF Driver!IncrInv, Driver!IncrTypeOK
<1>3. /\ deletes' \in Seq(Driver!Slots)
      /\ \A s : s # h /\ Driver!Once(deletes, s) => Driver!Once(deletes', s)
      /\ \A s : Driver!Never(deletes, s) => Driver!Never(deletes', s)
  BY <1>1, <1>2, TailAt, DeleteHandled
<1>4. Driver!NoneTo(transfers, h)
  BY DEF Driver!To, Driver!NoneTo
<1> HIDE DEF h
<1>5. Driver!IncrTypeOK'
  BY <1>1, <1>3 DEF Driver!IncrInv, Driver!IncrTypeOK
<1>6. Driver!Steady' = Driver!Steady
  BY <1>1 DEF Driver!Steady
<1>7. ASSUME NEW s \in Driver!Slots, s[1] \in Driver!Steady PROVE Driver!Stage(s)'
  <2>1. Driver!Stage(s)
    BY <1>7 DEF Driver!IncrInv
  <2>2. CASE s # h
    <3>1. Driver!Kept(s)
      BY <2>2, <1>1, <1>3 DEF Driver!Kept
    <3> QED
      BY <2>1, <3>1, StageKept
  <2>3. CASE s = h
    <3>1. Driver!AtRest(s) \/ Driver!Ended(s)
      BY <2>1, <2>3, <1>4 DEF Driver!Stage, Driver!Waits, Driver!Asks, Driver!Unread, Driver!Sole, Driver!NoneTo, Driver!Goes
    <3> QED
      BY <3>1, <1>1 DEF Driver!Stage, Driver!AtRest, Driver!Ended
  <2> QED
    BY <2>2, <2>3
<1>8. ASSUME NEW v \in Driver!Steady PROVE Driver!Staked(v)'
  BY <1>1 DEF Driver!IncrInv, Driver!Staked, Driver!Users
<1> QED
  BY <1>1, <1>5, <1>6, <1>7, <1>8 DEF Driver!IncrInv

\* The invariant is kept by every step, holds at first, and implies the property.
LEMMA TransferSteps ==
  ASSUME Driver!IncrAssumption, Driver!IncrInv, [Driver!NextIncr]_(Driver!incrVars)
  PROVE  Driver!IncrInv'
<1>1. CASE UNCHANGED Driver!incrVars
  BY <1>1, NothingMoves DEF Driver!incrVars
<1>2. ASSUME NEW s \in Driver!Slots, Driver!TransferIncrProperty(s) PROVE Driver!IncrInv'
  BY <1>2, StartStep
<1>3. ASSUME NEW s \in Driver!Slots, Driver!Read(s) PROVE Driver!IncrInv'
  BY <1>3, ReadStep
<1>4. CASE Driver!PropertyDeleted
  BY <1>4, ContinueStep, DeletedStep
<1>5. CASE Driver!Expire
  BY <1>5, ExpireStep
<1>6. ASSUME NEW w \in Foreign, Driver!Vanish(w) PROVE Driver!IncrInv'
  BY <1>6, VanishStep
<1>7. ASSUME NEW w \in Foreign, Driver!Recycle(w) PROVE Driver!IncrInv'
  BY <1>7, RecycleStep
<1> QED
  BY <1>1, <1>2, <1>3, <1>4, <1>5, <1>6, <1>7 DEF Driver!NextIncr

LEMMA TransfersStart ==
  ASSUME Driver!InitIncr
  PROVE  Driver!IncrInv
<1>1. /\ alive = Driver!Windows /\ recycled = {} /\ selected = Ours
      /\ slot = [s \in Driver!Slots |-> Driver!None] /\ got = [s \in Driver!Slots |-> -1]
      /\ deletes = <<>> /\ transfers = <<>>
      /\ stakes = [w \in Driver!Windows |-> IF w \in Ours THEN [ref |-> 1, mask |-> TRUE, destroyed |-> FALSE] ELSE Driver!NoStake]
  BY DEF Driver!InitIncr
<1>2. transfers \in Seq(Driver!Transfers) /\ deletes \in Seq(Driver!Slots) /\ DOMAIN transfers = {}
  BY <1>1
<1>3. Driver!None \in Driver!Slotted /\ Driver!NoStake \in Driver!Stakes /\ [ref |-> 1, mask |-> TRUE, destroyed |-> FALSE] \in Driver!Stakes
  BY DEF Driver!None, Driver!Slotted, Driver!NoStake, Driver!Stakes
<1>4. slot \in [Driver!Slots -> Driver!Slotted] /\ got \in [Driver!Slots -> Int] /\ stakes \in [Driver!Windows -> Driver!Stakes]
  BY <1>1, <1>3
<1>5. Driver!IncrTypeOK
  BY <1>1, <1>2, <1>4 DEF Driver!IncrTypeOK
<1>6. ASSUME NEW s \in Driver!Slots PROVE Driver!Stage(s)
  BY <1>1, <1>2 DEF Driver!Stage, Driver!AtRest, Driver!NoneTo
<1>7. ASSUME NEW w \in Driver!Steady PROVE Driver!Staked(w)
  <2>1. w \in Driver!Windows
    BY <1>1 DEF Driver!Steady
  <2>2. Driver!ToWindow(transfers, w) = {}
    BY <1>2 DEF Driver!ToWindow
  <2>3. Driver!Users(w) = IF w \in Ours THEN 1 ELSE 0
    BY <2>2, <1>5, UsersTyped, FS_EmptySet
  <2>4. stakes[w] = IF w \in Ours THEN [ref |-> 1, mask |-> TRUE, destroyed |-> FALSE] ELSE Driver!NoStake
    BY <1>1, <2>1
  <2> QED
    BY <1>1, <2>3, <2>4 DEF Driver!Staked, Driver!NoStake
<1> QED
  BY <1>1, <1>5, <1>6, <1>7 DEF Driver!IncrInv

LEMMA TransfersAreRight ==
  ASSUME Driver!IncrInv
  PROVE  Driver!TransfersGoOn
<1>1. ASSUME NEW s \in Driver!Slots, slot[s].size > 0, s[1] \notin recycled
      PROVE  slot[s].from = got[s] /\ slot[s].size % Width = 0
  <2>1. s[1] \in alive
    BY <1>1 DEF Driver!IncrInv, Driver!None
  <2>2. Driver!Stage(s)
    BY <1>1, <2>1 DEF Driver!IncrInv, Driver!Steady
  <2> QED
    BY <1>1, <2>2 DEF Driver!Stage, Driver!AtRest, Driver!Ended, Driver!Waits, Driver!Asks, Driver!Unread, Driver!None, Driver!Announced
<1>2. ASSUME NEW w \in alive \ recycled, Driver!Users(w) > 0
      PROVE  stakes[w].ref >= Driver!Users(w) /\ w \in selected
  <2>1. Driver!Staked(w) /\ w \in Driver!Windows
    BY <1>2 DEF Driver!IncrInv, Driver!IncrTypeOK, Driver!Steady
  <2>2. stakes[w].ref \in Nat /\ Driver!Users(w) \in Nat
    BY <2>1, UsersTyped DEF Driver!IncrInv, Driver!IncrTypeOK, Driver!Stakes
  <2> QED
    BY <1>2, <2>1, <2>2 DEF Driver!Staked
<1> QED
  BY <1>1, <1>2 DEF Driver!TransfersGoOn

-----------------------------------------------------------------------------
(* Scrolling: the skid and the adjustment it shows.                          *)

\* What the helpers return.
LEMMA ConfineTyped ==
  ASSUME NEW v \in Int, NEW low \in Int, NEW high \in Int
  PROVE  Slide!Confine(v, low, high) \in Int
BY DEF Slide!Confine

LEMMA RoundedTyped ==
  ASSUME NEW v \in Int, NEW unit \in Nat \ {0}
  PROVE  Slide!Rounded(v, unit) \in Int
<1>1. 2 * v + unit \in Int /\ 2 * unit \in Nat \ {0}
  OBVIOUS
<1> QED
  BY <1>1 DEF Slide!Rounded

LEMMA SkidTyped ==
  ASSUME Slide!ScrollingAssumption, NEW a \in Slide!Adjustments
  PROVE  /\ Slide!AbsRange(a) \in Int
         /\ Slide!SkidAt(a) \in Int
<1>1. Slide!AbsRange(a) \in Int /\ a.value \in Int
  BY DEF Slide!AbsRange, Slide!Adjustments
<1>2. Slide!Normal(a) \in Int
  BY <1>1, RoundedTyped DEF Slide!Normal
<1> QED
  BY <1>1, <1>2 DEF Slide!SkidAt, Slide!ScrollingAssumption

\* What the operations make of an adjustment is one.
LEMMA ValueSet ==
  ASSUME NEW a \in Slide!Adjustments, NEW v \in Int
  PROVE  [a EXCEPT !.value = v] \in Slide!Adjustments
BY DEF Slide!Adjustments

LEMMA ConfinedTyped ==
  ASSUME Slide!ScrollingAssumption, NEW a \in Slide!Adjustments
  PROVE  Slide!Confined(a) \in Slide!Adjustments
<1>1. PICK v \in Int : v = Slide!Confine(a.value, 0, Slide!AbsRange(a) * Track)
  <2>1. a.value \in Int /\ Slide!AbsRange(a) * Track \in Int
    BY DEF Slide!Adjustments, Slide!AbsRange, Slide!ScrollingAssumption
  <2>2. Slide!Confine(a.value, 0, Slide!AbsRange(a) * Track) \in Int
    BY <2>1 DEF Slide!Confine
  <2> QED
    BY <2>2
<1>2. Slide!Confined(a) = [a EXCEPT !.value = v]
  BY <1>1 DEF Slide!Confined
<1> QED
  BY <1>2, ValueSet

LEMMA ConstrainedTyped ==
  ASSUME Slide!ScrollingAssumption, NEW a \in Slide!Adjustments
  PROVE  Slide!Constrained(a) \in Slide!Adjustments
<1>1. PICK page \in Int : page = Slide!Confine(a.page, 0, a.upper)
  <2>1. a.page \in Int /\ a.upper \in Int
    BY DEF Slide!Adjustments
  <2>2. Slide!Confine(a.page, 0, a.upper) \in Int
    BY <2>1 DEF Slide!Confine
  <2> QED
    BY <2>2
<1>2. PICK increment \in Int : increment = IF page > 0 THEN Slide!Lesser(a.pageIncrement, page) ELSE a.pageIncrement
  BY DEF Slide!Adjustments, Slide!Lesser
<1>3. PICK by \in Int : by = IF increment > 0 THEN Slide!Lesser(a.step, increment) ELSE Slide!Lesser(a.step, page)
  BY DEF Slide!Adjustments, Slide!Lesser
<1>4. Slide!Constrained(a) = Slide!Confined([a EXCEPT !.page = page, !.pageIncrement = increment, !.step = by])
  BY <1>1, <1>2, <1>3 DEF Slide!Constrained
<1>5. [a EXCEPT !.page = page, !.pageIncrement = increment, !.step = by] \in Slide!Adjustments
  BY <1>1, <1>2, <1>3 DEF Slide!Adjustments
<1> QED
  BY <1>4, <1>5, ConfinedTyped

LEMMA RangedTyped ==
  ASSUME NEW a \in Slide!Adjustments, NEW size \in Nat, NEW upper \in Nat
  PROVE  Slide!Ranged(a, size, upper) \in Slide!Adjustments
<1>1. PICK by \in Int : by = Slide!Confine(Slide!Rounded(size, 10), Slide!Lesser(size, 1), Slide!Lesser(size, upper))
  <2>1. Slide!Rounded(size, 10) \in Int /\ Slide!Lesser(size, 1) \in Int /\ Slide!Lesser(size, upper) \in Int
    BY RoundedTyped DEF Slide!Lesser
  <2> QED
    BY <2>1, ConfineTyped
<1>2. PICK increment \in Int : increment = Slide!Confine(Slide!Greater(10, Slide!Rounded(size, 3)), Slide!Lesser(size, 1), Slide!Lesser(size, upper))
  <2>1. Slide!Rounded(size, 3) \in Int /\ Slide!Lesser(size, 1) \in Int /\ Slide!Lesser(size, upper) \in Int
    BY RoundedTyped DEF Slide!Lesser
  <2>2. Slide!Greater(10, Slide!Rounded(size, 3)) \in Int
    BY <2>1 DEF Slide!Greater
  <2> QED
    BY <2>1, <2>2, ConfineTyped
<1>3. Slide!Ranged(a, size, upper) = [a EXCEPT !.upper = upper, !.page = size, !.step = by, !.pageIncrement = increment]
  BY <1>1, <1>2 DEF Slide!Ranged
<1>4. PICK u \in Int, s \in Int : u = upper /\ s = size
  OBVIOUS
<1>5. [[[[a EXCEPT !.upper = u] EXCEPT !.page = s] EXCEPT !.step = by] EXCEPT !.pageIncrement = increment] \in Slide!Adjustments
  <2>1. [a EXCEPT !.upper = u] \in Slide!Adjustments
    BY <1>4 DEF Slide!Adjustments
  <2>2. [[a EXCEPT !.upper = u] EXCEPT !.page = s] \in Slide!Adjustments
    BY <1>4, <2>1 DEF Slide!Adjustments
  <2>3. [[[a EXCEPT !.upper = u] EXCEPT !.page = s] EXCEPT !.step = by] \in Slide!Adjustments
    BY <1>1, <2>2 DEF Slide!Adjustments
  <2> QED
    BY <1>2, <2>3 DEF Slide!Adjustments
<1> QED
  BY <1>3, <1>4, <1>5

LEMMA OffsetsTyped ==
  ASSUME Slide!ScrollingAssumption, NEW a \in [Slide!Axes -> Slide!Adjustments]
  PROVE  Slide!Offsets(a) \in [Slide!Axes -> Int]
<1>1. ASSUME NEW x \in Slide!Axes PROVE Slide!Rounded(a[x].value, Track) \in Int
  <2>1. a[x].value \in Int
    BY DEF Slide!Adjustments
  <2> QED
    BY <2>1, RoundedTyped DEF Slide!ScrollingAssumption
<1> QED
  BY <1>1 DEF Slide!Offsets


\* The adjustments change, and the slider hears of it.
LEMMA SkidKept ==
  ASSUME Slide!SkidInv, grip' \in Int, NEW a \in [Slide!Axes -> Slide!Adjustments], adj' = a, Slide!SkidMoves(a),
         port' \in [Slide!Axes -> Int], offset' \in [Slide!Axes -> Int]
  PROVE  Slide!SkidInv'
BY DEF Slide!SkidInv, Slide!SkidMoves

LEMMA Told ==
  ASSUME Slide!ScrollingAssumption, Slide!SkidInv, grip' = grip, port' = port, NEW a \in [Slide!Axes -> Slide!Adjustments], Slide!Tell(a)
  PROVE  Slide!SkidInv'
<1>1. adj' = a /\ Slide!SkidMoves(a) /\ grip' \in Int /\ port' \in [Slide!Axes -> Int]
  BY DEF Slide!Tell, Slide!SkidInv
<1>2. offset' \in {offset, Slide!Offsets(a)}
  <2>1. shifts' = <<Slide!Offsets(a)>> => shifts'[1] = Slide!Offsets(a)
    OBVIOUS
  <2>2. shifts' = <<Slide!Offsets(a)>> \/ shifts' = <<>>
    BY DEF Slide!Tell
  <2> QED
    BY <2>1, <2>2 DEF Slide!Tell
<1>3. offset' \in [Slide!Axes -> Int]
  BY <1>2, OffsetsTyped DEF Slide!SkidInv
<1> QED
  BY <1>1, <1>3, SkidKept

LEMMA MovedTyped ==
  ASSUME Slide!ScrollingAssumption, Slide!SkidInv, grip' = grip, port' = port, NEW x \in Slide!Axes, NEW distance \in Int, Slide!Moved(x, distance)
  PROVE  Slide!SkidInv'
<1>1. adj \in [Slide!Axes -> Slide!Adjustments] /\ adj[x] \in Slide!Adjustments /\ Track \in Nat
  BY DEF Slide!SkidInv, Slide!ScrollingAssumption
<1>2. PICK v \in Int : v = adj[x].value + distance * Track
  BY <1>1 DEF Slide!Adjustments
<1>3. PICK b \in Slide!Adjustments : b = Slide!Confined([adj[x] EXCEPT !.value = v])
  BY <1>1, ConfinedTyped, ValueSet
<1>4. Slide!Tell([adj EXCEPT ![x] = b])
  <2>1. Slide!Tell([adj EXCEPT ![x] = Slide!Confined([adj[x] EXCEPT !.value = adj[x].value + distance * Track])])
    BY DEF Slide!Moved
  <2> QED
    BY <2>1, <1>2, <1>3
<1>5. [adj EXCEPT ![x] = b] \in [Slide!Axes -> Slide!Adjustments]
  BY <1>1
<1> QED
  BY <1>4, <1>5, Told

\* Every operation that tells of adjustments; several are changed one after the other.
LEMMA AllocateStep ==
  ASSUME Slide!ScrollingAssumption, Slide!SkidInv, Slide!SizeAllocate
  PROVE  Slide!SkidInv'
<1>1. adj \in [Slide!Axes -> Slide!Adjustments] /\ Ports \subseteq Nat /\ Children \subseteq Nat
  BY DEF Slide!SkidInv, Slide!ScrollingAssumption
<1>2. PICK size \in [Slide!Axes -> Ports], upper \in [Slide!Axes -> Children] :
        LET a == Slide!ConstrainedBoth([x \in Slide!Axes |-> Slide!Ranged(adj[x], size[x], upper[x])])
            h == [a EXCEPT !["h"] = Slide!Constrained(@)]
            v == [h EXCEPT !["v"] = Slide!Constrained(@)]
        IN  adj' = v /\ Slide!SkidMoves(v) /\ offset' = Slide!Offsets(v) /\ port' = size
  BY DEF Slide!SizeAllocate
<1> DEFINE a == Slide!ConstrainedBoth([x \in Slide!Axes |-> Slide!Ranged(adj[x], size[x], upper[x])])
           h == [a EXCEPT !["h"] = Slide!Constrained(a["h"])]
           v == [h EXCEPT !["v"] = Slide!Constrained(h["v"])]
<1>3. adj' = v /\ Slide!SkidMoves(v) /\ offset' = Slide!Offsets(v) /\ port' = size
  BY <1>2
<1>4. [x \in Slide!Axes |-> Slide!Ranged(adj[x], size[x], upper[x])] \in [Slide!Axes -> Slide!Adjustments]
  BY <1>1, RangedTyped
<1>5. a \in [Slide!Axes -> Slide!Adjustments]
  BY <1>4, ConstrainedTyped DEF Slide!ConstrainedBoth
<1> HIDE DEF a
<1>6. h \in [Slide!Axes -> Slide!Adjustments]
  BY <1>5, ConstrainedTyped DEF Slide!Axes
<1> HIDE DEF h
<1>7. v \in [Slide!Axes -> Slide!Adjustments]
  BY <1>6, ConstrainedTyped DEF Slide!Axes
<1> HIDE DEF v
<1>8. grip' \in Int
  BY DEF Slide!SizeAllocate, Slide!SkidInv
<1>9. offset' \in [Slide!Axes -> Int] /\ port' \in [Slide!Axes -> Int]
  <2>0. Ports \subseteq Int
    BY <1>1
  <2>1. size \in [Slide!Axes -> Int]
    BY <1>2, <2>0
  <2> QED
    BY <2>1, <1>3, <1>7, OffsetsTyped
<1> QED
  BY <1>3, <1>7, <1>8, <1>9, SkidKept

LEMMA ScrollSteps ==
  ASSUME Slide!ScrollingAssumption, Slide!SkidInv, Slide!ScrollTo \/ Slide!Wheel \/ Slide!SliderMove \/ Slide!ScrollToChild
  PROVE  Slide!SkidInv'
<1>1. adj \in [Slide!Axes -> Slide!Adjustments] /\ Track \in Nat
  BY DEF Slide!SkidInv, Slide!ScrollingAssumption
<1>2. CASE Slide!ScrollTo
  <2>1. PICK to \in [Slide!Axes -> 0..3] : Slide!Tell([x \in Slide!Axes |-> Slide!Confined([adj[x] EXCEPT !.value = to[x] * Track])])
    BY <1>2 DEF Slide!ScrollTo
  <2>2. [x \in Slide!Axes |-> Slide!Confined([adj[x] EXCEPT !.value = to[x] * Track])] \in [Slide!Axes -> Slide!Adjustments]
    <3>1. ASSUME NEW x \in Slide!Axes PROVE Slide!Confined([adj[x] EXCEPT !.value = to[x] * Track]) \in Slide!Adjustments
      <4>1. PICK v \in Int : v = to[x] * Track
        BY <1>1
      <4> QED
        BY <4>1, <1>1, ValueSet, ConfinedTyped
    <3> QED
      BY <3>1
  <2>3. grip' = grip /\ port' = port
    BY <1>2 DEF Slide!ScrollTo
  <2> QED
    BY <2>1, <2>2, <2>3, Told
<1>3. CASE Slide!Wheel
  <2>1. PICK x \in Slide!Axes, way \in {-1, 1} : Slide!Moved(x, way * adj[x].step)
    BY <1>3 DEF Slide!Wheel
  <2>2. way * adj[x].step \in Int
    BY <1>1 DEF Slide!Adjustments
  <2>3. grip' = grip /\ port' = port
    BY <1>3 DEF Slide!Wheel
  <2> QED
    BY <2>1, <2>2, <2>3, MovedTyped
<1>4. CASE Slide!SliderMove
  <2>1. PICK way \in {-1, 1}, distance \in {adj["v"].step, adj["v"].pageIncrement} : Slide!Moved("v", way * distance)
    BY <1>4 DEF Slide!SliderMove
  <2>2. way * distance \in Int /\ "v" \in Slide!Axes
    BY <1>1 DEF Slide!Adjustments, Slide!Axes
  <2>3. grip' = grip /\ port' = port
    BY <1>4 DEF Slide!SliderMove
  <2> QED
    BY <2>1, <2>2, <2>3, MovedTyped
<1>5. CASE Slide!ScrollToChild
  <2>1. PICK area \in [Slide!Axes -> [from : 0..2, size : 1..2]] : Slide!Tell(Slide!InView(area))
    BY <1>5 DEF Slide!ScrollToChild
  <2> DEFINE a == Slide!InView(area)
  <2>2. a \in [Slide!Axes -> Slide!Adjustments]
    <3>1. ASSUME NEW x \in Slide!Axes
          PROVE Slide!Confined([adj[x] EXCEPT !.value = @ + Track * Slide!Delta(area[x].from - offset[x], area[x].size, x)]) \in Slide!Adjustments
      <4>1. area[x].from - offset[x] \in Int /\ area[x].size \in Int /\ port[x] \in Int
        BY <2>1 DEF Slide!SkidInv
      <4>2. Slide!Delta(area[x].from - offset[x], area[x].size, x) \in Int
        BY <4>1 DEF Slide!Delta
      <4>3. PICK v \in Int : v = adj[x].value + Track * Slide!Delta(area[x].from - offset[x], area[x].size, x)
        BY <4>2, <1>1 DEF Slide!Adjustments
      <4> QED
        BY <4>3, <1>1, ValueSet, ConfinedTyped
    <3> QED
      BY <3>1 DEF Slide!InView
  <2> HIDE DEF a
  <2>3. grip' = grip /\ port' = port
    BY <1>5 DEF Slide!ScrollToChild
  <2>4. Slide!Tell(a)
    BY <2>1 DEF a
  <2> QED
    BY <2>2, <2>3, <2>4, Told
<1> QED
  BY <1>2, <1>3, <1>4, <1>5

\* nvalue() of the value set by nvalue(n) is n.
LEMMA Sought ==
  ASSUME NEW r \in Nat \ {0}, NEW n \in Nat, NEW track \in Nat, n <= track
  PROVE  /\ n * r \in Nat /\ n * r <= r * track
         /\ (2 * (n * r) + r) \div (2 * r) = n
<1>1. n * r \in Nat /\ n * r <= r * track
  OBVIOUS
<1>2. 2 * (n * r) + r = (2 * r) * n + r
  OBVIOUS
<1>3. ((2 * r) * n + r) \div (2 * r) = n
  OBVIOUS
<1> QED
  BY <1>1, <1>2, <1>3


\* The skid is where its value was set.
LEMMA SkidSet ==
  ASSUME Slide!ScrollingAssumption, NEW a \in Slide!Adjustments, Slide!AbsRange(a) > 0, NEW n \in 0 .. Track
  PROVE  /\ Slide!At(a, n) \in Slide!Adjustments
         /\ Slide!SkidAt(Slide!At(a, n)) = n
<1> DEFINE r == Slide!AbsRange(a)
<1>1. r \in Nat \ {0} /\ Track \in Nat
  BY DEF Slide!AbsRange, Slide!Adjustments, Slide!ScrollingAssumption
<1>2. PICK m \in 0 .. Track : m = IF Flipped THEN Track - n ELSE n
  <2>1. Track - n \in 0 .. Track
    BY <1>1
  <2>2. (IF Flipped THEN Track - n ELSE n) \in 0 .. Track
    BY <2>1
  <2> QED
    BY <2>2
<1> HIDE DEF r
<1>3. m * r \in Nat /\ m * r <= r * Track /\ (2 * (m * r) + r) \div (2 * r) = m
  BY <1>1, <1>2, Sought
<1>4. PICK v \in Nat : v = m * r
  BY <1>3
<1>5. Slide!Confine(m * r, 0, r * Track) = v
  BY <1>1, <1>3, <1>4 DEF Slide!Confine
<1>6. Slide!At(a, n) = [a EXCEPT !.value = v]
  BY <1>2, <1>5 DEF Slide!At, r
<1>7. Slide!At(a, n) \in Slide!Adjustments /\ Slide!At(a, n).value = v /\ Slide!AbsRange(Slide!At(a, n)) = r
  BY <1>6 DEF Slide!Adjustments, Slide!AbsRange, r
<1>8. Slide!Normal(Slide!At(a, n)) = m
  BY <1>1, <1>3, <1>4, <1>7 DEF Slide!Normal, Slide!Rounded
<1> QED
  BY <1>1, <1>2, <1>7, <1>8 DEF Slide!SkidAt

LEMMA DragStep ==
  ASSUME Slide!ScrollingAssumption, Slide!SkidInv, Slide!Drag
  PROVE  /\ Slide!SkidInv'
         /\ Slide!AbsRange(adj["v"]) > 0 => skid' = Slide!Confine(pointer' - grip, 0, Track)
<1>1. PICK p \in -1..(Track + Skid + 1) :
        /\ pointer' = p
        /\ Slide!Tell([adj EXCEPT !["v"] = Slide!At(@, Slide!Confine(p - grip, 0, Track))])
  BY DEF Slide!Drag
<1>2. adj \in [Slide!Axes -> Slide!Adjustments] /\ "v" \in Slide!Axes /\ Track \in Nat /\ Skid \in Nat /\ grip \in Int
  BY DEF Slide!SkidInv, Slide!ScrollingAssumption, Slide!Axes
<1>3. PICK n \in 0 .. Track : n = Slide!Confine(p - grip, 0, Track)
  BY <1>2 DEF Slide!Confine
<1>4. Slide!At(adj["v"], n) \in Slide!Adjustments
  <2>1. PICK v \in Int : v = Slide!Confine((IF Flipped THEN Track - n ELSE n) * Slide!AbsRange(adj["v"]), 0, Slide!AbsRange(adj["v"]) * Track)
    <3>1. Slide!AbsRange(adj["v"]) \in Int /\ (IF Flipped THEN Track - n ELSE n) \in Int
      BY <1>2, <1>3, SkidTyped
    <3>2. (IF Flipped THEN Track - n ELSE n) * Slide!AbsRange(adj["v"]) \in Int /\ Slide!AbsRange(adj["v"]) * Track \in Int
      BY <3>1, <1>2
    <3>3. Slide!Confine((IF Flipped THEN Track - n ELSE n) * Slide!AbsRange(adj["v"]), 0, Slide!AbsRange(adj["v"]) * Track) \in Int
      BY <3>2, ConfineTyped
    <3> QED
      BY <3>3
  <2> QED
    BY <2>1, <1>2, ValueSet DEF Slide!At
<1> DEFINE a == [adj EXCEPT !["v"] = Slide!At(adj["v"], n)]
<1>5. a \in [Slide!Axes -> Slide!Adjustments] /\ a["v"] = Slide!At(adj["v"], n)
  BY <1>2, <1>4
<1>6. Slide!Tell(a)
  BY <1>1, <1>3
<1> HIDE DEF a
<1>7. Slide!SkidInv'
  BY <1>5, <1>6, Told DEF Slide!Drag
<1>8. skid' = Slide!SkidAt(Slide!At(adj["v"], n))
  BY <1>5, <1>6, <1>7 DEF Slide!SkidInv, Slide!Tell
<1>9. Slide!AbsRange(adj["v"]) > 0 => skid' = n
  BY <1>2, <1>3, <1>8, SkidSet
<1> QED
  BY <1>1, <1>3, <1>7, <1>9

\* A press only takes hold of the skid.
LEMMA PressStep ==
  ASSUME Slide!ScrollingAssumption, Slide!SkidInv, Slide!Press
  PROVE  Slide!SkidInv'
<1>1. PICK p \in 0..(Track + Skid) :
        grip' = IF p >= skid /\ p < skid + Skid THEN p - skid
                ELSE p - ((p - Skid \div 2) + Slide!Greater(0, -(p - Skid \div 2)) - Slide!Greater(0, (p - Skid \div 2) - Track))
  BY DEF Slide!Press
<1>2. skid \in Int /\ Track \in Nat /\ Skid \in Nat
  <2>1. adj["v"] \in Slide!Adjustments
    BY DEF Slide!SkidInv, Slide!Axes
  <2> QED
    BY <2>1, SkidTyped DEF Slide!SkidInv, Slide!ScrollingAssumption
<1>3. Skid \div 2 \in Int
  BY <1>2
<1>4. grip' \in Int
  BY <1>1, <1>2, <1>3 DEF Slide!Greater
<1> QED
  BY <1>4 DEF Slide!Press, Slide!SkidInv


\* The other steps leave the adjustments and the skid alone.
LEMMA OtherSteps ==
  ASSUME Slide!ScrollingAssumption, Slide!SkidInv, Slide!Release \/ Slide!Unlink \/ Slide!Link \/ UNCHANGED Slide!vars
  PROVE  Slide!SkidInv'
<1>1. UNCHANGED <<adj, port, skid>> /\ grip' \in {grip, -1} /\ offset' \in {offset, Slide!Offsets(adj)}
  BY DEF Slide!Release, Slide!Unlink, Slide!Link, Slide!vars
<1>2. offset' \in [Slide!Axes -> Int]
  BY <1>1, OffsetsTyped DEF Slide!SkidInv
<1> QED
  BY <1>1, <1>2 DEF Slide!SkidInv

\* The invariant holds at first and is kept by every step, in which a dragged skid
\* follows the pointer.
LEMMA SkidStarts ==
  ASSUME Slide!ScrollingAssumption, Slide!Init
  PROVE  Slide!SkidInv
<1>1. PICK size \in [Slide!Axes -> Ports], upper \in [Slide!Axes -> Children] :
        port = size /\ adj = [x \in Slide!Axes |-> Slide!New(size[x], upper[x])]
  BY DEF Slide!Init
<1>2. ASSUME NEW x \in Slide!Axes PROVE Slide!New(size[x], upper[x]) \in Slide!Adjustments
  <2>1. size[x] \in Nat /\ upper[x] \in Nat
    BY DEF Slide!ScrollingAssumption
  <2>2. [value |-> 0, upper |-> upper[x], page |-> 0, step |-> 0, pageIncrement |-> 0] \in Slide!Adjustments
    BY <2>1 DEF Slide!Adjustments
  <2> QED
    BY <2>1, <2>2, RangedTyped, ConstrainedTyped DEF Slide!New
<1>3. adj \in [Slide!Axes -> Slide!Adjustments] /\ port \in [Slide!Axes -> Int]
  <2>1. Ports \subseteq Int
    BY DEF Slide!ScrollingAssumption
  <2>2. port \in [Slide!Axes -> Int]
    BY <1>1, <2>1
  <2> QED
    BY <1>1, <1>2, <2>2
<1> QED
  BY <1>3 DEF Slide!Init, Slide!SkidInv

LEMMA SkidSteps ==
  ASSUME Slide!ScrollingAssumption, Slide!SkidInv, [Slide!Next]_(Slide!vars)
  PROVE  /\ Slide!SkidInv'
         /\ grip >= 0 /\ pointer' # pointer /\ Slide!AbsRange(adj["v"]) > 0 => skid' = Slide!Confine(pointer' - grip, 0, Track)
<1>1. Slide!SkidInv'
  BY AllocateStep, ScrollSteps, PressStep, DragStep, OtherSteps DEF Slide!Next
<1>2. pointer' # pointer => Slide!Press \/ Slide!Drag
  <2>1. /\ Slide!SizeAllocate => pointer' = pointer
        /\ Slide!ScrollTo => pointer' = pointer
        /\ Slide!Wheel => pointer' = pointer
        /\ Slide!SliderMove => pointer' = pointer
        /\ Slide!ScrollToChild => pointer' = pointer
    BY DEF Slide!SizeAllocate, Slide!ScrollTo, Slide!Wheel, Slide!SliderMove, Slide!ScrollToChild
  <2>2. /\ Slide!Release \/ Slide!Unlink \/ Slide!Link => pointer' = pointer
        /\ UNCHANGED Slide!vars => pointer' = pointer
    BY DEF Slide!Release, Slide!Unlink, Slide!Link, Slide!vars
  <2> QED
    BY <2>1, <2>2 DEF Slide!Next
<1>3. Slide!Press => ~(grip >= 0)
  BY DEF Slide!Press
<1> QED
  BY <1>1, <1>2, <1>3, DragStep

-----------------------------------------------------------------------------
(* The parts side by side.                                                   *)

PartsInv == Driver!DriverInv /\ Driver!IncrInv /\ Slide!SkidInv

LEMMA PartsStart == InitParts => PartsInv
<1> SUFFICES ASSUME InitParts PROVE PartsInv
  OBVIOUS
<1>1. Driver!Init /\ Driver!InitIncr /\ Slide!Init
  BY DEF InitParts
<1> QED
  BY <1>1, ToolkitAssumption, DriverStarts, TransfersStart, SkidStarts DEF PartsInv

\* A step of the composed specification is one of each part, or leaves it alone.
LEMMA PartsMove ==
  ASSUME [NextParts]_partVars
  PROVE  /\ [Driver!Next]_(Driver!vars)
         /\ [Driver!NextIncr]_(Driver!incrVars)
         /\ [Slide!Next]_(Slide!vars)
<1>1. Driver!Next \/ UNCHANGED stateVars
  BY DEF NextParts, partVars, LinksMove, TextMoves, WindowMoves, TransferMoves, SlideMoves,
         RowsMove, Only
<1>2. Driver!NextIncr \/ UNCHANGED incrVars
  BY DEF NextParts, partVars, LinksMove, TextMoves, WindowMoves, TransferMoves, SlideMoves,
         RowsMove, Only
<1>3. Slide!Next \/ UNCHANGED scrollVars
  BY DEF NextParts, partVars, LinksMove, TextMoves, WindowMoves, TransferMoves, SlideMoves,
         RowsMove, Only
<1> QED
  BY <1>1, <1>2, <1>3 DEF stateVars, incrVars, scrollVars, Driver!vars, Driver!incrVars, Slide!vars

LEMMA PartsStep ==
  ASSUME PartsInv, [NextParts]_partVars
  PROVE  /\ PartsInv'
         /\ stamp' >= stamp
         /\ grip >= 0 /\ pointer' # pointer /\ Slide!AbsRange(adj["v"]) > 0 =>
              skid' = Slide!Confine(pointer' - grip, 0, Track)
<1>1. [Driver!Next]_(Driver!vars) /\ [Driver!NextIncr]_(Driver!incrVars) /\ [Slide!Next]_(Slide!vars)
  BY PartsMove
<1>2. Driver!DriverAssumption /\ Driver!IncrAssumption /\ Slide!ScrollingAssumption
  BY ToolkitAssumption
<1>3. Driver!DriverInv' /\ stamp' >= stamp
  BY <1>1, <1>2, DriverSteps DEF PartsInv
<1>4. Driver!IncrInv'
  BY <1>1, <1>2, TransferSteps DEF PartsInv
<1>5. /\ Slide!SkidInv'
      /\ grip >= 0 /\ pointer' # pointer /\ Slide!AbsRange(adj["v"]) > 0 =>
           skid' = Slide!Confine(pointer' - grip, 0, Track)
  BY <1>1, <1>2, SkidSteps DEF PartsInv
<1> QED
  BY <1>3, <1>4, <1>5 DEF PartsInv

(* However reports of the X server, the timer and the calls of the client     *)
(* interleave: when all is quiet the client knows its window and has told the *)
(* user interface; and whatever transfers start, end, time out or lose their  *)
(* requestor, the pieces come in order and no other transfer stops.           *)
THEOREM DriverAlwaysKeepsUp == SpecParts => []DriverKeepsUp
<1>1. PartsInv => DriverKeepsUp
  BY DriverConverges, TransfersAreRight DEF PartsInv, DriverKeepsUp
<1> QED
  BY <1>1, PartsStart, PartsStep, PTL DEF SpecParts

(* No event takes the time of a window back, and a dragged skid stays where   *)
(* it was gripped, for all sizes, ranges and lengths of the trough.           *)
THEOREM PointerAndTimeAlwaysMoveOn == SpecParts => PointerAndTimeMoveOn
<1>1. PartsInv /\ [NextParts]_partVars => PartsInv'
  BY PartsStep
<1>2. PartsInv /\ [NextParts]_partVars => [stamp' >= stamp]_(Driver!vars)
  BY PartsStep
<1>3. PartsInv /\ [NextParts]_partVars =>
        [grip >= 0 /\ pointer' # pointer /\ Slide!AbsRange(adj["v"]) > 0 =>
           skid' = Slide!Confine(pointer' - grip, 0, Track)]_(Slide!vars)
  BY PartsStep
<1> QED
  BY <1>1, <1>2, <1>3, PartsStart, PTL DEF SpecParts, PointerAndTimeMoveOn, Driver!TimeAdvances, Slide!SkidFollowsPointer
=============================================================================
