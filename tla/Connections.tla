---------------------------- MODULE Connections ----------------------------
(* How connections find each other (rcore/aida.cc): the ConnectionRegistry,  *)
(* ServerConnection::bind(), ClientConnection::connect() by which threads of *)
(* the program pair up, and the map of methods that is filled by static      *)
(* constructors and read without a lock once a server has dispatched a call. *)
(* A connection is never destroyed: its destructor aborts the program.       *)
EXTENDS Naturals, Sequences, FiniteSets, SequencesExt

CONSTANTS Threads, Protocols,
          Methods,   \* hashes of methods
          Modules,   \* Modules[m]: hashes that the static constructor of a module registers
          MaxConnections,
          OneAtATime \* no thread connects or binds while another one does

None == 0

\* No two modules register the same hash, and some module has every method.
ASSUME RegistryAssumption ==
  /\ \A m, n \in DOMAIN Modules : m # n => Modules[m] \intersect Modules[n] = {}
  /\ Methods \subseteq UNION {Modules[m] : m \in DOMAIN Modules}
  /\ OneAtATime \in BOOLEAN

VARIABLES conns,     \* what was created: [kind, protocol, peer], ids count from 1
          registry,  \* connections_
          pc,        \* of each thread: what bind() or connect() is about to do
          answers,   \* history: results of connect()
          dispatchers, frozen, unloaded, \* the map, global_dispatcher_map_frozen, modules to come
          aborted    \* an assertion failed
vars == <<conns, registry, pc, answers, dispatchers, frozen, unloaded, aborted>>
pairing == <<conns, registry, pc, answers>>
methods == <<dispatchers, frozen, unloaded>>

Idle == [at |-> "out", protocol |-> None, server |-> None, self |-> None]
Init ==
  /\ conns = <<>> /\ registry = <<>>
  /\ pc = [t \in Threads |-> Idle]
  /\ answers = {}
  /\ dispatchers = {} /\ frozen = FALSE /\ unloaded = DOMAIN Modules
  /\ aborted = FALSE

(* register_connection(): the first free slot, or a new one.                 *)
Registered(r, c) ==
  IF \E i \in DOMAIN r : r[i] = None
  THEN [r EXCEPT ![CHOOSE i \in DOMAIN r : r[i] = None /\ \A k \in 1..(i - 1) : r[k] # None] = c]
  ELSE Append(r, c)

(* server_connection_from_protocol(): client connections of the protocol are *)
(* registered too, and skipped.                                              *)
Matches(i, protocol) ==
  /\ registry[i] # None /\ conns[registry[i]].protocol = protocol
  /\ conns[registry[i]].kind = "server"
Lookup(protocol) ==
  LET found == {i \in DOMAIN registry : Matches(i, protocol)}
  IN IF found = {} THEN None ELSE registry[CHOOSE i \in found : \A k \in found : i <= k]

HasPeer(c) == conns[c].peer # None
\* Mutant: connect() does not ask whether the server is taken.
BusyNever(s) == FALSE
Busy(s) == HasPeer(s)
Created(kind, protocol, peer) == Append(conns, [kind |-> kind, protocol |-> protocol, peer |-> peer])
Proceed(t, state) == pc' = [pc EXCEPT ![t] = state]
MayStart(t) ==
  /\ ~aborted /\ pc[t].at = "out"
  /\ Len(conns) + Cardinality({u \in Threads : pc[u].at # "out"}) < MaxConnections
  /\ OneAtATime => \A u \in Threads : pc[u].at = "out"

-----------------------------------------------------------------------------
(* make_server_connection(): no other server may have the protocol; programs *)
(* bind a protocol once.                                                     *)
Bind(t, protocol) ==
  /\ MayStart(t)
  /\ \A c \in DOMAIN conns : conns[c].kind = "server" => conns[c].protocol # protocol
  /\ \A u \in Threads : pc[u].at = "bind" => pc[u].protocol # protocol
  /\ IF Lookup(protocol) # None THEN aborted' = TRUE /\ UNCHANGED pc
     ELSE Proceed(t, [Idle EXCEPT !.at = "bind", !.protocol = protocol]) /\ UNCHANGED aborted
  /\ UNCHANGED <<conns, registry, answers, methods>>

\* The constructor registers the connection.
Bound(t) ==
  /\ ~aborted /\ pc[t].at = "bind"
  /\ conns' = Created("server", pc[t].protocol, None)
  /\ registry' = Registered(registry, Len(conns) + 1)
  /\ Proceed(t, Idle)
  /\ UNCHANGED <<answers, methods, aborted>>

(* connect(): errors are EHOSTUNREACH and EBUSY.                             *)
Connect(t, protocol) ==
  LET s == Lookup(protocol)
      failed(error) == answers' = answers \union {[protocol |-> protocol, result |-> 0, error |-> error]} /\ UNCHANGED pc
  IN /\ MayStart(t)
     /\ IF s = None THEN failed("EHOSTUNREACH")
        ELSE IF Busy(s) THEN failed("EBUSY")
        ELSE /\ Proceed(t, [at |-> "construct", protocol |-> protocol, server |-> s, self |-> None])
             /\ UNCHANGED answers
     /\ UNCHANGED <<conns, registry, methods, aborted>>

\* ClientConnectionImpl() asserts again that the server is free.
Construct(t) ==
  LET s == pc[t].server
  IN /\ ~aborted /\ pc[t].at = "construct"
     /\ IF HasPeer(s) THEN aborted' = TRUE /\ UNCHANGED <<conns, registry, pc>>
        ELSE /\ conns' = Created("client", pc[t].protocol, s)
             /\ registry' = Registered(registry, Len(conns) + 1)
             /\ Proceed(t, [pc[t] EXCEPT !.at = "attach", !.self = Len(conns) + 1])
             /\ UNCHANGED aborted
     /\ UNCHANGED <<answers, methods>>

\* scon->peer_connection (*connection)
Attach(t) ==
  LET s == pc[t].server
  IN /\ ~aborted /\ pc[t].at = "attach"
     /\ aborted' = HasPeer(s)
     /\ conns' = IF HasPeer(s) THEN conns ELSE [conns EXCEPT ![s].peer = pc[t].self]
     /\ answers' = answers \union {[protocol |-> pc[t].protocol, result |-> pc[t].self, error |-> "none"]}
     /\ Proceed(t, Idle)
     /\ UNCHANGED <<registry, methods>>
-----------------------------------------------------------------------------
(* register_method(): collisions abort, late registrations are refused.      *)
Load(m) ==
  /\ ~aborted /\ m \in unloaded
  /\ unloaded' = unloaded \ {m}
  /\ IF frozen THEN UNCHANGED <<dispatchers, aborted>>
     ELSE /\ dispatchers' = dispatchers \union Modules[m]
          /\ aborted' = (Modules[m] \intersect dispatchers # {})
  /\ UNCHANGED <<pairing, frozen>>

(* find_method(), for a call by a connected client.  Threads start, and      *)
(* connect, when the modules of the program have been loaded.                *)
FindMethod(c, method) ==
  /\ ~aborted /\ c \in DOMAIN conns /\ conns[c].kind = "client" /\ HasPeer(conns[c].peer)
  /\ unloaded = {}
  /\ frozen' = TRUE
  /\ aborted' = (method \notin dispatchers)
  /\ UNCHANGED <<pairing, dispatchers, unloaded>>

Next ==
  \/ \E t \in Threads : Bound(t) \/ Construct(t) \/ Attach(t)
                        \/ \E p \in Protocols : Bind(t, p) \/ Connect(t, p)
  \/ \E m \in DOMAIN Modules : Load(m)
  \/ \E c \in 1..MaxConnections, method \in Methods : FindMethod(c, method)

Spec == Init /\ [][Next]_vars
-----------------------------------------------------------------------------
(* Pairs are symmetric and within a protocol, a server never gets a second   *)
(* peer, each connection is registered once, and no assertion stops the      *)
(* program: who comes too late to connect is told so, and the methods of all *)
(* modules are found.                                                        *)
PairsMatch ==
  /\ ~aborted
  /\ IsInjective(registry) /\ ToSet(registry) = DOMAIN conns
  /\ \A c \in DOMAIN conns :
       /\ HasPeer(c) => /\ conns[conns[c].peer].protocol = conns[c].protocol
                        /\ conns[conns[c].peer].kind # conns[c].kind
       /\ conns[c].kind = "client" =>
            \/ conns[conns[c].peer].peer = c
            \/ \E t \in Threads : pc[t].at = "attach" /\ pc[t].self = c
  /\ \A a, b \in answers : a.protocol = b.protocol /\ a.error = "none" /\ b.error = "none" => a = b
-----------------------------------------------------------------------------
(* What makes PairsMatch inductive.                                          *)

Connection == [kind : {"server", "client"}, protocol : Protocols, peer : Nat]
States == [at : {"out", "bind", "construct", "attach"}, protocol : Protocols \cup {None},
           server : Nat, self : Nat]
Answer == [protocol : Protocols, result : Nat, error : {"none", "EHOSTUNREACH", "EBUSY"}]

TypeOK ==
  /\ conns \in Seq(Connection) /\ registry \in Seq(Nat)
  /\ pc \in [Threads -> States]
  /\ answers \subseteq Answer
  /\ unloaded \subseteq DOMAIN Modules /\ frozen \in BOOLEAN
  /\ aborted = FALSE

\* Every connection is registered, once, and no slot is ever free.
RegistryExact == IsInjective(registry) /\ ToSet(registry) = DOMAIN conns

OneIsBusy == \A t, u \in Threads : pc[t].at # "out" /\ pc[u].at # "out" => t = u

\* Servers have protocols of their own, also one that bind() is about to make.
ServersDiffer ==
  /\ \A a, b \in DOMAIN conns :
       conns[a].kind = "server" /\ conns[b].kind = "server"
         /\ conns[a].protocol = conns[b].protocol => a = b
  /\ \A t \in Threads : pc[t].at = "bind" =>
       \A c \in DOMAIN conns : conns[c].kind = "server" => conns[c].protocol # pc[t].protocol

\* The protocol that a thread works on, and the server that connect() has found,
\* which is still free.
Pending(t) ==
  LET s == pc[t].server
      c == pc[t].self
  IN /\ pc[t].at # "out" => pc[t].protocol \in Protocols
     /\ pc[t].at \in {"construct", "attach"} =>
          /\ s \in DOMAIN conns /\ conns[s].kind = "server" /\ ~HasPeer(s)
          /\ conns[s].protocol = pc[t].protocol
          /\ pc[t].at = "attach" =>
               /\ c \in DOMAIN conns /\ conns[c].kind = "client" /\ conns[c].peer = s

\* The server of the client knows it.
Attached(c) == conns[c].kind = "client" /\ conns[conns[c].peer].peer = c

Paired ==
  \A c \in DOMAIN conns :
    /\ HasPeer(c) =>
         /\ conns[c].peer \in DOMAIN conns
         /\ conns[conns[c].peer].protocol = conns[c].protocol
         /\ conns[conns[c].peer].kind # conns[c].kind
    /\ conns[c].kind = "client" =>
         /\ HasPeer(c)
         /\ \/ Attached(c)
            \/ \E t \in Threads : pc[t].at = "attach" /\ pc[t].self = c

Answered ==
  \A a \in answers : a.error = "none" =>
    /\ a.result \in DOMAIN conns /\ Attached(a.result)
    /\ conns[a.result].protocol = a.protocol

\* Before the first call the methods of all modules are there.
MethodsLoaded ==
  /\ frozen => unloaded = {}
  /\ dispatchers = UNION {Modules[m] : m \in DOMAIN Modules \ unloaded}

ConnInv == /\ TypeOK /\ RegistryExact /\ OneIsBusy /\ ServersDiffer
           /\ (\A t \in Threads : Pending(t)) /\ Paired /\ Answered /\ MethodsLoaded
=============================================================================
