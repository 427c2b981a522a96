------------------------------ MODULE Handlers ------------------------------
(***************************************************************************)
(* What a signal promises (the documentation of Signal in                  *)
(* rcore/aidasignal.hh): it calls the handlers connected to it in the      *)
(* order of connection; handlers may be connected and disconnected, the    *)
(* signal may be emitted again and may be destroyed while they run.  An    *)
(* emission calls the handlers that were connected when it began and that  *)
(* still are when their turn comes.                                        *)
(***************************************************************************)
EXTENDS SequenceLemmas

CONSTANT Method   \* the default callback of a signal, the first handler

VARIABLES
  handlers,    \* the connected handlers, in order; numbers above Method
  emissions,   \* nested emissions, each the running handler and those to come
  count,       \* handlers connected so far
  alive        \* the signal is not destroyed

vars == <<handlers, emissions, count, alive>>

Init == /\ handlers \in {<<>>, <<Method>>}
        /\ emissions = <<>>
        /\ count = 0
        /\ alive = TRUE

Connect == /\ alive
           /\ count' = count + 1
           /\ handlers' = Append(handlers, count')
           /\ UNCHANGED <<emissions, alive>>

\* Handlers that are gone are not called any more.
Forget(gone) ==
  emissions' = [k \in DOMAIN emissions |->
                  <<Head(emissions[k])>> \o Without(Tail(emissions[k]), gone)]

Disconnect(c) == /\ alive /\ c # Method
                 /\ handlers' = Without(handlers, {c})
                 /\ Forget({c})
                 /\ UNCHANGED <<count, alive>>

Destroy == /\ alive
           /\ alive' = FALSE
           /\ handlers' = <<>>
           /\ Forget(ToSet(handlers))
           /\ UNCHANGED count

Emit == /\ alive /\ handlers # <<>>
        /\ emissions' = Append(emissions, handlers)
        /\ UNCHANGED <<handlers, count, alive>>

\* The running handler returns, and the next one is called.
Proceed ==
  /\ emissions # <<>>
  /\ LET rest == Tail(Last(emissions))
     IN emissions' = Front(emissions) \o IF rest = <<>> THEN <<>> ELSE <<rest>>
  /\ UNCHANGED <<handlers, count, alive>>

\* The collector stops the emission.
Stop == /\ emissions # <<>>
        /\ emissions' = Front(emissions)
        /\ UNCHANGED <<handlers, count, alive>>

Next == \/ Connect \/ Destroy \/ Emit \/ Proceed \/ Stop
        \/ \E c \in ToSet(handlers) : Disconnect(c)

Spec == Init /\ [][Next]_vars
=============================================================================
