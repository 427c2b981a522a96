------------------------------ MODULE Bindings ------------------------------
(***************************************************************************)
(* Data bindings: Binding objects (ui/binding.cc) tie widget properties to *)
(* a property of a client's object, through BindableRelayImpl in the UI    *)
(* thread and the relay handlers of Bindable (cython/Rapicorn.pyx) in the  *)
(* client.  Values are strings, one binding path, one relay.               *)
(***************************************************************************)
EXTENDS Naturals, Sequences, SequencesExt, FiniteSetsExt

CONSTANTS
  Bindings,              \* a sequence of the bindings of a window, in the order of its widgets
  OwnContext,            \* those whose widget has the relay as data_context() of its own
  Values, Initial,       \* of the properties
  MaxEdits, MaxRebinds, MaxRequests,  \* bounds
  CutsOff                \* a binding is reset while the value it asked for is on its way

VARIABLES
  value,                 \* the property of the client's object
  widget,                \* the property of each binding's widget
  bound,                 \* the bindings with a binding_context_
  context, anchored,     \* the window has the relay as data_context(), is anchored
  requests,              \* requests_ of the relay
  toClient, toServer,    \* messages
  edits, rebinds,        \* bounds
  latest,                \* the last value a user or the client chose
  crossed                \* it was chosen before the one before it had settled

chosen == <<edits, latest, crossed>>
vars == <<value, widget, bound, context, anchored, requests, toClient, toServer, rebinds, chosen>>

All == {Bindings[k] : k \in DOMAIN Bindings}

Init ==
  /\ value = Initial /\ widget = [b \in All |-> ""] /\ bound = {}
  /\ context = FALSE /\ anchored = FALSE
  /\ requests = <<>>
  /\ toClient = <<>> /\ toServer = <<>>
  /\ edits = 0 /\ rebinds = 0 /\ latest = Initial /\ crossed = FALSE

-----------------------------------------------------------------------------
(* The relay and the bindings, as functions of the state s of the UI thread. *)

UiState == [widget |-> widget, bound |-> bound, requests |-> requests, out |-> <<>>]

Update(s) == \E t \in {s} :
  /\ Len(t.requests) <= MaxRequests
  /\ widget' = t.widget /\ bound' = t.bound /\ requests' = t.requests
  /\ toClient' = toClient \o t.out

\* A nonce is random; here, the first that no request has.
Nonce(s) == LET taken == {s.requests[k].nonce : k \in DOMAIN s.requests}
            IN Min((1 .. MaxRequests + 1) \ taken)

Request(s, type, v) ==
  LET n == Nonce(s)
  IN [s EXCEPT !.requests = Append(@, [type |-> type, nonce |-> n, value |-> ""]),
               !.out = Append(@, [type |-> type, nonce |-> n, value |-> v])]

Cached(s) == SelectInSeq(s.requests, LAMBDA r : r.type = "CACHE")

\* object_to_bindable(), bindable_set()
Changed(s, b) == IF b \in s.bound THEN Request(s, "SET", s.widget[b]) ELSE s

SetWidget(s, b, v) ==
  IF s.widget[b] = v THEN s ELSE Changed([s EXCEPT !.widget[b] = v], b)

\* bindable_to_object(), bindable_get()
Fetch(s, b) ==
  IF Cached(s) = 0
    THEN Request(s, "GET", "")
    ELSE SetWidget([s EXCEPT !.requests = RemoveAt(@, Cached(s))], b, s.requests[Cached(s)].value)

\* bindable_notify() to the bindings in "heard"
Notify(s, heard) ==
  FoldLeft(LAMBDA t, b : IF b \in t.bound /\ b \in heard THEN Fetch(t, b) ELSE t, s, Bindings)

\* The path is passed as a reference to the cached request, which the first
\* binding erases: the others compare their path with freed memory.
FirstBound(s) == SelectSeq(Bindings, LAMBDA b : b \in s.bound)
HeardByReference(s) == {{b \in s.bound : b = FirstBound(s)[1]} \cup others : others \in SUBSET s.bound}

-----------------------------------------------------------------------------
(* Binding::bind_context(), WidgetImpl::data_context_changed().              *)

\* A context that is bound already is reset(): so are all bindings of a window that
\* closes, whose widgets have their contexts still.
BindContext(s, b, dc) ==
  IF dc /\ b \notin s.bound
    THEN Fetch([s EXCEPT !.bound = @ \cup {b}], b)
    ELSE [s EXCEPT !.bound = @ \ {b}]

Asking == \E k \in DOMAIN requests : requests[k].type = "GET"

DataContextChanged(ctx) ==
  /\ Update(FoldLeft(LAMBDA s, b : BindContext(s, b, ctx \/ b \in OwnContext), UiState, Bindings))
  /\ CutsOff \/ ~Asking \/ bound \subseteq bound'

\* data_context() of the window is set or cleared.
SetDataContext ==
  /\ rebinds < MaxRebinds /\ rebinds' = rebinds + 1
  /\ context' = ~context
  /\ IF anchored THEN DataContextChanged(context') ELSE UNCHANGED <<widget, bound, requests, toClient>>
  /\ UNCHANGED <<value, anchored, toServer, chosen>>

\* enter_anchored() and leave_anchored(), by show() and close() of the window
Anchor ==
  /\ rebinds < MaxRebinds /\ rebinds' = rebinds + 1
  /\ anchored' = ~anchored
  /\ DataContextChanged(context)
  /\ UNCHANGED <<value, context, toServer, chosen>>

-----------------------------------------------------------------------------
(* Edits and messages.                                                       *)

Quiet == toClient = <<>> /\ toServer = <<>>

Edit(v) == edits < MaxEdits /\ edits' = edits + 1 /\ latest' = v /\ crossed' = (crossed \/ ~Quiet)

UserEdits(b, v) ==
  /\ Edit(v) /\ v # widget[b] /\ b \in bound
  /\ Update(SetWidget(UiState, b, v))
  /\ UNCHANGED <<value, context, anchored, toServer, rebinds>>

ClientSets(v) ==
  /\ Edit(v)
  /\ value' = v
  /\ toServer' = Append(toServer, [type |-> "NOTIFY"])
  /\ UNCHANGED <<widget, bound, context, anchored, requests, toClient, rebinds>>

\* relay_set(): setattr() notifies, as for any other assignment.
RelaySet ==
  /\ toClient # <<>> /\ Head(toClient).type = "SET"
  /\ toClient' = Tail(toClient)
  /\ value' = Head(toClient).value
  /\ toServer' = toServer \o <<[type |-> "NOTIFY"],
                               [type |-> "RESULT", nonce |-> Head(toClient).nonce, value |-> ""]>>
  /\ UNCHANGED <<widget, bound, context, anchored, requests, rebinds, chosen>>

RelayGet ==
  /\ toClient # <<>> /\ Head(toClient).type = "GET"
  /\ toClient' = Tail(toClient)
  /\ toServer' = Append(toServer, [type |-> "RESULT", nonce |-> Head(toClient).nonce, value |-> value])
  /\ UNCHANGED <<value, widget, bound, context, anchored, requests, rebinds, chosen>>

ReportNotify ==
  /\ toServer # <<>> /\ Head(toServer).type = "NOTIFY"
  /\ toServer' = Tail(toServer)
  /\ Update(Notify(UiState, bound))
  /\ UNCHANGED <<value, context, anchored, rebinds, chosen>>

\* Mutant of ReportResult: the answer to a GET ends it.
ReportDropped ==
  /\ toServer # <<>> /\ Head(toServer).type = "RESULT"
  /\ toServer' = Tail(toServer)
  /\ requests' = SelectSeq(requests, LAMBDA r : r.nonce # Head(toServer).nonce)
  /\ UNCHANGED <<value, widget, bound, context, anchored, toClient, rebinds, chosen>>

\* report_result() without an error
ReportResult ==
  /\ toServer # <<>> /\ Head(toServer).type = "RESULT"
  /\ toServer' = Tail(toServer)
  /\ LET k == SelectInSeq(requests, LAMBDA r : r.nonce = Head(toServer).nonce)
         s == [UiState EXCEPT !.requests[k] = [type |-> "CACHE", nonce |-> 0, value |-> Head(toServer).value]]
     IN IF requests[k].type = "GET"
          THEN IF bound = {} THEN Update(s) ELSE \E heard \in HeardByReference(s) : Update(Notify(s, heard))
          ELSE Update([UiState EXCEPT !.requests = RemoveAt(@, k)])
  /\ UNCHANGED <<value, context, anchored, rebinds, chosen>>

Messages == RelaySet \/ RelayGet \/ ReportNotify \/ ReportResult

Next ==
  \/ Messages \/ SetDataContext \/ Anchor
  \/ \E v \in Values : ClientSets(v) \/ \E b \in All : UserEdits(b, v)

Spec == Init /\ [][Next]_vars
FairSpec == Spec /\ WF_vars(Messages)

-----------------------------------------------------------------------------
(* When no message is left, a bound widget shows the client's value
   ("assert testwidget.string_prop == word", testbind.py:51): edits on both
   sides, answers and the echoes of the widgets' own changes cross each other,
   and bindings that are bound again find what changed in the meantime.      *)
Converged == Quiet => \A b \in bound : widget[b] = value

(* ... and the relay keeps no request: an answer that nobody fetched would be
   handed to the next bindable_get(), however old it is by then.            *)
RequestsEnd == Quiet => requests = <<>>

(* "settling bindings may require extra round trips" (testbind.py:33), a
   ping-pong that ends, if each edit is made when the one before has settled,
   as testbind.py does.                                                      *)
Settles == <>[](Quiet \/ crossed)

(* The widgets of a window on screen are bound to their data contexts. *)
BoundToContext == anchored => bound = {b \in All : context \/ b \in OwnContext}

(* "assert om.somestring == word", testbind.py:60: what was chosen last stays. *)
LatestStays == Quiet /\ bound = All /\ ~crossed => value = latest
=============================================================================
