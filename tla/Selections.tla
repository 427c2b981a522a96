----------------------------- MODULE Selections -----------------------------
(***************************************************************************)
(* Copy and paste: the TextControllerImpls of a window (ui/text-editor.cc) *)
(* in the UI thread, DisplayWindowX11 (ui/displaywindow-x11.cc) in the     *)
(* display thread, the X server with its selection owner, and another      *)
(* client of it.  One content source; the contents are left out.           *)
(***************************************************************************)
EXTENDS SequenceLemmas, FiniteSets, FiniteSetTheorems

CONSTANTS
  Editors,
  MaxNonce, MaxForeign,  \* bound what we copy or paste, and what others do
  Targets,               \* X11 types that "text/plain" is asked for as, in turn
  FocusMoves,            \* the focus may move from one editor to another
  ClaimsRace,            \* keys are pressed, and others claim, before we made a claim
  NULL

VARIABLES
  focus, clipboard, paste,  \* UI: the focus, clipboard_nonce_ and paste_nonce_ or 0
  nonces, answers,          \* nonces made so far, CONTENT_DATA sent per nonce
  commands, events,         \* OWNER, CONTENT and PROVIDE; CONTENT_... events
  offer, isel, requests,    \* offers_, isel_ and content_requests_ of the display thread
  time,                     \* event_context_.time
  crashed,                  \* a NULL pointer was used
  xevents,                  \* events for us on the X connection
  server,                   \* selection owner, time it changed and the clock
  foreign, converts,        \* the other client: what it did, what we asked of it
  replies                   \* SelectionNotify events sent per request

uiVars     == <<focus, clipboard, paste, nonces>>
x11Vars    == <<offer, isel, requests, time, crashed>>
serverVars == <<xevents, server, foreign, converts>>
vars       == <<uiVars, answers, commands, events, x11Vars, serverVars, replies>>

Nonces == 1 .. MaxNonce
Ids    == 1 .. (MaxForeign + MaxNonce * Targets)

Offers    == [nonce : Nonces, time : Nat]
Inquiries == [nonce : Nonces, time : Nat, failed : 0 .. (Targets - 1), state : {"NOTIFY", "PROPERTY"}]

ASSUME SelectionsAssumption ==
  /\ MaxNonce \in Nat /\ MaxForeign \in Nat /\ Targets \in Nat \ {0}
  /\ NULL \notin Offers /\ NULL \notin Inquiries

Init ==
  /\ focus \in Editors
  /\ clipboard = [w \in Editors |-> 0] /\ paste = [w \in Editors |-> 0]
  /\ nonces = 0 /\ answers = [n \in Nonces |-> 0]
  /\ commands = <<>> /\ events = <<>>
  /\ offer = NULL /\ isel = NULL /\ requests = {} /\ time = 0 /\ crashed = FALSE
  /\ xevents = <<>> /\ server = [owner |-> "none", since |-> 0, clock |-> 0, ids |-> 0]
  /\ foreign = 0 /\ converts = {}
  /\ replies = [id \in Ids |-> 0]

-----------------------------------------------------------------------------
(* The UI thread.                                                            *)

\* A key press also sets the time of the display window.
Calm == ClaimsRace \/ \A k \in DOMAIN commands : commands[k].type # "OWNER"

KeyPress == /\ ~crashed /\ Calm
            /\ server' = [server EXCEPT !.clock = @ + 1] /\ time' = server'.clock

Fresh == nonces < MaxNonce /\ nonces' = nonces + 1

\* What the widget asks of its display window: request_content(),
\* own_content() or disown_content(), provide_content().
RequestContent(n)     == commands' = Append(commands, [type |-> "CONTENT", nonce |-> n])
OwnContent(n, types)  == commands' = Append(commands, [type |-> "OWNER", nonce |-> n, types |-> types])
ProvideContent(id, d) == commands' = Append(commands, [type |-> "PROVIDE", id |-> id, data |-> d])

\* Ctrl+C with a selection, and without one.
Copy ==
  /\ KeyPress /\ Fresh
  /\ clipboard' = [clipboard EXCEPT ![focus] = nonces']
  /\ OwnContent(nonces', TRUE)
  /\ UNCHANGED <<focus, paste, answers, events, offer, isel, requests, crashed, xevents, foreign, converts, replies>>

CopyNothing ==
  /\ clipboard[focus] # 0
  /\ KeyPress
  /\ clipboard' = [clipboard EXCEPT ![focus] = 0]
  /\ OwnContent(clipboard[focus], FALSE)
  /\ UNCHANGED <<focus, paste, nonces, answers, events, offer, isel, requests, crashed, xevents, foreign, converts, replies>>

Paste ==
  /\ KeyPress /\ Fresh
  /\ paste' = [paste EXCEPT ![focus] = nonces']
  /\ RequestContent(nonces')
  /\ UNCHANGED <<focus, clipboard, answers, events, offer, isel, requests, crashed, xevents, foreign, converts, replies>>

MoveFocus(w) ==
  /\ FocusMoves /\ focus' = w
  /\ UNCHANGED <<clipboard, paste, nonces, answers, commands, events, x11Vars, serverVars, replies>>

\* dispatch_data_event() passes data events to the focus only.
DispatchDataEvent ==
  /\ events # <<>> /\ ~crashed
  /\ events' = Tail(events)
  /\ LET e == Head(events)
     IN \/ /\ e.type = "DATA"
           /\ paste' = IF paste[focus] = e.nonce THEN [paste EXCEPT ![focus] = 0] ELSE paste
           /\ UNCHANGED <<clipboard, commands>>
        \/ /\ e.type = "CLEAR"
           /\ clipboard' = IF clipboard[focus] = e.nonce THEN [clipboard EXCEPT ![focus] = 0] ELSE clipboard
           /\ UNCHANGED <<paste, commands>>
        \/ /\ e.type = "REQUEST"
           /\ ProvideContent(e.id, clipboard[focus] = e.nonce)
           /\ UNCHANGED <<clipboard, paste>>
  /\ UNCHANGED <<focus, nonces, answers, x11Vars, serverVars, replies>>

-----------------------------------------------------------------------------
(* The X server.                                                             *)

Claimed(owner, at) == [server EXCEPT !.owner = owner, !.since = at]

\* The answer to our own window arrives as an event, others just get it.
Notify(r, property) ==
  /\ replies' = [replies EXCEPT ![r.id] = @ + 1]
  /\ xevents' = (IF xevents # <<>> /\ Head(xevents).type = "REQUEST" /\ Head(xevents).id = r.id
                   THEN Tail(xevents) ELSE xevents)
                \o IF r.self THEN <<[type |-> "NOTIFY", time |-> r.time, property |-> property]>> ELSE <<>>

\* XConvertSelection()
Convert(queue, at) ==
  \/ /\ server.owner = "us"
     /\ server' = [server EXCEPT !.ids = @ + 1]
     /\ xevents' = Append(queue, [type |-> "REQUEST", id |-> server'.ids, time |-> at, self |-> TRUE])
     /\ UNCHANGED converts
  \/ /\ server.owner = "other"
     /\ converts' = converts \cup {at} /\ xevents' = queue
     /\ UNCHANGED server

-----------------------------------------------------------------------------
(* The display thread: commands.                                             *)

Command(type) == commands # <<>> /\ Head(commands).type = type /\ ~crashed /\ commands' = Tail(commands)
Data(n)  == /\ events' = Append(events, [type |-> "DATA", nonce |-> n])
            /\ answers' = [answers EXCEPT ![n] = @ + 1]
Clear(n) == events' = Append(events, [type |-> "CLEAR", nonce |-> n])

\* OWNER, as far as the window is the owner now.
ClaimSelection(c) ==
  /\ offer' = [nonce |-> c.nonce, time |-> time]
  /\ IF offer # NULL /\ offer.nonce # c.nonce THEN Clear(offer.nonce) ELSE UNCHANGED events

Owner ==
  /\ Command("OWNER")
  /\ LET c      == Head(commands)
         sets   == (c.types \/ offer # NULL) /\ time >= server.since
         owner  == IF ~sets THEN server.owner ELSE IF c.types THEN "us" ELSE "none"
     IN /\ server' = IF sets THEN Claimed(owner, time) ELSE server
        /\ xevents' = IF server.owner = "us" /\ owner = "none"
                        THEN Append(xevents, [type |-> "SELECTION_CLEAR", time |-> time]) ELSE xevents
        /\ IF owner = "us"
             THEN ClaimSelection(c) /\ UNCHANGED crashed
             ELSE /\ crashed' = (c.types /\ offer = NULL)
                  /\ IF c.types /\ offer # NULL THEN Clear(offer.nonce) ELSE UNCHANGED events
                  /\ offer' = NULL
  /\ UNCHANGED <<uiVars, answers, isel, requests, time, foreign, converts, replies>>

\* request_selection() for the target after those that failed; the first
\* conjunct of each case is what it found.
RequestSelection(queue, n, failed) ==
  \/ /\ isel = NULL \/ failed > 0
     /\ server.owner # "none" /\ failed < Targets
     /\ isel' = [nonce |-> n, time |-> time, failed |-> failed, state |-> "NOTIFY"]
     /\ Convert(queue, time)
     /\ UNCHANGED <<events, answers>>
  \/ /\ (isel # NULL /\ failed = 0) \/ server.owner = "none" \/ failed = Targets
     /\ Data(n)
     /\ isel' = IF failed > 0 THEN NULL ELSE isel
     /\ xevents' = queue
     /\ UNCHANGED <<server, converts>>

Content ==
  /\ Command("CONTENT")
  /\ RequestSelection(xevents, Head(commands).nonce, 0)
  /\ UNCHANGED <<uiVars, offer, requests, time, crashed, foreign, replies>>

\* handle_content_request()
Provide ==
  /\ Command("PROVIDE")
  /\ \E r \in requests :
       /\ r.id = Head(commands).id
       /\ Notify(r, IF Head(commands).data THEN "data" ELSE "none")
       /\ requests' = requests \ {r}
  /\ UNCHANGED <<uiVars, answers, events, offer, isel, time, crashed, server, foreign, converts>>

-----------------------------------------------------------------------------
(* The display thread: X events and the timer.                               *)

XEvent(type) == xevents # <<>> /\ Head(xevents).type = type /\ ~crashed

SelectionRequest ==
  /\ XEvent("REQUEST")
  /\ LET r == Head(xevents)
     IN IF offer # NULL /\ r.time >= offer.time
          THEN /\ requests' = requests \cup {r}
               /\ events' = Append(events, [type |-> "REQUEST", nonce |-> offer.nonce, id |-> r.id])
               /\ xevents' = Tail(xevents)
               /\ UNCHANGED replies
          ELSE Notify(r, "none") /\ UNCHANGED <<requests, events>>
  /\ UNCHANGED <<uiVars, answers, commands, offer, isel, time, crashed, server, foreign, converts>>

SelectionClear ==
  /\ XEvent("SELECTION_CLEAR")
  /\ xevents' = Tail(xevents)
  /\ IF offer # NULL /\ Head(xevents).time >= offer.time
       THEN Clear(offer.nonce) /\ offer' = NULL
       ELSE UNCHANGED <<events, offer>>
  /\ UNCHANGED <<uiVars, answers, commands, isel, requests, time, crashed, server, foreign, converts, replies>>

\* receive_selection()
ReceiveSelection ==
  /\ XEvent("NOTIFY") \/ XEvent("PROPERTY")
  /\ LET e == Head(xevents)
     IN \/ /\ e.type = "NOTIFY" /\ isel # NULL /\ isel.state = "NOTIFY" /\ isel.time = e.time
           /\ \/ /\ e.property = "none"
                 /\ RequestSelection(Tail(xevents), isel.nonce, isel.failed + 1)
              \/ /\ e.property = "incr"
                 /\ isel' = [isel EXCEPT !.state = "PROPERTY"] /\ xevents' = Tail(xevents)
                 /\ UNCHANGED <<answers, events, server, converts>>
              \/ /\ e.property = "data"
                 /\ Data(isel.nonce) /\ isel' = NULL /\ xevents' = Tail(xevents)
                 /\ UNCHANGED <<server, converts>>
        \/ /\ e.type = "PROPERTY" /\ isel # NULL /\ isel.state = "PROPERTY"
           /\ IF e.last THEN Data(isel.nonce) /\ isel' = NULL ELSE UNCHANGED <<answers, events, isel>>
           /\ xevents' = Tail(xevents)
           /\ UNCHANGED <<server, converts>>
        \/ /\ ~(isel # NULL /\ isel.state = e.type /\ (e.type = "NOTIFY" => isel.time = e.time))
           /\ xevents' = Tail(xevents)
           /\ UNCHANGED <<answers, events, isel, server, converts>>
  /\ UNCHANGED <<uiVars, commands, offer, requests, time, crashed, foreign, replies>>

\* Mutant of Timeout: the request is left in place.
TimeoutStays == /\ isel # NULL /\ ~crashed
                /\ Data(isel.nonce)
                /\ UNCHANGED <<isel, uiVars, commands, offer, requests, time, crashed, serverVars, replies>>

\* timer()
Timeout ==
  /\ isel # NULL /\ ~crashed
  /\ Data(isel.nonce) /\ isel' = NULL
  /\ UNCHANGED <<uiVars, commands, offer, requests, time, crashed, serverVars, replies>>

-----------------------------------------------------------------------------
(* The other client.                                                         *)

Foreign == foreign < MaxForeign /\ foreign' = foreign + 1

OtherClaims ==
  /\ Foreign /\ Calm
  /\ server' = [server EXCEPT !.owner = "other", !.clock = @ + 1, !.since = server.clock + 1]
  /\ xevents' = IF server.owner = "us"
                  THEN Append(xevents, [type |-> "SELECTION_CLEAR", time |-> server'.since]) ELSE xevents
  /\ UNCHANGED <<uiVars, answers, commands, events, x11Vars, converts, replies>>

OtherPastes ==
  /\ Foreign /\ server.owner = "us"
  /\ server' = [server EXCEPT !.clock = @ + 1, !.ids = @ + 1]
  /\ xevents' = Append(xevents, [type |-> "REQUEST", id |-> server'.ids, time |-> server'.clock, self |-> FALSE])
  /\ UNCHANGED <<uiVars, answers, commands, events, x11Vars, converts, replies>>

\* It may answer in one go, in parts (INCR), that it cannot, or never.
OtherAnswers(at, property) ==
  /\ converts' = converts \ {at}
  /\ xevents' = xevents \o <<[type |-> "NOTIFY", time |-> at, property |-> property]>>
                        \o IF property = "incr" THEN <<[type |-> "PROPERTY", last |-> FALSE],
                                                       [type |-> "PROPERTY", last |-> TRUE]>> ELSE <<>>
  /\ UNCHANGED <<uiVars, answers, commands, events, x11Vars, server, foreign, replies>>

Next ==
  \/ Copy \/ CopyNothing \/ Paste \/ DispatchDataEvent \/ \E w \in Editors : MoveFocus(w)
  \/ Owner \/ Content \/ Provide
  \/ SelectionRequest \/ SelectionClear \/ ReceiveSelection \/ Timeout
  \/ OtherClaims \/ OtherPastes
  \/ \E at \in converts, property \in {"data", "incr", "none"} : OtherAnswers(at, property)

Spec == Init /\ [][Next]_vars

-----------------------------------------------------------------------------
\* Where a request is: CONTENT commands with its nonce, events and held requests
\* with its id.
Asked(n)     == {k \in DOMAIN commands : commands[k].type = "CONTENT" /\ commands[k].nonce = n}
Arriving(id) == {k \in DOMAIN xevents : xevents[k].type = "REQUEST" /\ xevents[k].id = id}
Held(id)     == {r \in requests : r.id = id}
Waits(n)     == isel # NULL /\ isel.nonce = n

(* "This request will result in the delivery of a CONTENT_DATA event",
   widget.cc:324: one that is not under way was answered, once, through
   retries, timeouts and requests that came while another was under way.   *)
PastesAnsweredOnce ==
  \A n \in 1 .. nonces : (\E w \in Editors : paste[w] = n) \/ answers[n] > 0 =>
    answers[n] + Cardinality(Asked(n)) + (IF Waits(n) THEN 1 ELSE 0) = 1

(* "All CONTENT_REQUEST events need to be honored", widget.cc:389: what another
   client or our own paste asks for is replied to, once.                   *)
RequestsRepliedOnce ==
  \A id \in 1 .. server.ids :
    replies[id] + Cardinality(Held(id)) + Cardinality(Arriving(id)) = 1

Quiet == commands = <<>> /\ events = <<>> /\ xevents = <<>> /\ ~crashed

(* Who believes to own the clipboard, when nothing is on its way that says
   otherwise, does, and the other way round: "A CONTENT_CLEAR event may be
   sent to indicate ownership loss", widget.cc:350.                        *)
OwnersKnow ==
  Quiet => /\ \A w \in Editors : clipboard[w] # 0 => offer # NULL /\ offer.nonce = clipboard[w]
           /\ offer # NULL <=> server.owner = "us"
           /\ offer # NULL => \E w \in Editors : clipboard[w] = offer.nonce

(* "tried to become owner but failed", displaywindow-x11.cc:1389, is an event
   for the widget that tried.                                              *)
FailedClaimsAreTold == ~crashed

(* Requests for the clipboard are answered once, in both directions, and its *)
(* owner is who believes to be.                                              *)
ClipboardIsAnswered == PastesAnsweredOnce /\ RequestsRepliedOnce /\ OwnersKnow
-----------------------------------------------------------------------------
(* What makes these inductive.  First, what a queue says is on its way.      *)

CommandSet == [type : {"OWNER"}, nonce : Nonces, types : BOOLEAN]
                \cup [type : {"CONTENT"}, nonce : Nonces] \cup [type : {"PROVIDE"}, id : Nat, data : BOOLEAN]
EventSet   == [type : {"DATA", "CLEAR"}, nonce : Nonces] \cup [type : {"REQUEST"}, nonce : Nonces, id : Nat]
Request    == [type : {"REQUEST"}, id : Nat, time : Nat, self : BOOLEAN]
XEventSet  == Request \cup [type : {"NOTIFY"}, time : Nat, property : {"data", "incr", "none"}]
                \cup [type : {"PROPERTY"}, last : BOOLEAN] \cup [type : {"SELECTION_CLEAR"}, time : Nat]

\* Of commands: contents asked for, in the order of their nonces; a claim.
Asks(q, n) == \E k \in DOMAIN q : q[k].type = "CONTENT" /\ q[k].nonce = n
Ascends(q) ==
  \A j, k \in DOMAIN q : q[j].type = "CONTENT" /\ q[k].type = "CONTENT" /\ j < k =>
    q[j].nonce < q[k].nonce
Claims(q, n, types) == \E k \in DOMAIN q : q[k].type = "OWNER" /\ q[k].nonce = n /\ q[k].types = types
OneClaim(q) == \A j, k \in DOMAIN q : q[j].type = "OWNER" /\ q[k].type = "OWNER" => j = k

\* Of events for the widget, and of events of the server.
Clears(q, n)   == \E k \in DOMAIN q : q[k].type = "CLEAR" /\ q[k].nonce = n
Carries(q, id) == \E k \in DOMAIN q : q[k].type = "REQUEST" /\ q[k].id = id
CarriesOnce(q) ==
  \A j, k \in DOMAIN q : q[j].type = "REQUEST" /\ q[k].type = "REQUEST" /\ q[j].id = q[k].id => j = k
Loses(q, at)   == \E k \in DOMAIN q : q[k].type = "SELECTION_CLEAR" /\ q[k].time >= at

TypeOK ==
  /\ focus \in Editors
  /\ clipboard \in [Editors -> 0 .. MaxNonce] /\ paste \in [Editors -> 0 .. MaxNonce]
  /\ nonces \in 0 .. MaxNonce /\ answers \in [Nonces -> Nat]
  /\ commands \in Seq(CommandSet) /\ events \in Seq(EventSet) /\ xevents \in Seq(XEventSet)
  /\ offer \in Offers \cup {NULL} /\ isel \in Inquiries \cup {NULL}
  /\ requests \subseteq Request /\ time \in Nat /\ crashed \in BOOLEAN
  /\ server \in [owner : {"none", "us", "other"}, since : Nat, clock : Nat, ids : Nat]
  /\ foreign \in 0 .. MaxForeign /\ converts \subseteq Nat
  /\ replies \in [Ids -> Nat]

\* Contents are asked for in the order of the requests, behind the one that is
\* under way; until it is answered, a paste is one of them.
Open(n) == n <= nonces /\ answers[n] = 0
PastesInOrder ==
  /\ Ascends(commands)
  /\ \A n \in Nonces : Asks(commands, n) => Open(n) /\ (isel # NULL => isel.nonce < n)
  /\ isel # NULL => Open(isel.nonce)
  /\ \A n \in Nonces : answers[n] \in {0, 1} /\ (n > nonces => answers[n] = 0)
  /\ \A w \in Editors : paste[w] # 0 =>
       paste[w] <= nonces /\ (answers[paste[w]] = 1 \/ Waits(paste[w]) \/ Asks(commands, paste[w]))

\* No paste is asked for as more than Targets types.
ConvertsBound ==
  /\ server.ids <= foreign + Targets * nonces
  /\ isel # NULL => server.ids <= foreign + Targets * (isel.nonce - 1) + isel.failed + 1
  /\ \A n \in Nonces : Asks(commands, n) => server.ids <= foreign + Targets * (n - 1)

\* A request is in one place: on its way, held, or replied to.
Unreplied(id) == id \in 1 .. server.ids /\ replies[id] = 0
RequestsInPlace ==
  /\ \A r \in requests : Unreplied(r.id) /\ ~Carries(xevents, r.id)
  /\ \A r, q \in requests : r.id = q.id => r = q
  /\ \A k \in DOMAIN xevents : xevents[k].type = "REQUEST" => Unreplied(xevents[k].id)
  /\ CarriesOnce(xevents)
  /\ \A id \in Ids : /\ replies[id] \in {0, 1}
                     /\ id > server.ids => replies[id] = 0
                     /\ id <= server.ids =>
                          replies[id] = 1 \/ Carries(xevents, id) \/ \E r \in requests : r.id = id

AnswersInv == TypeOK /\ PastesInOrder /\ ConvertsBound /\ RequestsInPlace

\* No claim is older than what takes it back.
Claiming == \E n \in Nonces, types \in BOOLEAN : Claims(commands, n, types)
TimesInOrder ==
  /\ server.since <= server.clock /\ time <= server.clock /\ ~Loses(xevents, server.clock + 1)
  /\ offer # NULL => offer.time <= time
  /\ Claiming => server.since <= time /\ ~Loses(xevents, time)

NoncesInOrder ==
  /\ \A w \in Editors : clipboard[w] <= nonces /\ (w # focus => clipboard[w] = 0)
  /\ offer # NULL => offer.nonce <= nonces /\ ~Clears(events, offer.nonce)
  /\ \A n \in Nonces : Clears(events, n) => n <= nonces

\* One claim is made at a time; the widget is ahead of it.
ClaimIsNew ==
  /\ OneClaim(commands)
  /\ \A n \in Nonces :
       /\ Claims(commands, n, TRUE) => /\ clipboard[focus] = n /\ n <= nonces
                                       /\ ~Clears(events, n) /\ (offer # NULL => offer.nonce # n)
       /\ Claims(commands, n, FALSE) => clipboard[focus] = 0

OwnerIsUs ==
  /\ server.owner = "us" <=> offer # NULL /\ ~Loses(xevents, offer.time)
  /\ ~Claiming => LET n == clipboard[focus]
                  IN /\ n # 0 => (offer # NULL /\ offer.nonce = n) \/ Clears(events, n)
                     /\ offer # NULL => n = offer.nonce
  /\ ~crashed

OwnersInv == TimesInOrder /\ NoncesInOrder /\ ClaimIsNew /\ OwnerIsUs
-----------------------------------------------------------------------------
(* What an element at the end, or off the front, changes of what is said of  *)
(* a queue.                                                                  *)

LEMMA CommandAdded ==
  ASSUME NEW q \in Seq(CommandSet), NEW c \in CommandSet
  PROVE  LET p == Append(q, c)
         IN /\ p \in Seq(CommandSet)
            /\ \A n : Asks(p, n) <=> Asks(q, n) \/ (c.type = "CONTENT" /\ c.nonce = n)
            /\ Ascends(q) /\ (c.type = "CONTENT" => \A n \in Nonces : Asks(q, n) => n < c.nonce)
                 => Ascends(p)
            /\ \A n, t : Claims(p, n, t) <=> Claims(q, n, t) \/ (c.type = "OWNER" /\ c.nonce = n /\ c.types = t)
            /\ OneClaim(q) /\ (c.type = "OWNER" => ~\E n \in Nonces, t \in BOOLEAN : Claims(q, n, t))
                 => OneClaim(p)
<1> DEFINE p == Append(q, c)
           l == Len(q) + 1
<1>1. /\ p \in Seq(CommandSet) /\ DOMAIN q \subseteq Nat /\ l \in Nat
      /\ DOMAIN p = DOMAIN q \cup {l}
      /\ \A k \in DOMAIN q : k < l /\ p[k] = q[k]
      /\ p[l] = c
  BY AppendAt
<1>2. \A k \in DOMAIN q : q[k] \in CommandSet
  OBVIOUS
<1> HIDE DEF p, l
<1>3. \A n : Asks(p, n) <=> Asks(q, n) \/ (c.type = "CONTENT" /\ c.nonce = n)
  BY <1>1 DEF Asks
<1>4. \A n, t : Claims(p, n, t) <=> Claims(q, n, t) \/ (c.type = "OWNER" /\ c.nonce = n /\ c.types = t)
  BY <1>1 DEF Claims
<1>5. ASSUME Ascends(q), c.type = "CONTENT" => \A n \in Nonces : Asks(q, n) => n < c.nonce
      PROVE  Ascends(p)
  <2> SUFFICES ASSUME NEW j \in DOMAIN p, NEW k \in DOMAIN p,
                      p[j].type = "CONTENT", p[k].type = "CONTENT", j < k
               PROVE  p[j].nonce < p[k].nonce
    BY DEF Ascends
  <2>1. j \in DOMAIN q /\ p[j] = q[j]
    BY <1>1
  <2>2. CASE k \in DOMAIN q
    BY <1>1, <1>5, <2>1, <2>2 DEF Ascends
  <2>3. CASE k = l
    <3>1. q[j].nonce \in Nonces
      BY <1>2, <2>1 DEF CommandSet
    <3> QED
      BY <1>1, <1>5, <2>1, <2>3, <3>1 DEF Asks
  <2> QED
    BY <1>1, <2>2, <2>3
<1>6. ASSUME OneClaim(q), c.type = "OWNER" => ~\E n \in Nonces, t \in BOOLEAN : Claims(q, n, t)
      PROVE  OneClaim(p)
  <2>1. ASSUME NEW j \in DOMAIN q, q[j].type = "OWNER" PROVE c.type # "OWNER"
    <3>1. q[j].nonce \in Nonces /\ q[j].types \in BOOLEAN
      BY <1>2, <2>1 DEF CommandSet
    <3> QED
      BY <1>6, <2>1, <3>1 DEF Claims
  <2> QED
    BY <1>1, <1>6, <2>1 DEF OneClaim
<1> QED
  BY <1>1, <1>3, <1>4, <1>5, <1>6 DEF p

LEMMA CommandTaken ==
  ASSUME NEW q \in Seq(CommandSet), q # <<>>
  PROVE  LET p == Tail(q)
             c == Head(q)
         IN /\ p \in Seq(CommandSet) /\ c \in CommandSet
            /\ \A n : Asks(q, n) <=> Asks(p, n) \/ (c.type = "CONTENT" /\ c.nonce = n)
            /\ Ascends(q) => /\ Ascends(p)
                             /\ c.type = "CONTENT" => \A n : Asks(p, n) => c.nonce < n
            /\ \A n, t : Claims(q, n, t) <=> Claims(p, n, t) \/ (c.type = "OWNER" /\ c.nonce = n /\ c.types = t)
            /\ OneClaim(q) => /\ OneClaim(p)
                              /\ c.type = "OWNER" => ~\E n, t : Claims(p, n, t)
<1> DEFINE p == Tail(q)
           c == Head(q)
<1>1. /\ p \in Seq(CommandSet) /\ c \in CommandSet
      /\ DOMAIN q \subseteq Nat /\ DOMAIN p \subseteq Nat
      /\ 1 \in DOMAIN q /\ q[1] = c
      /\ \A k \in DOMAIN p : k + 1 \in DOMAIN q /\ k + 1 > 1 /\ p[k] = q[k + 1]
      /\ \A k \in DOMAIN q : k = 1 \/ (k - 1 \in DOMAIN p /\ k > 1 /\ q[k] = p[k - 1])
  BY TailAt
<1> HIDE DEF p, c
<1>2. ASSUME NEW n PROVE Asks(q, n) <=> Asks(p, n) \/ (c.type = "CONTENT" /\ c.nonce = n)
  <2>1. Asks(q, n) => Asks(p, n) \/ (c.type = "CONTENT" /\ c.nonce = n)
    BY <1>1 DEF Asks
  <2>2. Asks(p, n) \/ (c.type = "CONTENT" /\ c.nonce = n) => Asks(q, n)
    BY <1>1 DEF Asks
  <2> QED
    BY <2>1, <2>2
<1>3. ASSUME NEW n, NEW t
      PROVE  Claims(q, n, t) <=> Claims(p, n, t) \/ (c.type = "OWNER" /\ c.nonce = n /\ c.types = t)
  <2>1. Claims(q, n, t) => Claims(p, n, t) \/ (c.type = "OWNER" /\ c.nonce = n /\ c.types = t)
    BY <1>1 DEF Claims
  <2>2. Claims(p, n, t) \/ (c.type = "OWNER" /\ c.nonce = n /\ c.types = t) => Claims(q, n, t)
    BY <1>1 DEF Claims
  <2> QED
    BY <2>1, <2>2
<1>4. ASSUME Ascends(q) PROVE Ascends(p)
  <2> SUFFICES ASSUME NEW j \in DOMAIN p, NEW k \in DOMAIN p,
                      p[j].type = "CONTENT", p[k].type = "CONTENT", j < k
               PROVE  p[j].nonce < p[k].nonce
    BY DEF Ascends
  <2>1. j + 1 < k + 1
    BY <1>1
  <2> QED
    BY <1>1, <1>4, <2>1 DEF Ascends
<1>5. ASSUME Ascends(q), c.type = "CONTENT", NEW n, Asks(p, n) PROVE c.nonce < n
  BY <1>1, <1>5 DEF Ascends, Asks
<1>6. ASSUME OneClaim(q) PROVE OneClaim(p)
  <2> SUFFICES ASSUME NEW j \in DOMAIN p, NEW k \in DOMAIN p, p[j].type = "OWNER", p[k].type = "OWNER"
               PROVE  j = k
    BY DEF OneClaim
  <2>1. j + 1 = k + 1
    BY <1>1, <1>6 DEF OneClaim
  <2> QED
    BY <1>1, <2>1
<1>7. ASSUME OneClaim(q), c.type = "OWNER", NEW n, NEW t, Claims(p, n, t) PROVE FALSE
  <2>1. PICK k \in DOMAIN p : p[k].type = "OWNER"
    BY <1>7 DEF Claims
  <2>2. k + 1 = 1
    BY <1>1, <1>7, <2>1 DEF OneClaim
  <2> QED
    BY <1>1, <2>2
<1> QED
  BY <1>1, <1>2, <1>3, <1>4, <1>5, <1>6, <1>7 DEF p, c

LEMMA EventAdded ==
  ASSUME NEW q \in Seq(EventSet), NEW e \in EventSet
  PROVE  /\ Append(q, e) \in Seq(EventSet)
         /\ \A n : Clears(Append(q, e), n) <=> Clears(q, n) \/ (e.type = "CLEAR" /\ e.nonce = n)
<1> DEFINE p == Append(q, e)
           l == Len(q) + 1
<1>1. /\ p \in Seq(EventSet)
      /\ DOMAIN p = DOMAIN q \cup {l}
      /\ \A k \in DOMAIN q : k < l /\ p[k] = q[k]
      /\ p[l] = e
  BY AppendAt
<1> HIDE DEF p, l
<1> QED
  BY <1>1 DEF Clears, p

LEMMA EventTaken ==
  ASSUME NEW q \in Seq(EventSet), q # <<>>
  PROVE  /\ Tail(q) \in Seq(EventSet) /\ Head(q) \in EventSet
         /\ \A n : Clears(q, n) <=> Clears(Tail(q), n) \/ (Head(q).type = "CLEAR" /\ Head(q).nonce = n)
<1> DEFINE p == Tail(q)
           e == Head(q)
<1>1. /\ p \in Seq(EventSet) /\ e \in EventSet
      /\ 1 \in DOMAIN q /\ q[1] = e
      /\ \A k \in DOMAIN p : k + 1 \in DOMAIN q /\ p[k] = q[k + 1]
      /\ \A k \in DOMAIN q : k = 1 \/ (k - 1 \in DOMAIN p /\ q[k] = p[k - 1])
  BY TailAt
<1> HIDE DEF p, e
<1>2. ASSUME NEW n PROVE Clears(q, n) <=> Clears(p, n) \/ (e.type = "CLEAR" /\ e.nonce = n)
  <2>1. Clears(q, n) => Clears(p, n) \/ (e.type = "CLEAR" /\ e.nonce = n)
    BY <1>1 DEF Clears
  <2>2. Clears(p, n) \/ (e.type = "CLEAR" /\ e.nonce = n) => Clears(q, n)
    BY <1>1 DEF Clears
  <2> QED
    BY <2>1, <2>2
<1> QED
  BY <1>1, <1>2 DEF p, e

\* The queue p is q with e at its end; q is p with e at its front.
XEventMore(p, q, e) ==
  /\ p \in Seq(XEventSet)
  /\ \A id : Carries(p, id) <=> Carries(q, id) \/ (e.type = "REQUEST" /\ e.id = id)
  /\ CarriesOnce(q) /\ ~(e.type = "REQUEST" /\ Carries(q, e.id)) => CarriesOnce(p)
  /\ \A at : Loses(p, at) <=> Loses(q, at) \/ (e.type = "SELECTION_CLEAR" /\ e.time >= at)
XEventLess(p, q, e) ==
  /\ q \in Seq(XEventSet) /\ e \in XEventSet
  /\ \A id : Carries(p, id) <=> Carries(q, id) \/ (e.type = "REQUEST" /\ e.id = id)
  /\ CarriesOnce(p) => CarriesOnce(q) /\ ~(e.type = "REQUEST" /\ Carries(q, e.id))
  /\ \A at : Loses(p, at) <=> Loses(q, at) \/ (e.type = "SELECTION_CLEAR" /\ e.time >= at)

LEMMA XEventAdded ==
  ASSUME NEW q \in Seq(XEventSet), NEW e \in XEventSet
  PROVE  XEventMore(Append(q, e), q, e)
<1> DEFINE p == Append(q, e)
           l == Len(q) + 1
<1>1. /\ p \in Seq(XEventSet)
      /\ DOMAIN p = DOMAIN q \cup {l}
      /\ \A k \in DOMAIN q : k < l /\ p[k] = q[k]
      /\ p[l] = e
  BY AppendAt
<1> HIDE DEF p, l
<1>2. \A id : Carries(p, id) <=> Carries(q, id) \/ (e.type = "REQUEST" /\ e.id = id)
  BY <1>1 DEF Carries
<1>3. CarriesOnce(q) /\ ~(e.type = "REQUEST" /\ Carries(q, e.id)) => CarriesOnce(p)
  BY <1>1 DEF CarriesOnce, Carries
<1>4. \A at : Loses(p, at) <=> Loses(q, at) \/ (e.type = "SELECTION_CLEAR" /\ e.time >= at)
  BY <1>1 DEF Loses
<1> QED
  BY <1>1, <1>2, <1>3, <1>4 DEF XEventMore, p

LEMMA XEventTaken ==
  ASSUME NEW q \in Seq(XEventSet), q # <<>>
  PROVE  XEventLess(q, Tail(q), Head(q))
<1> DEFINE p == Tail(q)
           e == Head(q)
<1>1. /\ p \in Seq(XEventSet) /\ e \in XEventSet
      /\ DOMAIN p \subseteq Nat
      /\ 1 \in DOMAIN q /\ q[1] = e
      /\ \A k \in DOMAIN p : k + 1 \in DOMAIN q /\ k + 1 > 1 /\ p[k] = q[k + 1]
      /\ \A k \in DOMAIN q : k = 1 \/ (k - 1 \in DOMAIN p /\ q[k] = p[k - 1])
  BY TailAt
<1> HIDE DEF p, e
<1>2. ASSUME NEW id PROVE Carries(q, id) <=> Carries(p, id) \/ (e.type = "REQUEST" /\ e.id = id)
  <2>1. Carries(q, id) => Carries(p, id) \/ (e.type = "REQUEST" /\ e.id = id)
    BY <1>1 DEF Carries
  <2>2. Carries(p, id) \/ (e.type = "REQUEST" /\ e.id = id) => Carries(q, id)
    BY <1>1 DEF Carries
  <2> QED
    BY <2>1, <2>2
<1>3. ASSUME NEW at PROVE Loses(q, at) <=> Loses(p, at) \/ (e.type = "SELECTION_CLEAR" /\ e.time >= at)
  <2>1. Loses(q, at) => Loses(p, at) \/ (e.type = "SELECTION_CLEAR" /\ e.time >= at)
    BY <1>1 DEF Loses
  <2>2. Loses(p, at) \/ (e.type = "SELECTION_CLEAR" /\ e.time >= at) => Loses(q, at)
    BY <1>1 DEF Loses
  <2> QED
    BY <2>1, <2>2
<1>4. ASSUME CarriesOnce(q) PROVE CarriesOnce(p)
  <2> SUFFICES ASSUME NEW j \in DOMAIN p, NEW k \in DOMAIN p,
                      p[j].type = "REQUEST", p[k].type = "REQUEST", p[j].id = p[k].id
               PROVE  j = k
    BY DEF CarriesOnce
  <2>1. j + 1 = k + 1
    BY <1>1, <1>4 DEF CarriesOnce
  <2> QED
    BY <1>1, <2>1
<1>5. ASSUME CarriesOnce(q), e.type = "REQUEST", Carries(p, e.id) PROVE FALSE
  <2>1. PICK k \in DOMAIN p : p[k].type = "REQUEST" /\ p[k].id = e.id
    BY <1>5 DEF Carries
  <2>2. k + 1 = 1
    BY <1>1, <1>5, <2>1 DEF CarriesOnce
  <2> QED
    BY <1>1, <2>2
<1> QED
  BY <1>1, <1>2, <1>3, <1>4, <1>5 DEF XEventLess, p, e

\* What queues are joined from here.
LEMMA Joined ==
  ASSUME NEW q \in Seq(XEventSet), NEW e \in XEventSet, NEW f \in XEventSet, NEW g \in XEventSet
  PROVE  /\ q \o <<>> = q /\ q \o <<e>> = Append(q, e)
         /\ q \o <<e>> \o <<>> = Append(q, e)
         /\ q \o <<e>> \o <<f, g>> = Append(Append(Append(q, e), f), g)
<1>1. q \o <<>> = q
  BY ConcatEmptySeq
<1>2. q \o <<e>> = Append(q, e) /\ Append(q, e) \in Seq(XEventSet)
  BY AppendIsConcat, AppendProperties
<1>3. Append(q, e) \o <<>> = Append(q, e)
  BY <1>2, ConcatEmptySeq
<1>4. <<f, g>> = Append(<<f>>, g) /\ <<f>> \in Seq(XEventSet)
  OBVIOUS
<1>5. Append(q, e) \o Append(<<f>>, g) = Append(Append(q, e) \o <<f>>, g)
  BY <1>2, <1>4, ConcatAppend
<1>6. Append(q, e) \o <<f>> = Append(Append(q, e), f)
  BY <1>2, AppendIsConcat
<1> QED
  BY <1>1, <1>2, <1>3, <1>4, <1>5, <1>6

LEMMA Numbers ==
  /\ MaxNonce \in Nat /\ MaxForeign \in Nat /\ Targets \in Nat /\ Targets >= 1
  /\ NULL \notin Offers /\ NULL \notin Inquiries
  /\ Nonces \subseteq Nat /\ (MaxNonce * Targets) \in Nat
  /\ \A n : n \in Nonces <=> n \in Nat /\ 1 <= n /\ n <= MaxNonce
BY SelectionsAssumption DEF Nonces

-----------------------------------------------------------------------------
(* Types.                                                                    *)

LEMMA TypeInit == Init => TypeOK
<1> SUFFICES ASSUME Init PROVE TypeOK
  OBVIOUS
<1>1. /\ commands \in Seq(CommandSet) /\ events \in Seq(EventSet) /\ xevents \in Seq(XEventSet)
      /\ 0 \in 0 .. MaxNonce /\ 0 \in 0 .. MaxForeign
  BY EmptySeq, Numbers DEF Init
<1> QED
  BY <1>1 DEF Init, TypeOK, Nonces

Servers == [owner : {"none", "us", "other"}, since : Nat, clock : Nat, ids : Nat]

\* What happens to records and functions of numbers.
LEMMA Counted ==
  ASSUME NEW S, NEW f \in [S -> Nat], NEW x
  PROVE  [f EXCEPT ![x] = @ + 1] \in [S -> Nat]
<1> DEFINE g == [f EXCEPT ![x] = @ + 1]
<1>1. \A y \in S : g[y] \in Nat
  <2> SUFFICES ASSUME NEW y \in S PROVE g[y] \in Nat
    OBVIOUS
  <2>1. f[y] \in Nat /\ f[y] + 1 \in Nat
    OBVIOUS
  <2>2. g[y] = f[y] \/ g[y] = f[y] + 1
    OBVIOUS
  <2> QED
    BY <2>1, <2>2
<1> QED
  BY <1>1

LEMMA Put ==
  ASSUME NEW S, NEW T, NEW f \in [S -> T], NEW x, NEW v \in T
  PROVE  [f EXCEPT ![x] = v] \in [S -> T]
OBVIOUS

LEMMA Upto ==
  ASSUME NEW n \in Nat, NEW m \in 0 .. n, m < n
  PROVE  m + 1 \in 1 .. n /\ m + 1 \in 0 .. n
OBVIOUS

LEMMA ServerTyped ==
  ASSUME TypeOK
  PROVE  /\ server \in Servers
         /\ server.since \in Nat /\ server.clock \in Nat /\ server.ids \in Nat
         /\ server.clock + 1 \in Nat /\ server.ids + 1 \in Nat
         /\ [server EXCEPT !.ids = @ + 1] \in Servers /\ [server EXCEPT !.clock = @ + 1] \in Servers
         /\ [server EXCEPT !.clock = @ + 1, !.ids = @ + 1] \in Servers
         /\ [server EXCEPT !.owner = "other", !.clock = @ + 1, !.since = server.clock + 1] \in Servers
<1>1. server \in Servers
  BY DEF TypeOK, Servers
<1>2. server.since \in Nat /\ server.clock \in Nat /\ server.ids \in Nat
  BY <1>1 DEF Servers
<1>3. server.clock + 1 \in Nat /\ server.ids + 1 \in Nat
  BY <1>2
<1> QED
  BY <1>1, <1>2, <1>3 DEF Servers

\* A command that the widget sends, and one that the display thread takes.
LEMMA CommandSent ==
  ASSUME TypeOK, NEW n \in Nonces, NEW types \in BOOLEAN, NEW id \in Nat
  PROVE  /\ [type |-> "CONTENT", nonce |-> n] \in CommandSet
         /\ [type |-> "OWNER", nonce |-> n, types |-> types] \in CommandSet
         /\ [type |-> "PROVIDE", id |-> id, data |-> types] \in CommandSet
         /\ [type |-> "DATA", nonce |-> n] \in EventSet
         /\ [type |-> "CLEAR", nonce |-> n] \in EventSet
         /\ [type |-> "REQUEST", nonce |-> n, id |-> id] \in EventSet
BY DEF CommandSet, EventSet

\* What Notify and RequestSelection make of the types.
LEMMA TypeNotify ==
  ASSUME TypeOK, NEW r \in Request, NEW property \in {"data", "none"}, Notify(r, property)
  PROVE  xevents' \in Seq(XEventSet) /\ replies' \in [Ids -> Nat]
<1> DEFINE q == IF xevents # <<>> /\ Head(xevents).type = "REQUEST" /\ Head(xevents).id = r.id
                  THEN Tail(xevents) ELSE xevents
           e == [type |-> "NOTIFY", time |-> r.time, property |-> property]
<1>1. q \in Seq(XEventSet) /\ e \in XEventSet
  BY TailAt DEF TypeOK, Request, XEventSet
<1>2. xevents' = q \o IF r.self THEN <<e>> ELSE <<>>
  BY DEF Notify
<1>3. xevents' \in {q, Append(q, e)}
  <2> HIDE DEF q, e
  <2> QED
    BY <1>1, <1>2, Joined
<1>4. Append(q, e) \in Seq(XEventSet)
  BY <1>1, AppendProperties
<1>5. replies' \in [Ids -> Nat]
  BY Counted DEF Notify, TypeOK
<1> QED
  BY <1>1, <1>3, <1>4, <1>5

LEMMA TypeConvert ==
  ASSUME TypeOK, NEW queue \in Seq(XEventSet), NEW at \in Nat, Convert(queue, at)
  PROVE  /\ xevents' \in Seq(XEventSet) /\ converts' \subseteq Nat
         /\ server' \in Servers
<1>1. CASE server.owner = "us" /\ server' = [server EXCEPT !.ids = @ + 1]
           /\ xevents' = Append(queue, [type |-> "REQUEST", id |-> server'.ids, time |-> at, self |-> TRUE])
           /\ UNCHANGED converts
  <2>1. /\ server' \in Servers
        /\ server'.ids \in Nat
    BY <1>1, ServerTyped DEF Servers
  <2>2. [type |-> "REQUEST", id |-> server'.ids, time |-> at, self |-> TRUE] \in XEventSet
    BY <2>1 DEF XEventSet, Request
  <2> QED
    BY <1>1, <2>1, <2>2, AppendProperties DEF TypeOK
<1>2. CASE converts' = converts \cup {at} /\ xevents' = queue /\ UNCHANGED server
  BY <1>2, ServerTyped DEF TypeOK
<1> QED
  BY <1>1, <1>2 DEF Convert

LEMMA TypeData ==
  ASSUME TypeOK, NEW n \in Nonces
  PROVE  /\ Data(n) => events' \in Seq(EventSet) /\ answers' \in [Nonces -> Nat]
         /\ Clear(n) => events' \in Seq(EventSet)
<1>1. [type |-> "DATA", nonce |-> n] \in EventSet /\ [type |-> "CLEAR", nonce |-> n] \in EventSet
  BY DEF EventSet
<1>2. Append(events, [type |-> "DATA", nonce |-> n]) \in Seq(EventSet)
      /\ Append(events, [type |-> "CLEAR", nonce |-> n]) \in Seq(EventSet)
  BY <1>1, AppendProperties DEF TypeOK
<1>3. [answers EXCEPT ![n] = @ + 1] \in [Nonces -> Nat]
  BY Counted DEF TypeOK
<1> QED
  BY <1>2, <1>3 DEF Data, Clear

LEMMA TypeRequestSelection ==
  ASSUME TypeOK, NEW queue \in Seq(XEventSet), NEW n \in Nonces, NEW failed \in 0 .. Targets,
         RequestSelection(queue, n, failed)
  PROVE  /\ xevents' \in Seq(XEventSet) /\ converts' \subseteq Nat
         /\ server' \in Servers
         /\ events' \in Seq(EventSet) /\ answers' \in [Nonces -> Nat]
         /\ isel' \in Inquiries \cup {NULL}
<1>1. CASE failed < Targets /\ Convert(queue, time) /\ UNCHANGED <<events, answers>>
           /\ isel' = [nonce |-> n, time |-> time, failed |-> failed, state |-> "NOTIFY"]
  <2>1. isel' \in Inquiries
    BY <1>1, Numbers DEF Inquiries, TypeOK
  <2> QED
    BY <1>1, <2>1, TypeConvert DEF TypeOK
<1>2. CASE Data(n) /\ isel' = (IF failed > 0 THEN NULL ELSE isel) /\ xevents' = queue
           /\ UNCHANGED <<server, converts>>
  BY <1>2, TypeData, ServerTyped DEF TypeOK
<1> QED
  BY <1>1, <1>2 DEF RequestSelection

LEMMA TypeStep == TypeOK /\ [Next]_vars => TypeOK'
<1> SUFFICES ASSUME TypeOK, [Next]_vars PROVE TypeOK'
  OBVIOUS
<1> USE DEF uiVars, x11Vars, serverVars
<1>1. CASE UNCHANGED vars
  BY <1>1 DEF TypeOK, vars
<1>2. ASSUME Copy \/ CopyNothing \/ Paste PROVE TypeOK'
  <2>1. /\ server' = [server EXCEPT !.clock = @ + 1] /\ time' = server'.clock
        /\ server.clock + 1 \in Nat
        /\ UNCHANGED <<focus, answers, events, offer, isel, requests, crashed, xevents, foreign, converts, replies>>
    BY <1>2, ServerTyped DEF Copy, CopyNothing, Paste, KeyPress
  <2>5. server' \in Servers /\ time' \in Nat
    BY <2>1, ServerTyped DEF Servers
  <2>2. CASE Copy
    <3>1. nonces' = nonces + 1 /\ nonces' \in Nonces /\ nonces' \in 0 .. MaxNonce
      BY <2>2, Numbers DEF Copy, Fresh, TypeOK
    <3>2. commands' \in Seq(CommandSet)
      BY <2>2, <3>1, CommandSent, AppendProperties DEF Copy, OwnContent, TypeOK
    <3> QED
      BY <2>1, <2>5, <2>2, <3>1, <3>2 DEF Copy, TypeOK, Servers
  <2>3. CASE CopyNothing
    <3>1. clipboard[focus] \in Nonces
      BY <2>3, Numbers DEF CopyNothing, TypeOK
    <3>2. commands' \in Seq(CommandSet)
      BY <2>3, <3>1, CommandSent, AppendProperties DEF CopyNothing, OwnContent, TypeOK
    <3>3. clipboard' \in [Editors -> 0 .. MaxNonce]
      BY <2>3, Numbers DEF CopyNothing, TypeOK
    <3> QED
      BY <2>1, <2>5, <2>3, <3>2, <3>3 DEF CopyNothing, TypeOK, Servers
  <2>4. CASE Paste
    <3>1. nonces' = nonces + 1 /\ nonces' \in Nonces /\ nonces' \in 0 .. MaxNonce
      BY <2>4, Numbers, Upto DEF Paste, Fresh, TypeOK, Nonces
    <3>2. commands' \in Seq(CommandSet)
      BY <2>4, <3>1, CommandSent, AppendProperties DEF Paste, RequestContent, TypeOK
    <3>3. paste' \in [Editors -> 0 .. MaxNonce]
      BY <2>4, <3>1, Put DEF Paste, TypeOK
    <3> QED
      BY <2>1, <2>5, <2>4, <3>1, <3>2, <3>3 DEF Paste, TypeOK, Servers
  <2> QED
    BY <1>2, <2>2, <2>3, <2>4
<1>3. ASSUME NEW w \in Editors, MoveFocus(w) PROVE TypeOK'
  BY <1>3 DEF MoveFocus, TypeOK
<1>4. ASSUME DispatchDataEvent PROVE TypeOK'
  <2> DEFINE e == Head(events)
  <2>1. events # <<>> /\ e \in EventSet /\ events' = Tail(events) /\ events' \in Seq(EventSet)
    BY <1>4, EventTaken DEF DispatchDataEvent, TypeOK
  <2>2. commands' \in Seq(CommandSet)
    <3>1. CASE UNCHANGED commands
      BY <3>1 DEF TypeOK
    <3>2. CASE e.type = "REQUEST" /\ ProvideContent(e.id, clipboard[focus] = e.nonce)
      <4>1. e.id \in Nat
        BY <2>1, <3>2 DEF EventSet
      <4>2. (clipboard[focus] = e.nonce) \in BOOLEAN
        OBVIOUS
      <4>3. [type |-> "PROVIDE", id |-> e.id, data |-> (clipboard[focus] = e.nonce)] \in CommandSet
        BY <4>1, <4>2 DEF CommandSet
      <4> QED
        BY <3>2, <4>3, AppendProperties DEF ProvideContent, TypeOK
    <3> QED
      BY <1>4, <3>1, <3>2 DEF DispatchDataEvent
  <2>3. /\ clipboard' \in {clipboard, [clipboard EXCEPT ![focus] = 0]}
        /\ paste' \in {paste, [paste EXCEPT ![focus] = 0]}
        /\ UNCHANGED <<focus, nonces, answers, offer, isel, requests, time, crashed, server, foreign, converts,
                       xevents, replies>>
    BY <1>4 DEF DispatchDataEvent
  <2>4. clipboard' \in [Editors -> 0 .. MaxNonce] /\ paste' \in [Editors -> 0 .. MaxNonce]
    <3>1. 0 \in 0 .. MaxNonce
      BY Numbers
    <3>2. /\ [clipboard EXCEPT ![focus] = 0] \in [Editors -> 0 .. MaxNonce]
          /\ [paste EXCEPT ![focus] = 0] \in [Editors -> 0 .. MaxNonce]
      BY <3>1, Put DEF TypeOK
    <3> QED
      BY <2>3, <3>2 DEF TypeOK
  <2> QED
    BY <2>1, <2>2, <2>3, <2>4 DEF TypeOK
<1>5. ASSUME Owner PROVE TypeOK'
  <2> DEFINE c == Head(commands)
  <2>1. commands' \in Seq(CommandSet) /\ c \in CommandSet /\ c.type = "OWNER"
    BY <1>5, CommandTaken DEF Owner, Command, TypeOK
  <2>2. c.nonce \in Nonces /\ c.types \in BOOLEAN
    BY <2>1 DEF CommandSet
  <2>3. server' \in Servers
    BY <1>5, <2>2, ServerTyped DEF Owner, Claimed, Servers, TypeOK
  <2>4. xevents' \in Seq(XEventSet)
    <3>1. [type |-> "SELECTION_CLEAR", time |-> time] \in XEventSet
      BY DEF XEventSet, TypeOK
    <3> QED
      BY <1>5, <3>1, AppendProperties DEF Owner, TypeOK
  <2>5. offer' \in Offers \cup {NULL} /\ crashed' \in BOOLEAN
    <3>1. [nonce |-> c.nonce, time |-> time] \in Offers
      BY <2>2 DEF Offers, TypeOK
    <3>2. (c.types /\ offer = NULL) \in BOOLEAN
      OBVIOUS
    <3>3. \/ offer' = [nonce |-> c.nonce, time |-> time] /\ crashed' = crashed
          \/ offer' = NULL /\ crashed' = (c.types /\ offer = NULL)
      BY <1>5 DEF Owner, ClaimSelection
    <3>4. crashed \in BOOLEAN
      BY DEF TypeOK
    <3> QED
      BY <3>1, <3>2, <3>3, <3>4
  <2>6. offer # NULL => offer.nonce \in Nonces
    BY DEF TypeOK, Offers
  <2>7. events' \in Seq(EventSet)
    <3>1. UNCHANGED events \/ (offer # NULL /\ Clear(offer.nonce))
      BY <1>5 DEF Owner, ClaimSelection
    <3> QED
      BY <2>6, <3>1, TypeData DEF TypeOK
  <2> QED
    BY <1>5, <2>1, <2>3, <2>4, <2>5, <2>7 DEF Owner, TypeOK, Servers
<1>6. ASSUME Content PROVE TypeOK'
  <2>1. commands' \in Seq(CommandSet) /\ Head(commands) \in CommandSet /\ Head(commands).type = "CONTENT"
    BY <1>6, CommandTaken DEF Content, Command, TypeOK
  <2>2. Head(commands).nonce \in Nonces /\ 0 \in 0 .. Targets
    BY <2>1, Numbers DEF CommandSet
  <2> QED
    BY <1>6, <2>1, <2>2, TypeRequestSelection DEF Content, TypeOK, Servers
<1>7. ASSUME Provide PROVE TypeOK'
  <2>1. commands' \in Seq(CommandSet)
    BY <1>7, CommandTaken DEF Provide, Command, TypeOK
  <2>2. PICK r \in requests : /\ Notify(r, IF Head(commands).data THEN "data" ELSE "none")
                              /\ requests' = requests \ {r}
    BY <1>7 DEF Provide
  <2>3. xevents' \in Seq(XEventSet) /\ replies' \in [Ids -> Nat]
    BY <2>2, TypeNotify DEF TypeOK
  <2> QED
    BY <1>7, <2>1, <2>2, <2>3 DEF Provide, TypeOK
<1>8. ASSUME SelectionRequest PROVE TypeOK'
  <2> DEFINE r == Head(xevents)
  <2>1. r \in XEventSet /\ r.type = "REQUEST" /\ Tail(xevents) \in Seq(XEventSet)
    BY <1>8, XEventTaken DEF XEventLess, SelectionRequest, XEvent, TypeOK
  <2>2. r \in Request
    BY <2>1 DEF XEventSet
  <2>3. CASE offer # NULL /\ r.time >= offer.time
    <3>1. offer.nonce \in Nonces /\ r.id \in Nat
      BY <2>2, <2>3 DEF TypeOK, Offers, Request
    <3>2. [type |-> "REQUEST", nonce |-> offer.nonce, id |-> r.id] \in EventSet
      BY <3>1 DEF EventSet
    <3>3. events' \in Seq(EventSet)
      <4>1. events' = Append(events, [type |-> "REQUEST", nonce |-> offer.nonce, id |-> r.id])
        BY <1>8, <2>3 DEF SelectionRequest
      <4> QED
        BY <3>2, <4>1, AppendProperties DEF TypeOK
    <3> QED
      BY <1>8, <2>1, <2>2, <2>3, <3>3 DEF SelectionRequest, TypeOK
  <2>4. CASE ~(offer # NULL /\ r.time >= offer.time)
    <3>1. Notify(r, "none") /\ UNCHANGED <<requests, events>>
      BY <1>8, <2>4 DEF SelectionRequest
    <3>2. xevents' \in Seq(XEventSet) /\ replies' \in [Ids -> Nat]
      BY <2>2, <3>1, TypeNotify
    <3> QED
      BY <1>8, <3>1, <3>2 DEF SelectionRequest, TypeOK
  <2> QED
    BY <2>3, <2>4
<1>9. ASSUME SelectionClear PROVE TypeOK'
  <2>1. xevents' \in Seq(XEventSet)
    BY <1>9, XEventTaken DEF XEventLess, SelectionClear, XEvent, TypeOK
  <2>2. offer # NULL => offer.nonce \in Nonces
    BY DEF TypeOK, Offers
  <2>3. events' \in Seq(EventSet) /\ offer' \in Offers \cup {NULL}
    BY <1>9, <2>2, TypeData DEF SelectionClear, TypeOK
  <2> QED
    BY <1>9, <2>1, <2>3 DEF SelectionClear, TypeOK
<1>10. ASSUME ReceiveSelection PROVE TypeOK'
  <2>1. Tail(xevents) \in Seq(XEventSet)
    BY <1>10, XEventTaken DEF XEventLess, ReceiveSelection, XEvent, TypeOK
  <2>2. isel # NULL => isel \in Inquiries /\ isel.nonce \in Nonces /\ isel.failed + 1 \in 0 .. Targets
    BY Numbers DEF TypeOK, Inquiries
  <2>3. CASE isel # NULL /\ RequestSelection(Tail(xevents), isel.nonce, isel.failed + 1)
    BY <1>10, <2>1, <2>2, <2>3, TypeRequestSelection DEF ReceiveSelection, TypeOK, Servers
  <2>4. CASE isel # NULL /\ isel' = [isel EXCEPT !.state = "PROPERTY"] /\ xevents' = Tail(xevents)
             /\ UNCHANGED <<answers, events, server, converts>>
    <3>1. isel' \in Inquiries
      BY <2>2, <2>4 DEF Inquiries
    <3> QED
      BY <1>10, <2>1, <2>4, <3>1 DEF ReceiveSelection, TypeOK
  <2>5. CASE isel # NULL /\ Data(isel.nonce) /\ isel' = NULL /\ xevents' = Tail(xevents)
             /\ UNCHANGED <<server, converts>>
    BY <1>10, <2>1, <2>2, <2>5, TypeData DEF ReceiveSelection, TypeOK
  <2>6. CASE xevents' = Tail(xevents) /\ UNCHANGED <<answers, events, isel, server, converts>>
    BY <1>10, <2>1, <2>6 DEF ReceiveSelection, TypeOK
  <2> QED
    BY <1>10, <2>3, <2>4, <2>5, <2>6 DEF ReceiveSelection
<1>11. ASSUME Timeout PROVE TypeOK'
  <2>1. isel.nonce \in Nonces
    BY <1>11 DEF Timeout, TypeOK, Inquiries
  <2> QED
    BY <1>11, <2>1, TypeData DEF Timeout, TypeOK
<1>12. ASSUME OtherClaims PROVE TypeOK'
  <2>1. /\ foreign' \in 0 .. MaxForeign
        /\ server' \in Servers
        /\ server'.since \in Nat
    <3>1. foreign' \in 0 .. MaxForeign
      BY <1>12, Numbers, Upto DEF OtherClaims, Foreign, TypeOK
    <3>2. server' \in Servers
      BY <1>12, ServerTyped DEF OtherClaims
    <3> QED
      BY <3>1, <3>2 DEF Servers
  <2>2. [type |-> "SELECTION_CLEAR", time |-> server'.since] \in XEventSet
    BY <2>1 DEF XEventSet
  <2>3. xevents' \in Seq(XEventSet)
    BY <1>12, <2>2, AppendProperties DEF OtherClaims, TypeOK
  <2> QED
    BY <1>12, <2>1, <2>3 DEF OtherClaims, TypeOK, Servers
<1>13. ASSUME OtherPastes PROVE TypeOK'
  <2>1. /\ foreign' \in 0 .. MaxForeign
        /\ server' \in Servers
        /\ server'.ids \in Nat /\ server'.clock \in Nat
    <3>1. foreign' \in 0 .. MaxForeign
      BY <1>13, Numbers, Upto DEF OtherPastes, Foreign, TypeOK
    <3>2. server' \in Servers
      BY <1>13, ServerTyped DEF OtherPastes
    <3> QED
      BY <3>1, <3>2 DEF Servers
  <2>2. [type |-> "REQUEST", id |-> server'.ids, time |-> server'.clock, self |-> FALSE] \in XEventSet
    BY <2>1 DEF XEventSet, Request
  <2>3. xevents' \in Seq(XEventSet)
    BY <1>13, <2>2, AppendProperties DEF OtherPastes, TypeOK
  <2> QED
    BY <1>13, <2>1, <2>3 DEF OtherPastes, TypeOK, Servers
<1>14. ASSUME NEW at \in converts, NEW property \in {"data", "incr", "none"}, OtherAnswers(at, property)
       PROVE  TypeOK'
  <2> DEFINE e == [type |-> "NOTIFY", time |-> at, property |-> property]
             f == [type |-> "PROPERTY", last |-> FALSE]
             g == [type |-> "PROPERTY", last |-> TRUE]
  <2>1. e \in XEventSet /\ f \in XEventSet /\ g \in XEventSet
    BY DEF XEventSet, TypeOK
  <2>2. xevents' = xevents \o <<e>> \o (IF property = "incr" THEN <<f, g>> ELSE <<>>)
    BY <1>14 DEF OtherAnswers
  <2> HIDE DEF e, f, g
  <2>3. xevents \in Seq(XEventSet)
    BY DEF TypeOK
  <2>4. \/ xevents' = Append(xevents, e)
        \/ xevents' = Append(Append(Append(xevents, e), f), g)
    BY <2>1, <2>2, <2>3, Joined
  <2>5. Append(xevents, e) \in Seq(XEventSet)
    BY <2>1, <2>3, AppendProperties
  <2>6. Append(Append(xevents, e), f) \in Seq(XEventSet)
    BY <2>1, <2>5, AppendProperties
  <2>7. Append(Append(Append(xevents, e), f), g) \in Seq(XEventSet)
    BY <2>1, <2>6, AppendProperties
  <2> QED
    BY <1>14, <2>4, <2>5, <2>7 DEF OtherAnswers, TypeOK
<1> QED
  BY <1>1, <1>2, <1>3, <1>4, <1>5, <1>6, <1>7, <1>8, <1>9, <1>10, <1>11, <1>12, <1>13, <1>14 DEF Next

-----------------------------------------------------------------------------
(* Our requests for content.                                                 *)

LEMMA Products ==
  ASSUME NEW n \in Nat, NEW m \in Nat, n <= m
  PROVE  Targets * n \in Nat /\ Targets * m \in Nat /\ Targets * n <= Targets * m
<1>1. Targets \in Nat /\ m - n \in Nat
  BY Numbers
<1>2. Targets * m = Targets * n + Targets * (m - n)
  BY <1>1
<1>3. Targets * (m - n) \in Nat /\ Targets * n \in Nat /\ Targets * m \in Nat
  BY <1>1
<1> QED
  BY <1>2, <1>3

\* What one request may be asked for as is before the share of the next one.
LEMMA Shares ==
  ASSUME NEW n \in Nat, NEW m \in Nat, NEW failed \in 0 .. (Targets - 1), 1 <= n, n < m
  PROVE  /\ Targets * (n - 1) \in Nat /\ Targets * (m - 1) \in Nat
         /\ Targets * (n - 1) + failed + 1 <= Targets * (m - 1)
<1>1. Targets \in Nat /\ failed \in Nat /\ failed + 1 <= Targets
  BY Numbers
<1>2. n - 1 \in Nat /\ m - 1 \in Nat /\ n <= m - 1
  OBVIOUS
<1>3. Targets * n = Targets * (n - 1) + Targets
  BY <1>1
<1>4. Targets * (n - 1) \in Nat /\ Targets * n \in Nat /\ Targets * (m - 1) \in Nat
      /\ Targets * n <= Targets * (m - 1)
  BY <1>2, Products
<1> QED
  BY <1>1, <1>3, <1>4

\* What the types say of the numbers.
LEMMA PastesTyped ==
  ASSUME TypeOK
  PROVE  /\ nonces \in Nat /\ nonces <= MaxNonce /\ foreign \in Nat /\ server.ids \in Nat
         /\ \A n \in Nonces : n \in Nat /\ 1 <= n /\ answers[n] \in Nat
         /\ \A w \in Editors : paste[w] # 0 => paste[w] \in Nonces
         /\ isel # NULL => /\ isel.nonce \in Nonces /\ isel.failed \in 0 .. (Targets - 1)
                           /\ isel.failed \in Nat /\ isel.time \in Nat /\ isel \in Inquiries
         /\ Targets * nonces \in Nat /\ \A n \in Nonces : Targets * (n - 1) \in Nat
<1>1. \A n \in Nat : Targets * n \in Nat
  BY Products
<1>2. \A n \in Nonces : n - 1 \in Nat /\ Targets * (n - 1) \in Nat
  BY <1>1, Numbers
<1>3. nonces \in Nat /\ nonces <= MaxNonce /\ foreign \in Nat /\ server.ids \in Nat
  BY Numbers, ServerTyped DEF TypeOK
<1>4. \A n \in Nonces : n \in Nat /\ 1 <= n /\ answers[n] \in Nat
  BY Numbers DEF TypeOK
<1>5. ASSUME NEW w \in Editors, paste[w] # 0 PROVE paste[w] \in Nonces
  <2>1. paste[w] \in 0 .. MaxNonce
    BY DEF TypeOK
  <2> QED
    BY <1>5, <2>1, Numbers
<1>6. isel # NULL => /\ isel.nonce \in Nonces /\ isel.failed \in 0 .. (Targets - 1)
                     /\ isel.failed \in Nat /\ isel.time \in Nat /\ isel \in Inquiries
  BY Numbers DEF TypeOK, Inquiries
<1> QED
  BY <1>1, <1>2, <1>3, <1>4, <1>5, <1>6

\* A step that is about other things.
LEMMA PastesElsewhere ==
  ASSUME TypeOK, TypeOK', PastesInOrder, ConvertsBound,
         \A n \in Nonces : Asks(commands', n) <=> Asks(commands, n),
         Ascends(commands'), nonces' \in {nonces, nonces + 1}, UNCHANGED <<answers, isel>>,
         \A w \in Editors : paste'[w] \in {paste[w], 0},
         \/ server'.ids = server.ids /\ foreign' \in {foreign, foreign + 1}
         \/ server'.ids = server.ids + 1 /\ foreign' = foreign + 1
  PROVE  PastesInOrder' /\ ConvertsBound'
<1>1. PastesInOrder'
  BY PastesTyped DEF PastesInOrder, Open, Waits
<1>2. nonces <= nonces' /\ nonces' \in Nat /\ nonces \in Nat
  BY PastesTyped
<1>3. /\ Targets * nonces \in Nat /\ Targets * nonces' \in Nat
      /\ Targets * nonces <= Targets * nonces'
  BY <1>2, Products
<1>4. server'.ids <= foreign' + Targets * nonces'
  BY <1>3, PastesTyped DEF ConvertsBound
<1>5. isel # NULL => server'.ids <= foreign' + Targets * (isel.nonce - 1) + isel.failed + 1
  BY PastesTyped DEF ConvertsBound
<1>6. \A n \in Nonces : Asks(commands', n) => server'.ids <= foreign' + Targets * (n - 1)
  BY PastesTyped DEF ConvertsBound
<1> QED
  BY <1>1, <1>4, <1>5, <1>6 DEF ConvertsBound

\* A request that the display thread answers.
LEMMA PasteAnswered ==
  ASSUME TypeOK, TypeOK', PastesInOrder, ConvertsBound, NEW n \in Nonces, Open(n), Data(n),
         Ascends(commands'), \A m \in Nonces : Asks(commands', m) <=> Asks(commands, m) /\ m # n,
         isel' = isel \/ isel' = NULL, isel' # NULL => isel.nonce # n,
         isel # NULL /\ isel' = NULL => isel.nonce = n,
         UNCHANGED <<nonces, paste, foreign>>, server'.ids = server.ids
  PROVE  PastesInOrder' /\ ConvertsBound'
<1>1. /\ answers' = [answers EXCEPT ![n] = answers[n] + 1] /\ answers \in [Nonces -> Nat]
      /\ answers[n] = 0 /\ n <= nonces
  BY DEF Data, Open, TypeOK
<1>2. \A m \in Nonces : answers'[m] = IF m = n THEN 1 ELSE answers[m]
  BY <1>1
<1>3. PastesInOrder'
  <2>1. \A m \in Nonces : Asks(commands', m) =>
          (Open(m))' /\ (isel' # NULL => isel'.nonce < m)
    BY <1>2 DEF PastesInOrder, Open
  <2>2. isel' # NULL => (Open(isel.nonce))'
    BY <1>2, PastesTyped DEF PastesInOrder, Open
  <2>3. \A m \in Nonces : answers'[m] \in {0, 1} /\ (m > nonces' => answers'[m] = 0)
    BY <1>1, <1>2, PastesTyped DEF PastesInOrder
  <2>4. ASSUME NEW w \in Editors, paste'[w] # 0
        PROVE  paste'[w] <= nonces' /\ (answers'[paste'[w]] = 1 \/ (Waits(paste[w]))' \/ Asks(commands', paste'[w]))
    <3>1. paste'[w] = paste[w] /\ paste[w] \in Nonces
      BY <2>4, PastesTyped
    <3> QED
      BY <1>2, <2>4, <3>1 DEF PastesInOrder, Waits
  <2> QED
    BY <2>1, <2>2, <2>3, <2>4 DEF PastesInOrder, Waits
<1>4. ConvertsBound'
  BY DEF ConvertsBound
<1> QED
  BY <1>3, <1>4

\* A request that the server is asked for, as one more type.
LEMMA PasteConverted ==
  ASSUME TypeOK, TypeOK', PastesInOrder, NEW n \in Nonces, Open(n), NEW failed \in 0 .. (Targets - 1),
         Ascends(commands'), \A m \in Nonces : Asks(commands', m) <=> Asks(commands, m) /\ m # n,
         \A m \in Nonces : Asks(commands, m) /\ m # n => n < m,
         isel' = [nonce |-> n, time |-> time, failed |-> failed, state |-> "NOTIFY"],
         isel # NULL => isel.nonce = n,
         server.ids <= foreign + Targets * (n - 1) + failed, server'.ids \in {server.ids, server.ids + 1},
         UNCHANGED <<nonces, paste, foreign, answers>>
  PROVE  PastesInOrder' /\ ConvertsBound'
<1>1. isel'.nonce = n /\ isel'.failed = failed /\ isel' \in Inquiries /\ isel' # NULL
  <2>1. isel'.nonce = n /\ isel'.failed = failed
    OBVIOUS
  <2>2. isel' \in Inquiries
    BY DEF Inquiries, TypeOK
  <2> QED
    BY <2>1, <2>2, Numbers
<1>2. PastesInOrder'
  <2>1. \A m \in Nonces : Asks(commands', m) => (Open(m))' /\ n < m
    BY DEF PastesInOrder, Open
  <2>2. ASSUME NEW w \in Editors, paste'[w] # 0
        PROVE  paste'[w] <= nonces' /\ (answers'[paste'[w]] = 1 \/ isel'.nonce = paste'[w] \/ Asks(commands', paste'[w]))
    <3>1. paste'[w] = paste[w] /\ paste[w] \in Nonces
      BY <2>2, PastesTyped
    <3> QED
      BY <1>1, <2>2, <3>1 DEF PastesInOrder, Waits
  <2> QED
    BY <1>1, <2>1, <2>2 DEF PastesInOrder, Open, Waits
<1>3. /\ n \in Nat /\ 1 <= n /\ failed \in Nat /\ server.ids \in Nat /\ foreign \in Nat
      /\ n <= nonces /\ nonces \in Nat
      /\ Targets * (n - 1) \in Nat
  BY PastesTyped DEF Open
<1>4. server'.ids <= foreign + Targets * (n - 1) + failed + 1
  BY <1>3
<1>5. ASSUME NEW m \in Nat, n < m PROVE server'.ids <= foreign + Targets * (m - 1)
  <2>1. /\ Targets * (m - 1) \in Nat
        /\ Targets * (n - 1) + failed + 1 <= Targets * (m - 1)
    BY <1>3, <1>5, Shares
  <2>2. server'.ids \in Nat
    BY <1>3
  <2> QED
    BY <1>3, <1>4, <2>1, <2>2
<1>6. server'.ids <= foreign + Targets * nonces
  <2>1. nonces + 1 \in Nat /\ n < nonces + 1 /\ (nonces + 1) - 1 = nonces
    BY <1>3
  <2> QED
    BY <1>5, <2>1
<1>7. \A m \in Nonces : Asks(commands', m) => server'.ids <= foreign + Targets * (m - 1)
  BY <1>5, Numbers
<1> QED
  BY <1>1, <1>2, <1>4, <1>6, <1>7 DEF ConvertsBound

LEMMA PastesInit == Init => PastesInOrder /\ ConvertsBound
<1> SUFFICES ASSUME Init PROVE PastesInOrder /\ ConvertsBound
  OBVIOUS
<1>1. /\ commands = <<>> /\ isel = NULL /\ nonces = 0 /\ server.ids = 0 /\ foreign = 0
      /\ answers = [n \in Nonces |-> 0] /\ paste = [w \in Editors |-> 0]
  BY DEF Init
<1>2. Ascends(commands) /\ \A n : ~Asks(commands, n)
  BY <1>1 DEF Ascends, Asks
<1>3. Targets * 0 \in Nat
  BY Products
<1> QED
  BY <1>1, <1>2, <1>3 DEF PastesInOrder, ConvertsBound

LEMMA ConvertIds ==
  ASSUME TypeOK, NEW queue, NEW at, Convert(queue, at)
  PROVE  server'.ids \in {server.ids, server.ids + 1}
BY ServerTyped DEF Convert, Servers

LEMMA PasteStep ==
  ASSUME TypeOK, TypeOK', PastesInOrder, ConvertsBound, Paste
  PROVE  PastesInOrder' /\ ConvertsBound'
<1> DEFINE n == nonces + 1
           c == [type |-> "CONTENT", nonce |-> n]
<1>1. /\ nonces' = n /\ commands' = Append(commands, c) /\ UNCHANGED <<answers, isel, foreign, focus>>
      /\ paste' = [paste EXCEPT ![focus] = n] /\ server'.ids = server.ids
  BY ServerTyped DEF Paste, Fresh, RequestContent, KeyPress, Servers
<1>2. n \in Nonces /\ n > nonces
  BY <1>1, Numbers, Upto DEF TypeOK, Nonces, Paste, Fresh
<1>3. c \in CommandSet
  BY <1>2 DEF CommandSet
<1>4. /\ \A m : Asks(commands', m) <=> Asks(commands, m) \/ m = n
      /\ Ascends(commands')
  <2>1. \A m \in Nonces : Asks(commands, m) => m < n
    BY PastesTyped DEF PastesInOrder, Open
  <2> QED
    BY <1>1, <1>3, <2>1, CommandAdded DEF TypeOK, PastesInOrder
<1>5. PastesInOrder'
  <2>1. answers[n] = 0
    BY <1>2 DEF PastesInOrder
  <2>2. \A m \in Nonces : Asks(commands', m) => (Open(m))' /\ (isel # NULL => isel.nonce < m)
    BY <1>1, <1>2, <1>4, <2>1, PastesTyped DEF PastesInOrder, Open
  <2>3. isel # NULL => (Open(isel.nonce))'
    BY <1>1, <1>2, PastesTyped DEF PastesInOrder, Open
  <2>4. \A m \in Nonces : answers[m] \in {0, 1} /\ (m > n => answers[m] = 0)
    BY <1>2, PastesTyped DEF PastesInOrder
  <2>5. ASSUME NEW w \in Editors, paste'[w] # 0
        PROVE  paste'[w] <= n /\ (answers[paste'[w]] = 1 \/ Waits(paste'[w]) \/ Asks(commands', paste'[w]))
    <3>1. paste'[w] = n \/ (paste'[w] = paste[w] /\ paste[w] \in Nonces)
      BY <1>1, <2>5, PastesTyped DEF TypeOK
    <3> QED
      BY <1>2, <1>4, <2>5, <3>1, PastesTyped DEF PastesInOrder
  <2> QED
    BY <1>1, <1>4, <2>2, <2>3, <2>4, <2>5 DEF PastesInOrder, Waits
<1>6. ConvertsBound'
  <2>1. n - 1 = nonces /\ nonces \in Nat
    BY PastesTyped
  <2>2. Targets * nonces \in Nat /\ Targets * n \in Nat /\ Targets * nonces <= Targets * n
    BY <2>1, Products
  <2>3. server.ids <= foreign + Targets * n
    BY <2>2, PastesTyped DEF ConvertsBound
  <2>4. \A m \in Nonces : Asks(commands', m) => server.ids <= foreign + Targets * (m - 1)
    BY <1>4, <2>1 DEF ConvertsBound
  <2> QED
    BY <1>1, <2>3, <2>4 DEF ConvertsBound
<1> QED
  BY <1>5, <1>6

LEMMA ContentStep ==
  ASSUME TypeOK, TypeOK', PastesInOrder, ConvertsBound, Content
  PROVE  PastesInOrder' /\ ConvertsBound'
<1> DEFINE c == Head(commands)
           n == c.nonce
<1>1. /\ c.type = "CONTENT" /\ RequestSelection(xevents, n, 0) /\ commands # <<>>
      /\ commands' = Tail(commands) /\ UNCHANGED <<uiVars, foreign>>
  BY DEF Content, Command
<1>2. /\ \A m : Asks(commands, m) <=> Asks(commands', m) \/ m = n
      /\ Ascends(commands') /\ \A m : Asks(commands', m) => n < m
      /\ c \in CommandSet
  BY <1>1, CommandTaken DEF TypeOK, PastesInOrder
<1>3. n \in Nonces /\ n \in Nat /\ Asks(commands, n) /\ Open(n) /\ (isel # NULL => isel.nonce < n)
  BY <1>1, <1>2, Numbers DEF CommandSet, PastesInOrder
<1>4. /\ \A m \in Nonces : Asks(commands', m) <=> Asks(commands, m) /\ m # n
      /\ \A m \in Nonces : Asks(commands, m) /\ m # n => n < m
  BY <1>2, <1>3
<1> HIDE DEF c, n
<1>5. CASE isel = NULL /\ Convert(xevents, time) /\ UNCHANGED answers
           /\ isel' = [nonce |-> n, time |-> time, failed |-> 0, state |-> "NOTIFY"]
  <2>1. server.ids <= foreign + Targets * (n - 1) + 0
    BY <1>3, PastesTyped DEF ConvertsBound
  <2>2. 0 \in 0 .. (Targets - 1)
    BY Numbers
  <2>3. server'.ids \in {server.ids, server.ids + 1}
    BY <1>5, ConvertIds
  <2> QED
    BY <1>1, <1>2, <1>3, <1>4, <1>5, <2>1, <2>2, <2>3, PasteConverted DEF uiVars
<1>6. CASE Data(n) /\ isel' = isel /\ UNCHANGED server
  <2>1. isel # NULL => isel.nonce # n
    BY <1>3, PastesTyped
  <2> QED
    BY <1>1, <1>2, <1>3, <1>4, <1>6, <2>1, PasteAnswered DEF uiVars
<1> QED
  BY <1>1, <1>5, <1>6 DEF RequestSelection

LEMMA ReceiveStep ==
  ASSUME TypeOK, TypeOK', PastesInOrder, ConvertsBound, ReceiveSelection \/ Timeout
  PROVE  PastesInOrder' /\ ConvertsBound'
<1> DEFINE n == isel.nonce
<1>1. UNCHANGED <<uiVars, commands, foreign>>
  BY DEF ReceiveSelection, Timeout, serverVars
<1>2. isel # NULL => /\ n \in Nonces /\ n \in Nat /\ Open(n)
                     /\ \A m \in Nonces : Asks(commands, m) => n < m /\ n # m
                     /\ isel.failed \in 0 .. (Targets - 1)
  BY Numbers, PastesTyped DEF PastesInOrder
<1>3. CASE isel # NULL /\ Data(n) /\ isel' = NULL /\ UNCHANGED server
  BY <1>1, <1>2, <1>3, PasteAnswered DEF uiVars, PastesInOrder
<1>4. CASE isel # NULL /\ RequestSelection(Tail(xevents), n, isel.failed + 1)
  <2> DEFINE failed == isel.failed + 1
  <2>1. failed \in Nat /\ failed > 0
    BY <1>2, <1>4
  <2>2. CASE Data(n) /\ isel' = NULL /\ UNCHANGED server
    BY <1>3, <1>4, <2>2
  <2>3. CASE failed < Targets /\ Convert(Tail(xevents), time) /\ UNCHANGED answers
             /\ isel' = [nonce |-> n, time |-> time, failed |-> failed, state |-> "NOTIFY"]
    <3>1. failed \in 0 .. (Targets - 1)
      BY <2>1, <2>3, Numbers
    <3>2. server'.ids \in {server.ids, server.ids + 1}
      BY <2>3, ConvertIds
    <3>3. server.ids <= foreign + Targets * (n - 1) + failed
      BY <1>4, PastesTyped DEF ConvertsBound
    <3> HIDE DEF failed, n
    <3>4. isel.nonce = n
      BY DEF n
    <3> QED
      BY <1>1, <1>2, <1>4, <2>3, <3>1, <3>2, <3>3, <3>4, PasteConverted DEF uiVars, PastesInOrder
  <2> QED
    BY <1>4, <2>1, <2>2, <2>3 DEF RequestSelection
<1>5. CASE isel # NULL /\ isel' = [isel EXCEPT !.state = "PROPERTY"] /\ UNCHANGED <<answers, server>>
  <2>1. isel'.nonce = n /\ isel'.failed = isel.failed /\ isel' # NULL
    <3>1. isel \in Inquiries
      BY <1>5 DEF TypeOK
    <3>2. isel' \in Inquiries /\ isel'.nonce = n /\ isel'.failed = isel.failed
      BY <1>5, <3>1 DEF Inquiries
    <3> QED
      BY <3>2, Numbers
  <2> HIDE DEF n
  <2>2. isel.nonce = n
    BY DEF n
  <2>3. PastesInOrder'
    BY <1>1, <1>5, <2>1, <2>2 DEF PastesInOrder, Open, Waits, uiVars
  <2>4. ConvertsBound'
    BY <1>1, <1>5, <2>1, <2>2 DEF ConvertsBound, uiVars
  <2> QED
    BY <2>3, <2>4
<1>6. CASE UNCHANGED <<answers, isel, server>>
  BY <1>1, <1>6 DEF PastesInOrder, ConvertsBound, Open, Waits, uiVars
<1>7. CASE Timeout
  BY <1>3, <1>7 DEF Timeout, serverVars
<1>8. CASE ReceiveSelection
  BY <1>3, <1>4, <1>5, <1>6, <1>8 DEF ReceiveSelection
<1> QED
  BY <1>7, <1>8

LEMMA PastesStep ==
  ASSUME TypeOK, TypeOK', PastesInOrder, ConvertsBound, [Next]_vars
  PROVE  PastesInOrder' /\ ConvertsBound'
<1>1. CASE Paste
  BY <1>1, PasteStep
<1>2. CASE Content
  BY <1>2, ContentStep
<1>3. CASE ReceiveSelection \/ Timeout
  BY <1>3, ReceiveStep
<1>4. Ascends(commands)
  BY DEF PastesInOrder
<1>5. CASE UNCHANGED <<commands, answers, isel, nonces, paste, foreign>> /\ server'.ids = server.ids
  BY <1>4, <1>5, PastesElsewhere
<1>6. CASE Copy \/ CopyNothing
  <2>1. /\ UNCHANGED <<answers, isel, paste, foreign>> /\ nonces' \in {nonces, nonces + 1}
        /\ server'.ids = server.ids
    BY <1>6, ServerTyped DEF Copy, CopyNothing, Fresh, KeyPress, Servers
  <2>2. PICK n \in Nonces, types \in BOOLEAN :
          commands' = Append(commands, [type |-> "OWNER", nonce |-> n, types |-> types])
    <3>1. CASE Copy
      <4>1. nonces + 1 \in Nonces
        BY <3>1, Numbers, Upto DEF Copy, Fresh, TypeOK, Nonces
      <4> QED
        BY <3>1, <4>1 DEF Copy, Fresh, OwnContent
    <3>2. CASE CopyNothing
      <4>1. clipboard[focus] \in Nonces
        BY <3>2, Numbers DEF CopyNothing, TypeOK
      <4> QED
        BY <3>2, <4>1 DEF CopyNothing, OwnContent
    <3> QED
      BY <1>6, <3>1, <3>2
  <2>3. [type |-> "OWNER", nonce |-> n, types |-> types] \in CommandSet
    BY DEF CommandSet
  <2>4. (\A m \in Nonces : Asks(commands', m) <=> Asks(commands, m)) /\ Ascends(commands')
    BY <1>4, <2>2, <2>3, CommandAdded DEF TypeOK
  <2> QED
    BY <2>1, <2>4, PastesElsewhere
<1>7. CASE Owner \/ Provide
  <2>1. /\ UNCHANGED <<answers, isel, nonces, paste, foreign>> /\ server'.ids = server.ids
        /\ commands # <<>> /\ Head(commands).type # "CONTENT" /\ commands' = Tail(commands)
    BY <1>7, ServerTyped DEF Owner, Provide, Command, Claimed, uiVars, Servers
  <2>2. (\A m \in Nonces : Asks(commands', m) <=> Asks(commands, m)) /\ Ascends(commands')
    BY <1>4, <2>1, CommandTaken DEF TypeOK
  <2> QED
    BY <2>1, <2>2, PastesElsewhere
<1>8. CASE DispatchDataEvent
  <2>1. /\ UNCHANGED <<answers, isel, nonces, foreign, server>>
        /\ \A w \in Editors : paste'[w] \in {paste[w], 0}
    BY <1>8 DEF DispatchDataEvent, x11Vars, serverVars, TypeOK
  <2>2. (\A m \in Nonces : Asks(commands', m) <=> Asks(commands, m)) /\ Ascends(commands')
    <3> DEFINE e == Head(events)
               c == [type |-> "PROVIDE", id |-> e.id, data |-> (clipboard[focus] = e.nonce)]
    <3>1. e \in EventSet
      BY <1>8, EventTaken DEF DispatchDataEvent, TypeOK
    <3>2. CASE e.type = "REQUEST" /\ commands' = Append(commands, c)
      <4>1. e.id \in Nat
        BY <3>1, <3>2 DEF EventSet
      <4>2. c \in CommandSet
        <5>1. (clipboard[focus] = e.nonce) \in BOOLEAN
          OBVIOUS
        <5> QED
          BY <4>1, <5>1 DEF CommandSet
      <4>3. c.type = "PROVIDE"
        OBVIOUS
      <4> HIDE DEF c
      <4> QED
        BY <1>4, <3>2, <4>2, <4>3, CommandAdded DEF TypeOK
    <3>3. CASE UNCHANGED commands
      BY <1>4, <3>3
    <3> QED
      BY <1>8, <3>2, <3>3 DEF DispatchDataEvent, ProvideContent
  <2> QED
    BY <2>1, <2>2, PastesElsewhere
<1>9. CASE OtherClaims \/ OtherPastes
  <2>1. /\ UNCHANGED <<commands, answers, isel, nonces, paste>> /\ foreign' = foreign + 1
        /\ server'.ids \in {server.ids, server.ids + 1}
    BY <1>9, ServerTyped DEF OtherClaims, OtherPastes, Foreign, uiVars, x11Vars, Servers
  <2> QED
    BY <1>4, <2>1, PastesElsewhere
<1>10. CASE SelectionRequest \/ SelectionClear \/ (\E w \in Editors : MoveFocus(w)) \/ UNCHANGED vars
            \/ \E at \in converts, property \in {"data", "incr", "none"} : OtherAnswers(at, property)
  BY <1>5, <1>10 DEF SelectionRequest, SelectionClear, MoveFocus, OtherAnswers, vars, uiVars, x11Vars,
     serverVars
<1> QED
  BY <1>1, <1>2, <1>3, <1>6, <1>7, <1>8, <1>9, <1>10 DEF Next

-----------------------------------------------------------------------------
(* Requests for our content.                                                 *)

\* Two queues that say the same of requests and of lost selections.
SameXEvents(p, q) ==
  /\ \A id : Carries(p, id) <=> Carries(q, id)
  /\ CarriesOnce(q) => CarriesOnce(p)
  /\ \A at : Loses(p, at) <=> Loses(q, at)

LEMMA NotifyEffect ==
  ASSUME TypeOK, NEW r \in Request, NEW property \in {"data", "none"}, Notify(r, property)
  PROVE  LET q == IF xevents # <<>> /\ Head(xevents).type = "REQUEST" /\ Head(xevents).id = r.id
                    THEN Tail(xevents) ELSE xevents
         IN SameXEvents(xevents', q) /\ replies' = [replies EXCEPT ![r.id] = @ + 1]
<1> DEFINE q == IF xevents # <<>> /\ Head(xevents).type = "REQUEST" /\ Head(xevents).id = r.id
                  THEN Tail(xevents) ELSE xevents
           e == [type |-> "NOTIFY", time |-> r.time, property |-> property]
<1>1. q \in Seq(XEventSet) /\ e \in XEventSet /\ e.type = "NOTIFY"
  BY TailAt DEF TypeOK, Request, XEventSet
<1>2. /\ xevents' = q \o IF r.self THEN <<e>> ELSE <<>>
      /\ replies' = [replies EXCEPT ![r.id] = @ + 1]
  BY DEF Notify
<1> HIDE DEF q, e
<1>3. xevents' = q \/ xevents' = Append(q, e)
  BY <1>1, <1>2, Joined
<1>4. SameXEvents(xevents', q)
  BY <1>1, <1>3, XEventAdded DEF XEventMore, SameXEvents
<1> QED
  BY <1>2, <1>4 DEF q

LEMMA AnswersEffect ==
  ASSUME TypeOK, NEW at \in converts, NEW property \in {"data", "incr", "none"}, OtherAnswers(at, property)
  PROVE  SameXEvents(xevents', xevents)
<1> DEFINE e == [type |-> "NOTIFY", time |-> at, property |-> property]
           f == [type |-> "PROPERTY", last |-> FALSE]
           g == [type |-> "PROPERTY", last |-> TRUE]
           p == Append(xevents, e)
           q == Append(p, f)
<1>1. /\ e \in XEventSet /\ f \in XEventSet /\ g \in XEventSet
      /\ e.type = "NOTIFY" /\ f.type = "PROPERTY" /\ g.type = "PROPERTY"
  BY DEF XEventSet, TypeOK
<1>2. xevents' = xevents \o <<e>> \o (IF property = "incr" THEN <<f, g>> ELSE <<>>)
  BY DEF OtherAnswers
<1>3. xevents \in Seq(XEventSet)
  BY DEF TypeOK
<1> HIDE DEF e, f, g
<1>4. xevents' = p \/ xevents' = Append(q, g)
  BY <1>1, <1>2, <1>3, Joined
<1>5. XEventMore(p, xevents, e)
  BY <1>1, <1>3, XEventAdded
<1>6. XEventMore(q, p, f)
  BY <1>1, <1>5, XEventAdded DEF XEventMore
<1>7. XEventMore(Append(q, g), q, g)
  BY <1>1, <1>6, XEventAdded DEF XEventMore
<1> HIDE DEF p, q
<1>8. SameXEvents(p, xevents)
  BY <1>1, <1>5 DEF XEventMore, SameXEvents
<1>9. SameXEvents(q, p)
  BY <1>1, <1>6 DEF XEventMore, SameXEvents
<1>10. SameXEvents(Append(q, g), q)
  BY <1>1, <1>7 DEF XEventMore, SameXEvents
<1> QED
  BY <1>4, <1>8, <1>9, <1>10 DEF SameXEvents

\* Every request has a number for its replies.
LEMMA IdsFit ==
  ASSUME NEW n \in 0 .. MaxNonce, NEW f \in 0 .. MaxForeign, NEW i \in Nat, i <= f + Targets * n
  PROVE  \A id \in 1 .. i : id \in Ids
<1>1. n \in Nat /\ n <= MaxNonce /\ f \in Nat /\ f <= MaxForeign
  BY Numbers
<1>2. Targets * n <= Targets * MaxNonce /\ Targets * n \in Nat /\ Targets * MaxNonce \in Nat
  BY <1>1, Numbers, Products
<1>3. Targets * MaxNonce = MaxNonce * Targets
  BY Numbers
<1>4. i <= MaxForeign + MaxNonce * Targets
  BY <1>1, <1>2, <1>3, Numbers
<1> QED
  BY <1>2, <1>3, <1>4, Numbers DEF Ids

LEMMA IdsSuffice ==
  ASSUME TypeOK, ConvertsBound
  PROVE  server.ids \in Nat /\ \A id \in 1 .. server.ids : id \in Ids
BY IdsFit, PastesTyped DEF TypeOK, ConvertsBound

LEMMA Carried == RequestsInPlace => \A id : Carries(xevents, id) => Unreplied(id)
BY DEF RequestsInPlace, Carries

LEMMA InPlaceAgain ==
  ASSUME \A r \in requests' : (Unreplied(r.id))' /\ ~Carries(xevents', r.id),
         \A r, q \in requests' : r.id = q.id => r = q,
         \A id : Carries(xevents', id) => (Unreplied(id))', CarriesOnce(xevents'),
         \A id \in Ids : /\ replies'[id] \in {0, 1}
                         /\ id > server'.ids => replies'[id] = 0
                         /\ id <= server'.ids =>
                              replies'[id] = 1 \/ Carries(xevents', id) \/ \E r \in requests' : r.id = id
  PROVE  RequestsInPlace'
<1>1. \A k \in DOMAIN xevents' : xevents'[k].type = "REQUEST" => (Unreplied(xevents[k].id))'
  <2> SUFFICES ASSUME NEW k \in DOMAIN xevents', xevents'[k].type = "REQUEST"
               PROVE  (Unreplied(xevents[k].id))'
    OBVIOUS
  <2>1. Carries(xevents', xevents'[k].id)
    BY DEF Carries
  <2> QED
    BY <2>1 DEF Unreplied
<1> QED
  BY <1>1 DEF RequestsInPlace

\* A step that is about other things.
LEMMA OtherRequests ==
  ASSUME TypeOK, RequestsInPlace, \A id : Carries(xevents', id) <=> Carries(xevents, id),
         CarriesOnce(xevents'), UNCHANGED <<requests, replies>>, server'.ids = server.ids
  PROVE  RequestsInPlace'
<1>1. \A id : (Unreplied(id))' <=> Unreplied(id)
  BY DEF Unreplied
<1>2. \A id : Carries(xevents, id) => Unreplied(id)
  BY Carried
<1> QED
  BY <1>1, <1>2, InPlaceAgain DEF RequestsInPlace

LEMMA RequestsElsewhere ==
  ASSUME TypeOK, RequestsInPlace, SameXEvents(xevents', xevents),
         UNCHANGED <<requests, replies>>, server'.ids = server.ids
  PROVE  RequestsInPlace'
BY OtherRequests DEF RequestsInPlace, SameXEvents

\* A new request arrives.
LEMMA RequestMade ==
  ASSUME TypeOK, RequestsInPlace, ConvertsBound', TypeOK', NEW q \in Seq(XEventSet),
         SameXEvents(q, xevents), NEW r \in Request, r.id = server.ids + 1,
         xevents' = Append(q, r), UNCHANGED <<requests, replies>>, server'.ids = server.ids + 1
  PROVE  RequestsInPlace'
<1>1. server.ids \in Nat /\ r.id \in Nat /\ r.id \in Ids
  <2>1. server.ids \in Nat
    BY ServerTyped
  <2>2. nonces' \in 0 .. MaxNonce /\ foreign' \in 0 .. MaxForeign
    BY DEF TypeOK
  <2>3. server'.ids <= foreign' + Targets * nonces'
    BY DEF ConvertsBound
  <2>4. server'.ids \in Nat
    BY <2>1
  <2>5. \A id \in 1 .. server'.ids : id \in Ids
    BY <2>2, <2>3, <2>4, IdsFit
  <2> QED
    BY <2>1, <2>5
<1>2. r \in XEventSet /\ r.type = "REQUEST"
  BY DEF XEventSet, Request
<1>3. /\ \A id : Carries(xevents', id) <=> Carries(xevents, id) \/ id = r.id
      /\ ~Carries(xevents, r.id) => CarriesOnce(xevents')
  <2>1. XEventMore(xevents', q, r)
    BY <1>2, XEventAdded
  <2> QED
    BY <1>2, <2>1 DEF XEventMore, SameXEvents, RequestsInPlace
<1>4. ~Unreplied(r.id) /\ (Unreplied(r.id))' /\ \A id : Unreplied(id) => (Unreplied(id))'
  BY <1>1 DEF Unreplied, RequestsInPlace
<1>5. \A id : Carries(xevents, id) => Unreplied(id)
  BY Carried
<1>6. ~Carries(xevents, r.id) /\ \A s \in requests : s.id # r.id
  BY <1>4, <1>5 DEF RequestsInPlace
<1>7. \A id \in Ids : id <= server'.ids => id <= server.ids \/ id = r.id
  BY <1>1, Numbers DEF Ids
<1>8. \A id \in Ids : id > server'.ids => id > server.ids
  BY <1>1, Numbers DEF Ids
<1> QED
  BY <1>3, <1>4, <1>5, <1>6, <1>7, <1>8, InPlaceAgain DEF RequestsInPlace

\* A request that is there, or held, is replied to.
LEMMA RequestReplied ==
  ASSUME TypeOK, RequestsInPlace, ConvertsBound, NEW n, Unreplied(n),
         replies' = [replies EXCEPT ![n] = @ + 1], server'.ids = server.ids,
         CarriesOnce(xevents'), \A id : Carries(xevents', id) <=> Carries(xevents, id) /\ id # n,
         requests' = {r \in requests : r.id # n}
  PROVE  RequestsInPlace'
<1>1. n \in Ids /\ n \in 1 .. server.ids /\ replies[n] = 0 /\ server.ids \in Nat
  BY IdsSuffice DEF Unreplied
<1>2. /\ \A id \in Ids : replies'[id] = IF id = n THEN 1 ELSE replies[id]
      /\ \A id : id # n => replies'[id] = replies[id]
  BY <1>1 DEF TypeOK
<1>3. \A id : id # n => ((Unreplied(id))' <=> Unreplied(id))
  BY <1>2 DEF Unreplied
<1>4. \A id : Carries(xevents, id) => Unreplied(id)
  BY Carried
<1>5. ~(n > server.ids)
  BY <1>1
<1> QED
  BY <1>1, <1>2, <1>3, <1>4, <1>5, InPlaceAgain DEF RequestsInPlace

LEMMA RequestsInit == Init => RequestsInPlace
<1> SUFFICES ASSUME Init PROVE RequestsInPlace
  OBVIOUS
<1>1. /\ xevents = <<>> /\ requests = {} /\ server.ids = 0 /\ replies = [id \in Ids |-> 0]
  BY DEF Init
<1>2. CarriesOnce(xevents)
  BY <1>1 DEF CarriesOnce
<1>3. \A id \in Ids : id \in Nat /\ id >= 1 /\ ~(id <= 0)
  BY Numbers DEF Ids
<1> QED
  BY <1>1, <1>2, <1>3 DEF RequestsInPlace

\* The queue that is left when what is taken is no request.
LEMMA RestOfQueue ==
  ASSUME TypeOK, xevents # <<>>, Head(xevents).type \notin {"REQUEST", "SELECTION_CLEAR"}
  PROVE  Tail(xevents) \in Seq(XEventSet) /\ SameXEvents(Tail(xevents), xevents)
BY XEventTaken DEF TypeOK, XEventLess, SameXEvents

LEMMA ConvertStep ==
  ASSUME TypeOK, TypeOK', RequestsInPlace, ConvertsBound', NEW q \in Seq(XEventSet), NEW at \in Nat,
         SameXEvents(q, xevents), Convert(q, at), UNCHANGED <<requests, replies>>
  PROVE  RequestsInPlace'
<1>1. CASE xevents' = q /\ UNCHANGED server
  BY <1>1, RequestsElsewhere
<1>2. CASE /\ server' = [server EXCEPT !.ids = @ + 1]
           /\ xevents' = Append(q, [type |-> "REQUEST", id |-> server'.ids, time |-> at, self |-> TRUE])
  <2> DEFINE r == [type |-> "REQUEST", id |-> server'.ids, time |-> at, self |-> TRUE]
  <2>1. server'.ids = server.ids + 1 /\ server.ids + 1 \in Nat
    BY <1>2, ServerTyped DEF Servers
  <2>2. r \in Request /\ r.id = server.ids + 1
    BY <2>1 DEF Request
  <2> HIDE DEF r
  <2>3. xevents' = Append(q, r)
    BY <1>2 DEF r
  <2> QED
    BY <2>1, <2>2, <2>3, RequestMade
<1> QED
  BY <1>1, <1>2 DEF Convert

LEMMA SelectionRequestStep ==
  ASSUME TypeOK, TypeOK', RequestsInPlace, ConvertsBound, SelectionRequest
  PROVE  RequestsInPlace'
<1> DEFINE r == Head(xevents)
           q == Tail(xevents)
<1>1. xevents # <<>> /\ r.type = "REQUEST" /\ server' = server
  BY DEF SelectionRequest, XEvent
<1>2. XEventLess(xevents, q, r)
  BY <1>1, XEventTaken DEF TypeOK
<1>3. /\ r \in Request /\ Carries(xevents, r.id) /\ ~Carries(q, r.id) /\ CarriesOnce(q)
      /\ \A id : Carries(q, id) <=> Carries(xevents, id) /\ id # r.id
  BY <1>1, <1>2 DEF XEventLess, XEventSet, RequestsInPlace
<1>4. Unreplied(r.id) /\ \A s \in requests : s.id # r.id
  BY <1>3, Carried DEF RequestsInPlace
<1>5. CASE requests' = requests \cup {r} /\ xevents' = q /\ UNCHANGED replies
  <2> HIDE DEF r, q
  <2>1. \A id : (Unreplied(id))' <=> Unreplied(id)
    BY <1>1, <1>5 DEF Unreplied
  <2>2. \A id : Carries(xevents, id) => Unreplied(id)
    BY Carried
  <2> QED
    BY <1>1, <1>3, <1>4, <1>5, <2>1, <2>2, InPlaceAgain DEF RequestsInPlace
<1>6. CASE Notify(r, "none") /\ UNCHANGED requests
  <2>1. SameXEvents(xevents', q) /\ replies' = [replies EXCEPT ![r.id] = @ + 1]
    BY <1>1, <1>3, <1>6, NotifyEffect
  <2>2. requests' = {s \in requests : s.id # r.id}
    BY <1>4, <1>6
  <2> HIDE DEF r, q
  <2> QED
    BY <1>1, <1>3, <1>4, <2>1, <2>2, RequestReplied DEF SameXEvents
<1> QED
  BY <1>5, <1>6 DEF SelectionRequest

LEMMA ProvideStep ==
  ASSUME TypeOK, TypeOK', RequestsInPlace, ConvertsBound, Provide
  PROVE  RequestsInPlace'
<1>1. PICK r \in requests : /\ Notify(r, IF Head(commands).data THEN "data" ELSE "none")
                            /\ requests' = requests \ {r}
  BY DEF Provide
<1>2. server' = server /\ r \in Request
  BY DEF Provide, TypeOK
<1>3. Unreplied(r.id) /\ ~Carries(xevents, r.id)
  BY DEF RequestsInPlace
<1>4. ~(xevents # <<>> /\ Head(xevents).type = "REQUEST" /\ Head(xevents).id = r.id)
  BY <1>3, XEventTaken DEF XEventLess, TypeOK
<1>5. SameXEvents(xevents', xevents) /\ replies' = [replies EXCEPT ![r.id] = @ + 1]
  <2>1. (IF Head(commands).data THEN "data" ELSE "none") \in {"data", "none"}
    OBVIOUS
  <2> QED
    BY <1>1, <1>2, <1>4, <2>1, NotifyEffect
<1>6. requests' = {s \in requests : s.id # r.id}
  BY <1>1 DEF RequestsInPlace
<1> QED
  BY <1>2, <1>3, <1>5, <1>6, RequestReplied DEF SameXEvents, RequestsInPlace

LEMMA RequestsStep ==
  ASSUME TypeOK, TypeOK', RequestsInPlace, ConvertsBound, ConvertsBound', [Next]_vars
  PROVE  RequestsInPlace'
<1> USE DEF uiVars, x11Vars, serverVars
<1>1. CASE SelectionRequest
  BY <1>1, SelectionRequestStep
<1>2. CASE Provide
  BY <1>2, ProvideStep
<1>3. SameXEvents(xevents, xevents)
  BY DEF SameXEvents
<1>4. CASE UNCHANGED <<xevents, requests, replies>> /\ server'.ids = server.ids
  BY <1>3, <1>4, RequestsElsewhere
<1>5. CASE Copy \/ CopyNothing \/ Paste
  <2>1. UNCHANGED <<xevents, requests, replies>> /\ server'.ids = server.ids
    BY <1>5, ServerTyped DEF Copy, CopyNothing, Paste, KeyPress, Servers
  <2> QED
    BY <1>4, <2>1
<1>6. CASE Owner
  <2> DEFINE e == [type |-> "SELECTION_CLEAR", time |-> time]
  <2>1. UNCHANGED <<requests, replies>> /\ server'.ids = server.ids
    BY <1>6, ServerTyped DEF Owner, Claimed, Servers
  <2>2. xevents' = xevents \/ xevents' = Append(xevents, e)
    BY <1>6 DEF Owner
  <2>3. e \in XEventSet /\ e.type = "SELECTION_CLEAR"
    BY DEF XEventSet, TypeOK
  <2> HIDE DEF e
  <2>4. XEventMore(Append(xevents, e), xevents, e)
    BY <2>3, XEventAdded DEF TypeOK
  <2>5. \A id : Carries(xevents', id) <=> Carries(xevents, id)
    BY <2>2, <2>3, <2>4 DEF XEventMore
  <2>6. CarriesOnce(xevents')
    BY <2>2, <2>3, <2>4 DEF XEventMore, RequestsInPlace
  <2> QED
    BY <2>1, <2>5, <2>6, OtherRequests
<1>7. CASE Content
  <2>1. RequestSelection(xevents, Head(commands).nonce, 0) /\ UNCHANGED <<requests, replies>>
    BY <1>7 DEF Content
  <2> QED
    BY <1>3, <1>4, <2>1, ConvertStep DEF RequestSelection, TypeOK
<1>8. CASE SelectionClear
  <2>1. /\ UNCHANGED <<requests, replies, server>> /\ xevents' = Tail(xevents)
        /\ xevents # <<>> /\ Head(xevents).type = "SELECTION_CLEAR"
    BY <1>8 DEF SelectionClear, XEvent
  <2>2. XEventLess(xevents, xevents', Head(xevents))
    BY <2>1, XEventTaken DEF TypeOK
  <2>3. \A id : Carries(xevents', id) <=> Carries(xevents, id)
    BY <2>1, <2>2 DEF XEventLess
  <2>4. CarriesOnce(xevents')
    BY <2>2 DEF XEventLess, RequestsInPlace
  <2> QED
    BY <2>1, <2>3, <2>4, OtherRequests
<1>9. CASE ReceiveSelection
  <2> DEFINE q == Tail(xevents)
  <2>1. q \in Seq(XEventSet) /\ SameXEvents(q, xevents) /\ UNCHANGED <<requests, replies>>
    BY <1>9, RestOfQueue DEF ReceiveSelection, XEvent
  <2>2. \/ xevents' = q /\ UNCHANGED server
        \/ Convert(q, time)
    BY <1>9 DEF ReceiveSelection, RequestSelection
  <2> HIDE DEF q
  <2>3. CASE xevents' = q /\ UNCHANGED server
    BY <2>1, <2>3, RequestsElsewhere
  <2>4. CASE Convert(q, time)
    BY <2>1, <2>4, ConvertStep DEF TypeOK
  <2> QED
    BY <2>2, <2>3, <2>4
<1>10. CASE OtherClaims
  <2> DEFINE e == [type |-> "SELECTION_CLEAR", time |-> server'.since]
  <2>1. UNCHANGED <<requests, replies>> /\ server'.ids = server.ids /\ server'.since \in Nat
    BY <1>10, ServerTyped DEF OtherClaims, Servers
  <2>2. xevents' = xevents \/ xevents' = Append(xevents, e)
    BY <1>10 DEF OtherClaims
  <2>3. e \in XEventSet /\ e.type = "SELECTION_CLEAR"
    BY <2>1 DEF XEventSet
  <2> HIDE DEF e
  <2>4. XEventMore(Append(xevents, e), xevents, e)
    BY <2>3, XEventAdded DEF TypeOK
  <2>5. \A id : Carries(xevents', id) <=> Carries(xevents, id)
    BY <2>2, <2>3, <2>4 DEF XEventMore
  <2>6. CarriesOnce(xevents')
    BY <2>2, <2>3, <2>4 DEF XEventMore, RequestsInPlace
  <2> QED
    BY <2>1, <2>5, <2>6, OtherRequests
<1>11. CASE OtherPastes
  <2> DEFINE r == [type |-> "REQUEST", id |-> server'.ids, time |-> server'.clock, self |-> FALSE]
  <2>1. /\ UNCHANGED <<requests, replies>> /\ server'.ids = server.ids + 1
        /\ server'.ids \in Nat /\ server'.clock \in Nat
    BY <1>11, ServerTyped DEF OtherPastes, Servers
  <2>2. r \in Request /\ r.id = server.ids + 1
    BY <2>1 DEF Request
  <2>3. xevents' = Append(xevents, r)
    BY <1>11 DEF OtherPastes
  <2> HIDE DEF r
  <2> QED
    BY <1>3, <2>1, <2>2, <2>3, RequestMade DEF TypeOK
<1>12. ASSUME NEW at \in converts, NEW property \in {"data", "incr", "none"}, OtherAnswers(at, property)
       PROVE  RequestsInPlace'
  BY <1>12, AnswersEffect, RequestsElsewhere DEF OtherAnswers
<1>13. CASE DispatchDataEvent \/ Timeout \/ (\E w \in Editors : MoveFocus(w)) \/ UNCHANGED vars
  BY <1>4, <1>13 DEF DispatchDataEvent, Timeout, MoveFocus, vars
<1> QED
  BY <1>1, <1>2, <1>5, <1>6, <1>7, <1>8, <1>9, <1>10, <1>11, <1>12, <1>13 DEF Next

-----------------------------------------------------------------------------
(* Who owns the clipboard.                                                   *)

LEMMA LosesSooner ==
  ASSUME NEW q \in Seq(XEventSet), NEW a \in Nat, NEW b \in Nat, a <= b, Loses(q, b)
  PROVE  Loses(q, a)
<1>1. PICK k \in DOMAIN q : q[k].type = "SELECTION_CLEAR" /\ q[k].time >= b
  BY DEF Loses
<1>2. q[k] \in XEventSet
  OBVIOUS
<1>3. q[k].time \in Nat
  BY <1>1, <1>2 DEF XEventSet, Request
<1>4. q[k].time >= a
  BY <1>1, <1>3
<1> QED
  BY <1>1, <1>4 DEF Loses

LEMMA OwnersTyped ==
  ASSUME TypeOK
  PROVE  /\ server.since \in Nat /\ server.clock \in Nat /\ time \in Nat /\ nonces \in Nat
         /\ server.clock + 1 \in Nat
         /\ offer # NULL => offer \in Offers /\ offer.nonce \in Nonces /\ offer.time \in Nat
         /\ \A n \in Nonces : n \in Nat /\ 1 <= n
         /\ focus \in Editors /\ \A w \in Editors : clipboard[w] \in Nat
         /\ \A w \in Editors : clipboard[w] # 0 => clipboard[w] \in Nonces
         /\ commands \in Seq(CommandSet) /\ events \in Seq(EventSet) /\ xevents \in Seq(XEventSet)
<1>1. \A w \in Editors : clipboard[w] \in 0 .. MaxNonce
  BY DEF TypeOK
<1>2. \A w \in Editors : clipboard[w] \in Nat /\ (clipboard[w] # 0 => clipboard[w] \in Nonces)
  BY <1>1, Numbers
<1>3. /\ server.since \in Nat /\ server.clock \in Nat
      /\ commands \in Seq(CommandSet) /\ events \in Seq(EventSet) /\ xevents \in Seq(XEventSet)
      /\ time \in Nat /\ focus \in Editors
  BY ServerTyped DEF TypeOK
<1>4. nonces \in Nat
  BY Numbers DEF TypeOK
<1>5. offer # NULL => offer \in Offers /\ offer.nonce \in Nonces /\ offer.time \in Nat
  BY DEF TypeOK, Offers
<1>6. \A n \in Nonces : n \in Nat /\ 1 <= n
  BY Numbers
<1>7. server.clock + 1 \in Nat
  BY <1>3
<1> QED
  BY <1>2, <1>3, <1>4, <1>5, <1>6, <1>7

LEMMA OwnersInit == Init => OwnersInv
<1> SUFFICES ASSUME Init PROVE OwnersInv
  OBVIOUS
<1>1. /\ commands = <<>> /\ events = <<>> /\ xevents = <<>> /\ nonces = 0 /\ time = 0
      /\ offer = NULL /\ crashed = FALSE /\ server = [owner |-> "none", since |-> 0, clock |-> 0, ids |-> 0]
      /\ clipboard = [w \in Editors |-> 0] /\ focus \in Editors
  BY DEF Init
<1>2. /\ \A n, t : ~Claims(commands, n, t)
      /\ \A n : ~Clears(events, n)
      /\ \A at : ~Loses(xevents, at)
      /\ OneClaim(commands)
  BY <1>1 DEF Claims, Clears, Loses, OneClaim
<1>3. TimesInOrder /\ NoncesInOrder
  BY <1>1, <1>2 DEF TimesInOrder, NoncesInOrder, Claiming
<1>4. ClaimIsNew /\ OwnerIsUs
  BY <1>1, <1>2 DEF ClaimIsNew, OwnerIsUs
<1> QED
  BY <1>3, <1>4 DEF OwnersInv

\* A step that is about other things.
LEMMA OwnersElsewhere ==
  ASSUME TypeOK, TypeOK', OwnersInv, \A n, t : Claims(commands', n, t) <=> Claims(commands, n, t),
         OneClaim(commands'), \A at : Loses(xevents', at) <=> Loses(xevents, at),
         \A n : Clears(events', n) <=> Clears(events, n),
         UNCHANGED <<focus, clipboard, offer, time, crashed, nonces>>,
         server'.owner = server.owner, server'.since = server.since,
         server'.clock \in {server.clock, server.clock + 1}
  PROVE  OwnersInv'
<1>1. Claiming' <=> Claiming
  BY DEF Claiming
<1>2. ~Loses(xevents', server'.clock + 1)
  <2>1. server'.clock + 1 \in Nat /\ server.clock + 1 <= server'.clock + 1
    BY OwnersTyped
  <2> QED
    BY <2>1, OwnersTyped, LosesSooner DEF OwnersInv, TimesInOrder
<1>3. server.since <= server'.clock /\ time <= server'.clock
  BY OwnersTyped DEF OwnersInv, TimesInOrder
<1>4. TimesInOrder'
  BY <1>1, <1>2, <1>3 DEF OwnersInv, TimesInOrder
<1>5. NoncesInOrder' /\ ClaimIsNew' /\ OwnerIsUs'
  BY <1>1 DEF OwnersInv, NoncesInOrder, ClaimIsNew, OwnerIsUs
<1> QED
  BY <1>4, <1>5 DEF OwnersInv

LEMMA SelectionElsewhere ==
  ASSUME TypeOK, NEW q \in Seq(XEventSet), \A at : Loses(q, at) <=> Loses(xevents, at),
         NEW n \in Nonces, NEW failed, RequestSelection(q, n, failed)
  PROVE  /\ \A at : Loses(xevents', at) <=> Loses(xevents, at)
         /\ \A m : Clears(events', m) <=> Clears(events, m)
         /\ server'.owner = server.owner /\ server'.since = server.since /\ server'.clock = server.clock
<1>1. \A m : Clears(events', m) <=> Clears(events, m)
  <2> DEFINE e == [type |-> "DATA", nonce |-> n]
  <2>1. UNCHANGED events \/ events' = Append(events, e)
    BY DEF RequestSelection, Data
  <2>2. e \in EventSet /\ e.type = "DATA"
    BY DEF EventSet
  <2> HIDE DEF e
  <2> QED
    BY <2>1, <2>2, EventAdded, OwnersTyped
<1>2. CASE xevents' = q /\ UNCHANGED server
  BY <1>1, <1>2
<1>3. CASE Convert(q, time)
  <2>1. CASE xevents' = q /\ UNCHANGED server
    BY <1>1, <2>1
  <2>2. CASE /\ server' = [server EXCEPT !.ids = @ + 1]
             /\ xevents' = Append(q, [type |-> "REQUEST", id |-> server'.ids, time |-> time, self |-> TRUE])
    <3> DEFINE e == [type |-> "REQUEST", id |-> server'.ids, time |-> time, self |-> TRUE]
    <3>1. /\ server'.ids \in Nat
          /\ server'.owner = server.owner /\ server'.since = server.since /\ server'.clock = server.clock
      BY <2>2, ServerTyped DEF Servers
    <3>2. e \in XEventSet /\ e.type = "REQUEST"
      BY <3>1, OwnersTyped DEF XEventSet, Request
    <3>3. xevents' = Append(q, e)
      BY <2>2
    <3> HIDE DEF e
    <3>4. XEventMore(xevents', q, e)
      BY <3>2, <3>3, XEventAdded
    <3> QED
      BY <1>1, <3>1, <3>2, <3>4 DEF XEventMore
  <2> QED
    BY <1>3, <2>1, <2>2 DEF Convert
<1> QED
  BY <1>2, <1>3 DEF RequestSelection

LEMMA DataClears ==
  ASSUME TypeOK, NEW n, events' = events \/ (n \in Nonces /\ Data(n))
  PROVE  \A m : Clears(events', m) <=> Clears(events, m)
<1> DEFINE e == [type |-> "DATA", nonce |-> n]
<1>1. e.type = "DATA" /\ (n \in Nonces => e \in EventSet)
  BY DEF EventSet
<1>2. UNCHANGED events \/ (n \in Nonces /\ events' = Append(events, e))
  BY DEF Data
<1> HIDE DEF e
<1> QED
  BY <1>1, <1>2, EventAdded, OwnersTyped

LEMMA NotifiedLoses ==
  ASSUME TypeOK, NEW r \in Request, NEW property \in {"data", "none"}, Notify(r, property)
  PROVE  \A at : Loses(xevents', at) <=> Loses(xevents, at)
<1> DEFINE q == IF xevents # <<>> /\ Head(xevents).type = "REQUEST" /\ Head(xevents).id = r.id
                  THEN Tail(xevents) ELSE xevents
<1>1. SameXEvents(xevents', q)
  BY NotifyEffect
<1>2. \A at : Loses(q, at) <=> Loses(xevents, at)
  BY XEventTaken, OwnersTyped DEF XEventLess
<1> QED
  BY <1>1, <1>2 DEF SameXEvents

\* A key press of a user who waits for the claim before.
LEMMA KeyPressed ==
  ASSUME TypeOK, OwnersInv, KeyPress, ~ClaimsRace
  PROVE  /\ ~Claiming /\ OneClaim(commands) /\ \A n, t : ~Claims(commands, n, t)
         /\ time' = server.clock + 1 /\ server'.clock = server.clock + 1
         /\ server'.owner = server.owner /\ server'.since = server.since
         /\ server.since <= time' /\ time <= time' /\ ~Loses(xevents, time')
         /\ ~Loses(xevents, server'.clock + 1) /\ server'.since <= server'.clock
<1>1. \A k \in DOMAIN commands : commands[k].type # "OWNER"
  BY DEF KeyPress, Calm
<1>2. /\ server'.clock = server.clock + 1 /\ time' = server.clock + 1
      /\ server'.owner = server.owner /\ server'.since = server.since
  BY ServerTyped DEF KeyPress, Servers
<1>3. server'.clock + 1 \in Nat /\ server.clock + 1 \in Nat /\ server.clock + 1 <= server'.clock + 1
  BY <1>2, OwnersTyped
<1>4. ~Loses(xevents, server.clock + 1)
  BY DEF OwnersInv, TimesInOrder
<1>5. ~Loses(xevents, server'.clock + 1)
  BY <1>3, <1>4, OwnersTyped, LosesSooner
<1>6. OneClaim(commands) /\ \A n, t : ~Claims(commands, n, t)
  BY <1>1 DEF Claims, OneClaim
<1>7. ~Claiming
  BY <1>6 DEF Claiming
<1>8. server.since <= server.clock /\ time <= server.clock
  BY DEF OwnersInv, TimesInOrder
<1>9. server.since <= time' /\ time <= time' /\ server'.since <= server'.clock
  BY <1>2, <1>8, OwnersTyped
<1>10. ~Loses(xevents, time')
  BY <1>2, <1>4
<1> QED
  BY <1>2, <1>5, <1>6, <1>7, <1>9, <1>10

LEMMA CopyOwners ==
  ASSUME TypeOK, TypeOK', OwnersInv, Copy, ~ClaimsRace
  PROVE  OwnersInv'
<1>0. nonces + 1 \in Nonces
  BY Numbers, Upto DEF TypeOK, Nonces, Copy, Fresh
<1>2. PICK n \in Nonces : n = nonces + 1 /\ n > nonces
  BY <1>0, OwnersTyped
<1> DEFINE c == [type |-> "OWNER", nonce |-> n, types |-> TRUE]
<1>1. /\ nonces' = n /\ clipboard' = [clipboard EXCEPT ![focus] = n] /\ commands' = Append(commands, c)
      /\ UNCHANGED <<focus, events, offer, crashed, xevents>> /\ KeyPress
  BY <1>2 DEF Copy, Fresh, OwnContent
<1>3. c \in CommandSet /\ c.type = "OWNER" /\ c.nonce = n /\ c.types = TRUE
  BY <1>2 DEF CommandSet
<1>4. /\ \A m, t : Claims(commands', m, t) <=> m = n /\ t = TRUE
      /\ OneClaim(commands')
  <2> HIDE DEF c
  <2> QED
    BY <1>1, <1>3, CommandAdded, KeyPressed, OwnersTyped
<1>5. TimesInOrder'
  BY <1>1, KeyPressed, OwnersTyped DEF OwnersInv, TimesInOrder
<1>6. clipboard'[focus] = n /\ \A w \in Editors : w # focus => clipboard'[w] = clipboard[w]
  BY <1>1 DEF TypeOK
<1>7. NoncesInOrder'
  <2>1. \A w \in Editors : clipboard[w] <= nonces /\ (w # focus => clipboard[w] = 0)
    BY DEF OwnersInv, NoncesInOrder
  <2>2. n \in Nat /\ nonces <= n /\ \A m \in Nat : m <= nonces => m <= n
    BY <1>2, OwnersTyped
  <2>3. \A w \in Editors : clipboard'[w] <= nonces' /\ (w # focus' => clipboard'[w] = 0)
    BY <1>1, <1>6, <2>1, <2>2, OwnersTyped
  <2>4. offer' # NULL => offer'.nonce <= nonces' /\ ~Clears(events', offer'.nonce)
    BY <1>1, <2>2, OwnersTyped DEF OwnersInv, NoncesInOrder
  <2>5. \A m \in Nonces : Clears(events', m) => m <= nonces'
    BY <1>1, <2>2, OwnersTyped DEF OwnersInv, NoncesInOrder
  <2> QED
    BY <2>3, <2>4, <2>5 DEF NoncesInOrder
<1>8. ~Clears(events, n) /\ (offer # NULL => offer.nonce # n)
  BY <1>2, OwnersTyped DEF OwnersInv, NoncesInOrder
<1>9. ClaimIsNew'
  <2>1. \A m : ~Claims(commands', m, FALSE) /\ (Claims(commands', m, TRUE) => m = n)
    BY <1>4
  <2>2. clipboard'[focus'] = n /\ n <= nonces' /\ ~Clears(events', n) /\ (offer' # NULL => offer'.nonce # n)
    BY <1>1, <1>2, <1>6, <1>8, OwnersTyped
  <2> QED
    BY <1>4, <2>1, <2>2 DEF ClaimIsNew
<1>10. Claiming'
  BY <1>2, <1>4 DEF Claiming
<1>11. OwnerIsUs'
  BY <1>1, <1>10, KeyPressed DEF OwnersInv, OwnerIsUs
<1> QED
  BY <1>5, <1>7, <1>9, <1>11 DEF OwnersInv

LEMMA CopyNothingOwners ==
  ASSUME TypeOK, TypeOK', OwnersInv, CopyNothing, ~ClaimsRace
  PROVE  OwnersInv'
<1>1. PICK n \in Nonces : n = clipboard[focus]
  BY OwnersTyped DEF CopyNothing
<1> DEFINE c == [type |-> "OWNER", nonce |-> n, types |-> FALSE]
<1>2. /\ clipboard' = [clipboard EXCEPT ![focus] = 0] /\ commands' = Append(commands, c)
      /\ UNCHANGED <<focus, nonces, events, offer, crashed, xevents>> /\ KeyPress
  BY <1>1 DEF CopyNothing, OwnContent
<1>3. c \in CommandSet /\ c.type = "OWNER" /\ c.nonce = n /\ c.types = FALSE
  BY DEF CommandSet
<1>4. /\ \A m, t : Claims(commands', m, t) <=> m = n /\ t = FALSE
      /\ OneClaim(commands')
  <2> HIDE DEF c
  <2> QED
    BY <1>2, <1>3, CommandAdded, KeyPressed, OwnersTyped
<1>5. TimesInOrder'
  BY <1>2, KeyPressed, OwnersTyped DEF OwnersInv, TimesInOrder
<1>6. clipboard'[focus] = 0 /\ \A w \in Editors : w # focus => clipboard'[w] = clipboard[w]
  BY <1>2 DEF TypeOK
<1>7. NoncesInOrder'
  BY <1>2, <1>6, OwnersTyped DEF OwnersInv, NoncesInOrder
<1>8. ClaimIsNew'
  BY <1>2, <1>4, <1>6 DEF ClaimIsNew
<1>9. Claiming'
  BY <1>4 DEF Claiming
<1>10. OwnerIsUs'
  BY <1>2, <1>9, KeyPressed DEF OwnersInv, OwnerIsUs
<1> QED
  BY <1>5, <1>7, <1>8, <1>10 DEF OwnersInv

LEMMA PasteOwners ==
  ASSUME TypeOK, TypeOK', OwnersInv, Paste, ~ClaimsRace
  PROVE  OwnersInv'
<1> DEFINE c == [type |-> "CONTENT", nonce |-> nonces']
<1>1. /\ nonces' = nonces + 1 /\ commands' = Append(commands, c)
      /\ UNCHANGED <<focus, clipboard, events, offer, crashed, xevents>> /\ KeyPress
  BY DEF Paste, Fresh, RequestContent
<1>2. nonces' \in Nonces
  BY <1>1, Numbers, Upto DEF TypeOK, Nonces, Paste, Fresh
<1>3. c \in CommandSet /\ c.type = "CONTENT"
  BY <1>2 DEF CommandSet
<1>4. (\A n, t : ~Claims(commands', n, t)) /\ OneClaim(commands')
  <2> HIDE DEF c
  <2> QED
    BY <1>1, <1>3, CommandAdded, KeyPressed, OwnersTyped
<1>5. ~Claiming'
  BY <1>4 DEF Claiming
<1>6. TimesInOrder'
  BY <1>1, <1>5, KeyPressed, OwnersTyped DEF OwnersInv, TimesInOrder
<1>7. NoncesInOrder'
  BY <1>1, OwnersTyped DEF OwnersInv, NoncesInOrder
<1>8. ClaimIsNew'
  BY <1>4 DEF ClaimIsNew
<1>9. OwnerIsUs'
  BY <1>1, KeyPressed DEF OwnersInv, OwnerIsUs
<1> QED
  BY <1>6, <1>7, <1>8, <1>9 DEF OwnersInv

LEMMA OwnerOwners ==
  ASSUME TypeOK, TypeOK', OwnersInv, Owner
  PROVE  OwnersInv'
<1>1. PICK c \in CommandSet : /\ c = Head(commands) /\ c.type = "OWNER" /\ commands' = Tail(commands)
                             /\ commands # <<>>
  BY CommandTaken, OwnersTyped DEF Owner, Command
<1>2. c.nonce \in Nonces /\ c.types \in BOOLEAN
  BY <1>1 DEF CommandSet
<1>3. /\ Claims(commands, c.nonce, c.types)
      /\ \A n, t : ~Claims(commands', n, t)
      /\ OneClaim(commands')
  BY <1>1, CommandTaken, OwnersTyped DEF OwnersInv, ClaimIsNew
<1>4. Claiming /\ ~Claiming'
  BY <1>2, <1>3 DEF Claiming
<1>5. /\ time >= server.since /\ ~Loses(xevents, time)
      /\ UNCHANGED <<focus, clipboard, nonces, time>>
  BY <1>4, OwnersTyped DEF OwnersInv, TimesInOrder, Owner, uiVars
<1>6. ClaimIsNew'
  BY <1>3 DEF ClaimIsNew
<1>7. server'.clock = server.clock /\ server'.since \in {server.since, time} /\ server'.since <= server'.clock
  BY ServerTyped DEF Owner, Claimed, Servers, OwnersInv, TimesInOrder
<1>8. CASE c.types
  <2> DEFINE claim == [nonce |-> c.nonce, time |-> time]
  <2>1. /\ offer' = claim /\ server'.owner = "us" /\ UNCHANGED <<xevents, crashed>>
        /\ IF offer # NULL /\ offer.nonce # c.nonce THEN Clear(offer.nonce) ELSE UNCHANGED events
    BY <1>1, <1>5, <1>8, ServerTyped DEF Owner, Claimed, ClaimSelection, Servers
  <2>2. claim \in Offers /\ claim # NULL /\ claim.nonce = c.nonce /\ claim.time = time
    <3>1. claim \in Offers
      BY <1>2, OwnersTyped DEF Offers
    <3> QED
      BY <3>1, Numbers
  <2> HIDE DEF claim
  <2>3. /\ clipboard[focus] = c.nonce /\ c.nonce <= nonces /\ ~Clears(events, c.nonce)
        /\ offer # NULL => offer.nonce # c.nonce
    BY <1>2, <1>3, <1>8 DEF OwnersInv, ClaimIsNew
  <2>4. \A n : Clears(events', n) <=> Clears(events, n) \/ (offer # NULL /\ n = offer.nonce)
    <3>1. CASE offer # NULL
      <4>1. [type |-> "CLEAR", nonce |-> offer.nonce] \in EventSet
        BY <3>1, OwnersTyped DEF EventSet
      <4>2. events' = Append(events, [type |-> "CLEAR", nonce |-> offer.nonce])
        BY <2>1, <2>3, <3>1 DEF Clear
      <4> QED
        BY <3>1, <4>1, <4>2, EventAdded, OwnersTyped
    <3>2. CASE offer = NULL
      BY <2>1, <3>2
    <3> QED
      BY <3>1, <3>2
  <2>5. TimesInOrder'
    BY <1>4, <1>5, <1>7, <2>1, <2>2, OwnersTyped DEF OwnersInv, TimesInOrder
  <2>6. NoncesInOrder'
    BY <1>5, <2>1, <2>2, <2>3, <2>4, OwnersTyped DEF OwnersInv, NoncesInOrder
  <2>7. OwnerIsUs'
    BY <1>5, <2>1, <2>2, <2>3 DEF OwnersInv, OwnerIsUs
  <2> QED
    BY <1>6, <2>5, <2>6, <2>7 DEF OwnersInv
<1>9. CASE ~c.types
  <2> DEFINE e == [type |-> "SELECTION_CLEAR", time |-> time]
  <2>1. clipboard[focus] = 0
    BY <1>2, <1>3, <1>9 DEF OwnersInv, ClaimIsNew
  <2>2. server.owner = "us" => offer # NULL
    BY DEF OwnersInv, OwnerIsUs
  <2>3. /\ offer' = NULL /\ UNCHANGED events /\ ~crashed' /\ server'.owner # "us"
        /\ xevents' = xevents \/ xevents' = Append(xevents, e)
    BY <1>1, <1>5, <1>9, <2>2, ServerTyped DEF Owner, Claimed, Servers
  <2>4. e \in XEventSet /\ e.type = "SELECTION_CLEAR" /\ e.time = time
    BY OwnersTyped DEF XEventSet
  <2> HIDE DEF e
  <2>5. XEventMore(Append(xevents, e), xevents, e)
    BY <2>4, XEventAdded, OwnersTyped
  <2>6. ~Loses(xevents', server'.clock + 1)
    <3>1. ~(time >= server.clock + 1) /\ ~Loses(xevents, server.clock + 1)
      BY OwnersTyped DEF OwnersInv, TimesInOrder
    <3> QED
      BY <1>7, <2>3, <2>4, <2>5, <3>1 DEF XEventMore
  <2>7. TimesInOrder'
    BY <1>4, <1>5, <1>7, <2>3, <2>6 DEF OwnersInv, TimesInOrder
  <2>8. NoncesInOrder'
    BY <1>5, <2>3 DEF OwnersInv, NoncesInOrder
  <2>9. OwnerIsUs'
    BY <1>5, <2>1, <2>3 DEF OwnerIsUs
  <2> QED
    BY <1>6, <2>7, <2>8, <2>9 DEF OwnersInv
<1> QED
  BY <1>2, <1>8, <1>9

LEMMA SelectionClearOwners ==
  ASSUME TypeOK, TypeOK', OwnersInv, SelectionClear
  PROVE  OwnersInv'
<1> DEFINE e == Head(xevents)
<1>1. /\ xevents # <<>> /\ e.type = "SELECTION_CLEAR" /\ xevents' = Tail(xevents)
      /\ UNCHANGED <<focus, clipboard, nonces, commands, time, crashed, server>>
  BY DEF SelectionClear, XEvent, uiVars
<1>2. XEventLess(xevents, xevents', e)
  BY <1>1, XEventTaken, OwnersTyped
<1>3. \A at : Loses(xevents, at) <=> Loses(xevents', at) \/ e.time >= at
  BY <1>1, <1>2 DEF XEventLess
<1>4. (Claiming' <=> Claiming) /\ ClaimIsNew'
  <2>1. \A n : Clears(events', n) => Clears(events, n) \/ (offer # NULL /\ n = offer.nonce)
    <3>1. CASE offer # NULL /\ events' = Append(events, [type |-> "CLEAR", nonce |-> offer.nonce])
      <4>1. [type |-> "CLEAR", nonce |-> offer.nonce] \in EventSet
        BY <3>1, OwnersTyped DEF EventSet
      <4> QED
        BY <3>1, <4>1, EventAdded, OwnersTyped
    <3>2. CASE UNCHANGED events
      BY <3>2
    <3> QED
      BY <3>1, <3>2 DEF SelectionClear, Clear
  <2>2. offer' = offer \/ offer' = NULL
    BY DEF SelectionClear
  <2> QED
    BY <1>1, <2>1, <2>2 DEF OwnersInv, ClaimIsNew, Claiming
<1> HIDE DEF e
<1>5. CASE offer # NULL /\ e.time >= offer.time
  <2>1. offer' = NULL /\ events' = Append(events, [type |-> "CLEAR", nonce |-> offer.nonce])
    BY <1>5 DEF SelectionClear, Clear, e
  <2>2. [type |-> "CLEAR", nonce |-> offer.nonce] \in EventSet
    BY <1>5, OwnersTyped DEF EventSet
  <2>3. \A n : Clears(events', n) <=> Clears(events, n) \/ n = offer.nonce
    BY <2>1, <2>2, EventAdded, OwnersTyped
  <2>4. Loses(xevents, offer.time)
    BY <1>3, <1>5
  <2>5. TimesInOrder'
    BY <1>1, <1>3, <1>4, <2>1 DEF OwnersInv, TimesInOrder
  <2>6. NoncesInOrder'
    BY <1>1, <1>5, <2>1, <2>3 DEF OwnersInv, NoncesInOrder
  <2>7. OwnerIsUs'
    BY <1>1, <1>4, <1>5, <2>1, <2>3, <2>4 DEF OwnersInv, OwnerIsUs
  <2> QED
    BY <1>4, <2>5, <2>6, <2>7 DEF OwnersInv
<1>6. CASE ~(offer # NULL /\ e.time >= offer.time)
  <2>1. UNCHANGED <<events, offer>>
    BY <1>6 DEF SelectionClear, e
  <2>2. offer # NULL => (Loses(xevents', offer.time) <=> Loses(xevents, offer.time))
    BY <1>3, <1>6
  <2>3. TimesInOrder'
    BY <1>1, <1>3, <1>4, <2>1 DEF OwnersInv, TimesInOrder
  <2>4. NoncesInOrder'
    BY <1>1, <2>1 DEF OwnersInv, NoncesInOrder
  <2>5. OwnerIsUs'
    BY <1>1, <1>4, <2>1, <2>2 DEF OwnersInv, OwnerIsUs
  <2> QED
    BY <1>4, <2>3, <2>4, <2>5 DEF OwnersInv
<1> QED
  BY <1>5, <1>6

LEMMA OtherClaimsOwners ==
  ASSUME TypeOK, TypeOK', OwnersInv, OtherClaims, ~ClaimsRace
  PROVE  OwnersInv'
<1>1. PICK at \in Nat : at = server.clock + 1
  BY OwnersTyped
<1> DEFINE e == [type |-> "SELECTION_CLEAR", time |-> at]
<1>2. /\ server'.owner = "other" /\ server'.since = at /\ server'.clock = at
      /\ UNCHANGED <<focus, clipboard, nonces, commands, events, offer, time, crashed>>
      /\ xevents' = IF server.owner = "us" THEN Append(xevents, e) ELSE xevents
  BY <1>1, ServerTyped DEF OtherClaims, Servers, uiVars, x11Vars
<1>3. ~Claiming /\ ~Claiming'
  BY <1>2 DEF OtherClaims, Calm, Claiming, Claims
<1>4. e \in XEventSet /\ e.type = "SELECTION_CLEAR" /\ e.time = at
  BY DEF XEventSet
<1> HIDE DEF e
<1>5. XEventMore(Append(xevents, e), xevents, e)
  BY <1>4, XEventAdded, OwnersTyped
<1>6. \A t : Loses(xevents', t) <=> Loses(xevents, t) \/ (server.owner = "us" /\ at >= t)
  BY <1>2, <1>4, <1>5 DEF XEventMore
<1>7. TimesInOrder'
  <2>1. time <= at /\ at <= at
    BY <1>1, OwnersTyped DEF OwnersInv, TimesInOrder
  <2>2. ~Loses(xevents, at) /\ at + 1 \in Nat /\ at <= at + 1 /\ ~(at >= at + 1)
    BY <1>1 DEF OwnersInv, TimesInOrder
  <2>3. ~Loses(xevents, at + 1)
    BY <2>2, OwnersTyped, LosesSooner
  <2> QED
    BY <1>2, <1>3, <1>6, <2>1, <2>2, <2>3 DEF OwnersInv, TimesInOrder
<1>8. NoncesInOrder' /\ ClaimIsNew'
  BY <1>2 DEF OwnersInv, NoncesInOrder, ClaimIsNew
<1>9. OwnerIsUs'
  <2>1. offer # NULL => at >= offer.time
    BY <1>1, OwnersTyped DEF OwnersInv, TimesInOrder
  <2>2. offer # NULL => Loses(xevents', offer.time)
    BY <1>6, <2>1 DEF OwnersInv, OwnerIsUs
  <2> QED
    BY <1>2, <1>3, <2>2 DEF OwnersInv, OwnerIsUs
<1> QED
  BY <1>7, <1>8, <1>9 DEF OwnersInv

LEMMA DispatchOwners ==
  ASSUME TypeOK, TypeOK', OwnersInv, DispatchDataEvent
  PROVE  OwnersInv'
<1> DEFINE e == Head(events)
<1>1. /\ events # <<>> /\ events' = Tail(events)
      /\ UNCHANGED <<focus, nonces, offer, time, crashed, server, xevents>>
  BY DEF DispatchDataEvent, x11Vars, serverVars
<1>2. /\ e \in EventSet
      /\ \A n : Clears(events, n) <=> Clears(events', n) \/ (e.type = "CLEAR" /\ e.nonce = n)
  BY <1>1, EventTaken, OwnersTyped
<1>3. CASE e.type = "CLEAR" /\ UNCHANGED commands
           /\ clipboard' = IF clipboard[focus] = e.nonce THEN [clipboard EXCEPT ![focus] = 0] ELSE clipboard
  <2> HIDE DEF e
  <2>1. /\ \A n : Clears(events, n) <=> Clears(events', n) \/ n = e.nonce
        /\ \A w \in Editors : clipboard'[w] = IF w = focus /\ clipboard[focus] = e.nonce THEN 0 ELSE clipboard[w]
    BY <1>2, <1>3 DEF TypeOK
  <2>2. Claiming' <=> Claiming
    BY <1>3 DEF Claiming
  <2>3. TimesInOrder'
    BY <1>1, <2>2 DEF OwnersInv, TimesInOrder
  <2>4. NoncesInOrder'
    <3>1. \A w \in Editors : clipboard[w] <= nonces /\ (w # focus => clipboard[w] = 0)
      BY DEF OwnersInv, NoncesInOrder
    <3>2. \A w \in Editors : clipboard'[w] <= nonces' /\ (w # focus' => clipboard'[w] = 0)
      BY <1>1, <2>1, <3>1, OwnersTyped
    <3>3. offer' # NULL => offer'.nonce <= nonces' /\ ~Clears(events', offer'.nonce)
      BY <1>1, <2>1 DEF OwnersInv, NoncesInOrder
    <3>4. \A m \in Nonces : Clears(events', m) => m <= nonces'
      BY <1>1, <2>1 DEF OwnersInv, NoncesInOrder
    <3> QED
      BY <3>2, <3>3, <3>4 DEF NoncesInOrder
  <2>5. ClaimIsNew'
    BY <1>1, <1>3, <2>1, OwnersTyped DEF OwnersInv, ClaimIsNew
  <2>6. OwnerIsUs'
    BY <1>1, <1>3, <2>1, <2>2, OwnersTyped DEF OwnersInv, OwnerIsUs, NoncesInOrder
  <2> QED
    BY <2>3, <2>4, <2>5, <2>6 DEF OwnersInv
<1>4. CASE e.type = "DATA" /\ UNCHANGED <<clipboard, commands>>
  <2>1. \A n : Clears(events', n) <=> Clears(events, n)
    BY <1>2, <1>4
  <2> QED
    BY <1>1, <1>4, <2>1, OwnersElsewhere DEF OwnersInv, ClaimIsNew
<1>5. CASE e.type = "REQUEST" /\ ProvideContent(e.id, clipboard[focus] = e.nonce) /\ UNCHANGED clipboard
  <2> DEFINE c == [type |-> "PROVIDE", id |-> e.id, data |-> (clipboard[focus] = e.nonce)]
  <2>1. \A n : Clears(events', n) <=> Clears(events, n)
    BY <1>2, <1>5
  <2>2. c \in CommandSet /\ c.type = "PROVIDE"
    <3>1. (clipboard[focus] = e.nonce) \in BOOLEAN /\ e.id \in Nat
      BY <1>2, <1>5 DEF EventSet
    <3> QED
      BY <3>1 DEF CommandSet
  <2>3. commands' = Append(commands, c)
    BY <1>5 DEF ProvideContent
  <2> HIDE DEF c
  <2>4. (\A n, t : Claims(commands', n, t) <=> Claims(commands, n, t)) /\ OneClaim(commands')
    BY <2>2, <2>3, CommandAdded, OwnersTyped DEF OwnersInv, ClaimIsNew
  <2> QED
    BY <1>1, <1>5, <2>1, <2>4, OwnersElsewhere
<1> QED
  BY <1>3, <1>4, <1>5 DEF DispatchDataEvent

LEMMA OwnersStep ==
  ASSUME ~FocusMoves, ~ClaimsRace, TypeOK, TypeOK', OwnersInv, [Next]_vars
  PROVE  OwnersInv'
<1> USE DEF uiVars, x11Vars, serverVars
<1>1. OneClaim(commands)
  BY DEF OwnersInv, ClaimIsNew
<1>2. CASE Copy
  BY <1>2, CopyOwners
<1>3. CASE CopyNothing
  BY <1>3, CopyNothingOwners
<1>4. CASE Paste
  BY <1>4, PasteOwners
<1>5. CASE DispatchDataEvent
  BY <1>5, DispatchOwners
<1>6. CASE \E w \in Editors : MoveFocus(w)
  BY <1>6 DEF MoveFocus
<1>7. CASE Owner
  BY <1>7, OwnerOwners
<1>8. CASE Content
  <2>1. /\ commands # <<>> /\ Head(commands).type = "CONTENT" /\ commands' = Tail(commands)
        /\ RequestSelection(xevents, Head(commands).nonce, 0)
        /\ UNCHANGED <<focus, clipboard, offer, time, crashed, nonces>>
    BY <1>8 DEF Content, Command
  <2>2. Head(commands) \in CommandSet
    BY <2>1, CommandTaken, OwnersTyped
  <2>3. Head(commands).nonce \in Nonces
    BY <2>1, <2>2 DEF CommandSet
  <2>4. (\A n, t : Claims(commands', n, t) <=> Claims(commands, n, t)) /\ OneClaim(commands')
    BY <1>1, <2>1, CommandTaken, OwnersTyped
  <2>5. /\ \A at : Loses(xevents', at) <=> Loses(xevents, at)
        /\ \A m : Clears(events', m) <=> Clears(events, m)
        /\ server'.owner = server.owner /\ server'.since = server.since /\ server'.clock = server.clock
    BY <2>1, <2>3, SelectionElsewhere, OwnersTyped
  <2> QED
    BY <2>1, <2>4, <2>5, OwnersElsewhere
<1>9. CASE Provide
  <2>1. PICK r \in requests : Notify(r, IF Head(commands).data THEN "data" ELSE "none")
    BY <1>9 DEF Provide
  <2>2. /\ commands # <<>> /\ Head(commands).type = "PROVIDE" /\ commands' = Tail(commands)
        /\ UNCHANGED <<focus, clipboard, offer, time, crashed, nonces, events, server>>
    BY <1>9 DEF Provide, Command
  <2>3. (\A n, t : Claims(commands', n, t) <=> Claims(commands, n, t)) /\ OneClaim(commands')
    BY <1>1, <2>2, CommandTaken, OwnersTyped
  <2>4. \A at : Loses(xevents', at) <=> Loses(xevents, at)
    BY <2>1, NotifiedLoses, OwnersTyped DEF TypeOK
  <2> QED
    BY <2>2, <2>3, <2>4, OwnersElsewhere
<1>10. CASE SelectionRequest
  <2> DEFINE r == Head(xevents)
  <2>1. /\ xevents # <<>> /\ r.type = "REQUEST"
        /\ UNCHANGED <<focus, clipboard, offer, time, crashed, nonces, commands, server>>
    BY <1>10 DEF SelectionRequest, XEvent
  <2>2. XEventLess(xevents, Tail(xevents), r)
    BY <2>1, XEventTaken, OwnersTyped
  <2>3. r \in Request
    BY <2>1, <2>2 DEF XEventLess, XEventSet
  <2>4. CASE offer # NULL /\ r.time >= offer.time
    <3> DEFINE e == [type |-> "REQUEST", nonce |-> offer.nonce, id |-> r.id]
    <3>1. xevents' = Tail(xevents) /\ events' = Append(events, e)
      BY <1>10, <2>4 DEF SelectionRequest
    <3>2. e \in EventSet /\ e.type = "REQUEST"
      BY <2>3, <2>4, OwnersTyped DEF EventSet, Request
    <3> HIDE DEF e
    <3>3. \A n : Clears(events', n) <=> Clears(events, n)
      BY <3>1, <3>2, EventAdded, OwnersTyped
    <3>4. \A at : Loses(xevents', at) <=> Loses(xevents, at)
      BY <2>1, <2>2, <3>1 DEF XEventLess
    <3> QED
      BY <1>1, <2>1, <3>3, <3>4, OwnersElsewhere
  <2>5. CASE Notify(r, "none") /\ UNCHANGED events
    <3>1. \A at : Loses(xevents', at) <=> Loses(xevents, at)
      BY <2>3, <2>5, NotifiedLoses
    <3> QED
      BY <1>1, <2>1, <2>5, <3>1, OwnersElsewhere
  <2> QED
    BY <1>10, <2>4, <2>5 DEF SelectionRequest
<1>11. CASE SelectionClear
  BY <1>11, SelectionClearOwners
<1>12. CASE ReceiveSelection
  <2> DEFINE q == Tail(xevents)
  <2>1. /\ q \in Seq(XEventSet) /\ \A at : Loses(q, at) <=> Loses(xevents, at)
        /\ UNCHANGED <<focus, clipboard, offer, time, crashed, nonces, commands>>
    BY <1>12, RestOfQueue DEF ReceiveSelection, XEvent, SameXEvents
  <2>2. isel # NULL => isel.nonce \in Nonces
    BY DEF TypeOK, Inquiries
  <2>3. \/ isel # NULL /\ RequestSelection(q, isel.nonce, isel.failed + 1)
        \/ /\ xevents' = q /\ UNCHANGED server
           /\ UNCHANGED events \/ (isel # NULL /\ Data(isel.nonce))
    BY <1>12 DEF ReceiveSelection
  <2> HIDE DEF q
  <2>4. CASE isel # NULL /\ RequestSelection(q, isel.nonce, isel.failed + 1)
    <3>1. /\ \A at : Loses(xevents', at) <=> Loses(xevents, at)
          /\ \A m : Clears(events', m) <=> Clears(events, m)
          /\ server'.owner = server.owner /\ server'.since = server.since /\ server'.clock = server.clock
      BY <2>1, <2>2, <2>4, SelectionElsewhere
    <3> QED
      BY <1>1, <2>1, <3>1, OwnersElsewhere
  <2>5. CASE /\ xevents' = q /\ UNCHANGED server
             /\ UNCHANGED events \/ (isel # NULL /\ Data(isel.nonce))
    <3>1. \A m : Clears(events', m) <=> Clears(events, m)
      BY <2>2, <2>5, DataClears
    <3> QED
      BY <1>1, <2>1, <2>5, <3>1, OwnersElsewhere
  <2> QED
    BY <2>3, <2>4, <2>5
<1>13. CASE Timeout
  <2>1. isel.nonce \in Nonces /\ Data(isel.nonce)
    BY <1>13 DEF Timeout, TypeOK, Inquiries
  <2>2. \A m : Clears(events', m) <=> Clears(events, m)
    BY <2>1, DataClears
  <2> QED
    BY <1>1, <1>13, <2>2, OwnersElsewhere DEF Timeout
<1>14. CASE OtherClaims
  BY <1>14, OtherClaimsOwners
<1>15. CASE OtherPastes
  <2> DEFINE e == [type |-> "REQUEST", id |-> server'.ids, time |-> server'.clock, self |-> FALSE]
  <2>1. /\ UNCHANGED <<focus, clipboard, offer, time, crashed, nonces, commands, events>>
        /\ server'.owner = server.owner /\ server'.since = server.since /\ server'.clock = server.clock + 1
        /\ server'.ids \in Nat /\ server'.clock \in Nat
    BY <1>15, ServerTyped DEF OtherPastes, Servers
  <2>2. e \in XEventSet /\ e.type = "REQUEST"
    BY <2>1 DEF XEventSet, Request
  <2>3. xevents' = Append(xevents, e)
    BY <1>15 DEF OtherPastes
  <2> HIDE DEF e
  <2>4. \A at : Loses(xevents', at) <=> Loses(xevents, at)
    BY <2>2, <2>3, XEventAdded, OwnersTyped DEF XEventMore
  <2> QED
    BY <1>1, <2>1, <2>4, OwnersElsewhere
<1>16. ASSUME NEW at \in converts, NEW property \in {"data", "incr", "none"}, OtherAnswers(at, property)
       PROVE  OwnersInv'
  BY <1>1, <1>16, AnswersEffect, OwnersElsewhere DEF OtherAnswers, SameXEvents
<1>17. CASE UNCHANGED vars
  BY <1>1, <1>17, OwnersElsewhere DEF vars
<1> QED
  BY <1>2, <1>3, <1>4, <1>5, <1>6, <1>7, <1>8, <1>9, <1>10, <1>11, <1>12, <1>13, <1>14, <1>15, <1>16, <1>17
     DEF Next

-----------------------------------------------------------------------------
(* What the invariants say of requests and of the owner.                     *)

LEMMA AtMostOne ==
  ASSUME NEW S, \A a, b \in S : a = b
  PROVE  Cardinality(S) = IF S = {} THEN 0 ELSE 1
<1>1. CASE S = {}
  BY <1>1, FS_EmptySet
<1>2. CASE S # {}
  <2>1. PICK a : S = {a}
    BY <1>2
  <2> QED
    BY <1>2, <2>1, FS_Singleton
<1> QED
  BY <1>1, <1>2

LEMMA PastesHeld == AnswersInv => PastesAnsweredOnce
<1> SUFFICES ASSUME AnswersInv, NEW n \in 1 .. nonces, (\E w \in Editors : paste[w] = n) \/ answers[n] > 0
             PROVE  answers[n] + Cardinality(Asked(n)) + (IF Waits(n) THEN 1 ELSE 0) = 1
  BY DEF PastesAnsweredOnce
<1> USE DEF AnswersInv
<1>1. n \in Nonces /\ n \in Nat /\ n # 0
  BY Numbers DEF TypeOK, Nonces
<1>2. Cardinality(Asked(n)) = IF Asks(commands, n) THEN 1 ELSE 0
  <2>1. Asks(commands, n) <=> Asked(n) # {}
    BY DEF Asks, Asked
  <2>2. ASSUME NEW j \in Asked(n), NEW k \in Asked(n) PROVE j = k
    <3>1. j \in DOMAIN commands /\ k \in DOMAIN commands /\ j \in Nat /\ k \in Nat
      BY OwnersTyped DEF Asked
    <3>2. ~(j < k) /\ ~(k < j)
      BY <1>1, <3>1 DEF Asked, PastesInOrder, Ascends
    <3> QED
      BY <3>1, <3>2
  <2> QED
    BY <2>1, <2>2, AtMostOne
<1>3. Waits(n) => ~Asks(commands, n)
  BY <1>1 DEF PastesInOrder, Waits
<1>4. answers[n] \in {0, 1}
  BY <1>1 DEF PastesInOrder
<1>5. CASE answers[n] = 1
  <2>1. ~Asks(commands, n) /\ ~Waits(n)
    BY <1>1, <1>5 DEF PastesInOrder, Open, Waits
  <2> QED
    BY <1>2, <1>5, <2>1
<1>6. CASE answers[n] = 0
  <2>1. Waits(n) \/ Asks(commands, n)
    BY <1>1, <1>6 DEF PastesInOrder
  <2> QED
    BY <1>2, <1>3, <1>6, <2>1
<1> QED
  BY <1>4, <1>5, <1>6

LEMMA RequestsHeld == AnswersInv => RequestsRepliedOnce
<1> SUFFICES ASSUME AnswersInv, NEW id \in 1 .. server.ids
             PROVE  replies[id] + Cardinality(Held(id)) + Cardinality(Arriving(id)) = 1
  BY DEF RequestsRepliedOnce
<1> USE DEF AnswersInv
<1>1. id \in Ids /\ id <= server.ids
  <2>1. server.ids <= foreign + Targets * nonces /\ nonces \in 0 .. MaxNonce /\ foreign \in 0 .. MaxForeign
    BY DEF TypeOK, ConvertsBound
  <2>2. server.ids \in Nat
    BY ServerTyped
  <2>3. \A i \in 1 .. server.ids : i \in Ids
    BY <2>1, <2>2, IdsFit
  <2> QED
    BY <2>2, <2>3
<1>2. Cardinality(Held(id)) = IF \E r \in requests : r.id = id THEN 1 ELSE 0
  <2>1. (\E r \in requests : r.id = id) <=> Held(id) # {}
    BY DEF Held
  <2>2. \A r, q \in Held(id) : r = q
    BY DEF Held, RequestsInPlace
  <2> QED
    BY <2>1, <2>2, AtMostOne
<1>3. Cardinality(Arriving(id)) = IF Carries(xevents, id) THEN 1 ELSE 0
  <2>1. Carries(xevents, id) <=> Arriving(id) # {}
    BY DEF Carries, Arriving
  <2>2. \A j, k \in Arriving(id) : j = k
    BY DEF Arriving, RequestsInPlace, CarriesOnce
  <2> QED
    BY <2>1, <2>2, AtMostOne
<1>4. (\E r \in requests : r.id = id) => ~Carries(xevents, id) /\ replies[id] = 0
  BY DEF RequestsInPlace, Unreplied
<1>5. Carries(xevents, id) => replies[id] = 0
  BY DEF RequestsInPlace, Unreplied, Carries
<1>6. /\ replies[id] \in {0, 1}
      /\ replies[id] = 1 \/ Carries(xevents, id) \/ \E r \in requests : r.id = id
  BY <1>1 DEF RequestsInPlace
<1> QED
  BY <1>2, <1>3, <1>4, <1>5, <1>6

LEMMA OwnersHeld == TypeOK /\ OwnersInv => OwnersKnow
<1> SUFFICES ASSUME TypeOK, OwnersInv, Quiet
             PROVE  /\ \A w \in Editors : clipboard[w] # 0 => offer # NULL /\ offer.nonce = clipboard[w]
                    /\ offer # NULL <=> server.owner = "us"
                    /\ offer # NULL => \E w \in Editors : clipboard[w] = offer.nonce
  BY DEF OwnersKnow
<1>1. ~Claiming /\ (\A n : ~Clears(events, n)) /\ \A at : ~Loses(xevents, at)
  BY DEF Quiet, Claiming, Claims, Clears, Loses
<1>2. focus \in Editors /\ \A w \in Editors : clipboard[w] # 0 => w = focus
  BY OwnersTyped DEF OwnersInv, NoncesInOrder
<1>3. offer # NULL <=> server.owner = "us"
  BY <1>1 DEF OwnersInv, OwnerIsUs
<1>4. /\ clipboard[focus] # 0 => offer # NULL /\ offer.nonce = clipboard[focus]
      /\ offer # NULL => clipboard[focus] = offer.nonce
  BY <1>1 DEF OwnersInv, OwnerIsUs
<1> QED
  BY <1>2, <1>3, <1>4

(* The state of both sides keeps its types, contents are asked for in their  *)
(* order, and every request of the server is in one place.                   *)
THEOREM AnswersAreKept == Spec => []AnswersInv
<1>1. Init => AnswersInv
  BY TypeInit, PastesInit, RequestsInit DEF AnswersInv
<1>2. AnswersInv /\ [Next]_vars => AnswersInv'
  <2> SUFFICES ASSUME AnswersInv, [Next]_vars PROVE AnswersInv'
    OBVIOUS
  <2>1. TypeOK /\ PastesInOrder /\ ConvertsBound /\ RequestsInPlace
    BY DEF AnswersInv
  <2>2. TypeOK'
    BY <2>1, TypeStep
  <2>3. PastesInOrder' /\ ConvertsBound'
    BY <2>1, <2>2, PastesStep
  <2>4. RequestsInPlace'
    BY <2>1, <2>2, <2>3, RequestsStep
  <2> QED
    BY <2>2, <2>3, <2>4 DEF AnswersInv
<1> QED
  BY <1>1, <1>2, PTL DEF Spec

(* A widget that asked for the clipboard is answered once, whatever other    *)
(* clients, timeouts and the focus do meanwhile.                             *)
THEOREM PastesAreAnsweredOnce == Spec => []PastesAnsweredOnce
  BY AnswersAreKept, PastesHeld, PTL

(* What the server asks us for is replied to once.                           *)
THEOREM RequestsAreRepliedOnce == Spec => []RequestsRepliedOnce
  BY AnswersAreKept, RequestsHeld, PTL

(* As long as the focus stays where it is and claims do not race, the widget *)
(* that believes to own the clipboard does, and the other way round; and     *)
(* requests are answered once in both directions.                            *)
THEOREM ClipboardIsAlwaysAnswered ==
  ~FocusMoves /\ ~ClaimsRace => (Spec => []ClipboardIsAnswered)
<1> SUFFICES ASSUME ~FocusMoves, ~ClaimsRace PROVE Spec => []ClipboardIsAnswered
  OBVIOUS
<1>1. Init => OwnersInv
  BY OwnersInit
<1>2. AnswersInv /\ AnswersInv' /\ OwnersInv /\ [Next]_vars => OwnersInv'
  BY OwnersStep DEF AnswersInv
<1>3. AnswersInv /\ OwnersInv => ClipboardIsAnswered
  BY PastesHeld, RequestsHeld, OwnersHeld DEF AnswersInv, ClipboardIsAnswered
<1> QED
  BY <1>1, <1>2, <1>3, AnswersAreKept, PTL DEF Spec
=============================================================================
