----------------------------- MODULE CrossLinks -----------------------------
(* Cross links: a container keeps links between two of its descendants, and  *)
(* calls an owner back when a link breaks because one of the two widgets is  *)
(* removed (ui/container.cc).  Callbacks run in the middle of a search, and  *)
(* may link, unlink and uncross themselves.                                  *)
(*                                                                           *)
(* A link is known by its address, which is used again once it is free.      *)
(* Callbacks do not remove a widget that is already being removed.           *)
EXTENDS Naturals, Sequences, FiniteSets, SequencesExt

CONSTANTS Widgets,      \* the descendants of the container
          Inside,       \* pairs <<w, a>>: w is a or inside of a
          Addresses,
          Callbacks,    \* bound of nested callbacks
          MaxCreated,   \* bound of links made
          NULL

Link == [at : Addresses, owner : Widgets, link : Widgets, n : Nat]

ASSUME CrossLinksAssumption ==
  /\ \A w \in Widgets : <<w, w>> \in Inside
  /\ Callbacks \in Nat /\ MaxCreated \in Nat /\ NULL \notin Link

VARIABLES links,     \* CrossLinks::links, the first one is the newest
          stack,     \* calls that search, the innermost last; with `clink', the link
                     \* whose callback they are in, and its mutable_container
          created,   \* bound of what the program links
          owned,     \* history: the links the program has neither unlinked nor lost
          told,      \* history: links whose callback ran
          thrown     \* "no cross link ... to remove"
linkVars == <<links, stack, created, owned, told, thrown>>

(* Two descendants of which the container is the nearest common ancestor.    *)
Linkable(owner, link) == <<owner, link>> \notin Inside /\ <<link, owner>> \notin Inside

LinksInit == /\ links = <<>> /\ stack = <<>> /\ created = 0
        /\ owned = {} /\ told = {} /\ thrown = FALSE

InProgress == {stack[i].clink : i \in DOMAIN stack} \ {NULL}
InUse == {l.at : l \in ToSet(links) \union InProgress}

(* The program's code: at the top, or in the callback of the innermost call. *)
Running == ~thrown /\ (stack # <<>> => Last(stack).clink # NULL)

WidgetCrossLink(owner, link) ==
  /\ Running /\ created < MaxCreated /\ Linkable(owner, link)
  /\ \E at \in Addresses \ InUse :
       LET new == [at |-> at, owner |-> owner, link |-> link, n |-> created + 1]
       IN links' = <<new>> \o links /\ owned' = owned \union {new}
  /\ created' = created + 1
  /\ UNCHANGED <<stack, told, thrown>>

(* A link that is being uncrossed is only marked; another one is taken out.  *)
Marked(l) ==
  LET named == {i \in DOMAIN stack :
        /\ stack[i].clink # NULL /\ stack[i].mutable
        /\ stack[i].clink.at = l.at /\ stack[i].clink.owner = l.owner /\ stack[i].clink.link = l.link}
  IN IF named = {} THEN 0 ELSE CHOOSE i \in named : \A j \in named : j <= i
Position(l) == SelectInSeq(links, LAMBDA x : x.at = l.at /\ x.owner = l.owner /\ x.link = l.link)

WidgetCrossUnlink(l) ==
  /\ Running /\ l \in owned
  /\ CASE Marked(l) # 0 -> /\ stack' = [stack EXCEPT ![Marked(l)].mutable = FALSE]
                           /\ UNCHANGED <<links, thrown>>
       [] Marked(l) = 0 /\ Position(l) # 0 -> /\ links' = RemoveAt(links, Position(l))
                                              /\ UNCHANGED <<stack, thrown>>
       [] OTHER -> thrown' = TRUE /\ UNCHANGED <<links, stack>>
  /\ owned' = owned \ {l}
  /\ UNCHANGED <<created, told>>

-----------------------------------------------------------------------------
(* Which links a call breaks: widget_uncross_links() those of a pair,        *)
(* uncross_descendant() those of a widget and of all that is inside of it,   *)
(* the destruction of the container's data all.                              *)
Breaks(call, l) ==
  CASE call.kind = "pair" -> l.owner = call.owner /\ l.link = call.link
    [] call.kind = "descendant" ->
         <<l.owner, call.widget>> \in Inside \/ <<l.link, call.widget>> \in Inside
    [] OTHER -> TRUE

Calls == [kind : {"pair"}, owner : Widgets, link : Widgets]
           \union [kind : {"descendant"}, widget : Widgets] \union {[kind |-> "destroy"]}
Enter(call) ==
  /\ Running /\ Len(stack) < Callbacks
  /\ call.kind = "pair" => Linkable(call.owner, call.link)
  /\ call.kind = "destroy" => stack = <<>>
  /\ call.kind = "descendant" => \A i \in DOMAIN stack : stack[i].call.kind # "descendant"
  /\ stack' = Append(stack, [call |-> call, clink |-> NULL, mutable |-> FALSE])
  /\ UNCHANGED <<links, created, owned, told, thrown>>

Searching == ~thrown /\ stack # <<>> /\ Last(stack).clink = NULL

(* container_uncross_link_R(): first the link leaves the list, then the      *)
(* callback runs, recorded on uncross_callback_stack.                        *)
Notify(l) ==
  /\ stack' = [stack EXCEPT ![Len(stack)].clink = l, ![Len(stack)].mutable = TRUE]
  /\ told' = told \union {l}
  /\ UNCHANGED <<created, owned, thrown>>
UncrossAfter ==                       \* mutant: the link leaves the list after the callback
  LET n == SelectInSeq(links, LAMBDA l : Breaks(Last(stack).call, l))
  IN Searching /\ n # 0 /\ Notify(links[n]) /\ UNCHANGED links
Uncross ==
  LET n == SelectInSeq(links, LAMBDA l : Breaks(Last(stack).call, l))
  IN Searching /\ n # 0 /\ Notify(links[n]) /\ links' = RemoveAt(links, n)

(* The callback returns, the link is deleted, and the search starts again.   *)
CallbackReturns ==
  /\ Running /\ stack # <<>>
  /\ owned' = owned \ {Last(stack).clink}
  /\ stack' = [stack EXCEPT ![Len(stack)].clink = NULL, ![Len(stack)].mutable = FALSE]
  /\ UNCHANGED <<links, created, told, thrown>>

(* Nothing is left to break.                                                 *)
Return ==
  /\ Searching /\ \A l \in ToSet(links) : ~Breaks(Last(stack).call, l)
  /\ stack' = Front(stack)
  /\ UNCHANGED <<links, created, owned, told, thrown>>

LinksNext == \/ \E o, l \in Widgets : WidgetCrossLink(o, l)
        \/ \E l \in owned : WidgetCrossUnlink(l)
        \/ \E c \in Calls : Enter(c)
        \/ Uncross \/ CallbackReturns \/ Return
LinksSpec == LinksInit /\ [][LinksNext]_linkVars

-----------------------------------------------------------------------------
(* A program that unlinks what it linked, once, and not after it was told,   *)
(* never gets the exception of widget_cross_unlink(), also when it does so   *)
(* in the callback itself (as uncross_focus() does) or in a nested one.      *)
UnlinkingIsSafe == ~thrown

(* Every link in the list belongs to an owner who relies on it, and a link   *)
(* an owner relies on is in the list or being uncrossed right now; nobody is *)
(* told of a link twice, or of one that is still there.                      *)
LinksAreKept ==
  /\ UnlinkingIsSafe
  /\ ToSet(links) \subseteq owned
  /\ owned \subseteq ToSet(links) \union InProgress
  /\ told \intersect ToSet(links) = {}
  /\ \A i, j \in DOMAIN stack : i # j /\ stack[i].clink # NULL => stack[i].clink # stack[j].clink
-----------------------------------------------------------------------------
(* What makes LinksAreKept inductive.                                        *)

Frame == [call : Calls, clink : Link \cup {NULL}, mutable : BOOLEAN]

LinksTypeOK ==
  /\ links \in Seq(Link) /\ stack \in Seq(Frame)
  /\ created \in Nat /\ owned \subseteq Link /\ told \subseteq Link
  /\ thrown = FALSE

\* No two links share an address, also while the callback of one runs.
AddressesDiffer ==
  /\ IsInjective(links) /\ ToSet(links) \intersect InProgress = {}
  /\ \A k, l \in ToSet(links) \union InProgress : k.at = l.at => k = l
  /\ \A i, j \in DOMAIN stack : stack[i].clink # NULL /\ stack[i].clink = stack[j].clink => i = j

(* A call remembers by `mutable' whether the owner still relies on the link  *)
(* whose callback it is in.                                                  *)
OwnersRely ==
  /\ ToSet(links) \subseteq owned
  /\ owned \subseteq ToSet(links) \union InProgress
  /\ \A i \in DOMAIN stack :
       stack[i].clink # NULL => (stack[i].mutable <=> stack[i].clink \in owned)

\* A new link is not one that an owner was told of before.
ToldOnce ==
  /\ told \intersect ToSet(links) = {}
  /\ \A l \in owned \union told : l.n <= created

LinksInv == LinksTypeOK /\ AddressesDiffer /\ OwnersRely /\ ToldOnce
=============================================================================
