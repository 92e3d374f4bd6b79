---------------------------- MODULE LinkSession ----------------------------
(***************************************************************************)
(* A Junction v2 session (junction-v2/session.ts): the host, which owns    *)
(* the turn state of Turns, relays audio and broadcasts every change; the  *)
(* guests, which show what they were sent and ask; the ordered channels    *)
(* between them; and the program the host's I/O worker splices together    *)
(* (core/program.ts).                                                      *)
(***************************************************************************)
EXTENDS Turns

CONSTANTS MaxLinks,     \* capture slots for guests (SLOTS - 1)
          MaxDown,      \* bound: messages on their way to the guests; send
                        \* refuses one only behind 256 KB of them
          MaxUp,        \* bound: messages on their way from a guest
          MaxHandoffs,  \* bound: handoffs
          MaxEdits      \* bound: other changes of the turn state at a time,
                        \* the three that a guest's joining takes left out

ASSUME LinkAssumption ==
  /\ MaxLinks \in Nat /\ MaxDown \in Nat /\ MaxUp \in Nat \ {0}
  /\ MaxHandoffs \in Nat /\ MaxEdits \in Nat

(* A session invites finitely many guests.                                 *)
ASSUME FinitelyMany == IsFiniteSet(Participants)

Guests == Participants \ {Host}

VARIABLES
  state,     \* the host's turn state
  link,      \* link[g]: none, invited, linked (ICE connected), up (channel
             \* open), lost (ICE disconnected), gone (removed)
  named,     \* guests whose first hello has been handled
  feed,      \* feed[p]: whose uplink reaches p's J deck
  uplink,    \* uplink[p]: what p's engine sends
  view,      \* view[g]: the turn state guest g has; revision 0 is none
  welcomed,  \* guests that know their own identifier
  down, up,  \* messages to and from each guest
  watch,     \* the ReleaseWatch
  program    \* the program assembler

vars == <<state, link, named, feed, uplink, view, welcomed, down, up, watch, program>>

NoView == [EmptySession(FALSE) EXCEPT !.revision = 0]

Linked == {g \in Guests : link[g] \in {"invited", "linked", "up", "lost"}}
Open(links) == {g \in Guests : links[g] \in {"up", "lost"}}

-----------------------------------------------------------------------------
(* The program: `source` is heard, `splice` is where a splice under way    *)
(* leads, `fading` is the fade-out to silence.                             *)
Silent == [source |-> NoOne, splice |-> NoOne, fading |-> FALSE]
Playing(p) == [Silent EXCEPT !.source = p]

Spliced(pg) ==
    IF pg.splice = NoOne THEN pg
    ELSE [pg EXCEPT !.source = pg.splice, !.splice = NoOne]

HandedOver(pg, to) ==
    IF pg.source = NoOne \/ pg.fading THEN Playing(to)
    ELSE IF pg.source = to THEN pg
    ELSE [Spliced(pg) EXCEPT !.splice = to]

FadedOut(pg) == [pg EXCEPT !.splice = NoOne, !.fading = pg.source # NoOne]

Directed(pg, old, new) ==
    IF new = old THEN pg ELSE IF new = NoOne THEN FadedOut(pg) ELSE HandedOver(pg, new)

-----------------------------------------------------------------------------
(* When the DJ on air has faded the previous one out: their tail was heard *)
(* in this handoff (a change of handoffs or previous starts anew), and     *)
(* silent for as long as silentMs.  A set of pairs: the watch after a      *)
(* report, and whether to release; the clock is free.                      *)
Unheard == [heard |-> FALSE, silent |-> FALSE]
Watching(s) ==
    IF s.handoffs = state.handoffs /\ s.previous = state.previous THEN watch ELSE Unheard

Observations(audible) ==
    IF state.previous = NoOne THEN {<<watch, FALSE>>}
    ELSE IF audible THEN {<<[heard |-> TRUE, silent |-> FALSE], FALSE>>}
    ELSE IF ~watch.heard THEN {<<watch, FALSE>>}
    ELSE IF ~watch.silent THEN {<<[watch EXCEPT !.silent = TRUE], FALSE>>}
    ELSE {watch} \X BOOLEAN

-----------------------------------------------------------------------------
Within(s, names, queues) ==
    /\ s.handoffs <= MaxHandoffs
    /\ s.revision - s.handoffs <= MaxEdits + 3 * Cardinality(names)
    /\ \A g \in Guests : Len(queues[g]) <= MaxDown

Routed(s, links) ==
    [p \in Participants |->
       IF p = Host \/ links[p] \in {"invited", "linked", "up", "lost"}
       THEN FeedFor(s, p) ELSE NoOne]

Broadcast(s, links) ==
    [g \in Guests |->
       IF g \in Open(links) THEN Append(down[g], [welcome |-> FALSE, state |-> s])
       ELSE down[g]]

(* Every change of the turn state: the host's engine, every J feed and the *)
(* program follow it, and `queues` tell the guests.                        *)
Become(s, links, names, queues) ==
    /\ Within(s, names, queues)
    /\ state' = s /\ link' = links /\ named' = names /\ down' = queues
    /\ uplink' = [uplink EXCEPT ![Host] = UplinkFor(s, Host)]
    /\ feed' = Routed(s, links)
    /\ program' = Directed(program, state.onAir, s.onAir)
    /\ watch' = Watching(s)

Change(s, links) ==
    IF s = state
    THEN /\ link' = links
         /\ UNCHANGED <<state, named, feed, uplink, program, down, watch>>
    ELSE Become(s, links, named, Broadcast(s, links))

Init ==
    /\ state \in {EmptySession(TRUE), EmptySession(FALSE)}
    /\ link = [g \in Guests |-> "none"]
    /\ named = {} /\ welcomed = {}
    /\ feed = [p \in Participants |-> NoOne]
    /\ uplink = [p \in Participants |-> IF p = Host THEN UplinkFor(state, Host) ELSE "local"]
    /\ view = [g \in Guests |-> NoView]
    /\ down = [g \in Guests |-> << >>] /\ up = [g \in Guests |-> << >>]
    /\ watch = Unheard
    /\ program = Silent

-----------------------------------------------------------------------------
(* The host's own controls.                                                *)
HostChange(s) ==
    /\ Change(s, link)
    /\ UNCHANGED <<view, welcomed, up>>

HostNext == CanAdvance(state, Host) /\ HostChange(Advanced(state))
HostRelease == state.previous # NoOne /\ HostChange(Released(state))
HostStop == state.onAir # NoOne /\ HostChange(Stopped(state))

HostPick(p) ==
    /\ p \in Members(state.order) /\ RoleOf(state, p) \notin {"onAir", "next"}
    /\ HostChange(Picked(state, p))

HostPlays(plays) ==
    /\ plays = (Host \notin Members(state.order))
    /\ HostChange(Reordered(state, IF plays THEN <<Host>> \o state.order
                                    ELSE Without(state.order, Host)))

Swapped(seq, k) == [seq EXCEPT ![k] = seq[k + 1], ![k + 1] = seq[k]]
HostMoves ==
    \E k \in 1 .. Len(state.order) - 1 :
      HostChange(Reordered(state, Swapped(state.order, k)))

Observe(w) ==
    IF w[2] THEN Change(Released(state), link)
    ELSE /\ watch' = w[1]
         /\ UNCHANGED <<state, link, named, feed, uplink, program, down>>

HostListens ==
    /\ state.onAir = Host
    /\ \E audible \in BOOLEAN : \E w \in Observations(audible) : Observe(w)
    /\ UNCHANGED <<view, welcomed, up>>

(* A guest's link, from its invitation to its removal.  An identifier is   *)
(* never used again.                                                       *)
Invite(g) ==
    /\ link[g] = "none" /\ Cardinality(Linked) < MaxLinks
    /\ Change(Joined(state, g, FALSE, FALSE), [link EXCEPT ![g] = "invited"])
    /\ UNCHANGED <<view, welcomed, up>>

Connect(g) ==
    /\ link[g] \in {"invited", "lost"}
    /\ Change(Connected(state, g, TRUE),
              [link EXCEPT ![g] = IF @ = "invited" THEN "linked" ELSE "up"])
    /\ UNCHANGED <<view, welcomed, up>>

OpenChannel(g) ==
    /\ link[g] = "linked"
    /\ link' = [link EXCEPT ![g] = "up"]
    /\ up' = [up EXCEPT ![g] = <<[ask |-> "hello"]>>]
    /\ UNCHANGED <<state, named, feed, uplink, view, welcomed, down, watch, program>>

Disconnect(g) ==
    /\ link[g] = "up"
    /\ Change(Connected(state, g, FALSE), [link EXCEPT ![g] = "lost"])
    /\ UNCHANGED <<view, welcomed, up>>

Remove(g) ==
    /\ g \in Linked
    /\ LET links == [link EXCEPT ![g] = "gone"]
           s == Removed(state, g)
       IN  Become(s, links, named, [Broadcast(s, links) EXCEPT ![g] = << >>])
    /\ up' = [up EXCEPT ![g] = << >>]
    /\ UNCHANGED <<view, welcomed>>

-----------------------------------------------------------------------------
(* What a guest asks.  Its view decides which buttons it is shown.         *)
Ask(g, message) ==
    /\ g \in Open(link) /\ Len(up[g]) < MaxUp
    /\ up' = [up EXCEPT ![g] = Append(@, message)]
    /\ UNCHANGED <<state, link, named, feed, uplink, view, welcomed, down,
                   watch, program>>

PressNext(g) ==
    g \in welcomed /\ CanAdvance(view[g], g) /\ Ask(g, [ask |-> "next"])
PressRelease(g) ==
    /\ g \in welcomed /\ view[g].previous # NoOne /\ view[g].onAir = g
    /\ Ask(g, [ask |-> "releasePrevious"])
PressPick(g, p) ==
    /\ g \in welcomed /\ p \in Members(view[g].order)
    /\ RoleOf(view[g], p) \notin {"onAir", "next"} /\ view[g].onAir = g
    /\ Ask(g, [ask |-> "setNext", target |-> p])
(* Sent every second by every guest; only what comes of those of the DJ on *)
(* air and of the next one can matter when it arrives.                     *)
Report(g, audible) ==
    /\ RoleOf(view[g], g) \in {"onAir", "next"}
    /\ Ask(g, [ask |-> "report", audible |-> audible])

(* What the host does with it.                                             *)
Asked(g, kind) == link[g] = "up" /\ up[g] # << >> /\ Head(up[g]).ask = kind
Taken(g) == up' = [up EXCEPT ![g] = Tail(@)]

Hello(g) ==
    LET s == Joined(state, g, TRUE, g \notin named)
        welcome == [welcome |-> TRUE, state |-> s]
    IN  /\ Asked(g, "hello") /\ Taken(g)
        /\ Become(s, link, named \cup {g},
                  [Broadcast(s, link) EXCEPT ![g] = Append(@, welcome)])
        /\ UNCHANGED <<view, welcomed>>

Granted(g) ==
    CASE Head(up[g]).ask = "next" /\ CanAdvance(state, g)             -> Advanced(state)
      [] Head(up[g]).ask = "releasePrevious" /\ CanRelease(state, g)  -> Released(state)
      [] Head(up[g]).ask = "setNext" /\ g = state.onAir
           /\ Pickable(state, Head(up[g]).target)                     -> Picked(state, Head(up[g]).target)
      [] OTHER                                                        -> state

Request(g) ==
    /\ \E kind \in {"next", "releasePrevious", "setNext"} : Asked(g, kind)
    /\ Taken(g)
    /\ Change(Granted(g), link)
    /\ UNCHANGED <<view, welcomed>>

Listen(g) ==
    /\ Asked(g, "report") /\ Taken(g)
    /\ IF g = state.onAir
       THEN \E w \in Observations(Head(up[g]).audible) : Observe(w)
       ELSE Change(state, link)
    /\ UNCHANGED <<view, welcomed>>

(* A guest takes what the host sent; a state it does not accept changes    *)
(* nothing, not even what its engine sends.                                *)
Receive(g) ==
    /\ link[g] = "up" /\ down[g] # << >>
    /\ LET message == Head(down[g])
           me == welcomed \cup IF message.welcome THEN {g} ELSE {}
           next == Accepted(view[g], message.state)
       IN  /\ welcomed' = me
           /\ view' = [view EXCEPT ![g] = next]
           /\ uplink' = IF next # view[g] /\ g \in me
                        THEN [uplink EXCEPT ![g] = UplinkFor(next, g)] ELSE uplink
    /\ down' = [down EXCEPT ![g] = Tail(@)]
    /\ UNCHANGED <<state, link, named, feed, up, watch, program>>

(* The program reaches the end of a splice or of a fade-out.               *)
Render ==
    /\ program.splice # NoOne \/ program.fading
    /\ program' = IF program.splice # NoOne THEN Spliced(program) ELSE Silent
    /\ UNCHANGED <<state, link, named, feed, uplink, view, welcomed, down, up, watch>>

HostStep ==
    \/ HostNext \/ HostRelease \/ HostStop \/ HostMoves \/ HostListens
    \/ \E p \in Participants : HostPick(p)
    \/ \E plays \in BOOLEAN : HostPlays(plays)

LinkStep(g) ==
    Invite(g) \/ Connect(g) \/ OpenChannel(g) \/ Disconnect(g) \/ Remove(g)

GuestStep(g) ==
    \/ PressNext(g) \/ PressRelease(g) \/ Receive(g)
    \/ \E p \in Participants : PressPick(g, p)
    \/ \E audible \in BOOLEAN : Report(g, audible)

Handle(g) == Hello(g) \/ Request(g) \/ Listen(g)

Next ==
    \/ HostStep \/ Render
    \/ \E g \in Guests : LinkStep(g) \/ GuestStep(g) \/ Handle(g)

Spec == Init /\ [][Next]_vars

-----------------------------------------------------------------------------
Message == [welcome : BOOLEAN, state : SessionState]
Upward == [ask : {"hello", "next", "releasePrevious"}]
          \cup [ask : {"setNext"}, target : Participants]
          \cup [ask : {"report"}, audible : BOOLEAN]

(* Every variable keeps its type, the channels their bounds and the order  *)
(* names nobody twice, however often a DJ joins it.                        *)
TypeOK ==
    /\ state \in SessionState
    /\ link \in [Guests -> {"none", "invited", "linked", "up", "lost", "gone"}]
    /\ named \subseteq Guests /\ welcomed \subseteq Guests
    /\ feed \in [Participants -> Someone]
    /\ uplink \in [Participants -> {"local", "full"}]
    /\ view \in [Guests -> SessionState]
    /\ down \in [Guests -> Seq(Message)] /\ up \in [Guests -> Seq(Upward)]
    /\ \A g \in Guests : Len(down[g]) <= MaxDown /\ Len(up[g]) <= MaxUp
    /\ watch \in [heard : BOOLEAN, silent : BOOLEAN]
    /\ program \in [source : Someone, splice : Someone, fading : BOOLEAN]

(* Whose audio reaches p's J deck: the one fed into it, and, where that    *)
(* one's engine sends its whole mix, whatever its own J deck plays.        *)
Sends(p) == p = Host \/ p \in Linked
Reaches(p) ==
    LET Direct(q) == IF feed[q] # NoOne /\ Sends(feed[q]) THEN {feed[q]} ELSE {}
        Heard[n \in 0 .. Cardinality(Participants)] ==
          IF n = 0 THEN Direct(p)
          ELSE Heard[n - 1] \cup
               UNION {Direct(q) : q \in {r \in Heard[n - 1] : uplink[r] = "full"}}
    IN  Heard[Cardinality(Participants)]

(* turns.ts: "No feed ever contains the listener's own audio".             *)
NobodyHearsThemselves == \A p \in Participants : p \notin Reaches(p)

(* It is so while the DJ who was on air before is not also the next one,   *)
(* whatever the guests have heard of by then.                              *)
Returning == state.previous # NoOne /\ NextPerformer(state) = state.previous
EchoNeedsAReturn == ~Returning => NobodyHearsThemselves

(* Whatever calls itself revision r, in a guest or on its way, is revision *)
(* r of the host: no guest shows a turn the host did not decide, and none  *)
(* is ahead of it.                                                         *)
Revised(s) == s.revision <= state.revision /\ (s.revision = state.revision => s = state)
OneStatePerRevision ==
    \A g \in Guests : Revised(view[g]) /\ \A k \in DOMAIN down[g] : Revised(down[g][k].state)

(* A guest that has taken everything it was sent shows the host's state.   *)
ViewsAreCurrent ==
    \A g \in welcomed : g \in Open(link) /\ down[g] = << >> => view[g] = state

(* No change of the turn state, by whoever asked for it and whoever left,  *)
(* leaves a pick or a tail that the turns could not have given.            *)
TurnsAreConsistent == Consistent(state)

(* turns.ts: onAir is "the DJ whose uplink is the program", once a splice  *)
(* or a fade is over.                                                      *)
ProgramIsOnAir ==
    program.splice = NoOne /\ ~program.fading => program.source = state.onAir

=============================================================================
