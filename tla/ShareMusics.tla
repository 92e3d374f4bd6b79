------------------------------ MODULE ShareMusics ------------------------------
(***************************************************************************)
(* The automatic exchange of connection packets over share-musics:         *)
(* automation.ts and coordinator.ts, at a host and its desktop guests.     *)
(*                                                                         *)
(* Each side polls: it fetches the members and the signals it has not      *)
(* seen, files them in its memory, and then takes one step after another,  *)
(* each planned from what it fetched, its memory and the state of the      *)
(* engine, awaited, and saved.  Meanwhile the DJs join, leave, decide and  *)
(* use the buttons of the roster, commands and requests fail, and a        *)
(* webview is reloaded; the engines are processes of their own and stay.   *)
(*                                                                         *)
(* share-musics is outside this repository: it keeps a member's status,    *)
(* carries signals of and to approved members in order, and withdraws the  *)
(* packets of one who left (client.ts).  A command is on its way to the    *)
(* engine for less than the gathering of addresses takes (Quick).          *)
(***************************************************************************)
EXTENDS ManualExchange, FiniteSets

CONSTANTS
    Guests,
    Stranger,       \* a DJ who is invited by hand
    MaxRequests,    \* bound: times a guest asks to join
    MaxDisturbances \* bound: faults (reloads, lost replies, failed attempts) and
                    \* uses of the roster by hand, together

ASSUME GuestNames == Nobody # Stranger /\ {Nobody, Stranger} \cap Guests = {}

VARIABLES
    member,     \* share-musics: the members' status
    signals,    \* share-musics: the signal queue, signal ids are positions
    slots,      \* the host's engine: the roster slots
    peer,       \* the guests' engines
    memory,     \* the host's HostMemory as saved
    poll,       \* the host's poll
    link,       \* the guests' links as saved
    gpoll,      \* the guests' polls
    requests,   \* how often a guest asked
    approvals,  \* how often the host approved a guest
    faults,     \* how many faults there were
    byHand      \* how often the roster was used by hand

vars == <<member, signals, slots, peer, memory, poll, link, gpoll,
          requests, approvals, faults, byHand>>

None == [slot |-> 0, gen |-> 0]
EmptyHostMemory ==
    [after |-> 0, peerByMember |-> [g \in Guests |-> 0], uploaded |-> {}, noticed |-> {},
     response |-> [g \in Guests |-> 0], imported |-> [g \in Guests |-> 0],
     approvable |-> [g \in Guests |-> None], approved |-> [g \in Guests |-> None],
     failed |-> {}]

NoLink == [n |-> 0]
NewLink(n) ==
    [n |-> n, joined |-> FALSE, after |-> 0, invite |-> 0, notice |-> 0,
     handledInvite |-> 0, handledNotice |-> 0, responded |-> 0, uploaded |-> None]

Idle == [pc |-> "idle"]

Init ==
    /\ member = [g \in Guests |-> "none"] /\ signals = <<>>
    /\ slots = <<>> /\ peer = [g \in Guests |-> NotJoined]
    /\ memory = EmptyHostMemory
    /\ poll = [pc |-> "idle", view |-> member]
    /\ link = [g \in Guests |-> NoLink] /\ gpoll = [g \in Guests |-> Idle]
    /\ requests = [g \in Guests |-> 0] /\ approvals = [g \in Guests |-> 0]
    /\ faults = 0 /\ byHand = 0

-----------------------------------------------------------------------------
(* share-musics                                                            *)

Fine == UNCHANGED <<faults, byHand>>
Undisturbed == faults + byHand < MaxDisturbances
Fault == Undisturbed /\ faults' = faults + 1 /\ UNCHANGED byHand
ByHand == Undisturbed /\ byHand' = byHand + 1 /\ UNCHANGED faults

Signal(g, kind, invite) == [guest |-> g, kind |-> kind, invite |-> invite, text |-> TRUE]
Post(g, kind, invite) == signals' = Append(signals, Signal(g, kind, invite))

(* The signals for a reader after the last it saw, with their text.        *)
Fresh(after, kinds) ==
    {i \in DOMAIN signals : i > after /\ signals[i].kind \in kinds /\ signals[i].text}
Latest(old, fresh, g) ==
    LET mine == {i \in fresh : signals[i].guest = g}
    IN IF mine = {} THEN old ELSE CHOOSE i \in mine : \A j \in mine : j <= i

Leave(g) ==
    /\ member' = [member EXCEPT ![g] = "left"]
    /\ signals' = [i \in DOMAIN signals |->
                     IF signals[i].guest = g THEN [signals[i] EXCEPT !.text = FALSE]
                     ELSE signals[i]]

-----------------------------------------------------------------------------
(* The host: receiveSignals, settleHostMemory, planHost                    *)

Received(mem) ==
    [mem EXCEPT !.after = Len(signals),
                !.response = [g \in Guests |-> Latest(@[g], Fresh(mem.after, {"response"}), g)]]

SettledKeepsThePeer(view, mem) ==
    LET of(table, none) == [g \in Guests |-> IF view[g] = "approved" THEN table[g] ELSE none]
    IN [mem EXCEPT !.response = of(@, 0), !.imported = of(@, 0),
                   !.approvable = of(@, None), !.approved = of(@, None),
                   !.failed = {g \in @ : view[g] = "approved"}]

Settled(view, mem) ==
    LET of(table, none) == [g \in Guests |-> IF view[g] = "approved" THEN table[g] ELSE none]
    IN [mem EXCEPT !.peerByMember = of(@, 0), !.response = of(@, 0), !.imported = of(@, 0),
                   !.approvable = of(@, None), !.approved = of(@, None),
                   !.failed = {g \in @ : view[g] = "approved"}]

Action(kind, g, invite, signal) ==
    [kind |-> kind, guest |-> g, invite |-> invite, signal |-> signal, ok |-> TRUE]

Invite(s) == [slot |-> s, gen |-> slots[s].gen]

(* The step a guest's slot calls for: one at most.                         *)
StepOf(g, mem) ==
    LET s == mem.peerByMember[g]
        slot == slots[s]
    IN IF s = 0 THEN {Action("create_invite", g, None, Len(slots))}
       ELSE IF slot.notice /\ Invite(s) \notin mem.noticed
       THEN {Action("upload_notice", g, Invite(s), 0)}
       ELSE IF slot.state = "invite_ready" /\ Invite(s) \notin mem.uploaded
       THEN {Action("upload_invite", g, Invite(s), 0)}
       ELSE IF slot.state = "invite_ready" /\ mem.response[g] > mem.imported[g]
       THEN {Action("import_response", g, Invite(s), mem.response[g])}
       ELSE IF slot.state = "approval_pending" /\ mem.approvable[g] = Invite(s)
               /\ mem.approved[g] # Invite(s)
       THEN {Action("approve", g, Invite(s), 0)}
       ELSE {}

PlanHost(view, mem) ==
    UNION {StepOf(g, mem) : g \in {h \in Guests : view[h] = "approved" /\ h \notin mem.failed}}

(* runHostAction, before and after its await: what is marked in advance is *)
(* not tried again, and the rest is marked when it was done.               *)
MarkedApprovable(mem, a) ==
    CASE a.kind = "import_response" -> [mem EXCEPT !.imported[a.guest] = a.signal,
                                                   !.approvable[a.guest] = a.invite]
      [] a.kind = "approve" -> [mem EXCEPT !.approved[a.guest] = a.invite]
      [] OTHER -> mem

MarkedBefore(mem, a) ==
    CASE a.kind = "import_response" -> [mem EXCEPT !.imported[a.guest] = a.signal]
      [] a.kind = "approve" -> [mem EXCEPT !.approved[a.guest] = a.invite]
      [] OTHER -> mem

MarkedButTheInvite(mem, a) ==
    CASE a.kind = "create_invite" /\ a.ok ->
           [mem EXCEPT !.peerByMember[a.guest] = a.signal + 1]
      [] a.kind = "create_invite" /\ ~a.ok -> [mem EXCEPT !.failed = @ \cup {a.guest}]
      [] a.kind = "upload_invite" -> [mem EXCEPT !.response[a.guest] = 0]
      [] a.kind = "upload_notice" -> [mem EXCEPT !.noticed = @ \cup {a.invite}]
      [] a.kind = "import_response" /\ a.ok -> [mem EXCEPT !.approvable[a.guest] = a.invite]
      [] OTHER -> mem

(* The slot created is the first the webview did not know: of two made at  *)
(* once it may be the other.                                               *)
MarkedAfter(mem, a) ==
    CASE a.kind = "create_invite" /\ a.ok ->
           [mem EXCEPT !.peerByMember[a.guest] = a.signal + 1]
      [] a.kind = "create_invite" /\ ~a.ok -> [mem EXCEPT !.failed = @ \cup {a.guest}]
      [] a.kind = "upload_invite" -> [mem EXCEPT !.uploaded = @ \cup {a.invite},
                                                 !.response[a.guest] = 0]
      [] a.kind = "upload_notice" -> [mem EXCEPT !.noticed = @ \cup {a.invite}]
      [] a.kind = "import_response" /\ a.ok -> [mem EXCEPT !.approvable[a.guest] = a.invite]
      [] OTHER -> mem

-----------------------------------------------------------------------------
(* The host's poll                                                         *)

Uploads == {"upload_invite", "upload_notice"}

HostFetch ==
    /\ poll.pc = "idle"
    /\ memory' = Settled(member, Received(memory))
    /\ poll' = [pc |-> "steps", view |-> member, mem |-> memory']
    /\ UNCHANGED <<member, signals, slots, peer, link, gpoll, requests, approvals>> /\ Fine

HostPlan ==
    /\ poll.pc = "steps"
    /\ \E a \in PlanHost(poll.view, poll.mem) :
         poll' = [pc |-> "command", view |-> poll.view, mem |-> MarkedBefore(poll.mem, a),
                  action |-> a]
    /\ UNCHANGED <<member, signals, slots, peer, memory, link, gpoll, requests, approvals>> /\ Fine

HostPollEnds ==
    /\ poll.pc = "steps" /\ PlanHost(poll.view, poll.mem) = {}
    /\ poll' = [pc |-> "idle", view |-> poll.view]
    /\ UNCHANGED <<member, signals, slots, peer, memory, link, gpoll, requests, approvals>> /\ Fine

(* junctionCommand: what the engine does of it, and what it answers.       *)
Done(ok) == poll' = [poll EXCEPT !.pc = "reply", !.action.ok = ok]

HostCommand ==
    /\ poll.pc = "command" /\ poll.action.kind \notin Uploads
    /\ LET a == poll.action
           s == a.invite.slot
       IN \/ /\ a.kind = "create_invite"
             /\ slots' = Append(slots, NewSlot(a.guest))
             /\ Done(TRUE)
          \/ /\ a.kind = "import_response"
             /\ LET packet == signals[a.signal].invite
                    takes == packet.slot = s /\ Importable(slots[s], packet.gen, a.guest)
                IN /\ slots' = IF takes THEN [slots EXCEPT ![s] = Imported(@, a.guest)] ELSE slots
                   /\ Done(takes)
          \/ /\ a.kind = "approve"
             /\ LET takes == slots[s].state = "approval_pending"
                IN /\ slots' = IF takes THEN [slots EXCEPT ![s] = Approved(@)] ELSE slots
                   /\ Done(takes)
    /\ UNCHANGED <<member, signals, peer, memory, link, gpoll, requests, approvals>> /\ Fine

(* A signal to a guest who is no member any more ends the poll.            *)
Abort == poll' = [pc |-> "idle", view |-> poll.view]

HostUpload ==
    /\ poll.pc = "command" /\ poll.action.kind \in Uploads
    /\ LET a == poll.action
       IN IF member[a.guest] = "approved"
          THEN /\ Post(a.guest, IF a.kind = "upload_invite" THEN "invite" ELSE "notice", a.invite)
               /\ Done(TRUE)
          ELSE Abort /\ UNCHANGED signals
    /\ UNCHANGED <<member, slots, peer, memory, link, gpoll, requests, approvals>> /\ Fine

HostReply ==
    /\ poll.pc = "reply"
    /\ memory' = MarkedAfter(poll.mem, poll.action)
    /\ poll' = [pc |-> "steps", view |-> poll.view, mem |-> memory']
    /\ UNCHANGED <<member, signals, slots, peer, link, gpoll, requests, approvals>> /\ Fine

(* A command or a request that was done, or never left, fails.             *)
HostStepFails ==
    /\ poll.pc \in {"command", "reply"}
    /\ Fault
    /\ IF poll.action.kind \in Uploads THEN Abort /\ UNCHANGED memory
       ELSE /\ memory' = MarkedAfter(poll.mem, [poll.action EXCEPT !.ok = FALSE])
            /\ poll' = [pc |-> "steps", view |-> poll.view, mem |-> memory']
    /\ UNCHANGED <<member, signals, slots, peer, link, gpoll, requests, approvals>>

HostReloads ==
    /\ poll.pc # "idle"
    /\ Fault
    /\ Abort
    /\ UNCHANGED <<member, signals, slots, peer, memory, link, gpoll, requests, approvals>>

-----------------------------------------------------------------------------
(* The DJ at the host: decideRequest, retryRequest, and the roster         *)

Decide(g, status) ==
    /\ poll.view[g] = "pending" /\ member[g] = "pending"
    /\ member' = [member EXCEPT ![g] = status]
    /\ approvals' = IF status = "approved" THEN [approvals EXCEPT ![g] = @ + 1] ELSE approvals
    /\ UNCHANGED <<signals, slots, peer, memory, poll, link, gpoll, requests>> /\ Fine

RetryRequest(g) ==
    /\ g \in memory.failed
    /\ LET live == IF poll.pc = "idle" THEN memory ELSE poll.mem
       IN memory' = [live EXCEPT !.failed = @ \ {g}]
    /\ poll' = IF poll.pc = "idle" THEN poll ELSE [poll EXCEPT !.mem = memory']
    /\ UNCHANGED <<member, signals, slots, peer, link, gpoll, requests, approvals>> /\ Fine

Roster(new) ==
    /\ slots' = new
    /\ UNCHANGED <<member, signals, peer, memory, poll, link, gpoll, requests, approvals>>
Becomes(s, slot) == Roster([slots EXCEPT ![s] = slot])

InviteByHand == ByHand /\ Roster(Append(slots, NewSlot(Stranger)))

InviteAgain(s) ==
    /\ slots[s].state # "connected"
    /\ Becomes(s, Renewed(slots[s]))

ImportByHand(s) ==
    /\ Importable(slots[s], slots[s].gen, Stranger)
    /\ Becomes(s, Imported(slots[s], Stranger))

ApproveByHand(s) ==
    /\ slots[s].state = "approval_pending"
    /\ Becomes(s, Approved(slots[s]))

Refuse(s) ==
    /\ slots[s].state = "approval_pending"
    /\ Becomes(s, Withdrawn(slots[s]))

Cancel(s) ==
    /\ slots[s].state \notin Terminal \cup {"connected"}
    /\ Becomes(s, Withdrawn(slots[s]))

RosterButton(s) ==
    /\ ByHand
    /\ InviteAgain(s) \/ ImportByHand(s) \/ ApproveByHand(s) \/ Refuse(s) \/ Cancel(s)

-----------------------------------------------------------------------------
(* The engines: addresses are gathered, links come up, time runs out       *)

Quick == poll.pc # "command"
HostGathers(s) ==
    /\ slots[s].state = "collecting" /\ Quick
    /\ Becomes(s, [slots[s] EXCEPT !.state = "invite_ready"]) /\ Fine

GuestGathers(g) ==
    /\ peer[g].state = "collecting"
    /\ peer' = [peer EXCEPT ![g].state = "response_ready"]
    /\ UNCHANGED <<member, signals, slots, memory, poll, link, gpoll, requests, approvals>> /\ Fine

Meet(s, g) ==
    /\ slots[s].state = "connecting" /\ slots[s].device = g
    /\ peer[g] = [slot |-> s, gen |-> slots[s].gen, state |-> "response_ready"]

LinkUp(s, g) ==
    /\ Meet(s, g)
    /\ slots' = [slots EXCEPT ![s].state = "connected"]
    /\ peer' = [peer EXCEPT ![g].state = "connected"]
    /\ UNCHANGED <<member, signals, memory, poll, link, gpoll, requests, approvals>> /\ Fine

ConnectTimesOut(s) ==
    /\ slots[s].state = "connecting" /\ ~\E g \in Guests : Meet(s, g)
    /\ Becomes(s, [slots[s] EXCEPT !.state = "failed"]) /\ Fine

(* Gathering fails, a link does not come up, or the packets expire.        *)
AttemptFails(s) ==
    /\ slots[s].state \notin Terminal \cup {"connected"}
    /\ Fault
    /\ Becomes(s, [slots[s] EXCEPT !.state = "failed", !.answer = Nobody])

-----------------------------------------------------------------------------
(* A guest: requestJoin, endLink, and leaving the session of the engine    *)

RequestJoin(g) ==
    /\ link[g] = NoLink /\ ~Active(peer[g])
    /\ requests[g] < MaxRequests
    /\ requests' = [requests EXCEPT ![g] = @ + 1]
    /\ link' = [link EXCEPT ![g] = NewLink(requests'[g])]
    /\ member' = [member EXCEPT ![g] = "pending"]
    /\ UNCHANGED <<signals, slots, peer, memory, poll, gpoll, approvals>> /\ Fine

EndLink(g) ==
    /\ link[g] # NoLink
    /\ link' = [link EXCEPT ![g] = NoLink]
    /\ Leave(g)
    /\ UNCHANGED <<slots, peer, memory, poll, gpoll, requests, approvals>> /\ Fine

LeaveSession(g) ==
    /\ Active(peer[g])
    /\ peer' = [peer EXCEPT ![g] = NotJoined]
    /\ UNCHANGED <<member, signals, slots, memory, poll, link, gpoll, requests, approvals>> /\ Fine

-----------------------------------------------------------------------------
(* A guest's poll: guestPoll, planGuest, runGuestAction                    *)

Filed(l, g) ==
    [l EXCEPT !.after = Len(signals),
              !.invite = Latest(@, Fresh(l.after, {"invite"}), g),
              !.notice = Latest(@, Fresh(l.after, {"notice"}), g)]

Over(l, g) ==
    \/ member[g] = "rejected" /\ ~l.joined
    \/ member[g] = "left"
    \/ l.joined /\ ~Active(peer[g])

GuestFetch(g) ==
    /\ gpoll[g].pc = "idle" /\ link[g] # NoLink
    /\ LET l == Filed(link[g], g)
       IN IF Over(l, g)
          THEN /\ link' = [link EXCEPT ![g] = NoLink]
               /\ Leave(g)
               /\ UNCHANGED gpoll
          ELSE /\ link' = [link EXCEPT ![g] = l]
               /\ gpoll' = [gpoll EXCEPT ![g] = [pc |-> "steps", status |-> member[g], link |-> l]]
               /\ UNCHANGED <<member, signals>>
    /\ UNCHANGED <<slots, peer, memory, poll, requests, approvals>> /\ Fine

PlanGuest(g, status, l) ==
    LET here == [slot |-> peer[g].slot, gen |-> peer[g].gen]
    IN IF l.notice > l.handledNotice THEN {"import_notice"}
       ELSE IF status # "approved" THEN {}
       ELSE IF l.invite > l.handledInvite THEN {"import_invite"}
       ELSE IF l.joined /\ peer[g].state = "response_ready"
               /\ l.handledInvite > l.responded /\ l.uploaded # here
       THEN {"upload_response"} ELSE {}

GuestPollEnds(g) ==
    /\ gpoll[g].pc = "steps"
    /\ link[g] = NoLink \/ PlanGuest(g, gpoll[g].status, gpoll[g].link) = {}
    /\ gpoll' = [gpoll EXCEPT ![g] = Idle]
    /\ UNCHANGED <<member, signals, slots, peer, memory, poll, link, requests, approvals>> /\ Fine

(* persist(): the link of the poll, unless there is none any more.         *)
Persist(g, l) == link' = IF link[g] = NoLink THEN link ELSE [link EXCEPT ![g] = l]
Saved(g, l) ==
    /\ gpoll' = [gpoll EXCEPT ![g] = [pc |-> "steps", status |-> gpoll[g].status, link |-> l]]
    /\ Persist(g, l)

GuestPlan(g, kind) ==
    /\ gpoll[g].pc = "steps" /\ link[g] # NoLink
    /\ kind \in PlanGuest(g, gpoll[g].status, gpoll[g].link)
    /\ LET l == gpoll[g].link
           marked == CASE kind = "import_notice" -> [l EXCEPT !.handledNotice = l.notice]
                       [] kind = "import_invite" -> [l EXCEPT !.handledInvite = l.invite]
                       [] OTHER -> l
       IN gpoll' = [gpoll EXCEPT ![g] =
                      [pc |-> kind, status |-> gpoll[g].status, link |-> marked,
                       answers |-> [slot |-> peer[g].slot, gen |-> peer[g].gen]]]
    /\ UNCHANGED <<member, signals, slots, peer, memory, poll, link, requests, approvals>> /\ Fine

GuestAwaits(g) == gpoll[g].pc \in {"import_notice", "import_invite", "upload_response"}

ImportNotice(g) ==
    /\ gpoll[g].pc = "import_notice"
    /\ LET l == gpoll[g].link
           takes == l.joined /\ signals[l.notice].invite = [slot |-> peer[g].slot, gen |-> peer[g].gen]
       IN /\ peer' = IF takes THEN [peer EXCEPT ![g].state = "cancelled"] ELSE peer
          /\ Saved(g, l)
    /\ UNCHANGED <<member, signals, slots, memory, poll, requests, approvals>> /\ Fine

(* join() or exchange.import: the engine takes it at once, and the poll    *)
(* hears of it later.                                                      *)
ImportInvite(g) ==
    /\ gpoll[g].pc = "import_invite"
    /\ LET l == gpoll[g].link
           packet == signals[l.invite].invite
           takes == IF l.joined THEN Acceptable(peer[g], packet.slot, packet.gen)
                    ELSE ~Active(peer[g])
       IN /\ peer' = IF takes THEN [peer EXCEPT ![g] = Accepted(packet.slot, packet.gen)] ELSE peer
          /\ gpoll' = [gpoll EXCEPT ![g] = [pc |-> "imported", status |-> gpoll[g].status,
                                            link |-> l, joined |-> l.joined \/ takes]]
    /\ UNCHANGED <<member, signals, slots, memory, poll, link, requests, approvals>> /\ Fine

InviteImported(g) ==
    /\ gpoll[g].pc = "imported"
    /\ Saved(g, [gpoll[g].link EXCEPT !.joined = gpoll[g].joined])
    /\ UNCHANGED <<member, signals, slots, peer, memory, poll, requests, approvals>> /\ Fine

(* A refused response (403) is done with; the next poll ends the link.  So *)
(* is that of an earlier link: requestJoin took the view with the host's   *)
(* id from it.                                                             *)
UploadResponse(g) ==
    /\ gpoll[g].pc = "upload_response"
    /\ IF member[g] = "approved" /\ gpoll[g].link.n = requests[g]
       THEN Post(g, "response", gpoll[g].answers) ELSE UNCHANGED signals
    /\ gpoll' = [gpoll EXCEPT ![g].pc = "uploaded"]
    /\ UNCHANGED <<member, slots, peer, memory, poll, link, requests, approvals>> /\ Fine

ResponseUploaded(g) ==
    /\ gpoll[g].pc = "uploaded"
    /\ Saved(g, [gpoll[g].link EXCEPT !.responded = gpoll[g].link.handledInvite,
                                      !.uploaded = gpoll[g].answers])
    /\ UNCHANGED <<member, signals, slots, peer, memory, poll, requests, approvals>> /\ Fine

(* A failed upload ends the poll; a failed import is not tried again, and  *)
(* a join that was done but not answered leaves the link not joined.       *)
GuestStepFails(g) ==
    /\ GuestAwaits(g) \/ gpoll[g].pc \in {"imported", "uploaded"}
    /\ Fault
    /\ IF gpoll[g].pc \in {"upload_response", "uploaded"}
       THEN gpoll' = [gpoll EXCEPT ![g] = Idle] /\ UNCHANGED link
       ELSE Saved(g, gpoll[g].link)
    /\ UNCHANGED <<member, signals, slots, peer, memory, poll, requests, approvals>>

GuestReloads(g) ==
    /\ gpoll[g].pc # "idle"
    /\ Fault
    /\ gpoll' = [gpoll EXCEPT ![g] = Idle]
    /\ UNCHANGED <<member, signals, slots, peer, memory, poll, link, requests, approvals>>

-----------------------------------------------------------------------------
HostPoll == HostFetch \/ HostPlan \/ HostPollEnds \/ HostCommand \/ HostUpload \/ HostReply
GuestPoll(g) ==
    \/ GuestFetch(g) \/ GuestPollEnds(g)
    \/ \E kind \in {"import_notice", "import_invite", "upload_response"} : GuestPlan(g, kind)
    \/ ImportNotice(g) \/ ImportInvite(g) \/ InviteImported(g)
    \/ UploadResponse(g) \/ ResponseUploaded(g)

Next ==
    \/ HostPoll \/ HostStepFails \/ HostReloads \/ InviteByHand
    \/ \E s \in DOMAIN slots :
         \/ RosterButton(s) \/ HostGathers(s) \/ ConnectTimesOut(s) \/ AttemptFails(s)
         \/ \E g \in Guests : LinkUp(s, g)
    \/ \E g \in Guests :
         \/ \E status \in {"approved", "rejected"} : Decide(g, status)
         \/ RetryRequest(g) \/ RequestJoin(g) \/ EndLink(g) \/ LeaveSession(g)
         \/ GuestPoll(g) \/ GuestGathers(g) \/ GuestStepFails(g) \/ GuestReloads(g)

Spec == Init /\ [][Next]_vars

(* A slot for each time a guest asked, by hand, and for each lost reply.   *)
MaxSlots == Cardinality(Guests) * MaxRequests + MaxDisturbances

(* Both sides poll as long as there is a link, and commands, gathering and *)
(* connections come to an end.                                             *)
FairSpec ==
    /\ Spec
    /\ WF_vars(HostPoll)
    /\ \A s \in 1 .. MaxSlots : WF_vars(s \in DOMAIN slots /\ HostGathers(s))
    /\ \A s \in 1 .. MaxSlots, g \in Guests : WF_vars(s \in DOMAIN slots /\ LinkUp(s, g))
    /\ \A g \in Guests : WF_vars(GuestPoll(g)) /\ WF_vars(GuestGathers(g))

-----------------------------------------------------------------------------
(* A poll never repeats a step it has done: a guest has no more slots than *)
(* the host approved it, and no packet is sent twice, but for one repeat   *)
(* each for what a reload or a lost reply made it forget (HostMemory,      *)
(* persist).  The repeats are counted one by one: the kth slot too many of *)
(* a guest, and the kth copy too many of a packet.                         *)
SlotsOf(g) == Cardinality({s \in DOMAIN slots : slots[s].owner = g})
Packet(i) == [signals[i] EXCEPT !.text = TRUE]
Sent(packet) == Cardinality({i \in DOMAIN signals : Packet(i) = packet})
SlotsTooMany(g) == {<<"slot", g, k>> : k \in 1 .. SlotsOf(g) - approvals[g]}
CopiesTooMany(i) == {<<"packet", Packet(i), k>> : k \in 1 .. Sent(Packet(i)) - 1}
Repeats ==
    (UNION {SlotsTooMany(g) : g \in Guests})
    \cup (UNION {CopiesTooMany(i) : i \in DOMAIN signals})
RepeatsNeedAFault == Cardinality(Repeats) <= faults

(* The poll lets in the guest the host approved and nobody else: what it   *)
(* approves in the engine is that guest's answer, never one that the DJ    *)
(* pasted ("only for the invitation whose response this poll imported      *)
(* itself, never a pasted one", planHost).                                 *)
OnlyTheirAnswerIsApproved ==
    [][poll.pc = "command" /\ poll.action.kind = "approve" =>
         LET s == poll.action.invite.slot
         IN slots[s].state = "approval_pending" /\ slots'[s].state = "connecting" =>
              slots[s].answer = poll.action.guest]_vars

(* An approved guest gets its connection without anybody's help, also when *)
(* it left and asked again and when the host made a new invitation, unless *)
(* somebody or a fault put an end to the attempt, or a poll of its earlier *)
(* link, which persist() does not tell from the new one, wrote over it.    *)
Ended(g) ==
    \/ faults > 0
    \/ member[g] # "approved"
    \/ link[g].n # requests[g]
    \/ peer[g].state \in {"connected", "cancelled"}
    \/ LET s == memory.peerByMember[g]
       IN s # 0 /\ \/ slots[s].state \in Terminal
                   \/ slots[s].owner # g
                   \/ Stranger \in {slots[s].answer, slots[s].device}
ApprovedGuestsConnect == \A g \in Guests : member[g] = "approved" ~> Ended(g)

=============================================================================
