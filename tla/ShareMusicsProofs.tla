------------------------- MODULE ShareMusicsProofs -------------------------
(***************************************************************************)
(* What the host of ShareMusics never does, for any guests and any bounds: *)
(* approve another answer than the one its poll imported for the guest.    *)
(* Then what neither host nor guests do but by a fault: make a guest one   *)
(* more slot than it was approved, or send a packet again.                 *)
(***************************************************************************)
EXTENDS ShareMusics, SequenceTheorems, FiniteSetTheorems, WellFoundedInduction, TLAPS

SlotStates ==
    {"collecting", "invite_ready", "approval_pending", "connecting", "connected"}
    \cup Terminal
Djs == Guests \cup {Stranger, Nobody}
Statuses == {"none", "pending", "approved", "rejected", "left"}
Invites == [slot : Nat, gen : Nat]

Slot == [owner : Djs, gen : Nat, state : SlotStates, answer : Djs,
         approved : BOOLEAN, device : Djs, notice : BOOLEAN]
HostMemory ==
    [after : Nat, peerByMember : [Guests -> Nat], uploaded : SUBSET Invites,
     noticed : SUBSET Invites, response : [Guests -> Nat], imported : [Guests -> Nat],
     approvable : [Guests -> Invites], approved : [Guests -> Invites],
     failed : SUBSET Guests]
Kinds == {"create_invite", "upload_invite", "upload_notice", "import_response", "approve"}
HostAction ==
    [kind : Kinds, guest : Guests, invite : Invites, signal : Nat, ok : BOOLEAN]
View == [Guests -> Statuses]
Poll ==
    [pc : {"idle"}, view : View]
    \cup [pc : {"steps"}, view : View, mem : HostMemory]
    \cup [pc : {"command", "reply"}, view : View, mem : HostMemory, action : HostAction]

(* The host's half of the variables.                                       *)
HostTypes ==
    /\ member \in View
    /\ \E S : signals \in Seq(S)
    /\ slots \in Seq(Slot)
    /\ memory \in HostMemory
    /\ poll \in Poll

(* The attempt `gen` of a slot was answered: by g, if it still awaits the  *)
(* approval, and it will not be answered again.                            *)
Early == {"collecting", "invite_ready"}
Past(slot, gen, g) ==
    /\ gen <= slot.gen
    /\ slot.gen = gen =>
         /\ slot.state \notin Early
         /\ slot.state = "approval_pending" => slot.answer = g

Answered(g, invite, roster) ==
    invite.slot # 0 =>
      /\ invite.slot \in 1 .. Len(roster)
      /\ Past(roster[invite.slot], invite.gen, g)

(* What a memory, live or saved, says of the roster is true.               *)
Remembers(mem, roster) ==
    \A g \in Guests : /\ mem.peerByMember[g] \in 0 .. Len(roster)
                      /\ Answered(g, mem.approvable[g], roster)

(* So is what a command under way, or its reply, supposes of it.           *)
AwaitsOnly(slot, g) ==
    /\ slot.state # "invite_ready"
    /\ slot.state = "approval_pending" => slot.answer = g
Sound(a, pc, roster) ==
    /\ a.kind # "create_invite" => a.invite.slot \in 1 .. Len(roster)
    /\ a.kind = "import_response" => a.invite.gen <= roster[a.invite.slot].gen
    /\ a.kind = "create_invite" =>
         a.signal + (IF pc = "reply" /\ a.ok THEN 1 ELSE 0) <= Len(roster)
    /\ a.kind = "import_response" /\ pc = "reply" /\ a.ok => Answered(a.guest, a.invite, roster)
    /\ a.kind = "approve" /\ pc = "command" => AwaitsOnly(roster[a.invite.slot], a.guest)

Honest(p, roster) ==
    /\ p.pc # "idle" => Remembers(p.mem, roster)
    /\ p.pc \in {"command", "reply"} => Sound(p.action, p.pc, roster)

IInv == HostTypes /\ Remembers(memory, slots) /\ Honest(poll, slots)

USE GuestNames

-----------------------------------------------------------------------------
(* Signals                                                                 *)
LEMMA LargestExists ==
  ASSUME NEW N \in Nat, NEW S \in SUBSET (1 .. N), S # {}
  PROVE  \E n \in S : \A m \in S : m <= n
<1> DEFINE Less == OpToRel(<, Nat)
           Left == {N - n : n \in S}
<1>1. \A m, n \in Nat : <<m, n>> \in Less <=> m < n
  BY DEF OpToRel
<1>2. IsWellFoundedOn(Less, Nat)
  BY NatLessThanWellFounded
<1> HIDE DEF Less
<1>3. Left \in SUBSET Nat /\ Left # {}
  <2>1. \A n \in S : n \in Nat /\ n <= N
    OBVIOUS
  <2>2. \A n \in S : N - n \in Nat
    BY <2>1
  <2> QED
    BY <2>2
<1>4. \E k \in Left : \A j \in Left : <<j, k>> \notin Less
  BY <1>2, <1>3, WFMin
<1>5. PICK k \in Left : \A j \in Left : <<j, k>> \notin Less
  BY <1>4
<1>6. PICK n \in S : k = N - n
  BY <1>5
<1>7. ASSUME NEW m \in S
      PROVE  m <= n
  <2>1. N - m \in Left /\ N - m \in Nat /\ N - n \in Nat
    BY <1>6
  <2>2. ~(N - m < N - n)
    BY <1>1, <1>5, <1>6, <2>1
  <2> QED
    BY <2>2
<1> QED
  BY <1>7

LEMMA LatestType ==
  ASSUME NEW S, signals \in Seq(S), NEW old \in Nat, NEW after, NEW kinds, NEW g
  PROVE  Latest(old, Fresh(after, kinds), g) \in Nat
<1> DEFINE mine == {i \in Fresh(after, kinds) : signals[i].guest = g}
<1>1. Len(signals) \in Nat /\ mine \in SUBSET (1 .. Len(signals))
  BY DEF Fresh
<1>2. CASE mine = {}
  BY <1>2 DEF Latest
<1>3. CASE mine # {}
  <2>1. \E i \in mine : \A j \in mine : j <= i
    BY <1>1, <1>3, LargestExists
  <2>2. Latest(old, Fresh(after, kinds), g) = CHOOSE i \in mine : \A j \in mine : j <= i
    BY <1>3 DEF Latest
  <2>3. Latest(old, Fresh(after, kinds), g) \in mine
    BY <2>1, <2>2
  <2> QED
    BY <1>1, <2>3
<1> QED
  BY <1>2, <1>3

-----------------------------------------------------------------------------
(* The roster: a slot is answered once for each invitation.                *)
Evolves(s, t) ==
    /\ s.gen <= t.gen
    /\ s.gen = t.gen /\ t.state \in Early => s.state \in Early
    /\ t.state = "approval_pending" =>
         \/ s.state = "invite_ready"
         \/ s.state = "approval_pending" /\ t.answer = s.answer
Steady(s, t) == t.state = "invite_ready" => s.state = "invite_ready"

Grows(old, new) ==
    /\ old \in Seq(Slot) /\ new \in Seq(Slot) /\ Len(old) <= Len(new)
    /\ \A s \in 1 .. Len(old) : Evolves(old[s], new[s])
Settles(old, new) == \A s \in 1 .. Len(old) : Steady(old[s], new[s])

LEMMA GenType ==
  ASSUME NEW roster \in Seq(Slot), NEW s \in 1 .. Len(roster)
  PROVE  roster[s] \in Slot /\ roster[s].gen \in Nat
<1>1. roster[s] \in Slot
  BY ElementOfSeq
<1> QED
  BY <1>1 DEF Slot

LEMMA PastEvolves ==
  ASSUME NEW s \in Slot, NEW t \in Slot, Evolves(s, t), NEW gen \in Nat, NEW g, Past(s, gen, g)
  PROVE  Past(t, gen, g)
BY DEF Slot, Evolves, Past, Early

LEMMA AnsweredGrows ==
  ASSUME NEW old, NEW new, Grows(old, new), NEW g, NEW invite \in Invites,
         Answered(g, invite, old)
  PROVE  Answered(g, invite, new)
<1>1. CASE invite.slot = 0
  BY <1>1 DEF Answered
<1>2. CASE invite.slot # 0
  <2>1. /\ invite.slot \in 1 .. Len(old) /\ invite.slot \in 1 .. Len(new)
        /\ Evolves(old[invite.slot], new[invite.slot])
        /\ Past(old[invite.slot], invite.gen, g)
    BY <1>2 DEF Answered, Grows
  <2>2. old[invite.slot] \in Slot /\ new[invite.slot] \in Slot /\ invite.gen \in Nat
    BY <2>1, ElementOfSeq DEF Grows, Invites
  <2> QED
    BY <2>1, <2>2, PastEvolves DEF Answered
<1> QED
  BY <1>1, <1>2

LEMMA RemembersGrows ==
  ASSUME NEW old, NEW new, Grows(old, new), NEW mem \in HostMemory, Remembers(mem, old)
  PROVE  Remembers(mem, new)
<1>1. ASSUME NEW g \in Guests
      PROVE  Answered(g, mem.approvable[g], new)
  <2>1. mem.approvable[g] \in Invites /\ Answered(g, mem.approvable[g], old)
    BY DEF HostMemory, Remembers
  <2> QED
    BY <2>1, AnsweredGrows
<1>2. ASSUME NEW g \in Guests
      PROVE  mem.peerByMember[g] \in 0 .. Len(new)
  <2>1. mem.peerByMember[g] \in 0 .. Len(old) /\ Len(old) <= Len(new)
        /\ Len(old) \in Nat /\ Len(new) \in Nat
    BY DEF Remembers, Grows
  <2> QED
    BY <2>1
<1> QED
  BY <1>1, <1>2 DEF Remembers

LEMMA SoundGrows ==
  ASSUME NEW old, NEW new, Grows(old, new), NEW pc, pc = "command" => Settles(old, new),
         NEW a \in HostAction, Sound(a, pc, old)
  PROVE  Sound(a, pc, new)
<1>1. Len(old) \in Nat /\ Len(new) \in Nat /\ Len(old) <= Len(new)
  BY DEF Grows
<1>2. a.kind # "create_invite" => a.invite.slot \in 1 .. Len(new)
  BY <1>1 DEF Sound
<1>3. ASSUME a.kind = "import_response"
      PROVE  a.invite.gen <= new[a.invite.slot].gen
  <2>1. a.invite.slot \in 1 .. Len(old) /\ a.invite.slot \in 1 .. Len(new)
    BY <1>1, <1>3 DEF Sound
  <2>2. /\ old[a.invite.slot].gen \in Nat /\ new[a.invite.slot].gen \in Nat
        /\ a.invite.gen \in Nat
    BY <2>1, GenType DEF Grows, HostAction, Invites
  <2>3. /\ a.invite.gen <= old[a.invite.slot].gen
        /\ old[a.invite.slot].gen <= new[a.invite.slot].gen
    BY <1>3, <2>1 DEF Sound, Grows, Evolves
  <2> QED
    BY <2>2, <2>3
<1>4. a.kind = "create_invite" =>
        a.signal + (IF pc = "reply" /\ a.ok THEN 1 ELSE 0) <= Len(new)
  BY <1>1 DEF Sound, HostAction
<1>5. a.kind = "import_response" /\ pc = "reply" /\ a.ok => Answered(a.guest, a.invite, new)
  BY AnsweredGrows DEF Sound, HostAction
<1>6. ASSUME a.kind = "approve", pc = "command"
      PROVE  AwaitsOnly(new[a.invite.slot], a.guest)
  <2>1. a.invite.slot \in 1 .. Len(old) /\ AwaitsOnly(old[a.invite.slot], a.guest)
    BY <1>6 DEF Sound
  <2>2. /\ Evolves(old[a.invite.slot], new[a.invite.slot])
        /\ Steady(old[a.invite.slot], new[a.invite.slot])
    BY <1>6, <2>1 DEF Grows, Settles
  <2> QED
    BY <2>1, <2>2 DEF AwaitsOnly, Evolves, Steady
<1> QED
  BY <1>2, <1>3, <1>4, <1>5, <1>6 DEF Sound

LEMMA PollFacts ==
  ASSUME NEW p \in Poll
  PROVE  /\ p.pc \in {"idle", "steps", "command", "reply"} /\ p.view \in View
         /\ p.pc # "idle" => p.mem \in HostMemory
         /\ p.pc \in {"command", "reply"} => p.action \in HostAction
BY DEF Poll

LEMMA HonestGrows ==
  ASSUME NEW old, NEW new, Grows(old, new), NEW p \in Poll,
         p.pc = "command" => Settles(old, new), Honest(p, old)
  PROVE  Honest(p, new)
<1>1. p.pc # "idle" => Remembers(p.mem, new)
  BY RemembersGrows, PollFacts DEF Honest
<1>2. ASSUME p.pc \in {"command", "reply"}
      PROVE  Sound(p.action, p.pc, new)
  <2>1. p.action \in HostAction /\ Sound(p.action, p.pc, old)
    BY <1>2, PollFacts DEF Honest
  <2> QED
    BY <2>1, SoundGrows
<1> QED
  BY <1>1, <1>2 DEF Honest

(* One slot is changed, or one is added.                                   *)
LEMMA ChangedSlot ==
  ASSUME NEW old \in Seq(Slot), NEW s \in 1 .. Len(old), NEW t \in Slot, Evolves(old[s], t)
  PROVE  /\ Grows(old, [old EXCEPT ![s] = t])
         /\ Steady(old[s], t) => Settles(old, [old EXCEPT ![s] = t])
<1> DEFINE new == [old EXCEPT ![s] = t]
<1>1. new \in Seq(Slot) /\ Len(new) = Len(old) /\ Len(old) \in Nat
  OBVIOUS
<1>2. \A k \in 1 .. Len(old) : new[k] = IF k = s THEN t ELSE old[k]
  OBVIOUS
<1>3. ASSUME NEW k \in 1 .. Len(old)
      PROVE  Evolves(old[k], old[k]) /\ Steady(old[k], old[k])
  <2>1. old[k].gen \in Nat
    BY GenType
  <2> QED
    BY <2>1 DEF Evolves, Steady
<1> HIDE DEF new
<1>4. Grows(old, new)
  BY <1>1, <1>2, <1>3 DEF Grows
<1>5. Steady(old[s], t) => Settles(old, new)
  BY <1>2, <1>3 DEF Settles
<1> QED
  BY <1>4, <1>5 DEF new

LEMMA AddedSlot ==
  ASSUME NEW old \in Seq(Slot), NEW t \in Slot
  PROVE  Grows(old, Append(old, t)) /\ Settles(old, Append(old, t))
<1> DEFINE new == Append(old, t)
<1>1. /\ new \in Seq(Slot) /\ Len(new) = Len(old) + 1 /\ Len(old) \in Nat
      /\ \A k \in 1 .. Len(old) : new[k] = old[k]
  OBVIOUS
<1>2. \A k \in 1 .. Len(old) : old[k].gen \in Nat
  BY GenType
<1> HIDE DEF new
<1>3. Grows(old, new) /\ Settles(old, new)
  BY <1>1, <1>2 DEF Grows, Settles, Evolves, Steady
<1> QED
  BY <1>3 DEF new

-----------------------------------------------------------------------------
(* What the poll makes of a memory.                                        *)
LEMMA NoneFacts == None \in Invites /\ None.slot = 0
BY DEF None, Invites

LEMMA ReceivedFacts ==
  ASSUME HostTypes, NEW mem \in HostMemory
  PROVE  /\ Received(mem) \in HostMemory
         /\ Received(mem).peerByMember = mem.peerByMember
         /\ Received(mem).approvable = mem.approvable
<1> DEFINE fresh == Fresh(mem.after, {"response"})
           found == [g \in Guests |-> Latest(mem.response[g], fresh, g)]
<1>1. Len(signals) \in Nat
  BY DEF HostTypes
<1>2. found \in [Guests -> Nat]
  <2>1. PICK S : signals \in Seq(S)
    BY DEF HostTypes
  <2>2. \A g \in Guests : mem.response[g] \in Nat
    BY DEF HostMemory
  <2> QED
    BY <2>1, <2>2, LatestType
<1>3. Received(mem) = [mem EXCEPT !.after = Len(signals), !.response = found]
  BY DEF Received, HostMemory
<1> HIDE DEF found
<1> QED
  BY <1>1, <1>2, <1>3 DEF HostMemory

LEMMA SettledFacts ==
  ASSUME NEW view, NEW mem \in HostMemory
  PROVE  /\ Settled(view, mem) \in HostMemory
         /\ \A g \in Guests :
              /\ Settled(view, mem).peerByMember[g] \in {0, mem.peerByMember[g]}
              /\ Settled(view, mem).approvable[g] \in {None, mem.approvable[g]}
<1> DEFINE kept(table, none) == [g \in Guests |-> IF view[g] = "approved" THEN table[g] ELSE none]
           numbers == kept(mem.peerByMember, 0)
           responses == kept(mem.response, 0)
           imports == kept(mem.imported, 0)
           answers == kept(mem.approvable, None)
           decisions == kept(mem.approved, None)
           failures == {g \in mem.failed : view[g] = "approved"}
<1>1. /\ numbers \in [Guests -> Nat] /\ responses \in [Guests -> Nat]
      /\ imports \in [Guests -> Nat]
      /\ \A g \in Guests : numbers[g] \in {0, mem.peerByMember[g]}
  BY DEF HostMemory
<1>2. /\ answers \in [Guests -> Invites] /\ decisions \in [Guests -> Invites]
      /\ \A g \in Guests : answers[g] \in {None, mem.approvable[g]}
  BY NoneFacts DEF HostMemory
<1>3. failures \in SUBSET Guests
  BY DEF HostMemory
<1>4. Settled(view, mem) =
        [mem EXCEPT !.peerByMember = numbers, !.response = responses, !.imported = imports,
                    !.approvable = answers, !.approved = decisions, !.failed = failures]
  BY DEF Settled, HostMemory
<1> HIDE DEF numbers, responses, imports, answers, decisions, failures
<1> QED
  BY <1>1, <1>2, <1>3, <1>4 DEF HostMemory

LEMMA SettledRemembers ==
  ASSUME NEW view, NEW mem \in HostMemory, NEW roster, Len(roster) \in Nat,
         Remembers(mem, roster)
  PROVE  Remembers(Settled(view, mem), roster)
<1>1. ASSUME NEW g \in Guests
      PROVE  /\ Settled(view, mem).peerByMember[g] \in 0 .. Len(roster)
             /\ Answered(g, Settled(view, mem).approvable[g], roster)
  <2>1. /\ mem.peerByMember[g] \in 0 .. Len(roster) /\ 0 \in 0 .. Len(roster)
        /\ Answered(g, mem.approvable[g], roster)
    BY DEF Remembers
  <2>2. Answered(g, None, roster)
    BY NoneFacts DEF Answered
  <2> QED
    BY <2>1, <2>2, SettledFacts
<1> QED
  BY <1>1 DEF Remembers

LEMMA MarkedBeforeFacts ==
  ASSUME NEW mem \in HostMemory, NEW a \in HostAction
  PROVE  /\ MarkedBefore(mem, a) \in HostMemory
         /\ MarkedBefore(mem, a).peerByMember = mem.peerByMember
         /\ MarkedBefore(mem, a).approvable = mem.approvable
<1>1. a.guest \in Guests /\ a.invite \in Invites /\ a.signal \in Nat
  BY DEF HostAction
<1>2. CASE a.kind = "import_response"
  <2> DEFINE new == [mem.imported EXCEPT ![a.guest] = a.signal]
  <2>1. new \in [Guests -> Nat]
    BY <1>1 DEF HostMemory
  <2>2. MarkedBefore(mem, a) = [mem EXCEPT !.imported = new]
    BY <1>2 DEF MarkedBefore
  <2> HIDE DEF new
  <2> QED
    BY <2>1, <2>2 DEF HostMemory
<1>3. CASE a.kind = "approve"
  <2> DEFINE new == [mem.approved EXCEPT ![a.guest] = a.invite]
  <2>1. new \in [Guests -> Invites]
    BY <1>1 DEF HostMemory
  <2>2. MarkedBefore(mem, a) = [mem EXCEPT !.approved = new]
    BY <1>3 DEF MarkedBefore
  <2> HIDE DEF new
  <2> QED
    BY <2>1, <2>2 DEF HostMemory
<1>4. CASE a.kind \notin {"import_response", "approve"}
  BY <1>4 DEF MarkedBefore
<1> QED
  BY <1>2, <1>3, <1>4

(* A reply is filed only with the invitation it was about.                 *)
LEMMA MarkedAfterFacts ==
  ASSUME NEW mem \in HostMemory, NEW a \in HostAction, NEW roster, Len(roster) \in Nat,
         Remembers(mem, roster),
         a.kind = "create_invite" /\ a.ok => a.signal + 1 <= Len(roster),
         a.kind = "import_response" /\ a.ok => Answered(a.guest, a.invite, roster)
  PROVE  MarkedAfter(mem, a) \in HostMemory /\ Remembers(MarkedAfter(mem, a), roster)
<1>1. a.guest \in Guests /\ a.invite \in Invites /\ a.signal \in Nat /\ a.ok \in BOOLEAN
  BY DEF HostAction
<1>2. CASE a.kind = "create_invite" /\ a.ok
  <2> DEFINE new == [mem.peerByMember EXCEPT ![a.guest] = a.signal + 1]
  <2>1. new \in [Guests -> Nat]
    BY <1>1 DEF HostMemory
  <2>2. \A g \in Guests : new[g] \in {mem.peerByMember[g], a.signal + 1}
    BY <1>1 DEF HostMemory
  <2>3. a.signal + 1 \in 0 .. Len(roster)
    BY <1>1, <1>2
  <2>4. MarkedAfter(mem, a) = [mem EXCEPT !.peerByMember = new]
    BY <1>2 DEF MarkedAfter
  <2> HIDE DEF new
  <2>5. /\ MarkedAfter(mem, a) \in HostMemory /\ MarkedAfter(mem, a).peerByMember = new
        /\ MarkedAfter(mem, a).approvable = mem.approvable
    BY <2>1, <2>4 DEF HostMemory
  <2> QED
    BY <2>2, <2>3, <2>5 DEF Remembers
<1>3. CASE a.kind = "create_invite" /\ ~a.ok
  <2> DEFINE new == mem.failed \cup {a.guest}
  <2>0. new \in SUBSET Guests
    BY <1>1 DEF HostMemory
  <2>1. MarkedAfter(mem, a) = [mem EXCEPT !.failed = new]
    BY <1>3 DEF MarkedAfter
  <2> HIDE DEF new
  <2>2. /\ MarkedAfter(mem, a) \in HostMemory
        /\ MarkedAfter(mem, a).peerByMember = mem.peerByMember
        /\ MarkedAfter(mem, a).approvable = mem.approvable
    BY <2>0, <2>1 DEF HostMemory
  <2> QED
    BY <2>2 DEF Remembers
<1>4. CASE a.kind = "upload_invite"
  <2> DEFINE new == [mem.response EXCEPT ![a.guest] = 0]
             sent == mem.uploaded \cup {a.invite}
  <2>1. new \in [Guests -> Nat] /\ sent \in SUBSET Invites
    BY <1>1 DEF HostMemory
  <2>2. MarkedAfter(mem, a) = [mem EXCEPT !.uploaded = sent, !.response = new]
    BY <1>4 DEF MarkedAfter, HostMemory
  <2> HIDE DEF new, sent
  <2>3. /\ MarkedAfter(mem, a) \in HostMemory
        /\ MarkedAfter(mem, a).peerByMember = mem.peerByMember
        /\ MarkedAfter(mem, a).approvable = mem.approvable
    BY <2>1, <2>2 DEF HostMemory
  <2> QED
    BY <2>3 DEF Remembers
<1>5. CASE a.kind = "upload_notice"
  <2> DEFINE new == mem.noticed \cup {a.invite}
  <2>0. new \in SUBSET Invites
    BY <1>1 DEF HostMemory
  <2>1. MarkedAfter(mem, a) = [mem EXCEPT !.noticed = new]
    BY <1>5 DEF MarkedAfter
  <2> HIDE DEF new
  <2>2. /\ MarkedAfter(mem, a) \in HostMemory
        /\ MarkedAfter(mem, a).peerByMember = mem.peerByMember
        /\ MarkedAfter(mem, a).approvable = mem.approvable
    BY <2>0, <2>1 DEF HostMemory
  <2> QED
    BY <2>2 DEF Remembers
<1>6. CASE a.kind = "import_response" /\ a.ok
  <2> DEFINE new == [mem.approvable EXCEPT ![a.guest] = a.invite]
  <2>1. new \in [Guests -> Invites]
    BY <1>1 DEF HostMemory
  <2>2. \A g \in Guests : new[g] = IF g = a.guest THEN a.invite ELSE mem.approvable[g]
    BY <1>1 DEF HostMemory
  <2>3. MarkedAfter(mem, a) = [mem EXCEPT !.approvable = new]
    BY <1>6 DEF MarkedAfter
  <2> HIDE DEF new
  <2>4. /\ MarkedAfter(mem, a) \in HostMemory /\ MarkedAfter(mem, a).approvable = new
        /\ MarkedAfter(mem, a).peerByMember = mem.peerByMember
    BY <2>1, <2>3 DEF HostMemory
  <2> QED
    BY <1>6, <2>2, <2>4 DEF Remembers
<1>7. CASE \/ a.kind \notin {"create_invite", "upload_invite", "upload_notice", "import_response"}
           \/ a.kind = "import_response" /\ ~a.ok
  BY <1>7 DEF MarkedAfter
<1> QED
  BY <1>1, <1>2, <1>3, <1>4, <1>5, <1>6, <1>7

(* A step is planned for a slot of the roster, and an approval only where  *)
(* the answer is the guest's.                                              *)
LEMMA StepFacts ==
  ASSUME NEW mem \in HostMemory, slots \in Seq(Slot), Remembers(mem, slots),
         NEW g \in Guests, NEW a \in StepOf(g, mem)
  PROVE  a \in HostAction /\ Sound(a, "command", slots)
<1> DEFINE s == mem.peerByMember[g]
<1>1. s \in 0 .. Len(slots) /\ Len(slots) \in Nat /\ mem.response[g] \in Nat
      /\ Answered(g, mem.approvable[g], slots)
  BY DEF Remembers, HostMemory
<1>2. CASE s = 0
  <2>1. a = Action("create_invite", g, None, Len(slots))
    BY <1>2 DEF StepOf
  <2> QED
    BY <1>1, <2>1, NoneFacts DEF Action, HostAction, Kinds, Sound
<1>3. CASE s # 0
  <2>1. s \in 1 .. Len(slots)
    BY <1>1, <1>3
  <2>2. slots[s] \in Slot /\ slots[s].gen \in Nat
    BY <2>1, GenType
  <2>3. Invite(s) \in Invites /\ Invite(s).slot = s /\ Invite(s).gen = slots[s].gen
    BY <2>1, <2>2 DEF Invite, Invites
  <2>4. \/ a = Action("upload_notice", g, Invite(s), 0)
        \/ a = Action("upload_invite", g, Invite(s), 0)
        \/ a = Action("import_response", g, Invite(s), mem.response[g])
        \/ /\ a = Action("approve", g, Invite(s), 0)
           /\ slots[s].state = "approval_pending" /\ mem.approvable[g] = Invite(s)
    BY <1>3 DEF StepOf
  <2> HIDE DEF s
  <2>5. ASSUME slots[s].state = "approval_pending", mem.approvable[g] = Invite(s)
        PROVE  AwaitsOnly(slots[s], g)
    <3>1. Past(slots[s], slots[s].gen, g)
      BY <1>1, <1>3, <2>3, <2>5 DEF Answered
    <3> QED
      BY <2>5, <3>1 DEF Past, AwaitsOnly
  <2>6. a \in HostAction
    <3>1. \A kind \in Kinds, invite \in Invites, signal \in Nat :
            Action(kind, g, invite, signal) \in HostAction
      BY DEF Action, HostAction
    <3> QED
      BY <1>1, <2>3, <2>4, <3>1 DEF Kinds
  <2>7. Sound(a, "command", slots)
    BY <2>1, <2>2, <2>3, <2>4, <2>5 DEF Action, Sound
  <2> QED
    BY <2>6, <2>7
<1> QED
  BY <1>2, <1>3

-----------------------------------------------------------------------------
(* The steps of the host's poll.                                           *)
LEMMA Vocabulary ==
  ASSUME IInv
  PROVE  /\ member \in View /\ slots \in Seq(Slot) /\ Len(slots) \in Nat
         /\ memory \in HostMemory /\ Remembers(memory, slots)
         /\ poll \in Poll /\ poll.view \in View /\ Honest(poll, slots)
         /\ poll.pc # "idle" => poll.mem \in HostMemory /\ Remembers(poll.mem, slots)
         /\ poll.pc \in {"command", "reply"} =>
              poll.action \in HostAction /\ Sound(poll.action, poll.pc, slots)
BY PollFacts DEF IInv, HostTypes, Honest

(* A poll at rest or between two steps.                                    *)
LEMMA AtRest ==
  ASSUME NEW view \in View, NEW roster, NEW mem
  PROVE  /\ [pc |-> "idle", view |-> view] \in Poll
         /\ Honest([pc |-> "idle", view |-> view], roster)
         /\ mem \in HostMemory => [pc |-> "steps", view |-> view, mem |-> mem] \in Poll
         /\ Remembers(mem, roster) => Honest([pc |-> "steps", view |-> view, mem |-> mem], roster)
BY DEF Poll, Honest

LEMMA HostFetchSafe ==
  ASSUME IInv, HostFetch
  PROVE  IInv'
<1> DEFINE mem == Settled(member, Received(memory))
<1>1. /\ memory' = mem /\ poll' = [pc |-> "steps", view |-> member, mem |-> mem]
      /\ UNCHANGED <<member, signals, slots>>
  BY DEF HostFetch
<1>2. HostTypes
  BY DEF IInv
<1>3. /\ Received(memory) \in HostMemory
      /\ Received(memory).peerByMember = memory.peerByMember
      /\ Received(memory).approvable = memory.approvable
  BY <1>2, Vocabulary, ReceivedFacts
<1>4. Remembers(Received(memory), slots)
  BY <1>3, Vocabulary DEF Remembers
<1>5. mem \in HostMemory /\ Remembers(mem, slots)
  BY <1>3, <1>4, Vocabulary, SettledFacts, SettledRemembers
<1> HIDE DEF mem
<1>6. poll' \in Poll /\ Honest(poll', slots)
  BY <1>1, <1>5, Vocabulary, AtRest
<1> QED
  BY <1>1, <1>2, <1>5, <1>6 DEF IInv, HostTypes

LEMMA HostPlanSafe ==
  ASSUME IInv, HostPlan
  PROVE  IInv'
<1>1. PICK a \in PlanHost(poll.view, poll.mem) :
        poll' = [pc |-> "command", view |-> poll.view, mem |-> MarkedBefore(poll.mem, a),
                 action |-> a]
  BY DEF HostPlan
<1>2. poll.pc = "steps" /\ UNCHANGED <<member, signals, slots, memory>>
  BY DEF HostPlan
<1>3. /\ slots \in Seq(Slot) /\ poll.mem \in HostMemory /\ Remembers(poll.mem, slots)
      /\ poll.view \in View
  BY <1>2, Vocabulary
<1>4. PICK g \in Guests : a \in StepOf(g, poll.mem)
  BY <1>1 DEF PlanHost
<1>5. a \in HostAction /\ Sound(a, "command", slots)
  BY <1>3, <1>4, StepFacts
<1> DEFINE mem == MarkedBefore(poll.mem, a)
<1>6. /\ mem \in HostMemory /\ mem.peerByMember = poll.mem.peerByMember
      /\ mem.approvable = poll.mem.approvable
  BY <1>3, <1>5, MarkedBeforeFacts
<1>7. Remembers(mem, slots)
  BY <1>3, <1>6 DEF Remembers
<1> HIDE DEF mem
<1>8. poll' = [pc |-> "command", view |-> poll.view, mem |-> mem, action |-> a]
  BY <1>1 DEF mem
<1>9. poll' \in Poll
  BY <1>3, <1>5, <1>6, <1>8 DEF Poll
<1>10. Honest(poll', slots)
  BY <1>5, <1>7, <1>8 DEF Honest
<1> QED
  BY <1>2, <1>9, <1>10 DEF IInv, HostTypes

LEMMA AbortSafe ==
  ASSUME IInv, Abort, UNCHANGED <<member, slots, memory>>, \E S : signals' \in Seq(S)
  PROVE  IInv'
<1>1. poll' \in Poll /\ Honest(poll', slots)
  BY Vocabulary, AtRest DEF Abort
<1> QED
  BY <1>1 DEF IInv, HostTypes

LEMMA DoneFacts ==
  ASSUME poll \in Poll, poll.pc = "command", NEW ok \in BOOLEAN, Done(ok)
  PROVE  /\ poll' \in Poll /\ poll'.pc = "reply" /\ poll'.mem = poll.mem
         /\ poll'.action \in HostAction
         /\ poll'.action = [poll.action EXCEPT !.ok = ok]
<1> DEFINE a == [poll.action EXCEPT !.ok = ok]
<1>1. /\ poll \in [pc : {"command", "reply"}, view : View, mem : HostMemory, action : HostAction]
      /\ poll.action \in HostAction
  BY DEF Poll
<1>2. a \in HostAction
  BY <1>1 DEF HostAction
<1>3. poll' = [poll EXCEPT !.pc = "reply", !.action = a]
  BY <1>1 DEF Done
<1> HIDE DEF a
<1>4. /\ poll' \in [pc : {"command", "reply"}, view : View, mem : HostMemory, action : HostAction]
      /\ poll'.pc = "reply" /\ poll'.mem = poll.mem /\ poll'.action = a
  BY <1>1, <1>2, <1>3
<1> QED
  BY <1>2, <1>4 DEF Poll, a

(* The engine did it, and the roster has grown by it.                      *)
LEMMA DoneSafe ==
  ASSUME IInv, poll.pc = "command", NEW ok \in BOOLEAN, Done(ok),
         UNCHANGED <<member, memory>>, \E S : signals' \in Seq(S),
         Grows(slots, slots'),
         LET a == poll.action
         IN  /\ a.kind = "create_invite" /\ ok => a.signal + 1 <= Len(slots')
             /\ a.kind = "import_response" /\ ok => Answered(a.guest, a.invite, slots')
  PROVE  IInv'
<1>1. /\ poll' \in Poll /\ poll'.pc = "reply" /\ poll'.mem = poll.mem
      /\ poll'.action = [poll.action EXCEPT !.ok = ok]
  BY Vocabulary, DoneFacts
<1>2. /\ poll.action \in HostAction /\ Sound(poll.action, "command", slots)
      /\ poll.mem \in HostMemory /\ Remembers(poll.mem, slots)
  BY Vocabulary
<1> DEFINE a == poll.action
           b == [a EXCEPT !.ok = ok]
<1>3. /\ b.kind = a.kind /\ b.guest = a.guest /\ b.invite = a.invite /\ b.signal = a.signal
      /\ b.ok = ok /\ a.signal \in Nat
  BY <1>2 DEF HostAction
<1> HIDE DEF a, b
<1>4. Sound(b, "reply", slots')
  <2>1. Len(slots) \in Nat /\ Len(slots') \in Nat /\ Len(slots) <= Len(slots')
    BY DEF Grows
  <2>2. a \in HostAction /\ Sound(a, "command", slots)
    BY <1>2 DEF a
  <2>3. b.kind # "create_invite" => b.invite.slot \in 1 .. Len(slots')
    BY <1>3, <2>1, <2>2 DEF Sound
  <2>4. ASSUME b.kind = "import_response"
        PROVE  b.invite.gen <= slots'[b.invite.slot].gen
    <3>1. a.invite.slot \in 1 .. Len(slots) /\ a.invite.slot \in 1 .. Len(slots')
      BY <1>3, <2>1, <2>2, <2>4 DEF Sound
    <3>2. /\ slots[a.invite.slot].gen \in Nat /\ slots'[a.invite.slot].gen \in Nat
          /\ a.invite.gen \in Nat
      BY <2>2, <3>1, GenType DEF Grows, HostAction, Invites
    <3>3. /\ a.invite.gen <= slots[a.invite.slot].gen
          /\ slots[a.invite.slot].gen <= slots'[a.invite.slot].gen
      BY <1>3, <2>2, <2>4, <3>1 DEF Sound, Grows, Evolves
    <3> QED
      BY <1>3, <3>2, <3>3
  <2>5. b.kind = "create_invite" => b.signal + (IF b.ok THEN 1 ELSE 0) <= Len(slots')
    <3>1. a.kind = "create_invite" => a.signal <= Len(slots)
      BY <1>3, <2>2 DEF Sound
    <3> QED
      BY <1>3, <2>1, <3>1 DEF a
  <2>6. b.kind = "import_response" /\ b.ok => Answered(b.guest, b.invite, slots')
    BY <1>3 DEF a
  <2> QED
    BY <2>3, <2>4, <2>5, <2>6 DEF Sound
<1>5. Remembers(poll'.mem, slots') /\ Remembers(memory, slots')
  BY <1>1, <1>2, Vocabulary, RemembersGrows
<1>6. Honest(poll', slots')
  BY <1>1, <1>4, <1>5 DEF Honest, a, b
<1>7. HostTypes'
  BY <1>1, Vocabulary DEF HostTypes, Grows
<1> QED
  BY <1>5, <1>6, <1>7 DEF IInv

LEMMA HostCommandSafe ==
  ASSUME IInv, HostCommand
  PROVE  IInv'
<1> DEFINE a == poll.action
           s == poll.action.invite.slot
<1>1. /\ poll.pc = "command" /\ UNCHANGED <<member, signals, memory>>
      /\ \E S : signals' \in Seq(S)
  BY DEF HostCommand, IInv, HostTypes
<1>2. /\ a \in HostAction /\ Sound(a, "command", slots) /\ slots \in Seq(Slot)
      /\ Len(slots) \in Nat
  BY <1>1, Vocabulary
<1>3. a.guest \in Djs /\ a.signal \in Nat /\ a.invite.gen \in Nat
  BY <1>2 DEF HostAction, Invites, Djs
<1>4. CASE a.kind = "create_invite"
  <2>1. slots' = Append(slots, NewSlot(a.guest)) /\ Done(TRUE)
    BY <1>4 DEF HostCommand
  <2>2. NewSlot(a.guest) \in Slot
    BY <1>3 DEF NewSlot, Slot, SlotStates, Djs
  <2>3. Grows(slots, slots')
    BY <1>2, <2>1, <2>2, AddedSlot
  <2>4. a.signal + 1 <= Len(slots')
    BY <1>2, <1>3, <1>4, <2>1 DEF Sound
  <2> QED
    BY <1>1, <1>4, <2>1, <2>3, <2>4, DoneSafe
<1>5. CASE a.kind = "import_response"
  <2> DEFINE packet == signals[a.signal].invite
             takes == packet.slot = s /\ Importable(slots[s], packet.gen, a.guest)
  <2>1. /\ slots' = IF takes THEN [slots EXCEPT ![s] = Imported(@, a.guest)] ELSE slots
        /\ Done(takes)
    BY <1>5 DEF HostCommand
  <2>2. s \in 1 .. Len(slots) /\ slots[s] \in Slot /\ slots[s].gen \in Nat
    BY <1>2, <1>5, GenType DEF Sound
  <2>3. a.invite.gen <= slots[s].gen
    BY <1>2, <1>5 DEF Sound
  <2>4. CASE takes
    <3> DEFINE t == Imported(slots[s], a.guest)
    <3>1. slots[s].state = "invite_ready"
      BY <2>4 DEF Importable
    <3>2. /\ t \in Slot /\ t.gen = slots[s].gen /\ t.state = "approval_pending"
          /\ t.answer = a.guest
      BY <1>3, <2>2 DEF Imported, Slot, SlotStates
    <3>3. slots' = [slots EXCEPT ![s] = t]
      BY <2>1, <2>4
    <3> HIDE DEF t
    <3>4. Evolves(slots[s], t)
      BY <2>2, <3>1, <3>2 DEF Evolves, Early
    <3>5. Grows(slots, slots') /\ slots'[s] = t /\ Len(slots') = Len(slots)
      <4>1. slots \in Seq(Slot) /\ s \in 1 .. Len(slots) /\ t \in Slot
        BY <1>2, <2>2, <3>2
      <4>2. Grows(slots, slots')
        BY <3>3, <3>4, <4>1, ChangedSlot
      <4>3. slots'[s] = t /\ Len(slots') = Len(slots)
        BY <3>3, <4>1
      <4> QED
        BY <4>2, <4>3
    <3>6. Answered(a.guest, a.invite, slots')
      BY <2>2, <2>3, <3>2, <3>5 DEF Answered, Past, Early
    <3>7. Done(TRUE)
      BY <2>1, <2>4
    <3> QED
      BY <1>1, <1>5, <3>5, <3>6, <3>7, DoneSafe
  <2>5. CASE ~takes
    <3>1. Done(FALSE) /\ slots' = slots
      BY <2>1, <2>5
    <3>2. Grows(slots, slots')
      BY <1>2, <3>1, GenType DEF Grows, Evolves
    <3> QED
      BY <1>1, <3>1, <3>2, DoneSafe
  <2> QED
    BY <2>4, <2>5
<1>6. CASE a.kind = "approve"
  <2> DEFINE takes == slots[s].state = "approval_pending"
  <2>1. /\ slots' = IF takes THEN [slots EXCEPT ![s] = Approved(@)] ELSE slots
        /\ Done(takes)
    BY <1>6 DEF HostCommand
  <2>2. s \in 1 .. Len(slots) /\ slots[s] \in Slot /\ slots[s].gen \in Nat
    BY <1>2, <1>6, GenType DEF Sound
  <2>3. CASE takes
    <3> DEFINE t == Approved(slots[s])
    <3>1. t \in Slot /\ t.gen = slots[s].gen /\ t.state = "connecting"
      BY <2>2 DEF Approved, Slot, SlotStates, Djs
    <3>2. slots' = [slots EXCEPT ![s] = t] /\ Done(TRUE)
      BY <2>1, <2>3
    <3> HIDE DEF t
    <3>3. Evolves(slots[s], t)
      BY <2>2, <3>1 DEF Evolves, Early
    <3>4. Grows(slots, slots')
      BY <1>2, <2>2, <3>1, <3>2, <3>3, ChangedSlot
    <3> QED
      BY <1>1, <1>6, <3>2, <3>4, DoneSafe
  <2>4. CASE ~takes
    <3>1. Done(FALSE) /\ slots' = slots
      BY <2>1, <2>4
    <3>2. Grows(slots, slots')
      BY <1>2, <3>1, GenType DEF Grows, Evolves
    <3> QED
      BY <1>1, <3>1, <3>2, DoneSafe
  <2> QED
    BY <2>3, <2>4
<1> QED
  BY <1>4, <1>5, <1>6 DEF HostCommand

LEMMA HostUploadSafe ==
  ASSUME IInv, HostUpload
  PROVE  IInv'
<1>1. /\ poll.pc = "command" /\ poll.action.kind \in Uploads
      /\ UNCHANGED <<member, slots, memory>>
  BY DEF HostUpload
<1>2. \E S : signals' \in Seq(S)
  <2>1. PICK S : signals \in Seq(S)
    BY DEF IInv, HostTypes
  <2>2. signals' = signals \/ \E x : signals' = Append(signals, x)
    BY DEF HostUpload, Post
  <2>3. CASE signals' = signals
    BY <2>1, <2>3
  <2>4. ASSUME NEW x, signals' = Append(signals, x)
        PROVE  \E R : signals' \in Seq(R)
    <3>1. signals \in Seq(S \cup {x})
      BY <2>1
    <3>2. signals' \in Seq(S \cup {x})
      BY <2>4, <3>1
    <3> QED
      BY <3>2
  <2> QED
    BY <2>2, <2>3, <2>4
<1>3. CASE Abort
  BY <1>1, <1>2, <1>3, AbortSafe
<1>4. CASE Done(TRUE)
  <2>1. Grows(slots, slots')
    BY <1>1, Vocabulary, GenType DEF Grows, Evolves
  <2> QED
    BY <1>1, <1>2, <1>4, <2>1, DoneSafe DEF Uploads
<1> QED
  BY <1>3, <1>4 DEF HostUpload

(* A reply is filed, that of a command that failed included.               *)
LEMMA FiledSafe ==
  ASSUME IInv, NEW a \in HostAction, poll.pc \in {"command", "reply"},
         a.kind = "create_invite" /\ a.ok => a.signal + 1 <= Len(slots),
         a.kind = "import_response" /\ a.ok => Answered(a.guest, a.invite, slots),
         memory' = MarkedAfter(poll.mem, a),
         poll' = [pc |-> "steps", view |-> poll.view, mem |-> memory'],
         UNCHANGED <<member, signals, slots>>
  PROVE  IInv'
<1>1. memory' \in HostMemory /\ Remembers(memory', slots)
  BY Vocabulary, MarkedAfterFacts
<1>2. poll' \in Poll /\ Honest(poll', slots)
  BY <1>1, Vocabulary, AtRest
<1> QED
  BY <1>1, <1>2 DEF IInv, HostTypes

LEMMA HostReplySafe ==
  ASSUME IInv, HostReply
  PROVE  IInv'
<1> DEFINE a == poll.action
<1>1. a \in HostAction /\ Sound(a, "reply", slots)
  BY Vocabulary DEF HostReply
<1>2. a.kind = "create_invite" /\ a.ok => a.signal + 1 <= Len(slots)
  BY <1>1 DEF Sound
<1>3. a.kind = "import_response" /\ a.ok => Answered(a.guest, a.invite, slots)
  BY <1>1 DEF Sound
<1> QED
  BY <1>1, <1>2, <1>3, FiledSafe DEF HostReply

LEMMA HostStepFailsSafe ==
  ASSUME IInv, HostStepFails
  PROVE  IInv'
<1>1. poll.pc \in {"command", "reply"} /\ UNCHANGED <<member, signals, slots>>
  BY DEF HostStepFails
<1>2. CASE poll.action.kind \in Uploads
  <2>1. Abort /\ UNCHANGED memory /\ \E S : signals' \in Seq(S)
    BY <1>1, <1>2 DEF HostStepFails, IInv, HostTypes
  <2> QED
    BY <1>1, <2>1, AbortSafe
<1>3. CASE poll.action.kind \notin Uploads
  <2> DEFINE a == [poll.action EXCEPT !.ok = FALSE]
  <2>1. /\ memory' = MarkedAfter(poll.mem, a)
        /\ poll' = [pc |-> "steps", view |-> poll.view, mem |-> memory']
    BY <1>3 DEF HostStepFails
  <2>2. poll.action \in HostAction
    BY <1>1, Vocabulary
  <2>3. a \in HostAction /\ a.ok = FALSE
    BY <2>2 DEF HostAction
  <2> HIDE DEF a
  <2> QED
    BY <1>1, <2>1, <2>3, FiledSafe
<1> QED
  BY <1>2, <1>3

-----------------------------------------------------------------------------
(* The buttons of the roster, the engines, and the guests.                 *)
LEMMA RosterSafe ==
  ASSUME IInv, Grows(slots, slots'), poll.pc = "command" => Settles(slots, slots'),
         UNCHANGED <<member, signals, memory, poll>>
  PROVE  IInv'
<1>1. Remembers(memory, slots')
  BY Vocabulary, RemembersGrows
<1>2. Honest(poll, slots')
  BY Vocabulary, HonestGrows
<1>3. HostTypes'
  BY DEF IInv, HostTypes, Grows
<1> QED
  BY <1>1, <1>2, <1>3 DEF IInv

LEMMA BecomesSafe ==
  ASSUME IInv, NEW s \in 1 .. Len(slots), NEW t \in Slot, Evolves(slots[s], t),
         poll.pc = "command" => Steady(slots[s], t),
         slots' = [slots EXCEPT ![s] = t], UNCHANGED <<member, signals, memory, poll>>
  PROVE  IInv'
<1>1. slots \in Seq(Slot)
  BY Vocabulary
<1>2. Grows(slots, slots') /\ (poll.pc = "command" => Settles(slots, slots'))
  BY <1>1, ChangedSlot
<1> QED
  BY <1>2, RosterSafe

(* What becomes of a slot.                                                 *)
LEMMA SlotFacts ==
  ASSUME NEW s \in Slot
  PROVE  /\ Renewed(s) \in Slot /\ Evolves(s, Renewed(s)) /\ Steady(s, Renewed(s))
         /\ s.state = "invite_ready" =>
              LET t == Imported(s, Stranger)
              IN  t \in Slot /\ Evolves(s, t) /\ Steady(s, t)
         /\ s.state = "approval_pending" =>
              LET t == Approved(s) IN t \in Slot /\ Evolves(s, t) /\ Steady(s, t)
         /\ Withdrawn(s) \in Slot /\ Evolves(s, Withdrawn(s)) /\ Steady(s, Withdrawn(s))
<1>1. s.gen \in Nat
  BY DEF Slot
<1>2. Renewed(s) \in Slot /\ Evolves(s, Renewed(s)) /\ Steady(s, Renewed(s))
  <2> DEFINE t == Renewed(s)
  <2> DEFINE later == s.gen + 1
  <2>1. later \in Nat /\ later # s.gen /\ s.gen <= later
    BY <1>1
  <2>2. t = [s EXCEPT !.gen = later, !.state = "collecting", !.answer = Nobody, !.notice = FALSE]
    BY DEF Renewed
  <2> HIDE DEF later
  <2>3. t \in Slot /\ t.gen = later /\ t.state = "collecting"
    BY <2>1, <2>2 DEF Slot, SlotStates, Djs
  <2> HIDE DEF t
  <2> QED
    BY <1>1, <2>1, <2>3 DEF Evolves, Steady, t
<1>3. ASSUME s.state = "invite_ready"
      PROVE  LET t == Imported(s, Stranger) IN t \in Slot /\ Evolves(s, t) /\ Steady(s, t)
  <2> DEFINE t == Imported(s, Stranger)
  <2>1. t \in Slot /\ t.gen = s.gen /\ t.state = "approval_pending"
    BY DEF Imported, Slot, SlotStates, Djs
  <2> HIDE DEF t
  <2>2. Evolves(s, t) /\ Steady(s, t)
    BY <1>1, <1>3, <2>1 DEF Evolves, Early, Steady
  <2> QED
    BY <2>1, <2>2 DEF t
<1>4. ASSUME s.state = "approval_pending"
      PROVE  LET t == Approved(s) IN t \in Slot /\ Evolves(s, t) /\ Steady(s, t)
  <2> DEFINE t == Approved(s)
  <2>1. t \in Slot /\ t.gen = s.gen /\ t.state = "connecting"
    BY DEF Approved, Slot, SlotStates, Djs
  <2> HIDE DEF t
  <2>2. Evolves(s, t) /\ Steady(s, t)
    BY <1>1, <2>1 DEF Evolves, Early, Steady
  <2> QED
    BY <2>1, <2>2 DEF t
<1>5. Withdrawn(s) \in Slot /\ Evolves(s, Withdrawn(s)) /\ Steady(s, Withdrawn(s))
  <2> DEFINE t == Withdrawn(s)
  <2>1. t \in Slot /\ t.gen = s.gen /\ t.state = "cancelled"
    BY DEF Withdrawn, Slot, SlotStates, Terminal, Djs
  <2> HIDE DEF t
  <2> QED
    BY <1>1, <2>1 DEF Evolves, Early, Steady, t
<1> QED
  BY <1>2, <1>3, <1>4, <1>5

LEMMA RosterButtonSafe ==
  ASSUME IInv, NEW s \in 1 .. Len(slots), RosterButton(s)
  PROVE  IInv'
<1>1. slots[s] \in Slot
  BY Vocabulary, GenType
<1>2. ASSUME NEW t, Becomes(s, t)
      PROVE  slots' = [slots EXCEPT ![s] = t] /\ UNCHANGED <<member, signals, memory, poll>>
  BY <1>2 DEF Becomes, Roster
<1>3. CASE InviteAgain(s)
  BY <1>1, <1>2, <1>3, SlotFacts, BecomesSafe DEF InviteAgain
<1>4. CASE ImportByHand(s)
  <2> DEFINE t == Imported(slots[s], Stranger)
  <2>1. t \in Slot /\ Evolves(slots[s], t) /\ Steady(slots[s], t)
    BY <1>1, <1>4, SlotFacts DEF ImportByHand, Importable
  <2>2. Becomes(s, t)
    BY <1>4 DEF ImportByHand
  <2> QED
    BY <1>2, <2>1, <2>2, BecomesSafe
<1>5. CASE ApproveByHand(s)
  <2> DEFINE t == Approved(slots[s])
  <2>1. t \in Slot /\ Evolves(slots[s], t) /\ Steady(slots[s], t)
    BY <1>1, <1>5, SlotFacts DEF ApproveByHand
  <2>2. Becomes(s, t)
    BY <1>5 DEF ApproveByHand
  <2> QED
    BY <1>2, <2>1, <2>2, BecomesSafe
<1>6. CASE Refuse(s) \/ Cancel(s)
  BY <1>1, <1>2, <1>6, SlotFacts, BecomesSafe DEF Refuse, Cancel
<1> QED
  BY <1>3, <1>4, <1>5, <1>6 DEF RosterButton

LEMMA EngineSafe ==
  ASSUME IInv, NEW s \in 1 .. Len(slots),
         \/ HostGathers(s) \/ ConnectTimesOut(s) \/ AttemptFails(s)
         \/ \E g \in Guests : LinkUp(s, g)
  PROVE  IInv'
<1>1. slots[s] \in Slot /\ slots[s].gen \in Nat /\ UNCHANGED <<member, signals, memory, poll>>
  BY Vocabulary, GenType DEF HostGathers, ConnectTimesOut, AttemptFails, LinkUp, Becomes, Roster
<1>2. CASE HostGathers(s)
  <2> DEFINE t == [slots[s] EXCEPT !.state = "invite_ready"]
  <2>1. slots' = [slots EXCEPT ![s] = t] /\ slots[s].state = "collecting" /\ poll.pc # "command"
    BY <1>2 DEF HostGathers, Quick, Becomes, Roster
  <2>2. t \in Slot /\ t.gen = slots[s].gen /\ t.state = "invite_ready"
    BY <1>1 DEF Slot, SlotStates
  <2> HIDE DEF t
  <2>3. Evolves(slots[s], t)
    BY <1>1, <2>1, <2>2 DEF Evolves, Early
  <2> QED
    BY <1>1, <2>1, <2>2, <2>3, BecomesSafe
<1>3. CASE ConnectTimesOut(s)
  <2> DEFINE t == [slots[s] EXCEPT !.state = "failed"]
  <2>1. slots' = [slots EXCEPT ![s] = t]
    BY <1>3 DEF ConnectTimesOut, Becomes, Roster
  <2>2. t \in Slot /\ t.gen = slots[s].gen /\ t.state = "failed"
    BY <1>1 DEF Slot, SlotStates, Terminal
  <2> HIDE DEF t
  <2>3. Evolves(slots[s], t) /\ Steady(slots[s], t)
    BY <1>1, <2>2 DEF Evolves, Early, Steady
  <2> QED
    BY <1>1, <2>1, <2>2, <2>3, BecomesSafe
<1>4. CASE AttemptFails(s)
  <2> DEFINE t == [slots[s] EXCEPT !.state = "failed", !.answer = Nobody]
  <2>1. slots' = [slots EXCEPT ![s] = t]
    BY <1>4 DEF AttemptFails, Becomes, Roster
  <2>2. t \in Slot /\ t.gen = slots[s].gen /\ t.state = "failed"
    BY <1>1 DEF Slot, SlotStates, Terminal, Djs
  <2> HIDE DEF t
  <2>3. Evolves(slots[s], t) /\ Steady(slots[s], t)
    BY <1>1, <2>2 DEF Evolves, Early, Steady
  <2> QED
    BY <1>1, <2>1, <2>2, <2>3, BecomesSafe
<1>5. ASSUME NEW g \in Guests, LinkUp(s, g)
      PROVE  IInv'
  <2> DEFINE t == [slots[s] EXCEPT !.state = "connected"]
  <2>1. slots' = [slots EXCEPT ![s] = t]
    BY <1>5 DEF LinkUp
  <2>2. t \in Slot /\ t.gen = slots[s].gen /\ t.state = "connected"
    BY <1>1 DEF Slot, SlotStates
  <2> HIDE DEF t
  <2>3. Evolves(slots[s], t) /\ Steady(slots[s], t)
    BY <1>1, <2>2 DEF Evolves, Early, Steady
  <2> QED
    BY <1>1, <2>1, <2>2, <2>3, BecomesSafe
<1> QED
  BY <1>2, <1>3, <1>4, <1>5

LEMMA InviteByHandSafe ==
  ASSUME IInv, InviteByHand
  PROVE  IInv'
<1>1. NewSlot(Stranger) \in Slot
  BY DEF NewSlot, Slot, SlotStates, Djs
<1>2. slots' = Append(slots, NewSlot(Stranger)) /\ UNCHANGED <<member, signals, memory, poll>>
  BY DEF InviteByHand, Roster
<1> QED
  BY <1>1, <1>2, Vocabulary, AddedSlot, RosterSafe

LEMMA RetryRequestSafe ==
  ASSUME IInv, NEW g, RetryRequest(g)
  PROVE  IInv'
<1> DEFINE live == IF poll.pc = "idle" THEN memory ELSE poll.mem
           failures == live.failed \ {g}
           mem == [live EXCEPT !.failed = failures]
<1>1. /\ memory' = mem /\ poll' = IF poll.pc = "idle" THEN poll ELSE [poll EXCEPT !.mem = mem]
      /\ UNCHANGED <<member, signals, slots>>
  BY DEF RetryRequest
<1>2. live \in HostMemory /\ Remembers(live, slots)
  BY Vocabulary
<1>3. failures \in SUBSET Guests
  BY <1>2 DEF HostMemory
<1> HIDE DEF live, failures
<1>4. /\ mem \in HostMemory /\ mem.peerByMember = live.peerByMember
      /\ mem.approvable = live.approvable
  BY <1>2, <1>3 DEF HostMemory
<1> HIDE DEF mem
<1>5. Remembers(mem, slots)
  BY <1>2, <1>4 DEF Remembers
<1>6. poll' \in Poll /\ Honest(poll', slots)
  <2>1. poll \in Poll /\ Honest(poll, slots)
    BY Vocabulary
  <2>2. CASE poll.pc = "idle"
    BY <1>1, <2>1, <2>2
  <2>3. CASE poll.pc = "steps"
    <3>1. poll' = [poll EXCEPT !.mem = mem] /\ poll \in [pc : {"steps"}, view : View, mem : HostMemory]
      BY <1>1, <2>1, <2>3 DEF Poll
    <3>2. /\ poll' \in [pc : {"steps"}, view : View, mem : HostMemory]
          /\ poll'.pc = "steps" /\ poll'.mem = mem
      BY <1>4, <3>1
    <3> QED
      BY <1>5, <3>2 DEF Poll, Honest
  <2>4. CASE poll.pc \in {"command", "reply"}
    <3> DEFINE Busy == [pc : {"command", "reply"}, view : View, mem : HostMemory, action : HostAction]
    <3>1. poll' = [poll EXCEPT !.mem = mem] /\ poll \in Busy
      BY <1>1, <2>1, <2>4 DEF Poll
    <3>2. /\ poll' \in Busy /\ poll'.pc = poll.pc /\ poll'.mem = mem
          /\ poll'.action = poll.action
      BY <1>4, <3>1
    <3> QED
      BY <1>5, <2>1, <2>4, <3>2 DEF Poll, Honest
  <2> QED
    BY <2>1, <2>2, <2>3, <2>4, PollFacts
<1> QED
  BY <1>1, <1>4, <1>5, <1>6 DEF IInv, HostTypes

(* What else happens touches neither roster, memory nor poll.              *)
LEMMA ElsewhereSafe ==
  ASSUME IInv, UNCHANGED <<slots, memory, poll>>, member' \in View, \E S : signals' \in Seq(S)
  PROVE  IInv'
BY DEF IInv, HostTypes

LEMMA LeaveFacts ==
  ASSUME IInv, NEW g, Leave(g)
  PROVE  member' \in View /\ \E S : signals' \in Seq(S)
<1>1. member' \in View
  BY Vocabulary DEF Leave, View, Statuses
<1>2. PICK S : signals \in Seq(S)
  BY DEF IInv, HostTypes
<1> DEFINE new(i) == IF signals[i].guest = g THEN [signals[i] EXCEPT !.text = FALSE] ELSE signals[i]
           R == {new(i) : i \in 1 .. Len(signals)}
<1>3. signals' = [i \in 1 .. Len(signals) |-> new(i)] /\ Len(signals) \in Nat
  BY <1>2 DEF Leave
<1>4. \A i \in 1 .. Len(signals) : new(i) \in R
  BY Zenon
<1> HIDE DEF new, R
<1>5. signals' \in Seq(R)
  BY <1>3, <1>4
<1> QED
  BY <1>1, <1>5

LEMMA PostFacts ==
  ASSUME IInv, NEW g, NEW kind, NEW invite, Post(g, kind, invite)
  PROVE  \E S : signals' \in Seq(S)
<1>1. PICK S : signals \in Seq(S)
  BY DEF IInv, HostTypes
<1>2. PICK x : signals' = Append(signals, x)
  BY DEF Post
<1>3. signals \in Seq(S \cup {x})
  BY <1>1
<1>4. signals' \in Seq(S \cup {x})
  BY <1>2, <1>3
<1> QED
  BY <1>4

LEMMA GuestSafe ==
  ASSUME IInv, NEW g \in Guests,
         \/ \E status \in {"approved", "rejected"} : Decide(g, status)
         \/ RequestJoin(g) \/ EndLink(g) \/ LeaveSession(g)
         \/ GuestPoll(g) \/ GuestGathers(g) \/ GuestStepFails(g) \/ GuestReloads(g)
  PROVE  IInv'
<1>1. member \in View /\ \E S : signals \in Seq(S)
  BY Vocabulary DEF IInv, HostTypes
<1>2. ASSUME NEW status \in {"approved", "rejected"}, Decide(g, status)
      PROVE  IInv'
  <2>1. member' \in View
    BY <1>1, <1>2 DEF Decide, View, Statuses
  <2> QED
    BY <1>1, <1>2, <2>1, ElsewhereSafe DEF Decide
<1>3. CASE RequestJoin(g)
  <2>1. member' \in View
    BY <1>1, <1>3 DEF RequestJoin, View, Statuses
  <2> QED
    BY <1>1, <1>3, <2>1, ElsewhereSafe DEF RequestJoin
<1>4. CASE EndLink(g)
  BY <1>4, LeaveFacts, ElsewhereSafe DEF EndLink
<1>5. CASE LeaveSession(g) \/ GuestGathers(g) \/ GuestStepFails(g) \/ GuestReloads(g)
  BY <1>1, <1>5, ElsewhereSafe DEF LeaveSession, GuestGathers, GuestStepFails, GuestReloads
<1>6. CASE GuestFetch(g)
  <2>1. UNCHANGED <<slots, memory, poll>> /\ (Leave(g) \/ UNCHANGED <<member, signals>>)
    BY <1>6 DEF GuestFetch
  <2> QED
    BY <1>1, <2>1, LeaveFacts, ElsewhereSafe
<1>7. CASE UploadResponse(g)
  <2>1. /\ UNCHANGED <<member, slots, memory, poll>>
        /\ Post(g, "response", gpoll[g].answers) \/ UNCHANGED signals
    BY <1>7 DEF UploadResponse
  <2> QED
    BY <1>1, <2>1, PostFacts, ElsewhereSafe
<1>8. CASE \/ GuestPollEnds(g) \/ ImportNotice(g) \/ ImportInvite(g) \/ InviteImported(g)
           \/ ResponseUploaded(g)
           \/ \E kind \in {"import_notice", "import_invite", "upload_response"} : GuestPlan(g, kind)
  BY <1>1, <1>8, ElsewhereSafe
     DEF GuestPollEnds, ImportNotice, ImportInvite, InviteImported, ResponseUploaded, GuestPlan
<1> QED
  BY <1>2, <1>3, <1>4, <1>5, <1>6, <1>7, <1>8 DEF GuestPoll

-----------------------------------------------------------------------------
LEMMA InitSafe ==
  ASSUME Init
  PROVE  IInv
<1>1. EmptyHostMemory \in HostMemory /\ Remembers(EmptyHostMemory, << >>)
  <2>1. EmptyHostMemory \in HostMemory
    BY NoneFacts DEF EmptyHostMemory, HostMemory
  <2>2. \A g \in Guests : EmptyHostMemory.peerByMember[g] = 0
                          /\ EmptyHostMemory.approvable[g] = None
    BY DEF EmptyHostMemory
  <2> QED
    BY <2>1, <2>2, NoneFacts DEF Remembers, Answered
<1>2. member \in View
  BY DEF Init, View, Statuses
<1>3. << >> \in Seq({}) /\ << >> \in Seq(Slot)
  OBVIOUS
<1>4. poll \in Poll /\ Honest(poll, slots)
  BY <1>2, AtRest DEF Init
<1>5. HostTypes
  BY <1>1, <1>2, <1>3, <1>4 DEF Init, HostTypes
<1> QED
  BY <1>1, <1>4, <1>5 DEF Init, IInv

LEMMA StepSafe ==
  ASSUME IInv, [Next]_vars
  PROVE  IInv'
<1>1. CASE HostPoll
  <2>1. CASE HostPollEnds
    <3>1. Abort /\ UNCHANGED <<member, slots, memory, signals>>
      BY <2>1 DEF HostPollEnds, Abort
    <3> QED
      BY <3>1, AbortSafe DEF IInv, HostTypes
  <2> QED
    BY <1>1, <2>1, HostFetchSafe, HostPlanSafe, HostCommandSafe, HostUploadSafe, HostReplySafe
       DEF HostPoll
<1>2. CASE HostReloads
  <2>1. Abort /\ UNCHANGED <<member, slots, memory, signals>>
    BY <1>2 DEF HostReloads
  <2> QED
    BY <2>1, AbortSafe DEF IInv, HostTypes
<1>3. CASE HostStepFails \/ InviteByHand
  BY <1>3, HostStepFailsSafe, InviteByHandSafe
<1>4. ASSUME NEW s \in DOMAIN slots,
             \/ RosterButton(s) \/ HostGathers(s) \/ ConnectTimesOut(s) \/ AttemptFails(s)
             \/ \E g \in Guests : LinkUp(s, g)
      PROVE  IInv'
  <2>1. s \in 1 .. Len(slots)
    BY Vocabulary
  <2> QED
    BY <1>4, <2>1, RosterButtonSafe, EngineSafe
<1>5. ASSUME NEW g \in Guests, RetryRequest(g)
      PROVE  IInv'
  BY <1>5, RetryRequestSafe
<1>6. ASSUME NEW g \in Guests,
             \/ \E status \in {"approved", "rejected"} : Decide(g, status)
             \/ RequestJoin(g) \/ EndLink(g) \/ LeaveSession(g)
             \/ GuestPoll(g) \/ GuestGathers(g) \/ GuestStepFails(g) \/ GuestReloads(g)
      PROVE  IInv'
  BY <1>6, GuestSafe
<1>7. CASE UNCHANGED vars
  BY <1>7 DEF vars, IInv, HostTypes
<1> QED
  BY <1>1, <1>2, <1>3, <1>4, <1>5, <1>6, <1>7 DEF Next

(* Whatever the guests, the buttons of the roster, faults and reloads do   *)
(* between two steps of the poll, its memory says of the roster what is so *)
(* or was: an invitation it calls approvable was answered, by its guest if *)
(* the slot awaits approval still.                                         *)
THEOREM Invariance == Spec => []IInv
<1>1. Init => IInv
  BY InitSafe
<1>2. IInv /\ [Next]_vars => IInv'
  BY StepSafe
<1> QED
  BY <1>1, <1>2, PTL DEF Spec

(* planHost approves "only for the invitation whose response this poll     *)
(* imported itself, never a pasted one": the command it planned, when the  *)
(* engine takes it, lets in the guest whom the host approved.              *)
THEOREM OnlyGuestsAreLetIn == Spec => OnlyTheirAnswerIsApproved
<1>1. ASSUME IInv, poll.pc = "command", poll.action.kind = "approve",
             slots[poll.action.invite.slot].state = "approval_pending"
      PROVE  slots[poll.action.invite.slot].answer = poll.action.guest
  BY <1>1, Vocabulary DEF Sound, AwaitsOnly
<1>2. IInv => (poll.pc = "command" /\ poll.action.kind = "approve" =>
                 LET s == poll.action.invite.slot
                 IN slots[s].state = "approval_pending" /\ slots'[s].state = "connecting" =>
                      slots[s].answer = poll.action.guest)
  BY <1>1
<1> QED
  BY <1>2, Invariance, PTL DEF OnlyTheirAnswerIsApproved
-----------------------------------------------------------------------------
(* The guests' half of the variables.                                      *)
SignalKinds == {"invite", "notice", "response"}
Message == [guest : Guests, kind : SignalKinds, invite : Invites, text : BOOLEAN]
Peer == [slot : Nat, gen : Nat,
         state : {"none", "collecting", "response_ready", "connected", "cancelled"}]
Link ==
    [n : Nat \ {0}, joined : BOOLEAN, after : Nat, invite : Nat, notice : Nat,
     handledInvite : Nat, handledNotice : Nat, responded : Nat, uploaded : Invites]
Awaiting == {"import_notice", "import_invite", "upload_response", "uploaded"}
GuestPolls ==
    {Idle}
    \cup [pc : {"steps"}, status : Statuses, link : Link]
    \cup [pc : Awaiting, status : Statuses, link : Link, answers : Invites]
    \cup [pc : {"imported"}, status : Statuses, link : Link, joined : BOOLEAN]

GuestTypes ==
    /\ signals \in Seq(Message)
    /\ peer \in [Guests -> Peer]
    /\ link \in [Guests -> Link \cup {NoLink}]
    /\ gpoll \in [Guests -> GuestPolls]
    /\ requests \in [Guests -> Nat]
    /\ approvals \in [Guests -> Nat]
    /\ faults \in Nat

LEMMA GuestPollFacts ==
  ASSUME NEW p \in GuestPolls
  PROVE  /\ p.pc \in {"idle", "steps", "imported"} \cup Awaiting
         /\ p.pc # "idle" => p.link \in Link /\ p.status \in Statuses
         /\ p.pc \in Awaiting => p.answers \in Invites
         /\ p.pc = "imported" => p.joined \in BOOLEAN
         /\ p.pc = "idle" => p = Idle
BY DEF GuestPolls, Idle, Awaiting

LEMMA GuestPollTypes ==
  ASSUME NEW l \in Link, NEW status \in Statuses
  PROVE  /\ Idle \in GuestPolls
         /\ [pc |-> "steps", status |-> status, link |-> l] \in GuestPolls
         /\ \A pc \in Awaiting, answers \in Invites :
              [pc |-> pc, status |-> status, link |-> l, answers |-> answers] \in GuestPolls
         /\ \A joined \in BOOLEAN :
              [pc |-> "imported", status |-> status, link |-> l, joined |-> joined] \in GuestPolls
BY DEF GuestPolls, Idle, Awaiting

LEMMA NoLinkIsNone == NoLink \notin Link
<1>1. NoLink.n = 0 /\ \A l \in Link : l.n # 0
  BY DEF NoLink, Link
<1> QED
  BY <1>1

LEMMA GuestFacts ==
  ASSUME GuestTypes, NEW g \in Guests
  PROVE  /\ peer[g] \in Peer /\ link[g] \in Link \cup {NoLink} /\ gpoll[g] \in GuestPolls
         /\ requests[g] \in Nat /\ approvals[g] \in Nat
BY DEF GuestTypes

LEMMA PostTypes ==
  ASSUME signals \in Seq(Message), NEW g \in Guests, NEW kind \in SignalKinds,
         NEW invite \in Invites, Post(g, kind, invite)
  PROVE  /\ signals' \in Seq(Message) /\ Len(signals') = Len(signals) + 1
         /\ Len(signals) \in Nat /\ signals'[Len(signals')] = Signal(g, kind, invite)
         /\ \A i \in 1 .. Len(signals) : signals'[i] = signals[i]
<1>1. Signal(g, kind, invite) \in Message
  BY DEF Signal, Message
<1>2. signals' = Append(signals, Signal(g, kind, invite))
  BY DEF Post
<1> QED
  BY <1>1, <1>2

LEMMA LeaveTypes ==
  ASSUME signals \in Seq(Message), NEW g \in Guests, Leave(g)
  PROVE  /\ signals' \in Seq(Message) /\ Len(signals') = Len(signals) /\ Len(signals) \in Nat
         /\ \A i \in 1 .. Len(signals) :
              /\ signals'[i].guest = signals[i].guest /\ signals'[i].kind = signals[i].kind
              /\ signals'[i].invite = signals[i].invite
              /\ signals'[i].text = (signals[i].text /\ signals[i].guest # g)
<1> DEFINE new(i) == IF signals[i].guest = g THEN [signals[i] EXCEPT !.text = FALSE] ELSE signals[i]
<1>1. signals' = [i \in 1 .. Len(signals) |-> new(i)] /\ Len(signals) \in Nat
  BY DEF Leave
<1>2. ASSUME NEW i \in 1 .. Len(signals)
      PROVE  /\ new(i) \in Message
             /\ new(i).guest = signals[i].guest /\ new(i).kind = signals[i].kind
             /\ new(i).invite = signals[i].invite
             /\ new(i).text = (signals[i].text /\ signals[i].guest # g)
  <2>1. signals[i] \in Message
    BY ElementOfSeq
  <2>2. CASE signals[i].guest = g
    BY <2>1, <2>2 DEF Message
  <2>3. CASE signals[i].guest # g
    BY <2>1, <2>3 DEF Message
  <2> QED
    BY <2>2, <2>3
<1> HIDE DEF new
<1>3. signals' \in Seq(Message) /\ Len(signals') = Len(signals)
  BY <1>1, <1>2
<1>4. \A i \in 1 .. Len(signals) : signals'[i] = new(i)
  BY <1>1
<1> QED
  BY <1>1, <1>2, <1>3, <1>4

LEMMA FiledFacts ==
  ASSUME signals \in Seq(Message), NEW l \in Link, NEW g
  PROVE  /\ Filed(l, g) \in Link
         /\ Filed(l, g).n = l.n /\ Filed(l, g).joined = l.joined
         /\ Filed(l, g).uploaded = l.uploaded
         /\ Filed(l, g).invite = Latest(l.invite, Fresh(l.after, {"invite"}), g)
<1> DEFINE i == Latest(l.invite, Fresh(l.after, {"invite"}), g)
           j == Latest(l.notice, Fresh(l.after, {"notice"}), g)
<1>1. l.invite \in Nat /\ l.notice \in Nat /\ Len(signals) \in Nat
  BY DEF Link
<1>2. i \in Nat /\ j \in Nat
  BY <1>1, LatestType
<1>3. Filed(l, g) = [l EXCEPT !.after = Len(signals), !.invite = i, !.notice = j]
  BY DEF Filed, Link
<1> HIDE DEF i, j
<1>4. /\ [l EXCEPT !.after = Len(signals), !.invite = i, !.notice = j] \in Link
      /\ [l EXCEPT !.after = Len(signals), !.invite = i, !.notice = j].n = l.n
      /\ [l EXCEPT !.after = Len(signals), !.invite = i, !.notice = j].joined = l.joined
      /\ [l EXCEPT !.after = Len(signals), !.invite = i, !.notice = j].uploaded = l.uploaded
      /\ [l EXCEPT !.after = Len(signals), !.invite = i, !.notice = j].invite = i
  BY <1>1, <1>2 DEF Link
<1> QED
  BY <1>3, <1>4 DEF i
-----------------------------------------------------------------------------
(* One guest's link, poll or peer is changed.                              *)
LEMMA SavedFacts ==
  ASSUME GuestTypes, NEW g \in Guests, NEW l \in Link, gpoll[g].pc # "idle", Saved(g, l)
  PROVE  /\ gpoll' \in [Guests -> GuestPolls] /\ link' \in [Guests -> Link \cup {NoLink}]
         /\ gpoll'[g] = [pc |-> "steps", status |-> gpoll[g].status, link |-> l]
         /\ link'[g] = IF link[g] = NoLink THEN NoLink ELSE l
         /\ \A h \in Guests \ {g} : gpoll'[h] = gpoll[h] /\ link'[h] = link[h]
<1> DEFINE p == [pc |-> "steps", status |-> gpoll[g].status, link |-> l]
<1>1. p \in GuestPolls
  BY GuestFacts, GuestPollFacts, GuestPollTypes
<1>2. /\ gpoll' = [gpoll EXCEPT ![g] = p]
      /\ link' = IF link[g] = NoLink THEN link ELSE [link EXCEPT ![g] = l]
  BY DEF Saved, Persist
<1>3. gpoll \in [Guests -> GuestPolls] /\ link \in [Guests -> Link \cup {NoLink}]
  BY DEF GuestTypes
<1> HIDE DEF p
<1>4. /\ gpoll' \in [Guests -> GuestPolls] /\ gpoll'[g] = p
      /\ \A h \in Guests \ {g} : gpoll'[h] = gpoll[h]
  BY <1>1, <1>2, <1>3
<1>5. /\ link' \in [Guests -> Link \cup {NoLink}]
      /\ link'[g] = IF link[g] = NoLink THEN NoLink ELSE l
      /\ \A h \in Guests \ {g} : link'[h] = link[h]
  BY <1>2, <1>3
<1> QED
  BY <1>4, <1>5 DEF p

(* What a guest's poll does next is marked in its link.                    *)
Marked(l, kind) ==
    CASE kind = "import_notice" -> [l EXCEPT !.handledNotice = l.notice]
      [] kind = "import_invite" -> [l EXCEPT !.handledInvite = l.invite]
      [] OTHER -> l
Here(g) == [slot |-> peer[g].slot, gen |-> peer[g].gen]

LEMMA MarkedFacts ==
  ASSUME NEW l \in Link, NEW kind
  PROVE  /\ Marked(l, kind) \in Link
         /\ Marked(l, kind).n = l.n /\ Marked(l, kind).joined = l.joined
         /\ Marked(l, kind).invite = l.invite /\ Marked(l, kind).uploaded = l.uploaded
BY DEF Marked, Link

LEMMA HereType ==
  ASSUME GuestTypes, NEW g \in Guests
  PROVE  Here(g) \in Invites /\ peer[g].slot \in Nat /\ peer[g].gen \in Nat
<1>1. peer[g] \in Peer
  BY GuestFacts
<1> QED
  BY <1>1 DEF Here, Invites, Peer

LEMMA GuestPlanFacts ==
  ASSUME GuestTypes, NEW g \in Guests,
         NEW kind \in {"import_notice", "import_invite", "upload_response"}, GuestPlan(g, kind)
  PROVE  /\ gpoll' \in [Guests -> GuestPolls] /\ gpoll[g].link \in Link
         /\ gpoll'[g].pc = kind /\ gpoll'[g].answers = Here(g)
         /\ gpoll'[g].link = Marked(gpoll[g].link, kind)
         /\ \A h \in Guests \ {g} : gpoll'[h] = gpoll[h]
<1>1. gpoll[g] \in GuestPolls /\ gpoll[g].pc = "steps" /\ gpoll \in [Guests -> GuestPolls]
  BY GuestFacts DEF GuestPlan, GuestTypes
<1>2. gpoll[g].link \in Link /\ gpoll[g].status \in Statuses
  BY <1>1, GuestPollFacts
<1> DEFINE l == Marked(gpoll[g].link, kind)
           p == [pc |-> kind, status |-> gpoll[g].status, link |-> l, answers |-> Here(g)]
<1>3. gpoll' = [gpoll EXCEPT ![g] = p]
  BY DEF GuestPlan, Marked, Here
<1>4. l \in Link
  BY <1>2, MarkedFacts
<1> HIDE DEF l
<1>5. kind \in Awaiting /\ Here(g) \in Invites
  BY HereType DEF Awaiting
<1>6. p \in GuestPolls
  BY <1>2, <1>4, <1>5, GuestPollTypes
<1>7. p.pc = kind /\ p.answers = Here(g) /\ p.link = l
  OBVIOUS
<1> HIDE DEF p
<1>8. /\ gpoll' \in [Guests -> GuestPolls] /\ gpoll'[g] = p
      /\ \A h \in Guests \ {g} : gpoll'[h] = gpoll[h]
  BY <1>1, <1>3, <1>6
<1> QED
  BY <1>2, <1>7, <1>8 DEF l

LEMMA GuestFetchFacts ==
  ASSUME GuestTypes, NEW g \in Guests, GuestFetch(g)
  PROVE  LET l == Filed(link[g], g)
         IN /\ gpoll[g].pc = "idle" /\ link[g] \in Link /\ l \in Link
            /\ \/ /\ Over(l, g) /\ Leave(g) /\ link' = [link EXCEPT ![g] = NoLink]
                  /\ UNCHANGED gpoll
               \/ /\ ~Over(l, g) /\ link' = [link EXCEPT ![g] = l]
                  /\ gpoll' = [gpoll EXCEPT ![g] =
                                 [pc |-> "steps", status |-> member[g], link |-> l]]
                  /\ UNCHANGED <<member, signals>>
            /\ UNCHANGED <<slots, peer, memory, poll, requests, approvals, faults>>
<1>1. link[g] \in Link /\ signals \in Seq(Message)
  BY GuestFacts DEF GuestFetch, GuestTypes
<1>2. Filed(link[g], g) \in Link
  BY <1>1, FiledFacts
<1> QED
  BY <1>1, <1>2 DEF GuestFetch, Fine

LEMMA UploadResponseFacts ==
  ASSUME GuestTypes, NEW g \in Guests, UploadResponse(g)
  PROVE  LET p == gpoll'[g]
         IN /\ gpoll' \in [Guests -> GuestPolls]
            /\ p.pc = "uploaded" /\ p.link = gpoll[g].link /\ p.answers = gpoll[g].answers
            /\ gpoll[g].answers \in Invites /\ gpoll[g].link \in Link
            /\ \A h \in Guests \ {g} : gpoll'[h] = gpoll[h]
<1>1. gpoll[g] \in GuestPolls /\ gpoll[g].pc = "upload_response" /\ gpoll \in [Guests -> GuestPolls]
  BY GuestFacts DEF UploadResponse, GuestTypes
<1>2. gpoll[g] \in [pc : Awaiting, status : Statuses, link : Link, answers : Invites]
  BY <1>1 DEF GuestPolls, Idle
<1> DEFINE p == [gpoll[g] EXCEPT !.pc = "uploaded"]
<1>3. /\ p \in [pc : Awaiting, status : Statuses, link : Link, answers : Invites]
      /\ p.pc = "uploaded" /\ p.link = gpoll[g].link /\ p.answers = gpoll[g].answers
      /\ gpoll[g].answers \in Invites /\ gpoll[g].link \in Link
  BY <1>2 DEF Awaiting
<1>4. gpoll' = [gpoll EXCEPT ![g] = p]
  BY <1>1 DEF UploadResponse
<1> HIDE DEF p
<1>5. p \in GuestPolls
  BY <1>3 DEF GuestPolls
<1>6. /\ gpoll' \in [Guests -> GuestPolls] /\ gpoll'[g] = p
      /\ \A h \in Guests \ {g} : gpoll'[h] = gpoll[h]
  BY <1>1, <1>4, <1>5
<1> QED
  BY <1>3, <1>6

LEMMA ImportInviteFacts ==
  ASSUME GuestTypes, NEW g \in Guests, ImportInvite(g),
         gpoll[g].link.invite \in 1 .. Len(signals)
  PROVE  LET l == gpoll[g].link
             packet == signals[l.invite].invite
             takes == IF l.joined THEN Acceptable(peer[g], packet.slot, packet.gen)
                      ELSE ~Active(peer[g])
         IN /\ l \in Link /\ packet \in Invites
            /\ peer' \in [Guests -> Peer] /\ gpoll' \in [Guests -> GuestPolls]
            /\ peer'[g] = IF takes THEN Accepted(packet.slot, packet.gen) ELSE peer[g]
            /\ gpoll'[g].pc = "imported" /\ gpoll'[g].link = l
            /\ gpoll'[g].joined = (l.joined \/ takes)
            /\ \A h \in Guests \ {g} : gpoll'[h] = gpoll[h] /\ peer'[h] = peer[h]
<1> DEFINE l == gpoll[g].link
           packet == signals[l.invite].invite
           takes == IF l.joined THEN Acceptable(peer[g], packet.slot, packet.gen)
                    ELSE ~Active(peer[g])
           p == [pc |-> "imported", status |-> gpoll[g].status, link |-> l,
                 joined |-> l.joined \/ takes]
           q == Accepted(packet.slot, packet.gen)
<1>1. gpoll[g] \in GuestPolls /\ gpoll[g].pc = "import_invite" /\ gpoll \in [Guests -> GuestPolls]
      /\ peer \in [Guests -> Peer] /\ signals \in Seq(Message)
  BY GuestFacts DEF ImportInvite, GuestTypes
<1>2. l \in Link /\ gpoll[g].status \in Statuses
  BY <1>1, GuestPollFacts
<1>3. signals[l.invite] \in Message
  BY <1>1, ElementOfSeq
<1>4. packet \in Invites /\ l.joined \in BOOLEAN
  BY <1>2, <1>3 DEF Message, Link
<1>5. q \in Peer
  BY <1>4 DEF Accepted, Peer, Invites
<1>6. takes \in BOOLEAN
  BY DEF Acceptable, Active
<1>7. /\ peer' = IF takes THEN [peer EXCEPT ![g] = q] ELSE peer
      /\ gpoll' = [gpoll EXCEPT ![g] = p]
  BY DEF ImportInvite
<1> HIDE DEF q, takes, packet, l
<1>8. p \in GuestPolls
  BY <1>2, <1>4, <1>6, GuestPollTypes
<1>9. p.pc = "imported" /\ p.link = l /\ p.joined = (l.joined \/ takes)
  OBVIOUS
<1> HIDE DEF p
<1>10. /\ gpoll' \in [Guests -> GuestPolls] /\ gpoll'[g] = p
       /\ \A h \in Guests \ {g} : gpoll'[h] = gpoll[h]
  BY <1>1, <1>7, <1>8
<1>11. /\ peer' \in [Guests -> Peer] /\ peer'[g] = IF takes THEN q ELSE peer[g]
       /\ \A h \in Guests \ {g} : peer'[h] = peer[h]
  BY <1>1, <1>5, <1>7
<1> QED
  BY <1>2, <1>4, <1>9, <1>10, <1>11 DEF l, packet, takes, q
-----------------------------------------------------------------------------
(* What is filed as an invitation is one of the guest's.                   *)
Refers(g, l, queue) ==
    l.invite # 0 =>
      /\ l.invite \in 1 .. Len(queue)
      /\ queue[l.invite].guest = g /\ queue[l.invite].kind = "invite"
Referring(g) ==
    /\ link[g] # NoLink => Refers(g, link[g], signals)
    /\ gpoll[g].pc # "idle" => Refers(g, gpoll[g].link, signals)
    /\ gpoll[g].pc = "import_invite" => gpoll[g].link.invite # 0

TInv == GuestTypes /\ \A g \in Guests : Referring(g)

LEMMA LatestFacts ==
  ASSUME signals \in Seq(Message), NEW old \in Nat, NEW after, NEW kind, NEW g
  PROVE  LET i == Latest(old, Fresh(after, {kind}), g)
         IN  \/ i = old
             \/ /\ i \in 1 .. Len(signals)
                /\ signals[i].guest = g /\ signals[i].kind = kind /\ signals[i].text
<1> DEFINE fresh == Fresh(after, {kind})
           mine == {i \in fresh : signals[i].guest = g}
<1>1. Len(signals) \in Nat /\ mine \in SUBSET (1 .. Len(signals))
      /\ \A i \in mine : signals[i].guest = g /\ signals[i].kind = kind /\ signals[i].text
  BY DEF Fresh
<1>2. CASE mine = {}
  BY <1>2 DEF Latest
<1>3. CASE mine # {}
  <2>1. \E i \in mine : \A j \in mine : j <= i
    BY <1>1, <1>3, LargestExists
  <2>2. Latest(old, fresh, g) = CHOOSE i \in mine : \A j \in mine : j <= i
    BY <1>3 DEF Latest
  <2>3. Latest(old, fresh, g) \in mine
    BY <2>1, <2>2
  <2> QED
    BY <1>1, <2>3
<1> QED
  BY <1>2, <1>3

(* The signals are only added to, or lose their texts.                     *)
Goes == /\ signals' \in Seq(Message)
        /\ Len(signals) \in Nat /\ Len(signals') \in Nat /\ Len(signals) <= Len(signals')
        /\ \A i \in 1 .. Len(signals) :
             /\ signals'[i].guest = signals[i].guest /\ signals'[i].kind = signals[i].kind
             /\ signals'[i].invite = signals[i].invite

Uploaded(a) == Signal(a.guest, IF a.kind = "upload_invite" THEN "invite" ELSE "notice", a.invite)
Posted(packet) == Post(packet.guest, packet.kind, packet.invite)

LEMMA UploadedType ==
  ASSUME NEW a \in HostAction
  PROVE  /\ Uploaded(a) \in Message /\ Uploaded(a).guest = a.guest
         /\ Uploaded(a).invite = a.invite /\ Uploaded(a).text = TRUE
         /\ Uploaded(a).kind = IF a.kind = "upload_invite" THEN "invite" ELSE "notice"
BY DEF Uploaded, Signal, Message, HostAction, SignalKinds

LEMMA StepSignals ==
  ASSUME [Next]_vars
  PROVE  \/ UNCHANGED signals
         \/ \E g \in Guests : Leave(g)
         \/ /\ poll.pc = "command" /\ poll.action.kind \in Uploads
            /\ Posted(Uploaded(poll.action))
         \/ \E g \in Guests : UploadResponse(g) /\ Post(g, "response", gpoll[g].answers)
<1>1. CASE HostUpload
  BY <1>1 DEF HostUpload, Posted, Uploaded, Signal
<1>2. CASE HostPoll /\ ~HostUpload
  BY <1>2 DEF HostPoll, HostFetch, HostPlan, HostPollEnds, HostCommand, HostReply
<1>3. CASE HostStepFails \/ HostReloads \/ InviteByHand
  BY <1>3 DEF HostStepFails, HostReloads, InviteByHand, Roster
<1>4. ASSUME NEW s \in DOMAIN slots,
             \/ RosterButton(s) \/ HostGathers(s) \/ ConnectTimesOut(s) \/ AttemptFails(s)
             \/ \E g \in Guests : LinkUp(s, g)
      PROVE  UNCHANGED signals
  BY <1>4 DEF RosterButton, InviteAgain, ImportByHand, ApproveByHand, Refuse, Cancel,
              HostGathers, ConnectTimesOut, AttemptFails, LinkUp, Becomes, Roster
<1>5. ASSUME NEW g \in Guests, UploadResponse(g)
      PROVE  UNCHANGED signals \/ Post(g, "response", gpoll[g].answers)
  BY <1>5 DEF UploadResponse
<1>6. ASSUME NEW g \in Guests, EndLink(g) \/ GuestFetch(g)
      PROVE  UNCHANGED signals \/ Leave(g)
  BY <1>6 DEF EndLink, GuestFetch
<1>7. ASSUME NEW g \in Guests,
             \/ \E status \in {"approved", "rejected"} : Decide(g, status)
             \/ RetryRequest(g) \/ RequestJoin(g) \/ LeaveSession(g)
             \/ GuestGathers(g) \/ GuestStepFails(g) \/ GuestReloads(g)
             \/ GuestPollEnds(g) \/ ImportNotice(g) \/ ImportInvite(g) \/ InviteImported(g)
             \/ ResponseUploaded(g)
             \/ \E kind \in {"import_notice", "import_invite", "upload_response"} :
                  GuestPlan(g, kind)
      PROVE  UNCHANGED signals
  BY <1>7 DEF Decide, RetryRequest, RequestJoin, LeaveSession, GuestGathers, GuestStepFails,
     GuestReloads, GuestPollEnds, ImportNotice, ImportInvite, InviteImported, ResponseUploaded,
     GuestPlan
<1>8. CASE UNCHANGED vars
  BY <1>8 DEF vars
<1> QED
  BY <1>1, <1>2, <1>3, <1>4, <1>5, <1>6, <1>7, <1>8 DEF Next, GuestPoll

LEMMA SignalsGo ==
  ASSUME IInv, TInv, [Next]_vars
  PROVE  Goes
<1>1. signals \in Seq(Message) /\ Len(signals) \in Nat
  BY DEF TInv, GuestTypes
<1>2. CASE UNCHANGED signals
  BY <1>1, <1>2 DEF Goes
<1>3. ASSUME NEW g \in Guests, Leave(g)
      PROVE  Goes
  BY <1>1, <1>3, LeaveTypes DEF Goes
<1>4. ASSUME NEW p \in Message, Posted(p)
      PROVE  Goes
  <2>1. p.guest \in Guests /\ p.kind \in SignalKinds /\ p.invite \in Invites
    BY DEF Message
  <2> QED
    BY <1>1, <1>4, <2>1, PostTypes DEF Goes, Posted
<1>5. ASSUME poll.pc = "command"
      PROVE  Uploaded(poll.action) \in Message
  BY <1>5, Vocabulary, UploadedType
<1>6. ASSUME NEW g \in Guests, UploadResponse(g), Post(g, "response", gpoll[g].answers)
      PROVE  Goes
  <2>1. gpoll[g].answers \in Invites /\ "response" \in SignalKinds
    BY <1>6, UploadResponseFacts DEF TInv, SignalKinds
  <2> QED
    BY <1>1, <1>6, <2>1, PostTypes DEF Goes
<1> QED
  BY <1>2, <1>3, <1>4, <1>5, <1>6, StepSignals

LEMMA RefersGoes ==
  ASSUME Goes, NEW g, NEW l, Refers(g, l, signals)
  PROVE  Refers(g, l, signals')
BY DEF Refers, Goes

(* A guest that a step leaves alone refers to what it referred to.         *)
LEMMA ReferringElsewhere ==
  ASSUME Goes, NEW h, Referring(h), link'[h] = link[h], gpoll'[h] = gpoll[h]
  PROVE  Referring(h)'
BY RefersGoes DEF Referring

(* A guest's poll, or its link, refers to what it referred to.             *)
LEMMA ReferringStays ==
  ASSUME Goes, NEW g, Referring(g),
         \/ link'[g] = NoLink
         \/ link'[g] = link[g]
         \/ gpoll[g].pc # "idle" /\ link'[g].invite = gpoll[g].link.invite,
         \/ gpoll'[g].pc = "idle"
         \/ /\ gpoll[g].pc # "idle" /\ gpoll'[g].pc # "import_invite"
            /\ gpoll'[g].link.invite = gpoll[g].link.invite
  PROVE  Referring(g)'
<1>1. Refers(g, gpoll[g].link, signals) => Refers(g, gpoll[g].link, signals')
  BY RefersGoes
<1>2. Refers(g, link[g], signals) => Refers(g, link[g], signals')
  BY RefersGoes
<1>3. ASSUME NEW l, NEW m, l.invite = m.invite, Refers(g, m, signals')
      PROVE  Refers(g, l, signals')
  BY <1>3 DEF Refers
<1>4. link'[g] # NoLink => Refers(g, link'[g], signals')
  BY <1>1, <1>2, <1>3 DEF Referring
<1>5. gpoll'[g].pc # "idle" => Refers(g, gpoll'[g].link, signals')
  BY <1>1, <1>3 DEF Referring
<1>6. gpoll'[g].pc # "import_invite" \/ gpoll'[g].pc = "idle"
  OBVIOUS
<1> QED
  BY <1>4, <1>5, <1>6 DEF Referring

LEMMA TypesOfOthers ==
  ASSUME IInv, TInv, [Next]_vars, NEW g \in Guests,
         \A h \in Guests \ {g} : link'[h] = link[h] /\ gpoll'[h] = gpoll[h],
         Referring(g)', peer' \in [Guests -> Peer], link' \in [Guests -> Link \cup {NoLink}],
         gpoll' \in [Guests -> GuestPolls],
         UNCHANGED <<requests, approvals>>, faults' \in Nat
  PROVE  TInv'
<1>1. Goes
  BY SignalsGo
<1>2. ASSUME NEW h \in Guests
      PROVE  Referring(h)'
  BY <1>1, <1>2, ReferringElsewhere DEF TInv
<1>3. GuestTypes'
  BY <1>1 DEF TInv, GuestTypes, Goes
<1> QED
  BY <1>2, <1>3 DEF TInv

LEMMA TypesElsewhere ==
  ASSUME IInv, TInv, [Next]_vars, UNCHANGED <<link, gpoll>>,
         peer' \in [Guests -> Peer], requests' \in [Guests -> Nat],
         approvals' \in [Guests -> Nat], faults' \in Nat
  PROVE  TInv'
<1>1. Goes
  BY SignalsGo
<1>2. ASSUME NEW h \in Guests
      PROVE  Referring(h)'
  BY <1>1, <1>2, ReferringElsewhere DEF TInv
<1>3. GuestTypes'
  BY <1>1 DEF TInv, GuestTypes, Goes
<1> QED
  BY <1>2, <1>3 DEF TInv

LEMMA PeerChanged ==
  ASSUME TInv, NEW g \in Guests,
         NEW state \in {"none", "collecting", "response_ready", "connected", "cancelled"}
  PROVE  /\ [peer EXCEPT ![g].state = state] \in [Guests -> Peer]
         /\ [peer EXCEPT ![g] = NotJoined] \in [Guests -> Peer]
<1>1. peer \in [Guests -> Peer] /\ peer[g] \in Peer
  BY DEF TInv, GuestTypes
<1> DEFINE p == [peer[g] EXCEPT !.state = state]
<1>2. p \in Peer /\ NotJoined \in Peer
  BY <1>1 DEF Peer, NotJoined
<1>3. [peer EXCEPT ![g].state = state] = [peer EXCEPT ![g] = p]
  BY <1>1
<1> HIDE DEF p
<1> QED
  BY <1>1, <1>2, <1>3

LEMMA FaultTypes ==
  ASSUME TInv, Fault \/ ByHand \/ Fine
  PROVE  faults' \in Nat
BY DEF TInv, GuestTypes, Fault, ByHand, Fine

(* The host's steps, the roster and the engines.                           *)
LEMMA HostTypesSafe ==
  ASSUME IInv, TInv, [Next]_vars,
         \/ HostPoll \/ HostStepFails \/ HostReloads \/ InviteByHand
         \/ \E s \in DOMAIN slots :
              \/ RosterButton(s) \/ HostGathers(s) \/ ConnectTimesOut(s) \/ AttemptFails(s)
              \/ \E g \in Guests : LinkUp(s, g)
         \/ \E g \in Guests : RetryRequest(g)
         \/ UNCHANGED vars
  PROVE  TInv'
<1>1. /\ UNCHANGED <<link, gpoll, requests, approvals>>
      /\ UNCHANGED peer \/ \E s \in DOMAIN slots, g \in Guests : LinkUp(s, g)
      /\ Fault \/ ByHand \/ Fine
  <2>1. CASE HostPoll
    BY <2>1 DEF HostPoll, HostFetch, HostPlan, HostPollEnds, HostCommand, HostUpload, HostReply
  <2>2. CASE HostStepFails \/ HostReloads \/ InviteByHand
    BY <2>2 DEF HostStepFails, HostReloads, InviteByHand, Roster
  <2>3. ASSUME NEW s \in DOMAIN slots,
               \/ RosterButton(s) \/ HostGathers(s) \/ ConnectTimesOut(s) \/ AttemptFails(s)
               \/ \E g \in Guests : LinkUp(s, g)
        PROVE  <1>1!:
    BY <2>3 DEF RosterButton, InviteAgain, ImportByHand, ApproveByHand, Refuse, Cancel,
                HostGathers, ConnectTimesOut, AttemptFails, LinkUp, Becomes, Roster
  <2>4. CASE \E g \in Guests : RetryRequest(g)
    BY <2>4 DEF RetryRequest
  <2>5. CASE UNCHANGED vars
    BY <2>5 DEF vars, Fine
  <2> QED
    BY <2>1, <2>2, <2>3, <2>4, <2>5
<1>2. peer' \in [Guests -> Peer]
  <2>1. ASSUME NEW s, NEW g \in Guests, LinkUp(s, g)
        PROVE  peer' \in [Guests -> Peer]
    BY <2>1, PeerChanged DEF LinkUp
  <2> QED
    BY <1>1, <2>1 DEF TInv, GuestTypes
<1>3. requests' \in [Guests -> Nat] /\ approvals' \in [Guests -> Nat]
  BY <1>1 DEF TInv, GuestTypes
<1> QED
  BY <1>1, <1>2, <1>3, FaultTypes, TypesElsewhere

(* A guest, and the DJ who decides about it.                               *)
LEMMA RequestJoinFacts ==
  ASSUME TInv, NEW g \in Guests, RequestJoin(g)
  PROVE  /\ requests' \in [Guests -> Nat] /\ requests'[g] = requests[g] + 1
         /\ \A h \in Guests \ {g} : requests'[h] = requests[h] /\ link'[h] = link[h]
         /\ link' \in [Guests -> Link \cup {NoLink}] /\ link'[g] = NewLink(requests[g] + 1)
         /\ link'[g] \in Link
<1> DEFINE n == requests[g] + 1
<1>1. n \in Nat \ {0} /\ requests \in [Guests -> Nat] /\ link \in [Guests -> Link \cup {NoLink}]
  <2>1. requests[g] \in Nat
    BY GuestFacts DEF TInv
  <2> QED
    BY <2>1 DEF TInv, GuestTypes
<1>2. requests' = [requests EXCEPT ![g] = n]
  BY DEF RequestJoin
<1> HIDE DEF n
<1>3. NewLink(n) \in Link
  BY <1>1, NoneFacts DEF NewLink, Link
<1>4. requests' \in [Guests -> Nat] /\ requests'[g] = n
      /\ \A h \in Guests \ {g} : requests'[h] = requests[h]
  BY <1>1, <1>2
<1>5. link' = [link EXCEPT ![g] = NewLink(n)]
  BY <1>4 DEF RequestJoin
<1>6. /\ link' \in [Guests -> Link \cup {NoLink}] /\ link'[g] = NewLink(n)
      /\ \A h \in Guests \ {g} : link'[h] = link[h]
  BY <1>1, <1>3, <1>5
<1> QED
  BY <1>3, <1>4, <1>6 DEF n

LEMMA GuestTypesSafe ==
  ASSUME IInv, TInv, [Next]_vars, NEW g \in Guests,
         \/ \E status \in {"approved", "rejected"} : Decide(g, status)
         \/ RequestJoin(g) \/ EndLink(g) \/ LeaveSession(g)
         \/ GuestPoll(g) \/ GuestGathers(g) \/ GuestStepFails(g) \/ GuestReloads(g)
  PROVE  TInv'
<1>1. /\ GuestTypes /\ Referring(g) /\ Goes
      /\ peer \in [Guests -> Peer] /\ link \in [Guests -> Link \cup {NoLink}]
      /\ gpoll \in [Guests -> GuestPolls] /\ requests \in [Guests -> Nat]
      /\ approvals \in [Guests -> Nat] /\ signals \in Seq(Message) /\ faults \in Nat
  BY SignalsGo DEF TInv, GuestTypes
<1>2. gpoll[g] \in GuestPolls /\ link[g] \in Link \cup {NoLink}
  BY <1>1, GuestFacts
<1>3. ASSUME NEW status, Decide(g, status)
      PROVE  TInv'
  <2>1. approvals' \in [Guests -> Nat]
    BY <1>1, <1>3 DEF Decide
  <2> QED
    BY <1>1, <1>3, <2>1, FaultTypes, TypesElsewhere DEF Decide
<1>4. CASE RequestJoin(g)
  <2>1. UNCHANGED <<peer, gpoll, approvals, faults>>
    BY <1>4 DEF RequestJoin, Fine
  <2>2. Refers(g, link'[g], signals')
    <3>1. link'[g] = NewLink(requests[g] + 1)
      BY <1>4, RequestJoinFacts
    <3>2. NewLink(requests[g] + 1).invite = 0
      BY DEF NewLink
    <3> QED
      BY <3>1, <3>2 DEF Refers
  <2>3. ASSUME NEW h \in Guests
        PROVE  Referring(h)'
    <3>1. CASE h = g
      <4>1. gpoll[g].pc # "idle" => Refers(g, gpoll[g].link, signals')
        BY <1>1, RefersGoes DEF Referring
      <4> QED
        BY <1>1, <2>1, <2>2, <3>1, <4>1 DEF Referring
    <3>2. CASE h # g
      BY <1>1, <1>4, <2>1, <3>2, RequestJoinFacts, ReferringElsewhere DEF TInv
    <3> QED
      BY <3>1, <3>2
  <2>4. GuestTypes'
    BY <1>1, <1>4, <2>1, RequestJoinFacts DEF GuestTypes, Goes, TInv
  <2> QED
    BY <2>3, <2>4 DEF TInv
<1>5. CASE EndLink(g)
  <2>1. /\ UNCHANGED <<peer, gpoll, requests, approvals, faults>>
        /\ link' = [link EXCEPT ![g] = NoLink]
    BY <1>5 DEF EndLink, Fine
  <2>2. /\ link' \in [Guests -> Link \cup {NoLink}] /\ link'[g] = NoLink
        /\ \A h \in Guests \ {g} : link'[h] = link[h]
    BY <1>1, <2>1
  <2>3. Referring(g)'
    <3>1. gpoll[g].pc # "idle" => Refers(g, gpoll[g].link, signals')
      BY <1>1, RefersGoes DEF Referring
    <3> QED
      BY <1>1, <2>1, <2>2, <3>1 DEF Referring
  <2> QED
    BY <1>1, <2>1, <2>2, <2>3, TypesOfOthers
<1>6. CASE LeaveSession(g) \/ GuestGathers(g)
  <2>1. /\ UNCHANGED <<link, gpoll, requests, approvals, faults>>
        /\ \/ peer' = [peer EXCEPT ![g] = NotJoined]
           \/ peer' = [peer EXCEPT ![g].state = "response_ready"]
    BY <1>6 DEF LeaveSession, GuestGathers, Fine
  <2>2. peer' \in [Guests -> Peer]
    BY <2>1, PeerChanged
  <2> QED
    BY <1>1, <2>1, <2>2, TypesElsewhere
<1>7. CASE GuestFetch(g)
  <2> DEFINE l == Filed(link[g], g)
             p == [pc |-> "steps", status |-> member[g], link |-> l]
  <2>1. /\ link[g] \in Link /\ l \in Link /\ gpoll[g].pc = "idle"
        /\ UNCHANGED <<peer, requests, approvals, faults>>
    BY <1>1, <1>7, GuestFetchFacts
  <2>2. CASE link' = [link EXCEPT ![g] = NoLink] /\ UNCHANGED gpoll
    <3>1. /\ link' \in [Guests -> Link \cup {NoLink}] /\ link'[g] = NoLink
          /\ \A h \in Guests \ {g} : link'[h] = link[h]
      BY <1>1, <2>2
    <3>2. Referring(g)'
      BY <2>1, <2>2, <3>1 DEF Referring
    <3> QED
      BY <1>1, <2>1, <2>2, <3>1, <3>2, TypesOfOthers
  <2>3. CASE /\ link' = [link EXCEPT ![g] = l] /\ gpoll' = [gpoll EXCEPT ![g] = p]
             /\ UNCHANGED <<member, signals>>
    <3>1. member[g] \in Statuses
      BY Vocabulary DEF View
    <3>2. p \in GuestPolls /\ p.pc = "steps" /\ p.link = l
      BY <2>1, <3>1, GuestPollTypes
    <3>3. Refers(g, l, signals)
      <4>1. /\ l.invite = Latest(link[g].invite, Fresh(link[g].after, {"invite"}), g)
            /\ link[g].invite \in Nat
        BY <1>1, <2>1, FiledFacts DEF Link
      <4>2. Refers(g, link[g], signals)
        BY <1>1, <2>1, NoLinkIsNone DEF Referring
      <4>3. \/ l.invite = link[g].invite
            \/ /\ l.invite \in 1 .. Len(signals)
               /\ signals[l.invite].guest = g /\ signals[l.invite].kind = "invite"
        <5> DEFINE i == Latest(link[g].invite, Fresh(link[g].after, {"invite"}), g)
        <5>1. \/ i = link[g].invite
              \/ /\ i \in 1 .. Len(signals)
                 /\ signals[i].guest = g /\ signals[i].kind = "invite" /\ signals[i].text
          BY <1>1, <4>1, LatestFacts
        <5>2. l.invite = i
          BY <4>1
        <5> HIDE DEF i, l
        <5> QED
          BY <5>1, <5>2
      <4> QED
        BY <4>2, <4>3 DEF Refers
    <3> HIDE DEF l, p
    <3>4. /\ link' \in [Guests -> Link \cup {NoLink}] /\ link'[g] = l
          /\ \A h \in Guests \ {g} : link'[h] = link[h]
      BY <1>1, <2>1, <2>3
    <3>5. /\ gpoll' \in [Guests -> GuestPolls] /\ gpoll'[g] = p
          /\ \A h \in Guests \ {g} : gpoll'[h] = gpoll[h]
      BY <1>1, <2>3, <3>2
    <3>6. Referring(g)'
      BY <2>3, <3>2, <3>3, <3>4, <3>5 DEF Referring
    <3> QED
      BY <1>1, <2>1, <3>4, <3>5, <3>6, TypesOfOthers
  <2> HIDE DEF l, p
  <2> QED
    BY <1>1, <1>7, <2>2, <2>3, GuestFetchFacts DEF l, p
<1>8. CASE GuestPollEnds(g) \/ GuestReloads(g)
  <2>1. /\ UNCHANGED <<peer, link, requests, approvals>> /\ gpoll' = [gpoll EXCEPT ![g] = Idle]
        /\ faults' \in Nat
    BY <1>8, FaultTypes DEF GuestPollEnds, GuestReloads
  <2>2. /\ gpoll' \in [Guests -> GuestPolls] /\ gpoll'[g].pc = "idle"
        /\ \A h \in Guests \ {g} : gpoll'[h] = gpoll[h]
    BY <1>1, <2>1 DEF GuestPolls, Idle
  <2>3. Referring(g)'
    BY <1>1, <2>1, <2>2, ReferringStays
  <2> QED
    BY <1>1, <2>1, <2>2, <2>3, TypesOfOthers
<1>9. ASSUME NEW kind \in {"import_notice", "import_invite", "upload_response"}, GuestPlan(g, kind)
      PROVE  TInv'
  <2>1. /\ gpoll' \in [Guests -> GuestPolls] /\ gpoll[g].link \in Link
        /\ gpoll'[g].pc = kind /\ gpoll'[g].link = Marked(gpoll[g].link, kind)
        /\ \A h \in Guests \ {g} : gpoll'[h] = gpoll[h]
    BY <1>1, <1>9, GuestPlanFacts
  <2>2. UNCHANGED <<peer, link, requests, approvals, faults, signals>> /\ gpoll[g].pc = "steps"
    BY <1>9 DEF GuestPlan, Fine
  <2>3. gpoll'[g].link.invite = gpoll[g].link.invite
    BY <2>1, MarkedFacts
  <2>4. kind = "import_invite" => gpoll[g].link.invite # 0
    <3>1. gpoll[g].link.invite \in Nat /\ gpoll[g].link.handledInvite \in Nat
      BY <2>1 DEF Link
    <3>2. kind = "import_invite" => gpoll[g].link.invite > gpoll[g].link.handledInvite
      BY <1>9 DEF GuestPlan, PlanGuest
    <3> QED
      BY <3>1, <3>2
  <2>5. Referring(g)'
    <3>1. Refers(g, gpoll'[g].link, signals)
      BY <1>1, <2>2, <2>3 DEF Referring, Refers
    <3> QED
      BY <1>1, <2>1, <2>2, <2>3, <2>4, <3>1 DEF Referring
  <2> QED
    BY <1>1, <2>1, <2>2, <2>5, TypesOfOthers
<1>10. ASSUME NEW l \in Link, gpoll[g].pc # "idle", Saved(g, l), l.invite = gpoll[g].link.invite,
              peer' \in [Guests -> Peer], UNCHANGED <<requests, approvals>>, faults' \in Nat
       PROVE  TInv'
  <2>1. /\ gpoll' \in [Guests -> GuestPolls] /\ link' \in [Guests -> Link \cup {NoLink}]
        /\ gpoll'[g].pc = "steps" /\ gpoll'[g].link = l
        /\ link'[g] = IF link[g] = NoLink THEN NoLink ELSE l
        /\ \A h \in Guests \ {g} : gpoll'[h] = gpoll[h] /\ link'[h] = link[h]
    <3> DEFINE p == [pc |-> "steps", status |-> gpoll[g].status, link |-> l]
    <3>1. p.pc = "steps" /\ p.link = l
      OBVIOUS
    <3> HIDE DEF p
    <3>2. /\ gpoll' \in [Guests -> GuestPolls] /\ link' \in [Guests -> Link \cup {NoLink}]
          /\ gpoll'[g] = p
          /\ link'[g] = IF link[g] = NoLink THEN NoLink ELSE l
          /\ \A h \in Guests \ {g} : gpoll'[h] = gpoll[h] /\ link'[h] = link[h]
      BY <1>1, <1>10, SavedFacts DEF p
    <3> QED
      BY <3>1, <3>2
  <2>2. Referring(g)'
    BY <1>1, <1>10, <2>1, ReferringStays
  <2> QED
    BY <1>1, <1>10, <2>1, <2>2, TypesOfOthers
<1>11. CASE ImportNotice(g)
  <2>1. /\ gpoll[g].pc = "import_notice" /\ Saved(g, gpoll[g].link)
        /\ peer' = peer \/ peer' = [peer EXCEPT ![g].state = "cancelled"]
        /\ UNCHANGED <<requests, approvals, faults>>
    BY <1>11 DEF ImportNotice, Fine
  <2>2. gpoll[g].link \in Link
    BY <1>2, <2>1, GuestPollFacts
  <2>3. peer' \in [Guests -> Peer]
    <3>1. CASE peer' = peer
      BY <1>1, <3>1
    <3>2. CASE peer' = [peer EXCEPT ![g].state = "cancelled"]
      BY <1>1, <3>2, PeerChanged
    <3> QED
      BY <2>1, <3>1, <3>2
  <2> QED
    BY <1>1, <1>10, <2>1, <2>2, <2>3
<1>12. CASE ImportInvite(g)
  <2>1. UNCHANGED <<link, requests, approvals, faults>> /\ gpoll[g].pc = "import_invite"
    BY <1>12 DEF ImportInvite, Fine
  <2>2. gpoll[g].link.invite \in 1 .. Len(signals)
    BY <1>1, <2>1 DEF Referring, Refers
  <2>3. /\ peer' \in [Guests -> Peer] /\ gpoll' \in [Guests -> GuestPolls]
        /\ gpoll'[g].pc = "imported" /\ gpoll'[g].link = gpoll[g].link
        /\ \A h \in Guests \ {g} : gpoll'[h] = gpoll[h]
    BY <1>1, <1>12, <2>2, ImportInviteFacts
  <2>4. Referring(g)'
    BY <1>1, <2>1, <2>3, ReferringStays
  <2> QED
    BY <1>1, <2>1, <2>3, <2>4, TypesOfOthers
<1>13. CASE InviteImported(g)
  <2> DEFINE l == [gpoll[g].link EXCEPT !.joined = gpoll[g].joined]
  <2>1. /\ gpoll[g].pc = "imported" /\ Saved(g, l) /\ UNCHANGED <<peer, requests, approvals, faults>>
    BY <1>13 DEF InviteImported, Fine
  <2>2. l \in Link /\ l.invite = gpoll[g].link.invite
    BY <1>2, <2>1, GuestPollFacts DEF Link
  <2> HIDE DEF l
  <2> QED
    BY <1>1, <1>10, <2>1, <2>2
<1>14. CASE UploadResponse(g)
  <2>1. UNCHANGED <<peer, link, requests, approvals, faults>> /\ gpoll[g].pc = "upload_response"
    BY <1>14 DEF UploadResponse, Fine
  <2>2. /\ gpoll' \in [Guests -> GuestPolls]
        /\ gpoll'[g].pc = "uploaded" /\ gpoll'[g].link = gpoll[g].link
        /\ \A h \in Guests \ {g} : gpoll'[h] = gpoll[h]
    BY <1>1, <1>14, UploadResponseFacts
  <2>3. Referring(g)'
    BY <1>1, <2>1, <2>2, ReferringStays
  <2> QED
    BY <1>1, <2>1, <2>2, <2>3, TypesOfOthers
<1>15. CASE ResponseUploaded(g)
  <2> DEFINE n == gpoll[g].link.handledInvite
             l == [gpoll[g].link EXCEPT !.responded = n, !.uploaded = gpoll[g].answers]
  <2>1. /\ gpoll[g].pc = "uploaded" /\ Saved(g, l) /\ UNCHANGED <<peer, requests, approvals, faults>>
    BY <1>15 DEF ResponseUploaded, Fine
  <2>2. gpoll[g].link \in Link /\ gpoll[g].answers \in Invites
    BY <1>2, <2>1, GuestPollFacts DEF Awaiting
  <2>3. l \in Link /\ l.invite = gpoll[g].link.invite
    BY <2>2 DEF Link
  <2> HIDE DEF l
  <2> QED
    BY <1>1, <1>10, <2>1, <2>3
<1>16. CASE GuestStepFails(g)
  <2>1. UNCHANGED <<peer, requests, approvals>> /\ faults' \in Nat /\ gpoll[g].pc # "idle"
    BY <1>16, FaultTypes DEF GuestStepFails, GuestAwaits
  <2>2. CASE gpoll[g].pc \in {"upload_response", "uploaded"}
    <3>1. gpoll' = [gpoll EXCEPT ![g] = Idle] /\ UNCHANGED link
      BY <1>16, <2>2 DEF GuestStepFails
    <3>2. /\ gpoll' \in [Guests -> GuestPolls] /\ gpoll'[g].pc = "idle"
          /\ \A h \in Guests \ {g} : gpoll'[h] = gpoll[h]
      BY <1>1, <3>1 DEF GuestPolls, Idle
    <3>3. Referring(g)'
      BY <1>1, <3>1, <3>2, ReferringStays
    <3> QED
      BY <1>1, <2>1, <3>1, <3>2, <3>3, TypesOfOthers
  <2>3. CASE gpoll[g].pc \notin {"upload_response", "uploaded"}
    <3>1. Saved(g, gpoll[g].link) /\ gpoll[g].link \in Link
      BY <1>2, <1>16, <2>1, <2>3, GuestPollFacts DEF GuestStepFails
    <3> QED
      BY <1>1, <1>10, <2>1, <3>1
  <2> QED
    BY <2>2, <2>3
<1> QED
  BY <1>3, <1>4, <1>5, <1>6, <1>7, <1>8, <1>9, <1>11, <1>12, <1>13, <1>14, <1>15, <1>16
     DEF GuestPoll

(* The types, and what is filed, are kept by every step.                   *)
LEMMA TypesSafe ==
  ASSUME IInv, TInv, [Next]_vars
  PROVE  TInv'
BY HostTypesSafe, GuestTypesSafe DEF Next

LEMMA TypesStart ==
  ASSUME Init
  PROVE  TInv
<1>1. NotJoined \in Peer /\ Idle \in GuestPolls /\ Idle.pc = "idle"
  BY DEF NotJoined, Peer, Idle, GuestPolls
<1>2. GuestTypes
  BY <1>1 DEF Init, GuestTypes
<1>3. \A g \in Guests : Referring(g)
  BY <1>1 DEF Init, Referring
<1> QED
  BY <1>2, <1>3 DEF TInv

-----------------------------------------------------------------------------
(* What the host has done, as its memory has it: the slot of each guest,   *)
(* and the packets it sent.                                                *)
SameLedger(mem, old) ==
    /\ mem.peerByMember = old.peerByMember
    /\ mem.uploaded = old.uploaded /\ mem.noticed = old.noticed

LEMMA LedgerSettled ==
  ASSUME HostTypes
  PROVE  LET mem == Settled(member, Received(memory))
         IN  /\ mem.uploaded = memory.uploaded /\ mem.noticed = memory.noticed
             /\ \A g \in Guests : mem.peerByMember[g] =
                  IF member[g] = "approved" THEN memory.peerByMember[g] ELSE 0
<1> DEFINE old == Received(memory)
           kept(table, none) == [g \in Guests |-> IF member[g] = "approved" THEN table[g] ELSE none]
           numbers == kept(old.peerByMember, 0)
           responses == kept(old.response, 0)
           imports == kept(old.imported, 0)
           answers == kept(old.approvable, None)
           decisions == kept(old.approved, None)
           failures == {g \in old.failed : member[g] = "approved"}
           found == [g \in Guests |->
                       Latest(memory.response[g], Fresh(memory.after, {"response"}), g)]
<1>1. memory \in HostMemory
  BY DEF HostTypes
<1>2. old = [memory EXCEPT !.after = Len(signals), !.response = found]
  BY <1>1 DEF Received, HostMemory
<1>3. old \in HostMemory
  BY <1>1, ReceivedFacts
<1> HIDE DEF found
<1>4. SameLedger(old, memory)
  BY <1>1, <1>2 DEF HostMemory, SameLedger
<1> HIDE DEF old
<1>5. Settled(member, old) =
        [old EXCEPT !.peerByMember = numbers, !.response = responses, !.imported = imports,
                    !.approvable = answers, !.approved = decisions, !.failed = failures]
  BY <1>3 DEF Settled, HostMemory
<1>6. \A g \in Guests : numbers[g] = IF member[g] = "approved" THEN old.peerByMember[g] ELSE 0
  OBVIOUS
<1> HIDE DEF numbers, responses, imports, answers, decisions, failures
<1>7. /\ Settled(member, old).peerByMember = numbers
      /\ Settled(member, old).uploaded = old.uploaded
      /\ Settled(member, old).noticed = old.noticed
  BY <1>3, <1>5 DEF HostMemory
<1> QED
  BY <1>4, <1>6, <1>7 DEF SameLedger, old

LEMMA LedgerBefore ==
  ASSUME NEW mem \in HostMemory, NEW a \in HostAction
  PROVE  SameLedger(MarkedBefore(mem, a), mem)
<1>1. CASE a.kind = "import_response"
  <2> DEFINE new == [mem.imported EXCEPT ![a.guest] = a.signal]
  <2>1. MarkedBefore(mem, a) = [mem EXCEPT !.imported = new]
    BY <1>1 DEF MarkedBefore
  <2> HIDE DEF new
  <2> QED
    BY <2>1 DEF HostMemory, SameLedger
<1>2. CASE a.kind = "approve"
  <2> DEFINE new == [mem.approved EXCEPT ![a.guest] = a.invite]
  <2>1. MarkedBefore(mem, a) = [mem EXCEPT !.approved = new]
    BY <1>2 DEF MarkedBefore
  <2> HIDE DEF new
  <2> QED
    BY <2>1 DEF HostMemory, SameLedger
<1>3. CASE a.kind \notin {"import_response", "approve"}
  BY <1>3 DEF MarkedBefore, SameLedger
<1> QED
  BY <1>1, <1>2, <1>3

LEMMA LedgerAfter ==
  ASSUME NEW mem \in HostMemory, NEW a \in HostAction
  PROVE  LET new == MarkedAfter(mem, a)
         IN  /\ new.peerByMember = IF a.kind = "create_invite" /\ a.ok
                                   THEN [mem.peerByMember EXCEPT ![a.guest] = a.signal + 1]
                                   ELSE mem.peerByMember
             /\ new.uploaded = IF a.kind = "upload_invite" THEN mem.uploaded \cup {a.invite}
                               ELSE mem.uploaded
             /\ new.noticed = IF a.kind = "upload_notice" THEN mem.noticed \cup {a.invite}
                              ELSE mem.noticed
<1>1. CASE a.kind = "create_invite" /\ a.ok
  <2> DEFINE new == [mem.peerByMember EXCEPT ![a.guest] = a.signal + 1]
  <2>1. MarkedAfter(mem, a) = [mem EXCEPT !.peerByMember = new]
    BY <1>1 DEF MarkedAfter
  <2> HIDE DEF new
  <2>2. /\ MarkedAfter(mem, a).peerByMember = new
        /\ MarkedAfter(mem, a).uploaded = mem.uploaded
        /\ MarkedAfter(mem, a).noticed = mem.noticed
    BY <2>1 DEF HostMemory
  <2> QED
    BY <1>1, <2>2 DEF new
<1>2. CASE a.kind = "create_invite" /\ ~a.ok
  <2> DEFINE new == mem.failed \cup {a.guest}
  <2>1. MarkedAfter(mem, a) = [mem EXCEPT !.failed = new]
    BY <1>2 DEF MarkedAfter
  <2> HIDE DEF new
  <2> QED
    BY <1>2, <2>1 DEF HostMemory
<1>3. CASE a.kind = "upload_invite"
  <2> DEFINE new == [mem.response EXCEPT ![a.guest] = 0]
             sent == mem.uploaded \cup {a.invite}
  <2>1. MarkedAfter(mem, a) = [mem EXCEPT !.uploaded = sent, !.response = new]
    BY <1>3 DEF MarkedAfter, HostMemory
  <2> HIDE DEF new, sent
  <2>2. /\ MarkedAfter(mem, a).peerByMember = mem.peerByMember
        /\ MarkedAfter(mem, a).uploaded = sent
        /\ MarkedAfter(mem, a).noticed = mem.noticed
    BY <2>1 DEF HostMemory
  <2> QED
    BY <1>3, <2>2 DEF sent
<1>4. CASE a.kind = "upload_notice"
  <2> DEFINE new == mem.noticed \cup {a.invite}
  <2>1. MarkedAfter(mem, a) = [mem EXCEPT !.noticed = new]
    BY <1>4 DEF MarkedAfter
  <2> HIDE DEF new
  <2>2. /\ MarkedAfter(mem, a).peerByMember = mem.peerByMember
        /\ MarkedAfter(mem, a).uploaded = mem.uploaded
        /\ MarkedAfter(mem, a).noticed = new
    BY <2>1 DEF HostMemory
  <2> QED
    BY <1>4, <2>2 DEF new
<1>5. CASE a.kind = "import_response" /\ a.ok
  <2> DEFINE new == [mem.approvable EXCEPT ![a.guest] = a.invite]
  <2>1. MarkedAfter(mem, a) = [mem EXCEPT !.approvable = new]
    BY <1>5 DEF MarkedAfter
  <2> HIDE DEF new
  <2> QED
    BY <1>5, <2>1 DEF HostMemory
<1>6. CASE \/ a.kind \notin {"create_invite", "upload_invite", "upload_notice", "import_response"}
           \/ a.kind = "import_response" /\ ~a.ok
  BY <1>6 DEF MarkedAfter
<1> QED
  BY <1>1, <1>2, <1>3, <1>4, <1>5, <1>6

(* A step is planned only for a guest who was approved, and is not one     *)
(* that the memory knows to be done.                                       *)
Planned(a, pc, view, mem) ==
    /\ view[a.guest] = "approved"
    /\ a.kind \in Uploads => a.invite.slot = mem.peerByMember[a.guest]
    /\ a.kind = "create_invite" => a.ok /\ mem.peerByMember[a.guest] = 0
    /\ pc = "command" /\ a.kind = "upload_invite" => a.invite \notin mem.uploaded
    /\ pc = "command" /\ a.kind = "upload_notice" => a.invite \notin mem.noticed

HostBooks ==
    /\ poll.pc # "idle" => SameLedger(poll.mem, memory)
    /\ \A g \in Guests : poll.view[g] # "approved" => memory.peerByMember[g] = 0
    /\ poll.pc \in {"command", "reply"} => Planned(poll.action, poll.pc, poll.view, memory)

LEMMA PlannedStep ==
  ASSUME NEW mem, NEW view, NEW a \in PlanHost(view, mem)
  PROVE  /\ Planned(a, "command", view, mem)
         /\ a.guest \in Guests /\ a \in StepOf(a.guest, mem)
         /\ a.kind = "create_invite" => a.signal = Len(slots)
<1>1. PICK g \in Guests : view[g] = "approved" /\ a \in StepOf(g, mem)
  BY DEF PlanHost
<1> DEFINE s == mem.peerByMember[g]
<1>2. \/ s = 0 /\ a = Action("create_invite", g, None, Len(slots))
      \/ s # 0 /\ Invite(s) \notin mem.noticed /\ a = Action("upload_notice", g, Invite(s), 0)
      \/ s # 0 /\ Invite(s) \notin mem.uploaded /\ a = Action("upload_invite", g, Invite(s), 0)
      \/ a = Action("import_response", g, Invite(s), mem.response[g])
      \/ a = Action("approve", g, Invite(s), 0)
  BY <1>1 DEF StepOf
<1>3. Invite(s).slot = s
  BY DEF Invite
<1>4. a.guest = g
  BY <1>2 DEF Action
<1> HIDE DEF s
<1>5. Planned(a, "command", view, mem)
  BY <1>1, <1>2, <1>3 DEF Action, Planned, Uploads, s
<1>6. a.kind = "create_invite" => a.signal = Len(slots)
  BY <1>2 DEF Action
<1> QED
  BY <1>1, <1>4, <1>5, <1>6

LEMMA PlannedLedger ==
  ASSUME NEW a, NEW pc, NEW view, NEW mem, NEW old, SameLedger(mem, old)
  PROVE  Planned(a, pc, view, mem) <=> Planned(a, pc, view, old)
BY DEF Planned, SameLedger
-----------------------------------------------------------------------------
(* What a step of the system means to the host's poll.                     *)
Fetches ==
    /\ poll.pc = "idle" /\ poll'.pc = "steps" /\ poll'.view = member /\ poll'.mem = memory'
    /\ memory'.uploaded = memory.uploaded /\ memory'.noticed = memory.noticed
    /\ \A g \in Guests : memory'.peerByMember[g] =
         IF member[g] = "approved" THEN memory.peerByMember[g] ELSE 0
Plans ==
    /\ poll.pc = "steps" /\ poll'.pc = "command" /\ poll'.view = poll.view
    /\ SameLedger(poll'.mem, poll.mem) /\ memory' = memory
    /\ poll'.action \in PlanHost(poll.view, poll.mem)
Rests == poll'.pc = "idle" /\ poll'.view = poll.view /\ memory' = memory
SameStep(a, b) ==
    a.kind = b.kind /\ a.guest = b.guest /\ a.invite = b.invite /\ a.signal = b.signal
Executes ==
    /\ poll.pc = "command" /\ poll'.pc = "reply" /\ poll'.view = poll.view
    /\ poll'.mem = poll.mem /\ memory' = memory
    /\ SameStep(poll'.action, poll.action)
    /\ poll'.action.kind \in Uploads \cup {"create_invite"} => poll'.action.ok
Files(a) ==
    /\ poll.pc \in {"command", "reply"} /\ poll'.pc = "steps" /\ poll'.view = poll.view
    /\ poll'.mem = memory' /\ memory' = MarkedAfter(poll.mem, a)
Answers == poll.pc = "reply" /\ Files(poll.action)
Fails == poll.action.kind \notin Uploads /\ Files([poll.action EXCEPT !.ok = FALSE])
Waits ==
    /\ SameLedger(memory', memory)
    /\ poll'.pc = poll.pc /\ poll'.view = poll.view
    /\ poll.pc # "idle" => SameLedger(poll'.mem, poll.mem)
    /\ poll.pc \in {"command", "reply"} => poll'.action = poll.action

LEMMA FetchesDigest ==
  ASSUME IInv, HostFetch
  PROVE  Fetches
<1>1. HostTypes
  BY DEF IInv
<1>2. /\ poll.pc = "idle" /\ memory' = Settled(member, Received(memory))
      /\ poll' = [pc |-> "steps", view |-> member, mem |-> memory']
  BY DEF HostFetch
<1>3. poll'.pc = "steps" /\ poll'.view = member /\ poll'.mem = memory'
  BY <1>2
<1> QED
  BY <1>1, <1>2, <1>3, LedgerSettled DEF Fetches

LEMMA PlansDigest ==
  ASSUME IInv, HostPlan
  PROVE  Plans
<1>1. PICK a \in PlanHost(poll.view, poll.mem) :
        poll' = [pc |-> "command", view |-> poll.view, mem |-> MarkedBefore(poll.mem, a),
                 action |-> a]
  BY DEF HostPlan
<1>2. poll.pc = "steps" /\ UNCHANGED <<slots, memory>>
  BY DEF HostPlan
<1>3. poll.mem \in HostMemory /\ slots \in Seq(Slot) /\ Remembers(poll.mem, slots)
  BY <1>2, Vocabulary
<1>4. a \in HostAction
  BY <1>3, StepFacts DEF PlanHost
<1>5. SameLedger(MarkedBefore(poll.mem, a), poll.mem)
  BY <1>3, <1>4, LedgerBefore
<1> QED
  BY <1>1, <1>2, <1>5 DEF Plans

LEMMA ExecutesDigest ==
  ASSUME IInv, HostBooks, poll.pc = "command", NEW ok \in BOOLEAN, Done(ok), UNCHANGED memory,
         poll.action.kind \in Uploads \cup {"create_invite"} => ok
  PROVE  Executes
<1>1. poll \in [pc : {"command", "reply"}, view : View, mem : HostMemory, action : HostAction]
      /\ poll.action \in HostAction
  BY Vocabulary DEF Poll
<1> DEFINE a == [poll.action EXCEPT !.ok = ok]
<1>2. SameStep(a, poll.action) /\ a.ok = ok
  BY <1>1 DEF HostAction, SameStep
<1>3. poll' = [poll EXCEPT !.pc = "reply", !.action = a]
  BY <1>1 DEF Done
<1> HIDE DEF a
<1>4. poll'.pc = "reply" /\ poll'.view = poll.view /\ poll'.mem = poll.mem /\ poll'.action = a
  BY <1>1, <1>3
<1> QED
  BY <1>2, <1>4 DEF Executes, SameStep

LEMMA CommandDigest ==
  ASSUME IInv, HostBooks, HostCommand
  PROVE  Executes
<1>1. poll.pc = "command" /\ poll.action.kind \notin Uploads /\ UNCHANGED memory
  BY DEF HostCommand
<1>2. \E ok \in BOOLEAN : Done(ok) /\ (poll.action.kind = "create_invite" => ok)
  <2>1. CASE poll.action.kind = "create_invite"
    BY <2>1 DEF HostCommand
  <2>2. CASE poll.action.kind = "import_response"
    BY <2>2 DEF HostCommand, Importable
  <2>3. CASE poll.action.kind = "approve"
    BY <2>3 DEF HostCommand
  <2> QED
    BY <2>1, <2>2, <2>3 DEF HostCommand
<1> QED
  BY <1>1, <1>2, ExecutesDigest

LEMMA RetryDigest ==
  ASSUME IInv, NEW g, RetryRequest(g), poll.pc # "idle" => SameLedger(poll.mem, memory)
  PROVE  Waits
<1> DEFINE live == IF poll.pc = "idle" THEN memory ELSE poll.mem
           failures == live.failed \ {g}
           mem == [live EXCEPT !.failed = failures]
<1>1. /\ memory' = mem
      /\ poll' = IF poll.pc = "idle" THEN poll ELSE [poll EXCEPT !.mem = mem]
  BY DEF RetryRequest
<1>2. live \in HostMemory /\ SameLedger(live, memory)
  BY Vocabulary DEF SameLedger
<1> HIDE DEF live, failures
<1>3. SameLedger(mem, live)
  BY <1>2 DEF SameLedger, HostMemory
<1>4. live = IF poll.pc = "idle" THEN memory ELSE poll.mem
  BY DEF live
<1> HIDE DEF mem
<1>5. SameLedger(memory', memory)
  BY <1>1, <1>2, <1>3 DEF SameLedger
<1>6. CASE poll.pc = "idle"
  BY <1>1, <1>5, <1>6 DEF Waits
<1>7. CASE poll.pc = "steps"
  <2>1. poll \in [pc : {"steps"}, view : View, mem : HostMemory]
    BY <1>7, Vocabulary DEF Poll
  <2>2. poll'.pc = poll.pc /\ poll'.view = poll.view /\ poll'.mem = mem
    BY <1>1, <1>7, <2>1
  <2> QED
    BY <1>3, <1>4, <1>5, <1>7, <2>2 DEF Waits
<1>8. CASE poll.pc \in {"command", "reply"}
  <2>1. poll \in [pc : {"command", "reply"}, view : View, mem : HostMemory, action : HostAction]
    BY <1>8, Vocabulary DEF Poll
  <2>2. /\ poll'.pc = poll.pc /\ poll'.view = poll.view /\ poll'.mem = mem
        /\ poll'.action = poll.action
    BY <1>1, <1>8, <2>1
  <2> QED
    BY <1>3, <1>4, <1>5, <1>8, <2>2 DEF Waits
<1> QED
  BY <1>6, <1>7, <1>8, Vocabulary, PollFacts

LEMMA NothingDigest ==
  ASSUME UNCHANGED <<memory, poll>>
  PROVE  Waits
BY DEF Waits, SameLedger

(* The steps of the host, and what the others do meanwhile.                *)
HostMoves ==
    \/ HostFetch /\ Fetches
    \/ HostPlan /\ Plans
    \/ HostPollEnds /\ Rests
    \/ HostCommand /\ Executes
    \/ HostUpload /\ (Executes \/ (Rests /\ member[poll.action.guest] # "approved"))
    \/ HostReply /\ Answers
    \/ HostStepFails /\ (Fails \/ (Rests /\ poll.action.kind \in Uploads))
    \/ HostReloads /\ Rests
    \/ Waits /\ (UNCHANGED <<memory, poll>> \/ \E g \in Guests : RetryRequest(g))

LEMMA HostDigest ==
  ASSUME IInv, HostBooks, [Next]_vars
  PROVE  HostMoves
<1>1. ASSUME Abort, UNCHANGED memory
      PROVE  Rests
  BY <1>1 DEF Abort, Rests
<1>2. CASE HostFetch
  BY <1>2, FetchesDigest DEF HostMoves
<1>3. CASE HostPlan
  BY <1>3, PlansDigest DEF HostMoves
<1>4. CASE HostPollEnds
  BY <1>1, <1>4 DEF HostMoves, HostPollEnds, Abort
<1>5. CASE HostCommand
  BY <1>5, CommandDigest DEF HostMoves
<1>6. CASE HostUpload
  <2>1. poll.pc = "command" /\ poll.action.kind \in Uploads /\ UNCHANGED memory
    BY <1>6 DEF HostUpload
  <2>2. Done(TRUE) \/ (Abort /\ member[poll.action.guest] # "approved")
    BY <1>6 DEF HostUpload
  <2> QED
    BY <1>1, <1>6, <2>1, <2>2, ExecutesDigest DEF HostMoves
<1>7. CASE HostReply
  BY <1>7 DEF HostReply, HostMoves, Answers, Files
<1>8. CASE HostStepFails
  BY <1>1, <1>8 DEF HostStepFails, HostMoves, Fails, Files
<1>9. CASE HostReloads
  BY <1>1, <1>9 DEF HostReloads, HostMoves
<1>10. ASSUME UNCHANGED <<memory, poll>>
       PROVE  HostMoves
  BY <1>10, NothingDigest DEF HostMoves
<1>11. ASSUME NEW g \in Guests, RetryRequest(g)
       PROVE  HostMoves
  BY <1>11, RetryDigest DEF HostMoves, HostBooks
<1>12. CASE InviteByHand
  BY <1>10, <1>12 DEF InviteByHand, Roster
<1>13. ASSUME NEW s \in DOMAIN slots,
              \/ RosterButton(s) \/ HostGathers(s) \/ ConnectTimesOut(s) \/ AttemptFails(s)
              \/ \E g \in Guests : LinkUp(s, g)
       PROVE  HostMoves
  BY <1>10, <1>13 DEF RosterButton, InviteAgain, ImportByHand, ApproveByHand, Refuse, Cancel,
     HostGathers, ConnectTimesOut, AttemptFails, LinkUp, Becomes, Roster
<1>14. ASSUME NEW g \in Guests,
              \/ \E status \in {"approved", "rejected"} : Decide(g, status)
              \/ RequestJoin(g) \/ EndLink(g) \/ LeaveSession(g)
              \/ GuestPoll(g) \/ GuestGathers(g) \/ GuestStepFails(g) \/ GuestReloads(g)
       PROVE  HostMoves
  BY <1>10, <1>14 DEF Decide, RequestJoin, EndLink, LeaveSession, GuestGathers, GuestStepFails,
     GuestReloads, GuestPoll, GuestFetch, GuestPollEnds, GuestPlan, ImportNotice, ImportInvite,
     InviteImported, UploadResponse, ResponseUploaded
<1>15. CASE UNCHANGED vars
  BY <1>10, <1>15 DEF vars
<1> QED
  BY <1>2, <1>3, <1>4, <1>5, <1>6, <1>7, <1>8, <1>9, <1>11, <1>12, <1>13, <1>14, <1>15
     DEF Next, HostPoll

(* What the memory knows to be done after a reply.                         *)
LedgerOf(a) ==
    /\ memory'.peerByMember = IF a.kind = "create_invite" /\ a.ok
                              THEN [memory.peerByMember EXCEPT ![a.guest] = a.signal + 1]
                              ELSE memory.peerByMember
    /\ memory'.uploaded = IF a.kind = "upload_invite" THEN memory.uploaded \cup {a.invite}
                          ELSE memory.uploaded
    /\ memory'.noticed = IF a.kind = "upload_notice" THEN memory.noticed \cup {a.invite}
                         ELSE memory.noticed

LEMMA FilesLedger ==
  ASSUME IInv, HostBooks, NEW a \in HostAction, Files(a)
  PROVE  LedgerOf(a) /\ a.guest \in Guests /\ memory.peerByMember \in [Guests -> Nat]
<1>1. /\ poll.mem \in HostMemory /\ memory \in HostMemory /\ SameLedger(poll.mem, memory)
      /\ memory' = MarkedAfter(poll.mem, a)
  BY Vocabulary DEF Files, HostBooks
<1>2. memory.peerByMember \in [Guests -> Nat] /\ a.guest \in Guests
  BY <1>1 DEF HostMemory, HostAction
<1> QED
  BY <1>1, <1>2, LedgerAfter DEF LedgerOf, SameLedger

LEMMA FailedType ==
  ASSUME NEW a \in HostAction
  PROVE  LET b == [a EXCEPT !.ok = FALSE]
         IN  b \in HostAction /\ SameStep(b, a) /\ b.ok = FALSE
BY DEF HostAction, SameStep

LEMMA HostBooksSafe ==
  ASSUME IInv, HostBooks, [Next]_vars
  PROVE  HostBooks'
<1>1. HostMoves
  BY HostDigest
<1>2. /\ poll.pc # "idle" => SameLedger(poll.mem, memory)
      /\ \A g \in Guests : poll.view[g] # "approved" => memory.peerByMember[g] = 0
      /\ poll.pc \in {"command", "reply"} =>
           Planned(poll.action, poll.pc, poll.view, memory)
  BY DEF HostBooks
<1>3. CASE Fetches
  <2>1. \A g \in Guests : poll'.view[g] # "approved" => memory'.peerByMember[g] = 0
    BY <1>3 DEF Fetches
  <2> QED
    BY <1>3, <2>1 DEF Fetches, HostBooks, SameLedger
<1>4. CASE Plans
  <2>1. Planned(poll'.action, "command", poll.view, poll.mem)
    BY <1>4, PlannedStep DEF Plans
  <2>2. Planned(poll'.action, "command", poll.view, memory)
    BY <1>2, <1>4, <2>1, PlannedLedger DEF Plans
  <2> QED
    BY <1>2, <1>4, <2>2 DEF Plans, HostBooks, SameLedger
<1>5. CASE Rests
  BY <1>2, <1>5 DEF Rests, HostBooks
<1>6. CASE Executes
  <2>1. Planned(poll'.action, "reply", poll.view, memory)
    BY <1>2, <1>6 DEF Executes, Planned, SameStep
  <2> QED
    BY <1>2, <1>6, <2>1 DEF Executes, HostBooks
<1>7. ASSUME NEW a \in HostAction, Files(a), SameStep(a, poll.action)
      PROVE  HostBooks'
  <2>1. LedgerOf(a) /\ a.guest \in Guests /\ memory.peerByMember \in [Guests -> Nat]
    BY <1>7, FilesLedger
  <2>2. poll.view[a.guest] = "approved"
    BY <1>2, <1>7 DEF Files, Planned, SameStep
  <2>3. \A g \in Guests : poll'.view[g] # "approved" => memory'.peerByMember[g] = 0
    BY <1>2, <1>7, <2>1, <2>2 DEF Files, LedgerOf
  <2> QED
    BY <1>7, <2>3 DEF Files, HostBooks, SameLedger
<1>8. CASE Answers \/ Fails
  <2>1. poll.pc \in {"command", "reply"}
    BY <1>8 DEF Answers, Fails, Files
  <2>2. poll.action \in HostAction /\ SameStep(poll.action, poll.action)
    BY <2>1, Vocabulary DEF SameStep
  <2> QED
    BY <1>7, <1>8, <2>2, FailedType DEF Answers, Fails
<1>9. CASE Waits
  <2>1. SameLedger(memory', memory)
    BY <1>9 DEF Waits
  <2>2. poll.pc \in {"command", "reply"} => Planned(poll.action, poll.pc, poll.view, memory')
    BY <1>2, <2>1, PlannedLedger
  <2>3. poll.pc # "idle" => SameLedger(poll'.mem, memory')
    BY <1>2, <1>9 DEF Waits, SameLedger
  <2> QED
    BY <1>2, <1>9, <2>1, <2>2, <2>3 DEF Waits, HostBooks, SameLedger
<1> QED
  BY <1>1, <1>3, <1>4, <1>5, <1>6, <1>8, <1>9 DEF HostMoves

LEMMA HostBooksStart ==
  ASSUME Init
  PROVE  HostBooks
<1>1. poll.pc = "idle" /\ memory = EmptyHostMemory
  BY DEF Init
<1>2. \A g \in Guests : memory.peerByMember[g] = 0
  BY <1>1 DEF EmptyHostMemory
<1> QED
  BY <1>1, <1>2 DEF HostBooks
-----------------------------------------------------------------------------
(* The roster only grows: by a slot made for a guest, or by hand.          *)
KeepsOwners ==
    /\ Len(slots') = Len(slots)
    /\ \A s \in 1 .. Len(slots) : slots'[s].owner = slots[s].owner
Creates ==
    /\ poll.pc = "command" /\ poll.action.kind = "create_invite"
    /\ slots' = Append(slots, NewSlot(poll.action.guest))

LEMMA SlotOwner ==
  ASSUME NEW s \in Slot, NEW g, NEW state
  PROVE  /\ Renewed(s).owner = s.owner /\ Imported(s, g).owner = s.owner
         /\ Approved(s).owner = s.owner /\ Withdrawn(s).owner = s.owner
         /\ [s EXCEPT !.state = state].owner = s.owner
         /\ [s EXCEPT !.state = state, !.answer = Nobody].owner = s.owner
BY DEF Slot, Renewed, Imported, Approved, Withdrawn

LEMMA ChangedOwner ==
  ASSUME slots \in Seq(Slot), NEW s \in 1 .. Len(slots), NEW t, t.owner = slots[s].owner,
         slots' = [slots EXCEPT ![s] = t]
  PROVE  KeepsOwners
<1>1. Len(slots') = Len(slots) /\ \A k \in 1 .. Len(slots) :
        slots'[k] = IF k = s THEN t ELSE slots[k]
  OBVIOUS
<1> QED
  BY <1>1 DEF KeepsOwners

LEMMA RosterSteps ==
  ASSUME IInv, [Next]_vars
  PROVE  KeepsOwners \/ (HostCommand /\ Creates) \/ (InviteByHand /\ slots' = Append(slots, NewSlot(Stranger)))
<1>1. slots \in Seq(Slot) /\ Len(slots) \in Nat
  BY Vocabulary
<1>2. ASSUME UNCHANGED slots
      PROVE  KeepsOwners
  BY <1>2 DEF KeepsOwners
<1>3. ASSUME NEW s \in 1 .. Len(slots), NEW t, t.owner = slots[s].owner,
             slots' = [slots EXCEPT ![s] = t]
      PROVE  KeepsOwners
  BY <1>1, <1>3, ChangedOwner
<1>4. CASE HostCommand
  <2> DEFINE a == poll.action
             s == a.invite.slot
  <2>1. poll.pc = "command"
    BY <1>4 DEF HostCommand
  <2>2. a \in HostAction /\ Sound(a, "command", slots)
    BY <2>1, Vocabulary
  <2>3. a.kind # "create_invite" => s \in 1 .. Len(slots)
    BY <2>2 DEF Sound
  <2>4. a.kind # "create_invite" => slots[s] \in Slot
    BY <1>1, <2>3, GenType
  <2>5. CASE a.kind = "create_invite"
    BY <1>4, <2>1, <2>5 DEF HostCommand, Creates
  <2>6. CASE a.kind = "import_response"
    <3> DEFINE t == Imported(slots[s], a.guest)
    <3>1. UNCHANGED slots \/ slots' = [slots EXCEPT ![s] = t]
      BY <1>4, <2>6 DEF HostCommand
    <3>2. t.owner = slots[s].owner
      BY <2>4, <2>6, SlotOwner
    <3> HIDE DEF t
    <3> QED
      BY <1>2, <1>3, <2>3, <2>6, <3>1, <3>2
  <2>7. CASE a.kind = "approve"
    <3> DEFINE t == Approved(slots[s])
    <3>1. UNCHANGED slots \/ slots' = [slots EXCEPT ![s] = t]
      BY <1>4, <2>7 DEF HostCommand
    <3>2. t.owner = slots[s].owner
      BY <2>4, <2>7, SlotOwner
    <3> HIDE DEF t
    <3> QED
      BY <1>2, <1>3, <2>3, <2>7, <3>1, <3>2
  <2> QED
    BY <1>4, <2>5, <2>6, <2>7 DEF HostCommand
<1>5. ASSUME NEW s \in DOMAIN slots,
             \/ RosterButton(s) \/ HostGathers(s) \/ ConnectTimesOut(s) \/ AttemptFails(s)
             \/ \E g \in Guests : LinkUp(s, g)
      PROVE  KeepsOwners
  <2>1. s \in 1 .. Len(slots) /\ slots[s] \in Slot
    BY <1>1, GenType
  <2>2. ASSUME NEW t, Becomes(s, t), t.owner = slots[s].owner
        PROVE  KeepsOwners
    BY <1>3, <2>1, <2>2 DEF Becomes, Roster
  <2>3. CASE RosterButton(s)
    BY <2>1, <2>2, <2>3, SlotOwner
       DEF RosterButton, InviteAgain, ImportByHand, ApproveByHand, Refuse, Cancel
  <2>4. CASE HostGathers(s) \/ ConnectTimesOut(s) \/ AttemptFails(s)
    BY <2>1, <2>2, <2>4, SlotOwner DEF HostGathers, ConnectTimesOut, AttemptFails
  <2>5. ASSUME NEW g \in Guests, LinkUp(s, g)
        PROVE  KeepsOwners
    <3> DEFINE t == [slots[s] EXCEPT !.state = "connected"]
    <3>1. slots' = [slots EXCEPT ![s] = t]
      BY <2>5 DEF LinkUp
    <3>2. t.owner = slots[s].owner
      BY <2>1, SlotOwner
    <3> HIDE DEF t
    <3> QED
      BY <1>3, <2>1, <3>1, <3>2
  <2> QED
    BY <1>5, <2>3, <2>4, <2>5
<1>6. CASE HostPoll /\ ~HostCommand
  BY <1>2, <1>6 DEF HostPoll, HostFetch, HostPlan, HostPollEnds, HostUpload, HostReply
<1>7. CASE HostStepFails \/ HostReloads
  BY <1>2, <1>7 DEF HostStepFails, HostReloads
<1>8. CASE InviteByHand
  BY <1>8 DEF InviteByHand, Roster
<1>9. ASSUME NEW g \in Guests,
             \/ \E status \in {"approved", "rejected"} : Decide(g, status)
             \/ RetryRequest(g) \/ RequestJoin(g) \/ EndLink(g) \/ LeaveSession(g)
             \/ GuestPoll(g) \/ GuestGathers(g) \/ GuestStepFails(g) \/ GuestReloads(g)
      PROVE  KeepsOwners
  BY <1>2, <1>9 DEF Decide, RetryRequest, RequestJoin, EndLink, LeaveSession, GuestGathers,
     GuestStepFails, GuestReloads, GuestPoll, GuestFetch, GuestPollEnds, GuestPlan, ImportNotice,
     ImportInvite, InviteImported, UploadResponse, ResponseUploaded
<1>10. CASE UNCHANGED vars
  BY <1>2, <1>10 DEF vars
<1> QED
  BY <1>4, <1>5, <1>6, <1>7, <1>8, <1>9, <1>10 DEF Next

LEMMA RosterGrows ==
  ASSUME IInv, [Next]_vars
  PROVE  Len(slots) \in Nat /\ Len(slots') \in Nat /\ Len(slots) <= Len(slots')
<1>1. Len(slots) \in Nat /\ slots \in Seq(Slot)
  BY Vocabulary
<1>2. ASSUME NEW t, slots' = Append(slots, t)
      PROVE  Len(slots') = Len(slots) + 1
  BY <1>1, <1>2
<1> QED
  BY <1>1, <1>2, RosterSteps DEF KeepsOwners, Creates
-----------------------------------------------------------------------------
(* What a step of the system means to a guest g.                           *)
KeepsPeer(g) == peer'[g] = peer[g]
KeepsLink(g) == link'[g] = link[g]
KeepsPoll(g) == gpoll'[g] = gpoll[g]
KeepsStanding(g) == requests'[g] = requests[g] /\ member'[g] = member[g]
StaysPut(g) == KeepsPeer(g) /\ KeepsLink(g) /\ KeepsPoll(g) /\ KeepsStanding(g)

LikeLink(l, m) ==
    l.n = m.n /\ l.joined = m.joined /\ l.uploaded = m.uploaded /\ l.invite = m.invite

IsDecided(g) ==
    /\ \E status \in {"approved", "rejected"} : Decide(g, status)
    /\ KeepsPeer(g) /\ KeepsLink(g) /\ KeepsPoll(g) /\ requests'[g] = requests[g]
    /\ member[g] = "pending" /\ poll.view[g] = "pending"
    /\ member'[g] \in {"approved", "rejected"} /\ UNCHANGED <<signals, poll, memory>>
Asks(g) ==
    /\ KeepsPeer(g) /\ KeepsPoll(g) /\ member'[g] = "pending"
    /\ link[g] = NoLink /\ requests'[g] = requests[g] + 1
    /\ link'[g] \in Link /\ link'[g].n = requests[g] + 1
    /\ ~link'[g].joined /\ link'[g].invite = 0
    /\ UNCHANGED <<signals, poll, memory>>
Parts(g) ==
    /\ KeepsPeer(g) /\ KeepsPoll(g) /\ requests'[g] = requests[g] /\ Leave(g)
    /\ link'[g] = NoLink /\ UNCHANGED <<poll, memory>>
Changes(g) ==
    /\ KeepsLink(g) /\ KeepsPoll(g) /\ KeepsStanding(g) /\ UNCHANGED <<signals, poll, memory>>
    /\ \/ peer'[g] = NotJoined
       \/ /\ peer'[g].slot = peer[g].slot /\ peer'[g].gen = peer[g].gen
          /\ peer[g].state \in {"collecting", "response_ready"}
Looks(g) ==
    /\ KeepsPeer(g) /\ KeepsStanding(g) /\ UNCHANGED <<signals, poll, memory>>
    /\ gpoll[g].pc = "idle" /\ gpoll'[g].pc = "steps"
    /\ link[g] \in Link /\ link'[g] \in Link /\ gpoll'[g].link = link'[g]
    /\ link'[g].n = link[g].n /\ link'[g].joined = link[g].joined
    /\ link'[g].uploaded = link[g].uploaded
    /\ link'[g].invite # link[g].invite => signals[link'[g].invite].text
GuestFails(g) == GuestStepFails(g) \/ GuestReloads(g)
GivesUp(g) ==
    /\ gpoll[g].pc = "uploaded" => GuestFails(g)
    /\ KeepsPeer(g) /\ KeepsLink(g) /\ KeepsStanding(g) /\ UNCHANGED <<signals, poll, memory>>
    /\ gpoll[g].pc # "idle" /\ gpoll'[g].pc = "idle"
Sets(g) ==
    /\ KeepsPeer(g) /\ KeepsLink(g) /\ KeepsStanding(g) /\ UNCHANGED <<signals, poll, memory>>
    /\ gpoll[g].pc = "steps"
    /\ gpoll'[g].pc \in {"import_notice", "import_invite", "upload_response"}
    /\ gpoll[g].link \in Link /\ LikeLink(gpoll'[g].link, gpoll[g].link)
    /\ gpoll'[g].answers = Here(g)
    /\ gpoll'[g].pc = "upload_response" =>
         /\ gpoll[g].link.joined /\ gpoll[g].link.uploaded # Here(g)
         /\ peer[g].state = "response_ready"
Saves(g, l) ==
    /\ KeepsStanding(g) /\ UNCHANGED <<signals, poll, memory>>
    /\ gpoll[g].pc # "idle" /\ gpoll'[g].pc = "steps" /\ gpoll[g].link \in Link
    /\ l \in Link /\ gpoll'[g].link = l
    /\ link'[g] = IF link[g] = NoLink THEN NoLink ELSE l
    /\ peer'[g].slot = peer[g].slot /\ peer'[g].gen = peer[g].gen
    /\ peer'[g].state \in {peer[g].state, "cancelled"}
    /\ l.n = gpoll[g].link.n /\ l.invite = gpoll[g].link.invite
    /\ l.joined = gpoll[g].link.joined \/ (gpoll[g].pc = "imported" /\ l.joined = gpoll[g].joined)
    /\ l.uploaded = IF gpoll[g].pc = "uploaded" THEN gpoll[g].answers ELSE gpoll[g].link.uploaded
Imports(g) ==
    /\ KeepsLink(g) /\ KeepsStanding(g) /\ UNCHANGED <<signals, poll, memory>>
    /\ gpoll[g].pc = "import_invite" /\ gpoll'[g].pc = "imported"
    /\ gpoll[g].link \in Link /\ gpoll'[g].link = gpoll[g].link
    /\ gpoll[g].link.invite \in 1 .. Len(signals)
    /\ LET l == gpoll[g].link
           packet == signals[l.invite].invite
       IN /\ packet \in Invites
          /\ \/ KeepsPeer(g) /\ gpoll'[g].joined = l.joined
             \/ /\ peer'[g] = Accepted(packet.slot, packet.gen) /\ gpoll'[g].joined
                /\ IF l.joined THEN packet.slot = peer[g].slot /\ packet.gen > peer[g].gen
                   ELSE peer[g].slot = 0
Answering(g) ==
    /\ KeepsPeer(g) /\ KeepsLink(g) /\ KeepsStanding(g) /\ UNCHANGED <<poll, memory>>
    /\ gpoll[g].pc = "upload_response" /\ gpoll'[g].pc = "uploaded"
    /\ gpoll[g].link \in Link /\ gpoll[g].answers \in Invites
    /\ gpoll'[g].link = gpoll[g].link /\ gpoll'[g].answers = gpoll[g].answers
    /\ IF member[g] = "approved" /\ gpoll[g].link.n = requests[g]
       THEN Post(g, "response", gpoll[g].answers) ELSE UNCHANGED signals

GuestMoves(g) ==
    \/ IsDecided(g) \/ Asks(g) \/ Parts(g) \/ Changes(g) \/ Looks(g) \/ GivesUp(g)
    \/ Sets(g) \/ (\E l : Saves(g, l)) \/ Imports(g) \/ Answering(g)

HostPosts ==
    /\ HostUpload /\ poll.pc = "command" /\ poll.action.kind \in Uploads
    /\ member[poll.action.guest] = "approved" /\ poll'.pc = "reply"
    /\ Posted(Uploaded(poll.action))
Moves ==
    \/ (\A g \in Guests : StaysPut(g)) /\ (UNCHANGED signals \/ HostPosts)
    \/ \E g \in Guests : GuestMoves(g) /\ \A h \in Guests \ {g} : StaysPut(h)

(* The ranges of the variables that a guest is described by.               *)
LEMMA FunctionFacts ==
  ASSUME IInv, TInv
  PROVE  /\ member \in [Guests -> Statuses] /\ peer \in [Guests -> Peer]
         /\ link \in [Guests -> Link \cup {NoLink}] /\ gpoll \in [Guests -> GuestPolls]
         /\ requests \in [Guests -> Nat] /\ signals \in Seq(Message) /\ GuestTypes
BY Vocabulary DEF TInv, GuestTypes, View

(* A peer's state is changed, or its session is left.                      *)
LEMMA PeerDigest ==
  ASSUME IInv, TInv, NEW g \in Guests, NEW state,
         UNCHANGED <<member, signals, memory, poll, link, gpoll, requests>>,
         \/ /\ peer' = [peer EXCEPT ![g].state = state]
            /\ peer[g].state \in {"collecting", "response_ready"}
         \/ peer' = [peer EXCEPT ![g] = NotJoined]
  PROVE  Moves
<1>1. peer \in [Guests -> Peer] /\ peer[g] \in Peer
  BY FunctionFacts
<1>2. /\ \A h \in Guests \ {g} : peer'[h] = peer[h]
      /\ \/ peer'[g] = NotJoined
         \/ /\ peer'[g].slot = peer[g].slot /\ peer'[g].gen = peer[g].gen
            /\ peer[g].state \in {"collecting", "response_ready"}
  BY <1>1 DEF Peer
<1>3. Changes(g)
  BY <1>2 DEF Changes, KeepsLink, KeepsPoll, KeepsStanding
<1> QED
  BY <1>2, <1>3
     DEF Moves, GuestMoves, StaysPut, KeepsPeer, KeepsLink, KeepsPoll, KeepsStanding

LEMMA StandingDigest ==
  ASSUME IInv, TInv, NEW g \in Guests,
         \/ \E status \in {"approved", "rejected"} : Decide(g, status)
         \/ RequestJoin(g) \/ EndLink(g)
  PROVE  Moves
<1>1. /\ member \in [Guests -> Statuses] /\ link \in [Guests -> Link \cup {NoLink}]
      /\ requests \in [Guests -> Nat] /\ signals \in Seq(Message)
  BY FunctionFacts
<1>2. ASSUME NEW status \in {"approved", "rejected"}, Decide(g, status)
      PROVE  Moves
  <2>1. /\ UNCHANGED <<signals, peer, memory, poll, link, gpoll, requests>>
        /\ member[g] = "pending" /\ poll.view[g] = "pending"
        /\ member' = [member EXCEPT ![g] = status]
    BY <1>2 DEF Decide
  <2>2. member'[g] = status /\ \A h \in Guests \ {g} : member'[h] = member[h]
    BY <1>1, <2>1
  <2>3. IsDecided(g)
    BY <1>2, <2>1, <2>2 DEF IsDecided, KeepsPeer, KeepsLink, KeepsPoll
  <2> QED
    BY <2>1, <2>2, <2>3
       DEF Moves, GuestMoves, StaysPut, KeepsPeer, KeepsLink, KeepsPoll, KeepsStanding
<1>3. CASE RequestJoin(g)
  <2>1. /\ UNCHANGED <<signals, peer, memory, poll, gpoll>> /\ link[g] = NoLink
        /\ member' = [member EXCEPT ![g] = "pending"]
    BY <1>3 DEF RequestJoin
  <2>2. member'[g] = "pending" /\ \A h \in Guests \ {g} : member'[h] = member[h]
    BY <1>1, <2>1
  <2>3. /\ requests'[g] = requests[g] + 1 /\ link'[g] = NewLink(requests[g] + 1)
        /\ link'[g] \in Link
        /\ \A h \in Guests \ {g} : requests'[h] = requests[h] /\ link'[h] = link[h]
    BY <1>3, RequestJoinFacts
  <2>4. /\ link'[g].n = requests[g] + 1 /\ ~link'[g].joined /\ link'[g].invite = 0
    BY <2>3 DEF NewLink
  <2>5. Asks(g)
    BY <2>1, <2>2, <2>3, <2>4 DEF Asks, KeepsPeer, KeepsPoll
  <2> QED
    BY <2>1, <2>2, <2>3, <2>5
       DEF Moves, GuestMoves, StaysPut, KeepsPeer, KeepsLink, KeepsPoll, KeepsStanding
<1>4. CASE EndLink(g)
  <2>1. /\ UNCHANGED <<peer, memory, poll, gpoll, requests>> /\ Leave(g)
        /\ link' = [link EXCEPT ![g] = NoLink]
    BY <1>4 DEF EndLink
  <2>2. /\ link'[g] = NoLink /\ \A h \in Guests \ {g} : link'[h] = link[h]
        /\ \A h \in Guests \ {g} : member'[h] = member[h]
    BY <1>1, <2>1 DEF Leave
  <2>3. Parts(g)
    BY <2>1, <2>2 DEF Parts, KeepsPeer, KeepsPoll
  <2> QED
    BY <2>1, <2>2, <2>3
       DEF Moves, GuestMoves, StaysPut, KeepsPeer, KeepsLink, KeepsPoll, KeepsStanding
<1> QED
  BY <1>2, <1>3, <1>4

LEMMA FetchDigest ==
  ASSUME IInv, TInv, NEW g \in Guests, GuestFetch(g)
  PROVE  Moves
<1> DEFINE l == Filed(link[g], g)
           p == [pc |-> "steps", status |-> member[g], link |-> l]
<1>1. /\ member \in [Guests -> Statuses] /\ link \in [Guests -> Link \cup {NoLink}]
      /\ gpoll \in [Guests -> GuestPolls] /\ signals \in Seq(Message) /\ GuestTypes
  BY FunctionFacts
<1>2. /\ gpoll[g].pc = "idle" /\ link[g] \in Link /\ l \in Link
      /\ \/ Leave(g) /\ link' = [link EXCEPT ![g] = NoLink] /\ UNCHANGED gpoll
         \/ /\ link' = [link EXCEPT ![g] = l] /\ gpoll' = [gpoll EXCEPT ![g] = p]
            /\ UNCHANGED <<member, signals>>
      /\ UNCHANGED <<slots, peer, memory, poll, requests>>
  BY <1>1, GuestFetchFacts
<1>3. CASE Leave(g) /\ link' = [link EXCEPT ![g] = NoLink] /\ UNCHANGED gpoll
  <2>1. /\ link'[g] = NoLink /\ \A h \in Guests \ {g} : link'[h] = link[h]
        /\ \A h \in Guests \ {g} : member'[h] = member[h]
    BY <1>1, <1>3 DEF Leave
  <2>2. Parts(g)
    BY <1>2, <1>3, <2>1 DEF Parts, KeepsPeer, KeepsPoll
  <2> QED
    BY <1>2, <1>3, <2>1, <2>2
       DEF Moves, GuestMoves, StaysPut, KeepsPeer, KeepsLink, KeepsPoll, KeepsStanding
<1>4. CASE /\ link' = [link EXCEPT ![g] = l] /\ gpoll' = [gpoll EXCEPT ![g] = p]
           /\ UNCHANGED <<member, signals>>
  <2>1. /\ l.n = link[g].n /\ l.joined = link[g].joined /\ l.uploaded = link[g].uploaded
        /\ l.invite = Latest(link[g].invite, Fresh(link[g].after, {"invite"}), g)
        /\ link[g].invite \in Nat
    BY <1>1, <1>2, FiledFacts DEF Link
  <2>2. l.invite # link[g].invite => signals[l.invite].text
    <3> DEFINE i == Latest(link[g].invite, Fresh(link[g].after, {"invite"}), g)
    <3>1. i = link[g].invite \/ signals[i].text
      BY <1>1, <2>1, LatestFacts
    <3>2. l.invite = i
      BY <2>1
    <3> HIDE DEF i, l
    <3> QED
      BY <3>1, <3>2
  <2>3. p.pc = "steps" /\ p.link = l
    OBVIOUS
  <2> HIDE DEF l, p
  <2>4. /\ link'[g] = l /\ gpoll'[g] = p
        /\ \A h \in Guests \ {g} : link'[h] = link[h] /\ gpoll'[h] = gpoll[h]
    BY <1>1, <1>4
  <2>5. Looks(g)
    BY <1>2, <1>4, <2>1, <2>2, <2>3, <2>4 DEF Looks, KeepsPeer, KeepsStanding
  <2> QED
    BY <1>2, <1>4, <2>4, <2>5
       DEF Moves, GuestMoves, StaysPut, KeepsPeer, KeepsLink, KeepsPoll, KeepsStanding
<1> QED
  BY <1>2, <1>3, <1>4

LEMMA StepsDigest ==
  ASSUME IInv, TInv, NEW g \in Guests,
         \/ /\ gpoll' = [gpoll EXCEPT ![g] = Idle] /\ gpoll[g].pc # "idle"
            /\ gpoll[g].pc = "uploaded" => GuestFails(g)
         \/ \E kind \in {"import_notice", "import_invite", "upload_response"} : GuestPlan(g, kind),
         UNCHANGED <<member, signals, peer, memory, poll, link, requests>>
  PROVE  Moves
<1>1. gpoll \in [Guests -> GuestPolls] /\ GuestTypes
  BY FunctionFacts
<1>2. CASE /\ gpoll' = [gpoll EXCEPT ![g] = Idle] /\ gpoll[g].pc # "idle"
           /\ gpoll[g].pc = "uploaded" => GuestFails(g)
  <2>1. gpoll'[g].pc = "idle" /\ \A h \in Guests \ {g} : gpoll'[h] = gpoll[h]
    BY <1>1, <1>2 DEF Idle
  <2>2. GivesUp(g)
    BY <1>2, <2>1 DEF GivesUp, KeepsPeer, KeepsLink, KeepsStanding
  <2> QED
    BY <2>1, <2>2
       DEF Moves, GuestMoves, StaysPut, KeepsPeer, KeepsLink, KeepsPoll, KeepsStanding
<1>3. ASSUME NEW kind \in {"import_notice", "import_invite", "upload_response"}, GuestPlan(g, kind)
      PROVE  Moves
  <2>1. /\ gpoll[g].link \in Link /\ gpoll'[g].pc = kind /\ gpoll'[g].answers = Here(g)
        /\ gpoll'[g].link = Marked(gpoll[g].link, kind)
        /\ \A h \in Guests \ {g} : gpoll'[h] = gpoll[h]
    BY <1>1, <1>3, GuestPlanFacts
  <2>2. gpoll[g].pc = "steps" /\ kind \in PlanGuest(g, gpoll[g].status, gpoll[g].link)
    BY <1>3 DEF GuestPlan
  <2>3. kind = "upload_response" =>
          /\ gpoll[g].link.joined /\ gpoll[g].link.uploaded # Here(g)
          /\ peer[g].state = "response_ready"
    BY <2>2 DEF PlanGuest, Here
  <2>4. LikeLink(gpoll'[g].link, gpoll[g].link)
    BY <2>1, MarkedFacts DEF LikeLink
  <2>5. Sets(g)
    BY <2>1, <2>2, <2>3, <2>4 DEF Sets, KeepsPeer, KeepsLink, KeepsStanding
  <2> QED
    BY <2>1, <2>5
       DEF Moves, GuestMoves, StaysPut, KeepsPeer, KeepsLink, KeepsPoll, KeepsStanding
<1> QED
  BY <1>2, <1>3

LEMMA SavesDigest ==
  ASSUME IInv, TInv, NEW g \in Guests, NEW l \in Link, gpoll[g].pc # "idle", Saved(g, l),
         UNCHANGED <<member, signals, memory, poll, requests>>,
         peer' = peer \/ peer' = [peer EXCEPT ![g].state = "cancelled"],
         l.n = gpoll[g].link.n, l.invite = gpoll[g].link.invite,
         l.joined = gpoll[g].link.joined \/ (gpoll[g].pc = "imported" /\ l.joined = gpoll[g].joined),
         l.uploaded = IF gpoll[g].pc = "uploaded" THEN gpoll[g].answers ELSE gpoll[g].link.uploaded
  PROVE  Moves
<1>1. gpoll \in [Guests -> GuestPolls] /\ GuestTypes /\ peer \in [Guests -> Peer]
      /\ peer[g] \in Peer /\ gpoll[g].link \in Link
  BY FunctionFacts, GuestPollFacts
<1> DEFINE p == [pc |-> "steps", status |-> gpoll[g].status, link |-> l]
<1>2. p.pc = "steps" /\ p.link = l
  OBVIOUS
<1> HIDE DEF p
<1>3. /\ gpoll'[g] = p /\ link'[g] = IF link[g] = NoLink THEN NoLink ELSE l
      /\ \A h \in Guests \ {g} : gpoll'[h] = gpoll[h] /\ link'[h] = link[h]
  BY <1>1, SavedFacts DEF p
<1>4. /\ peer'[g].slot = peer[g].slot /\ peer'[g].gen = peer[g].gen
      /\ peer'[g].state \in {peer[g].state, "cancelled"}
      /\ \A h \in Guests \ {g} : peer'[h] = peer[h]
  BY <1>1 DEF Peer
<1>5. Saves(g, l)
  BY <1>1, <1>2, <1>3, <1>4 DEF Saves, KeepsStanding
<1> QED
  BY <1>3, <1>4, <1>5
     DEF Moves, GuestMoves, StaysPut, KeepsPeer, KeepsLink, KeepsPoll, KeepsStanding

LEMMA SavingDigest ==
  ASSUME IInv, TInv, NEW g \in Guests,
         \/ ImportNotice(g) \/ InviteImported(g) \/ ResponseUploaded(g) \/ GuestStepFails(g)
  PROVE  Moves
<1>1. GuestTypes /\ gpoll[g] \in GuestPolls
  BY FunctionFacts
<1>2. CASE ImportNotice(g)
  <2>1. /\ gpoll[g].pc = "import_notice" /\ Saved(g, gpoll[g].link)
        /\ UNCHANGED <<member, signals, memory, poll, requests>>
        /\ peer' = peer \/ peer' = [peer EXCEPT ![g].state = "cancelled"]
    BY <1>2 DEF ImportNotice
  <2>2. gpoll[g].link \in Link
    BY <1>1, <2>1, GuestPollFacts
  <2> QED
    BY <2>1, <2>2, SavesDigest
<1>3. CASE InviteImported(g)
  <2> DEFINE l == [gpoll[g].link EXCEPT !.joined = gpoll[g].joined]
  <2>1. /\ gpoll[g].pc = "imported" /\ Saved(g, l)
        /\ UNCHANGED <<member, signals, memory, poll, requests, peer>>
    BY <1>3 DEF InviteImported
  <2>2. gpoll[g].link \in Link /\ gpoll[g].joined \in BOOLEAN
    BY <1>1, <2>1, GuestPollFacts
  <2>3. /\ l \in Link /\ l.n = gpoll[g].link.n /\ l.invite = gpoll[g].link.invite
        /\ l.joined = gpoll[g].joined /\ l.uploaded = gpoll[g].link.uploaded
    BY <2>2 DEF Link
  <2> HIDE DEF l
  <2> QED
    BY <2>1, <2>2, <2>3, SavesDigest
<1>4. CASE ResponseUploaded(g)
  <2> DEFINE n == gpoll[g].link.handledInvite
             l == [gpoll[g].link EXCEPT !.responded = n, !.uploaded = gpoll[g].answers]
  <2>1. /\ gpoll[g].pc = "uploaded" /\ Saved(g, l)
        /\ UNCHANGED <<member, signals, memory, poll, requests, peer>>
    BY <1>4 DEF ResponseUploaded
  <2>2. gpoll[g].link \in Link /\ gpoll[g].answers \in Invites
    BY <1>1, <2>1, GuestPollFacts DEF Awaiting
  <2>3. /\ l \in Link /\ l.n = gpoll[g].link.n /\ l.invite = gpoll[g].link.invite
        /\ l.joined = gpoll[g].link.joined /\ l.uploaded = gpoll[g].answers
    BY <2>2 DEF Link
  <2> HIDE DEF l
  <2> QED
    BY <2>1, <2>2, <2>3, SavesDigest
<1>5. CASE GuestStepFails(g)
  <2>1. gpoll[g].pc # "idle" /\ UNCHANGED <<member, signals, memory, poll, requests, peer>>
    BY <1>5 DEF GuestStepFails, GuestAwaits
  <2>2. gpoll[g].link \in Link
    BY <1>1, <2>1, GuestPollFacts
  <2>3. \/ gpoll' = [gpoll EXCEPT ![g] = Idle] /\ UNCHANGED link
        \/ Saved(g, gpoll[g].link) /\ gpoll[g].pc # "uploaded"
    BY <1>5 DEF GuestStepFails
  <2> QED
    BY <1>5, <2>1, <2>2, <2>3, SavesDigest, StepsDigest DEF GuestFails
<1> QED
  BY <1>2, <1>3, <1>4, <1>5

LEMMA PacketsDigest ==
  ASSUME IInv, TInv, NEW g \in Guests, ImportInvite(g) \/ UploadResponse(g)
  PROVE  Moves
<1>1. GuestTypes
  BY FunctionFacts
<1>2. CASE ImportInvite(g)
  <2>1. UNCHANGED <<member, signals, memory, poll, link, requests>> /\ gpoll[g].pc = "import_invite"
    BY <1>2 DEF ImportInvite
  <2>2. gpoll[g].link.invite \in 1 .. Len(signals)
    BY <2>1 DEF TInv, Referring, Refers
  <2> DEFINE l == gpoll[g].link
             packet == signals[l.invite].invite
             takes == IF l.joined THEN Acceptable(peer[g], packet.slot, packet.gen)
                      ELSE ~Active(peer[g])
  <2>3. /\ l \in Link /\ packet \in Invites
        /\ peer'[g] = IF takes THEN Accepted(packet.slot, packet.gen) ELSE peer[g]
        /\ gpoll'[g].pc = "imported" /\ gpoll'[g].link = l
        /\ gpoll'[g].joined = (l.joined \/ takes)
        /\ \A h \in Guests \ {g} : gpoll'[h] = gpoll[h] /\ peer'[h] = peer[h]
    BY <1>1, <1>2, <2>2, ImportInviteFacts
  <2>4. l.joined \in BOOLEAN /\ takes \in BOOLEAN
    BY <2>3 DEF Link, Acceptable, Active
  <2>5. \/ KeepsPeer(g) /\ gpoll'[g].joined = l.joined
        \/ /\ peer'[g] = Accepted(packet.slot, packet.gen) /\ gpoll'[g].joined
           /\ IF l.joined THEN packet.slot = peer[g].slot /\ packet.gen > peer[g].gen
              ELSE peer[g].slot = 0
    BY <2>3, <2>4 DEF Acceptable, Active, KeepsPeer
  <2> HIDE DEF takes
  <2>6. Imports(g)
    BY <2>1, <2>2, <2>3, <2>5 DEF Imports, KeepsLink, KeepsStanding
  <2> QED
    BY <2>1, <2>3, <2>6
       DEF Moves, GuestMoves, StaysPut, KeepsPeer, KeepsLink, KeepsPoll, KeepsStanding
<1>3. CASE UploadResponse(g)
  <2>1. /\ UNCHANGED <<member, peer, memory, poll, link, requests>>
        /\ gpoll[g].pc = "upload_response"
        /\ IF member[g] = "approved" /\ gpoll[g].link.n = requests[g]
           THEN Post(g, "response", gpoll[g].answers) ELSE UNCHANGED signals
    BY <1>3 DEF UploadResponse
  <2>2. /\ gpoll'[g].pc = "uploaded" /\ gpoll'[g].link = gpoll[g].link
        /\ gpoll'[g].answers = gpoll[g].answers
        /\ gpoll[g].answers \in Invites /\ gpoll[g].link \in Link
        /\ \A h \in Guests \ {g} : gpoll'[h] = gpoll[h]
    BY <1>1, <1>3, UploadResponseFacts
  <2>3. Answering(g)
    BY <2>1, <2>2 DEF Answering, KeepsPeer, KeepsLink, KeepsStanding
  <2> QED
    BY <2>1, <2>2, <2>3
       DEF Moves, GuestMoves, StaysPut, KeepsPeer, KeepsLink, KeepsPoll, KeepsStanding
<1> QED
  BY <1>2, <1>3

LEMMA GuestDigest ==
  ASSUME IInv, TInv, [Next]_vars
  PROVE  Moves
<1>1. ASSUME UNCHANGED <<member, peer, link, gpoll, requests>>, UNCHANGED signals \/ HostPosts
      PROVE  Moves
  BY <1>1 DEF Moves, StaysPut, KeepsPeer, KeepsLink, KeepsPoll, KeepsStanding
<1>2. CASE HostPoll \/ HostStepFails \/ HostReloads \/ InviteByHand
  <2>1. CASE HostUpload
    <3>1. ASSUME Done(TRUE)
          PROVE  poll'.pc = "reply"
      <4>1. poll \in Poll /\ poll.pc = "command"
        BY <2>1, Vocabulary DEF HostUpload
      <4> QED
        BY <3>1, <4>1, DoneFacts
    <3>2. UNCHANGED signals \/ HostPosts
      BY <2>1, <3>1 DEF HostUpload, HostPosts, Posted, Uploaded, Signal
    <3> QED
      BY <1>1, <2>1, <3>2 DEF HostUpload
  <2>2. CASE ~HostUpload
    BY <1>1, <1>2, <2>2 DEF HostPoll, HostFetch, HostPlan, HostPollEnds, HostCommand, HostReply,
       HostStepFails, HostReloads, InviteByHand, Roster
  <2> QED
    BY <2>1, <2>2
<1>3. ASSUME NEW s \in DOMAIN slots,
             \/ RosterButton(s) \/ HostGathers(s) \/ ConnectTimesOut(s) \/ AttemptFails(s)
      PROVE  Moves
  BY <1>1, <1>3 DEF RosterButton, InviteAgain, ImportByHand, ApproveByHand, Refuse, Cancel,
     HostGathers, ConnectTimesOut, AttemptFails, Becomes, Roster
<1>4. ASSUME NEW s, NEW g \in Guests, LinkUp(s, g)
      PROVE  Moves
  <2>1. /\ UNCHANGED <<member, signals, memory, poll, link, gpoll, requests>>
        /\ peer' = [peer EXCEPT ![g].state = "connected"]
    BY <1>4 DEF LinkUp
  <2>2. peer[g].state = "response_ready"
    <3>1. peer[g] = [slot |-> s, gen |-> slots[s].gen, state |-> "response_ready"]
      BY <1>4 DEF LinkUp, Meet
    <3> QED
      BY <3>1
  <2> QED
    BY <2>1, <2>2, PeerDigest
<1>5. ASSUME NEW g \in Guests, LeaveSession(g) \/ GuestGathers(g)
      PROVE  Moves
  BY <1>5, PeerDigest DEF LeaveSession, GuestGathers
<1>6. ASSUME NEW g \in Guests,
             \/ GuestPollEnds(g) \/ GuestReloads(g)
             \/ \E kind \in {"import_notice", "import_invite", "upload_response"} :
                  GuestPlan(g, kind)
      PROVE  Moves
  <2>1. CASE GuestPollEnds(g) \/ GuestReloads(g)
    BY <2>1, StepsDigest DEF GuestPollEnds, GuestReloads, GuestFails
  <2>2. ASSUME NEW kind \in {"import_notice", "import_invite", "upload_response"},
               GuestPlan(g, kind)
        PROVE  Moves
    <3>1. UNCHANGED <<member, signals, peer, memory, poll, link, requests>>
      BY <2>2 DEF GuestPlan
    <3> QED
      BY <2>2, <3>1, StepsDigest
  <2> QED
    BY <1>6, <2>1, <2>2
<1>7. ASSUME NEW g \in Guests, RetryRequest(g)
      PROVE  Moves
  BY <1>1, <1>7 DEF RetryRequest
<1>8. CASE UNCHANGED vars
  BY <1>1, <1>8 DEF vars
<1> QED
  BY <1>2, <1>3, <1>4, <1>5, <1>6, <1>7, <1>8, StandingDigest, FetchDigest, SavingDigest,
     PacketsDigest DEF Next, GuestPoll
-----------------------------------------------------------------------------
(* Packets and peers are of slots that the roster has.                     *)
Placed(g) ==
    /\ peer[g].slot \in 0 .. Len(slots)
    /\ peer[g].slot = 0 => peer[g].state \notin {"collecting", "response_ready"}
    /\ gpoll[g].pc \in {"upload_response", "uploaded"} =>
         gpoll[g].answers.slot \in 1 .. Len(slots)
Rostered(queue, roster) ==
    \A i \in 1 .. Len(queue) : queue[i].invite.slot \in 1 .. Len(roster)
PInv == Rostered(signals, slots) /\ \A g \in Guests : Placed(g)

LEMMA RosteredSafe ==
  ASSUME IInv, TInv, PInv, [Next]_vars
  PROVE  Rostered(signals, slots)'
<1>1. /\ Len(slots) \in Nat /\ Len(slots') \in Nat /\ Len(slots) <= Len(slots')
      /\ signals \in Seq(Message) /\ Len(signals) \in Nat
      /\ \A i \in 1 .. Len(signals) : signals[i].invite.slot \in 1 .. Len(slots)
  BY RosterGrows DEF PInv, Rostered, TInv, GuestTypes
<1>2. \A i \in 1 .. Len(signals) : signals[i].invite.slot \in 1 .. Len(slots')
  BY <1>1
<1>3. CASE UNCHANGED signals
  BY <1>2, <1>3 DEF Rostered
<1>4. ASSUME NEW g \in Guests, Leave(g)
      PROVE  Rostered(signals, slots)'
  BY <1>1, <1>2, <1>4, LeaveTypes DEF Rostered
<1>5. ASSUME NEW g \in Guests, NEW kind \in SignalKinds, NEW invite \in Invites,
             Post(g, kind, invite), invite.slot \in 1 .. Len(slots)
      PROVE  Rostered(signals, slots)'
  <2>1. /\ Len(signals') = Len(signals) + 1
        /\ signals'[Len(signals')] = Signal(g, kind, invite)
        /\ \A i \in 1 .. Len(signals) : signals'[i] = signals[i]
    BY <1>1, <1>5, PostTypes
  <2>2. Signal(g, kind, invite).invite = invite
    BY DEF Signal
  <2>3. invite.slot \in 1 .. Len(slots')
    BY <1>1, <1>5
  <2>4. \A i \in 1 .. Len(signals') : i \in 1 .. Len(signals) \/ i = Len(signals')
    BY <1>1, <2>1
  <2> QED
    BY <1>2, <2>1, <2>2, <2>3, <2>4 DEF Rostered
<1>6. ASSUME poll.pc = "command", poll.action.kind \in Uploads, Posted(Uploaded(poll.action))
      PROVE  Rostered(signals, slots)'
  <2>1. poll.action \in HostAction /\ Sound(poll.action, "command", slots)
    BY <1>6, Vocabulary
  <2>2. poll.action.invite.slot \in 1 .. Len(slots)
    BY <1>6, <2>1 DEF Sound, Uploads
  <2>3. /\ Uploaded(poll.action) \in Message
        /\ Uploaded(poll.action).invite = poll.action.invite
    BY <2>1, UploadedType
  <2> QED
    BY <1>5, <1>6, <2>2, <2>3 DEF Posted, Message
<1>7. ASSUME NEW g \in Guests, UploadResponse(g), Post(g, "response", gpoll[g].answers)
      PROVE  Rostered(signals, slots)'
  <2>1. gpoll[g].answers \in Invites /\ "response" \in SignalKinds
    BY <1>7, UploadResponseFacts DEF TInv, SignalKinds
  <2>2. gpoll[g].answers.slot \in 1 .. Len(slots)
    BY <1>7 DEF UploadResponse, PInv, Placed
  <2> QED
    BY <1>5, <1>7, <2>1, <2>2
<1> QED
  BY <1>3, <1>4, <1>6, <1>7, StepSignals

LEMMA PlacedSafe ==
  ASSUME IInv, TInv, PInv, [Next]_vars, NEW g \in Guests, GuestMoves(g) \/ StaysPut(g)
  PROVE  Placed(g)'
<1>1. /\ Len(slots) \in Nat /\ Len(slots') \in Nat /\ Len(slots) <= Len(slots') /\ Placed(g)
  BY RosterGrows DEF PInv
<1>2. ASSUME NEW s, s \in 0 .. Len(slots)
      PROVE  s \in 0 .. Len(slots') /\ (s # 0 => s \in 1 .. Len(slots'))
  BY <1>1, <1>2
<1>3. ASSUME KeepsPeer(g),
             gpoll'[g].pc \in {"upload_response", "uploaded"} =>
               gpoll'[g].answers.slot \in 1 .. Len(slots)
      PROVE  Placed(g)'
  BY <1>1, <1>2, <1>3 DEF Placed, KeepsPeer
<1>4. CASE \/ StaysPut(g) \/ IsDecided(g) \/ Asks(g) \/ Parts(g) \/ Looks(g) \/ GivesUp(g)
           \/ Answering(g)
  BY <1>1, <1>3, <1>4 DEF StaysPut, IsDecided, Asks, Parts, Looks, GivesUp, Answering, KeepsPoll,
     Placed
<1>5. CASE Changes(g)
  <2>1. \/ peer'[g].slot = 0 /\ peer'[g].state = "none"
        \/ peer'[g].slot = peer[g].slot /\ peer'[g].slot # 0
    BY <1>1, <1>5 DEF Changes, Placed, NotJoined
  <2>2. peer'[g].slot \in 0 .. Len(slots)
    BY <1>1, <2>1 DEF Placed
  <2> QED
    BY <1>1, <1>2, <1>5, <2>1, <2>2 DEF Changes, Placed, KeepsPoll
<1>6. CASE Sets(g)
  <2>1. gpoll'[g].pc = "upload_response" => gpoll'[g].answers.slot \in 1 .. Len(slots)
    <3>1. gpoll'[g].answers.slot = peer[g].slot
      BY <1>6 DEF Sets, Here
    <3>2. gpoll'[g].pc = "upload_response" => peer[g].slot # 0
      BY <1>1, <1>6 DEF Sets, Placed
    <3> QED
      BY <1>1, <3>1, <3>2 DEF Placed
  <2> QED
    BY <1>3, <1>6, <2>1 DEF Sets
<1>7. ASSUME NEW l, Saves(g, l)
      PROVE  Placed(g)'
  BY <1>1, <1>2, <1>7 DEF Saves, Placed
<1>8. CASE Imports(g)
  <2> DEFINE packet == signals[gpoll[g].link.invite].invite
  <2>1. /\ gpoll'[g].pc = "imported"
        /\ KeepsPeer(g) \/ peer'[g] = Accepted(packet.slot, packet.gen)
        /\ packet.slot \in 1 .. Len(slots)
    BY <1>8 DEF Imports, PInv, Rostered
  <2> HIDE DEF packet
  <2>2. Accepted(packet.slot, packet.gen).slot = packet.slot
    BY DEF Accepted
  <2>3. CASE KeepsPeer(g)
    BY <1>3, <2>1, <2>3
  <2>4. CASE peer'[g] = Accepted(packet.slot, packet.gen)
    <3>1. peer'[g].slot \in 0 .. Len(slots') /\ peer'[g].slot # 0
      BY <1>1, <2>1, <2>2, <2>4
    <3> QED
      BY <2>1, <3>1 DEF Placed
  <2> QED
    BY <2>1, <2>3, <2>4
<1> QED
  BY <1>4, <1>5, <1>6, <1>7, <1>8 DEF GuestMoves

LEMMA PlacesSafe ==
  ASSUME IInv, TInv, PInv, [Next]_vars
  PROVE  PInv'
<1>1. \A g \in Guests : GuestMoves(g) \/ StaysPut(g)
  BY GuestDigest DEF Moves
<1>2. ASSUME NEW g \in Guests
      PROVE  Placed(g)'
  BY <1>1, PlacedSafe
<1> QED
  BY <1>2, RosteredSafe DEF PInv

LEMMA PlacesStart ==
  ASSUME Init
  PROVE  PInv
<1>1. /\ signals = << >> /\ slots = << >> /\ Len(signals) = 0 /\ Len(slots) = 0
      /\ \A g \in Guests : peer[g] = NotJoined /\ gpoll[g] = Idle
  BY DEF Init
<1> QED
  BY <1>1 DEF PInv, Rostered, Placed, NotJoined, Idle
-----------------------------------------------------------------------------
(* A guest's link of now knows only invitations that can still be read,    *)
(* and an earlier one does not come to pass for it.                        *)
Readable(g, s) ==
    \E i \in 1 .. Len(signals) :
      /\ signals[i].guest = g /\ signals[i].kind = "invite"
      /\ signals[i].invite.slot = s /\ signals[i].text
Texted(l, queue) == l.invite # 0 => queue[l.invite].text
Linked(g) == link[g] # NoLink
Bound(g) == Linked(g) /\ link[g].n = requests[g] /\ link[g].joined
Within(g) == peer[g].slot = 0 \/ Readable(g, peer[g].slot)

OfLink(g) ==
    Linked(g) =>
      /\ link[g].n <= requests[g]
      /\ link[g].n = requests[g] => Texted(link[g], signals)
OfPoll(g) ==
    gpoll[g].pc # "idle" =>
      /\ gpoll[g].link.n <= requests[g]
      /\ Linked(g) =>
           /\ gpoll[g].link.n = requests[g] => Texted(gpoll[g].link, signals)
           /\ IF gpoll[g].link.n = link[g].n
              THEN /\ gpoll[g].link.joined = link[g].joined
                   /\ gpoll[g].link.uploaded = link[g].uploaded
              ELSE link[g].n = requests[g] /\ ~link[g].joined
OfImport(g) ==
    gpoll[g].pc = "imported" =>
      /\ gpoll[g].link.joined => gpoll[g].joined
      /\ Linked(g) /\ gpoll[g].link.n = requests[g] /\ gpoll[g].joined => Within(g)
OfUpload(g) ==
    gpoll[g].pc \in {"upload_response", "uploaded"} =>
      /\ gpoll[g].link.joined
      /\ peer[g].slot = 0 \/ Here(g) = gpoll[g].answers
      /\ gpoll[g].pc = "upload_response" => gpoll[g].link.uploaded # gpoll[g].answers
GuestBooks(g) ==
    /\ member[g] \in {"pending", "approved"} => Linked(g)
    /\ Bound(g) => Within(g)
    /\ OfLink(g) /\ OfPoll(g) /\ OfImport(g) /\ OfUpload(g)

(* The texts a guest may read stay, but when it leaves.                    *)
TextsStay(g) ==
    \A i \in 1 .. Len(signals) : signals[i].guest = g => signals'[i].text = signals[i].text

LEMMA TextsFacts ==
  ASSUME IInv, TInv, [Next]_vars, NEW h \in Guests
  PROVE  \/ TextsStay(h) /\ StaysPut(h)
         \/ Parts(h)
         \/ TextsStay(h) /\ GuestMoves(h) /\ ~Parts(h)
<1>1. signals \in Seq(Message)
  BY FunctionFacts
<1>2. ASSUME UNCHANGED signals
      PROVE  TextsStay(h)
  BY <1>2 DEF TextsStay
<1>3. ASSUME NEW g \in Guests, NEW kind \in SignalKinds, NEW invite \in Invites,
             Post(g, kind, invite)
      PROVE  TextsStay(h)
  BY <1>1, <1>3, PostTypes DEF TextsStay
<1>4. ASSUME HostPosts
      PROVE  TextsStay(h)
  <2>1. Uploaded(poll.action) \in Message
    BY <1>4, Vocabulary, UploadedType DEF HostPosts
  <2> QED
    BY <1>3, <1>4, <2>1 DEF HostPosts, Posted, Message
<1>5. ASSUME NEW g \in Guests, Answering(g)
      PROVE  TextsStay(h)
  BY <1>2, <1>3, <1>5 DEF Answering, SignalKinds
<1>6. ASSUME NEW g \in Guests, GuestMoves(g), ~Parts(g)
      PROVE  TextsStay(h)
  <2>1. ASSUME NEW l, Saves(g, l)
        PROVE  UNCHANGED signals
    BY <2>1 DEF Saves
  <2>2. CASE IsDecided(g) \/ Asks(g) \/ Changes(g) \/ Looks(g) \/ GivesUp(g)
    BY <1>2, <2>2 DEF IsDecided, Asks, Changes, Looks, GivesUp
  <2>3. CASE Sets(g) \/ Imports(g)
    BY <1>2, <2>3 DEF Sets, Imports
  <2> QED
    BY <1>2, <1>5, <1>6, <2>1, <2>2, <2>3 DEF GuestMoves
<1>7. ASSUME NEW g \in Guests \ {h}, Parts(g)
      PROVE  TextsStay(h)
  <2>1. Leave(g)
    BY <1>7 DEF Parts
  <2>2. \A i \in 1 .. Len(signals) :
          /\ signals[i].text \in BOOLEAN
          /\ signals'[i].text = (signals[i].text /\ signals[i].guest # g)
    <3>1. \A i \in 1 .. Len(signals) : signals[i] \in Message
      BY <1>1, ElementOfSeq
    <3> QED
      BY <1>1, <2>1, <3>1, LeaveTypes DEF Message
  <2> QED
    BY <1>7, <2>2 DEF TextsStay
<1>8. CASE (\A g \in Guests : StaysPut(g)) /\ (UNCHANGED signals \/ HostPosts)
  BY <1>2, <1>4, <1>8
<1>9. ASSUME NEW g \in Guests, GuestMoves(g), \A k \in Guests \ {g} : StaysPut(k)
      PROVE  \/ TextsStay(h) /\ StaysPut(h)
             \/ Parts(h)
             \/ TextsStay(h) /\ GuestMoves(h) /\ ~Parts(h)
  BY <1>6, <1>7, <1>9
<1> QED
  BY <1>8, <1>9, GuestDigest DEF Moves

LEMMA ReadableStays ==
  ASSUME Goes, NEW g, TextsStay(g), NEW s, Readable(g, s)
  PROVE  Readable(g, s)'
<1>1. PICK i \in 1 .. Len(signals) :
        /\ signals[i].guest = g /\ signals[i].kind = "invite"
        /\ signals[i].invite.slot = s /\ signals[i].text
  BY DEF Readable
<1>2. /\ i \in 1 .. Len(signals')
      /\ signals'[i].guest = g /\ signals'[i].kind = "invite"
      /\ signals'[i].invite.slot = s /\ signals'[i].text
  BY <1>1 DEF Goes, TextsStay
<1> QED
  BY <1>2 DEF Readable

LEMMA TextedStays ==
  ASSUME Goes, NEW g, TextsStay(g), NEW l, Refers(g, l, signals), Texted(l, signals)
  PROVE  Texted(l, signals')
BY DEF Goes, TextsStay, Refers, Texted

(* A step that does not end the guest's attempt keeps its books.           *)
LEMMA GuestBooksStay ==
  ASSUME IInv, TInv, PInv, [Next]_vars, NEW g \in Guests, GuestBooks(g), TextsStay(g),
         GuestMoves(g) \/ StaysPut(g), ~Parts(g)
  PROVE  GuestBooks(g)'
<1>1. /\ peer[g] \in Peer /\ link[g] \in Link \cup {NoLink} /\ gpoll[g] \in GuestPolls
      /\ requests[g] \in Nat /\ Referring(g) /\ Goes
      /\ peer'[g] \in Peer /\ gpoll'[g] \in GuestPolls
  <2>1. TInv'
    BY TypesSafe
  <2> QED
    BY <2>1, SignalsGo DEF TInv, GuestTypes
<1>2. \A s : Readable(g, s) => Readable(g, s)'
  BY <1>1, ReadableStays
<1>3. /\ Linked(g) /\ Texted(link[g], signals) => Texted(link[g], signals')
      /\ gpoll[g].pc # "idle" /\ Texted(gpoll[g].link, signals) => Texted(gpoll[g].link, signals')
  BY <1>1, TextedStays DEF Referring, Linked
<1>4. /\ gpoll[g].pc # "idle" => gpoll[g].link \in Link /\ gpoll[g].link.n \in Nat
      /\ link[g] # NoLink => link[g].n \in Nat
  BY <1>1, GuestPollFacts DEF Link
<1>5. /\ member[g] \in {"pending", "approved"} => Linked(g)
      /\ Bound(g) => Within(g)
      /\ OfLink(g) /\ OfPoll(g) /\ OfImport(g) /\ OfUpload(g)
  BY DEF GuestBooks
(* The same signals, peer and link: only the poll is another.              *)
<1>6. ASSUME KeepsPeer(g), KeepsLink(g), requests'[g] = requests[g],
             member'[g] \in {"pending", "approved"} => member[g] \in {"pending", "approved"},
             OfPoll(g)', OfImport(g)', OfUpload(g)'
      PROVE  GuestBooks(g)'
  <2>1. Linked(g)' = Linked(g) /\ Bound(g)' = Bound(g)
    BY <1>6 DEF KeepsLink, Linked, Bound
  <2>2. Within(g) => Within(g)'
    BY <1>2, <1>6 DEF KeepsPeer, Within
  <2>3. OfLink(g)'
    BY <1>3, <1>5, <1>6, <2>1 DEF KeepsLink, OfLink
  <2> QED
    BY <1>5, <1>6, <2>1, <2>2, <2>3 DEF GuestBooks
<1>7. ASSUME KeepsPeer(g), KeepsLink(g), KeepsPoll(g), requests'[g] = requests[g]
      PROVE  OfPoll(g)' /\ OfImport(g)' /\ OfUpload(g)'
  <2>1. Linked(g)' = Linked(g)
    BY <1>7 DEF KeepsLink, Linked
  <2>2. Within(g) => Within(g)'
    BY <1>2, <1>7 DEF KeepsPeer, Within
  <2>3. OfPoll(g)'
    BY <1>3, <1>5, <1>7, <2>1 DEF KeepsLink, KeepsPoll, OfPoll
  <2>4. OfImport(g)'
    BY <1>5, <1>7, <2>1, <2>2 DEF KeepsPoll, OfImport
  <2>5. OfUpload(g)'
    BY <1>5, <1>7 DEF KeepsPeer, KeepsPoll, OfUpload, Here
  <2> QED
    BY <2>3, <2>4, <2>5
<1>8. CASE StaysPut(g)
  BY <1>6, <1>7, <1>8 DEF StaysPut, KeepsStanding
<1>9. CASE IsDecided(g)
  BY <1>6, <1>7, <1>9 DEF IsDecided
<1>10. CASE Asks(g)
  <2>1. /\ requests'[g] = requests[g] + 1 /\ link'[g].n = requests'[g] /\ link'[g] # NoLink
        /\ ~link'[g].joined /\ link'[g].invite = 0 /\ peer'[g] = peer[g] /\ gpoll'[g] = gpoll[g]
    BY <1>10, NoLinkIsNone DEF Asks, KeepsPeer, KeepsPoll
  <2>2. gpoll[g].pc # "idle" => gpoll[g].link.n <= requests[g]
    BY <1>5 DEF OfPoll
  <2>3. OfPoll(g)' /\ OfImport(g)'
    BY <1>1, <1>4, <1>5, <2>1, <2>2 DEF OfPoll, OfImport
  <2>4. OfUpload(g)'
    BY <1>5, <2>1 DEF OfUpload, Here
  <2>5. OfLink(g)'
    BY <1>1, <2>1 DEF OfLink, Texted
  <2> QED
    BY <2>1, <2>3, <2>4, <2>5 DEF GuestBooks, Linked, Bound
<1>11. CASE Changes(g)
  <2>1. /\ link'[g] = link[g] /\ gpoll'[g] = gpoll[g] /\ requests'[g] = requests[g]
        /\ member'[g] = member[g] /\ UNCHANGED signals
        /\ \/ peer'[g].slot = 0
           \/ peer'[g].slot = peer[g].slot /\ peer'[g].gen = peer[g].gen
    BY <1>11 DEF Changes, NotJoined, KeepsLink, KeepsPoll, KeepsStanding
  <2>2. Linked(g)' = Linked(g) /\ Bound(g)' = Bound(g)
    BY <2>1 DEF Linked, Bound
  <2>3. Within(g) => Within(g)'
    BY <1>2, <2>1 DEF Within
  <2>4. OfLink(g)' /\ OfPoll(g)'
    BY <1>5, <2>1, <2>2 DEF OfLink, OfPoll
  <2>5. OfImport(g)'
    BY <1>5, <2>1, <2>2, <2>3 DEF OfImport
  <2>6. OfUpload(g)'
    BY <1>5, <2>1 DEF OfUpload, Here
  <2> QED
    BY <1>5, <2>1, <2>2, <2>3, <2>4, <2>5, <2>6 DEF GuestBooks
<1>12. CASE Looks(g)
  <2>1. /\ peer'[g] = peer[g] /\ requests'[g] = requests[g] /\ member'[g] = member[g]
        /\ UNCHANGED signals /\ gpoll'[g].pc = "steps" /\ gpoll'[g].link = link'[g]
        /\ link[g] \in Link /\ link'[g] \in Link
        /\ link'[g].n = link[g].n /\ link'[g].joined = link[g].joined
        /\ link'[g].invite # link[g].invite => signals[link'[g].invite].text
    BY <1>12 DEF Looks, KeepsPeer, KeepsStanding
  <2>2. Linked(g) /\ Linked(g)'
    BY <2>1, NoLinkIsNone DEF Linked
  <2>3. Bound(g)' = Bound(g)
    BY <2>1, <2>2 DEF Bound
  <2>4. Within(g) => Within(g)'
    BY <1>2, <2>1 DEF Within
  <2>5. Texted(link[g], signals) => Texted(link'[g], signals')
    BY <2>1 DEF Texted
  <2>6. link[g].n <= requests[g] /\ (link[g].n = requests[g] => Texted(link[g], signals))
    BY <1>5, <2>2 DEF OfLink
  <2>7. OfLink(g)' /\ OfPoll(g)'
    BY <2>1, <2>2, <2>5, <2>6 DEF OfLink, OfPoll
  <2>8. OfImport(g)' /\ OfUpload(g)'
    BY <2>1 DEF OfImport, OfUpload
  <2> QED
    BY <2>2, <1>5, <2>3, <2>4, <2>7, <2>8 DEF GuestBooks
<1>13. CASE GivesUp(g)
  <2>1. OfPoll(g)' /\ OfImport(g)' /\ OfUpload(g)'
    BY <1>13 DEF GivesUp, OfPoll, OfImport, OfUpload
  <2> QED
    BY <1>6, <1>13, <2>1 DEF GivesUp, KeepsStanding
<1>14. CASE Sets(g)
  <2>1. /\ gpoll[g].pc = "steps"
        /\ gpoll'[g].pc \in {"import_notice", "import_invite", "upload_response"}
        /\ LikeLink(gpoll'[g].link, gpoll[g].link) /\ gpoll'[g].answers = Here(g)
        /\ gpoll'[g].pc = "upload_response" =>
             gpoll[g].link.joined /\ gpoll[g].link.uploaded # Here(g)
        /\ peer'[g] = peer[g] /\ link'[g] = link[g] /\ requests'[g] = requests[g]
        /\ UNCHANGED signals
    BY <1>14 DEF Sets, KeepsPeer, KeepsLink, KeepsStanding
  <2>2. Linked(g)' = Linked(g)
    BY <2>1 DEF Linked
  <2>3. Texted(gpoll[g].link, signals) => Texted(gpoll'[g].link, signals')
    BY <2>1 DEF Texted, LikeLink
  <2>4. OfPoll(g)'
    BY <1>5, <2>1, <2>2, <2>3 DEF OfPoll, LikeLink
  <2>5. OfImport(g)'
    BY <2>1 DEF OfImport
  <2>6. OfUpload(g)'
    BY <2>1 DEF OfUpload, Here, LikeLink
  <2> QED
    BY <1>6, <1>14, <2>4, <2>5, <2>6 DEF Sets, KeepsStanding
<1>15. ASSUME NEW l, Saves(g, l)
       PROVE  GuestBooks(g)'
  <2>1. /\ gpoll[g].pc # "idle" /\ gpoll'[g].pc = "steps" /\ gpoll'[g].link = l
        /\ gpoll[g].link \in Link /\ l \in Link
        /\ link'[g] = IF link[g] = NoLink THEN NoLink ELSE l
        /\ peer'[g].slot = peer[g].slot /\ requests'[g] = requests[g] /\ member'[g] = member[g]
        /\ UNCHANGED signals
        /\ l.n = gpoll[g].link.n /\ l.invite = gpoll[g].link.invite
        /\ l.joined = gpoll[g].link.joined \/ (gpoll[g].pc = "imported" /\ l.joined = gpoll[g].joined)
    BY <1>15 DEF Saves, KeepsStanding
  <2>2. Linked(g)' = Linked(g) /\ (Linked(g) => link'[g] = l)
    BY <2>1, NoLinkIsNone DEF Linked
  <2>3. Within(g) => Within(g)'
    BY <1>2, <2>1 DEF Within
  <2>4. Texted(gpoll[g].link, signals) => Texted(l, signals')
    BY <2>1 DEF Texted
  <2>5. /\ gpoll[g].link.n <= requests[g]
        /\ Linked(g) /\ gpoll[g].link.n = requests[g] => Texted(gpoll[g].link, signals)
    BY <1>5, <2>1 DEF OfPoll
  <2>6. OfLink(g)' /\ OfPoll(g)' /\ OfImport(g)' /\ OfUpload(g)'
    BY <2>1, <2>2, <2>4, <2>5 DEF OfLink, OfPoll, OfImport, OfUpload
  <2>7. ASSUME Bound(g)'
        PROVE  Within(g)
    <3>1. Linked(g) /\ l.n = requests[g] /\ l.joined
      BY <2>1, <2>2, <2>7 DEF Bound
    <3>2. CASE gpoll[g].pc = "imported" /\ l.joined = gpoll[g].joined
      BY <1>5, <2>1, <3>1, <3>2 DEF OfImport
    <3>3. CASE l.joined = gpoll[g].link.joined
      <4>1. gpoll[g].link.n = link[g].n => link[g].joined
        BY <1>5, <2>1, <3>1, <3>3 DEF OfPoll
      <4>2. gpoll[g].link.n # link[g].n => link[g].n = requests[g]
        BY <1>5, <2>1, <3>1 DEF OfPoll
      <4>3. link[g].n = requests[g] /\ link[g].joined
        BY <2>1, <3>1, <4>1, <4>2
      <4> QED
        BY <1>5, <3>1, <4>3 DEF Bound
    <3> QED
      BY <2>1, <3>2, <3>3
  <2> QED
    BY <1>5, <2>1, <2>2, <2>3, <2>6, <2>7 DEF GuestBooks
<1>16. CASE Imports(g)
  <2> DEFINE l == gpoll[g].link
             packet == signals[l.invite].invite
  <2>1. /\ gpoll[g].pc = "import_invite" /\ gpoll'[g].pc = "imported"
        /\ l \in Link /\ gpoll'[g].link = l /\ l.invite \in 1 .. Len(signals)
        /\ link'[g] = link[g] /\ requests'[g] = requests[g] /\ member'[g] = member[g]
        /\ UNCHANGED signals
        /\ \/ peer'[g] = peer[g] /\ gpoll'[g].joined = l.joined
           \/ /\ peer'[g] = Accepted(packet.slot, packet.gen) /\ gpoll'[g].joined
              /\ IF l.joined THEN packet.slot = peer[g].slot /\ packet.gen > peer[g].gen
                 ELSE peer[g].slot = 0
    BY <1>16 DEF Imports, KeepsPeer, KeepsLink, KeepsStanding
  <2>2. Accepted(packet.slot, packet.gen).slot = packet.slot
    BY DEF Accepted
  <2>3. Linked(g)' = Linked(g) /\ Bound(g)' = Bound(g)
    BY <2>1 DEF Linked, Bound
  <2>4. /\ l.n <= requests[g] /\ (Linked(g) /\ l.n = requests[g] => signals[l.invite].text)
        /\ l.invite # 0
    BY <1>1, <1>5, <2>1 DEF OfPoll, Texted, Referring
  <2>5. Linked(g) /\ l.n = requests[g] => Readable(g, packet.slot)
    <3>1. signals[l.invite].guest = g /\ signals[l.invite].kind = "invite"
      BY <1>1, <2>1, <2>4 DEF Referring, Refers
    <3> QED
      BY <2>1, <2>4, <3>1 DEF Readable
  <2>6. ASSUME Bound(g)
        PROVE  l.n = requests[g] /\ l.joined /\ Within(g)
    BY <1>5, <2>1, <2>6 DEF OfPoll, Bound
  <2>7. ASSUME Linked(g), l.n = requests[g], l.joined
        PROVE  Within(g)
    <3>1. link[g].n = requests[g] /\ link[g].joined
      BY <1>5, <2>1, <2>7 DEF OfPoll
    <3> QED
      BY <1>5, <2>7, <3>1 DEF Bound
  <2> HIDE DEF packet, l
  <2>8. ASSUME Linked(g), l.n = requests[g], gpoll'[g].joined
        PROVE  Within(g)'
    <3>1. CASE peer'[g] = peer[g] /\ gpoll'[g].joined = l.joined
      BY <1>2, <2>7, <2>8, <3>1 DEF Within
    <3>2. CASE peer'[g] = Accepted(packet.slot, packet.gen)
      BY <1>2, <2>2, <2>5, <2>8, <3>2 DEF Within
    <3> QED
      BY <2>1, <3>1, <3>2
  <2>9. Bound(g) => Within(g)'
    <3>1. Bound(g) => gpoll'[g].joined /\ Linked(g)
      BY <2>1, <2>6 DEF Bound
    <3> QED
      BY <2>6, <2>8, <3>1
  <2>10. OfLink(g)'
    BY <1>5, <2>1, <2>3 DEF OfLink
  <2>11. OfPoll(g)'
    BY <1>5, <2>1, <2>3 DEF OfPoll, l
  <2>12. OfImport(g)'
    BY <2>1, <2>3, <2>8 DEF OfImport
  <2>13. OfUpload(g)'
    BY <2>1 DEF OfUpload
  <2> QED
    BY <1>5, <2>1, <2>3, <2>9, <2>10, <2>11, <2>12, <2>13 DEF GuestBooks
<1>17. CASE Answering(g)
  <2>1. /\ gpoll[g].pc = "upload_response" /\ gpoll'[g].pc = "uploaded"
        /\ gpoll'[g].link = gpoll[g].link /\ gpoll'[g].answers = gpoll[g].answers
        /\ KeepsPeer(g) /\ KeepsLink(g) /\ KeepsStanding(g)
    BY <1>17 DEF Answering
  <2>2. Linked(g)' = Linked(g)
    BY <2>1 DEF KeepsLink, Linked
  <2>3. OfPoll(g)'
    BY <1>3, <1>5, <2>1, <2>2 DEF OfPoll, KeepsLink, KeepsStanding
  <2>4. OfImport(g)'
    BY <2>1 DEF OfImport
  <2>5. OfUpload(g)'
    BY <1>5, <2>1 DEF OfUpload, Here, KeepsPeer
  <2> QED
    BY <1>6, <2>1, <2>3, <2>4, <2>5 DEF KeepsStanding
<1> QED
  BY <1>8, <1>9, <1>10, <1>11, <1>12, <1>13, <1>14, <1>15, <1>16, <1>17 DEF GuestMoves

LEMMA GuestBooksSafe ==
  ASSUME IInv, TInv, PInv, [Next]_vars, NEW g \in Guests, GuestBooks(g)
  PROVE  GuestBooks(g)'
<1>1. CASE Parts(g)
  <2>1. /\ link'[g] = NoLink /\ peer'[g] = peer[g] /\ gpoll'[g] = gpoll[g]
        /\ requests'[g] = requests[g] /\ Leave(g)
    BY <1>1 DEF Parts, KeepsPeer, KeepsPoll
  <2>2. member'[g] = "left"
    BY <2>1, FunctionFacts DEF Leave
  <2>3. OfLink(g)' /\ OfPoll(g)' /\ OfImport(g)' /\ OfUpload(g)'
    BY <2>1 DEF GuestBooks, OfLink, OfPoll, OfImport, OfUpload, Linked, Here
  <2> QED
    BY <2>1, <2>2, <2>3 DEF GuestBooks, Bound, Linked
<1>2. CASE ~Parts(g)
  BY <1>2, TextsFacts, GuestBooksStay
<1> QED
  BY <1>1, <1>2

LEMMA GuestBooksStart ==
  ASSUME Init, NEW g \in Guests
  PROVE  GuestBooks(g)
<1>1. /\ member[g] = "none" /\ link[g] = NoLink /\ gpoll[g].pc = "idle"
  BY DEF Init, Idle
<1> QED
  BY <1>1 DEF GuestBooks, Bound, Linked, OfLink, OfPoll, OfImport, OfUpload
-----------------------------------------------------------------------------
(* A response that was sent is spent: the guest has a newer invitation of  *)
(* that slot, or none to answer any more.                                  *)
Creating(g) ==
    /\ poll.pc \in {"command", "reply"} /\ poll.action.kind = "create_invite"
    /\ poll.action.guest = g
MayInvite(g, s) ==
    /\ poll.view[g] = "approved" /\ member[g] = "approved"
    /\ memory.peerByMember[g] = s \/ (Creating(g) /\ poll.action.signal + 1 = s)
Shut(g, s) == ~Readable(g, s) /\ ~MayInvite(g, s)
Spent(g, invite) ==
    \/ Shut(g, invite.slot)
    \/ /\ Bound(g)
       /\ peer[g].slot = 0 \/ (peer[g].slot = invite.slot /\ invite.gen <= peer[g].gen)
SignalBooks ==
    \A i \in 1 .. Len(signals) :
      signals[i].kind = "response" => Spent(signals[i].guest, signals[i].invite)

Replies(g) == Answering(g) /\ member[g] = "approved" /\ gpoll[g].link.n = requests[g]
                /\ Post(g, "response", gpoll[g].answers)

LEMMA SignalsMove ==
  ASSUME IInv, TInv, [Next]_vars
  PROVE  \/ UNCHANGED signals \/ HostPosts
         \/ \E g \in Guests : Parts(g) \/ Replies(g)
<1>1. ASSUME NEW g \in Guests, GuestMoves(g)
      PROVE  UNCHANGED signals \/ Parts(g) \/ Replies(g)
  <2>1. ASSUME NEW l, Saves(g, l)
        PROVE  UNCHANGED signals
    BY <2>1 DEF Saves
  <2>2. CASE IsDecided(g) \/ Asks(g) \/ Changes(g) \/ Looks(g) \/ GivesUp(g)
    BY <2>2 DEF IsDecided, Asks, Changes, Looks, GivesUp
  <2>3. CASE Sets(g) \/ Imports(g)
    BY <2>3 DEF Sets, Imports
  <2>4. CASE Answering(g)
    BY <2>4 DEF Answering, Replies
  <2> QED
    BY <1>1, <2>1, <2>2, <2>3, <2>4 DEF GuestMoves
<1> QED
  BY <1>1, GuestDigest DEF Moves

LEMMA StandingMoves ==
  ASSUME IInv, TInv, [Next]_vars, NEW g \in Guests
  PROVE  \/ KeepsStanding(g)
         \/ IsDecided(g) \/ Asks(g)
         \/ Parts(g) /\ member'[g] = "left"
<1>1. CASE StaysPut(g)
  BY <1>1 DEF StaysPut
<1>2. CASE Parts(g)
  BY <1>2, FunctionFacts DEF Parts, Leave
<1>3. ASSUME NEW l, Saves(g, l)
      PROVE  KeepsStanding(g)
  BY <1>3 DEF Saves
<1>4. CASE Changes(g) \/ Looks(g) \/ GivesUp(g) \/ Sets(g) \/ Imports(g) \/ Answering(g)
  BY <1>4 DEF Changes, Looks, GivesUp, Sets, Imports, Answering
<1> QED
  BY <1>1, <1>2, <1>3, <1>4, GuestDigest DEF Moves, GuestMoves

LEMMA MayInviteStays ==
  ASSUME IInv, TInv, HostBooks, [Next]_vars, NEW g \in Guests, NEW s \in 1 .. Len(slots),
         MayInvite(g, s)'
  PROVE  MayInvite(g, s)
<1>1. /\ member'[g] = "approved" /\ poll'.view[g] = "approved"
      /\ memory'.peerByMember[g] = s \/ (Creating(g)' /\ poll'.action.signal + 1 = s)
  BY DEF MayInvite
<1>2. member[g] = "approved" \/ (poll.view[g] = "pending" /\ UNCHANGED poll)
  BY <1>1, StandingMoves DEF KeepsStanding, IsDecided, Asks
<1>3. member[g] = "approved"
  BY <1>1, <1>2
<1>4. s # 0 /\ Len(slots) \in Nat /\ HostMoves
  BY Vocabulary, HostDigest
<1>5. CASE Fetches
  <2>1. ~Creating(g)' /\ memory'.peerByMember[g] = memory.peerByMember[g]
    BY <1>3, <1>5 DEF Fetches, Creating
  <2> QED
    BY <1>1, <1>3, <1>4, <2>1 DEF HostBooks, MayInvite
<1>6. CASE Plans
  <2>1. ~(Creating(g)' /\ poll'.action.signal + 1 = s)
    <3>1. poll'.action \in PlanHost(poll.view, poll.mem)
      BY <1>6 DEF Plans
    <3>2. poll'.action.kind = "create_invite" => poll'.action.signal = Len(slots)
      BY <3>1, PlannedStep
    <3> QED
      BY <1>4, <3>2 DEF Creating
  <2> QED
    BY <1>1, <1>3, <1>6, <2>1 DEF Plans, MayInvite
<1>7. CASE Rests
  BY <1>1, <1>3, <1>7 DEF Rests, Creating, MayInvite
<1>8. CASE Executes
  BY <1>1, <1>3, <1>8 DEF Executes, SameStep, Creating, MayInvite
<1>9. ASSUME NEW a \in HostAction, Files(a), SameStep(a, poll.action)
      PROVE  MayInvite(g, s)
  <2>1. LedgerOf(a) /\ a.guest \in Guests /\ memory.peerByMember \in [Guests -> Nat]
    BY <1>9, FilesLedger
  <2>2. poll.pc \in {"command", "reply"} /\ poll'.pc = "steps" /\ poll'.view = poll.view
    BY <1>9 DEF Files
  <2>3. memory'.peerByMember[g] = s
    BY <1>1, <2>2 DEF Creating
  <2>4. \/ memory'.peerByMember[g] = memory.peerByMember[g]
        \/ a.kind = "create_invite" /\ a.guest = g /\ memory'.peerByMember[g] = a.signal + 1
    BY <2>1 DEF LedgerOf
  <2> QED
    BY <1>1, <1>3, <1>9, <2>2, <2>3, <2>4 DEF SameStep, Creating, MayInvite
<1>10. CASE Answers \/ Fails
  <2>1. poll.pc \in {"command", "reply"}
    BY <1>10 DEF Answers, Fails, Files
  <2>2. poll.action \in HostAction /\ SameStep(poll.action, poll.action)
    BY <2>1, Vocabulary DEF SameStep
  <2> QED
    BY <1>9, <1>10, <2>2, FailedType DEF Answers, Fails
<1>11. CASE Waits
  BY <1>1, <1>3, <1>11 DEF Waits, SameLedger, Creating, MayInvite
<1> QED
  BY <1>4, <1>5, <1>6, <1>7, <1>8, <1>10, <1>11 DEF HostMoves

LEMMA ReadableMoves ==
  ASSUME IInv, TInv, HostBooks, [Next]_vars, NEW g \in Guests, NEW s, Readable(g, s)'
  PROVE  Readable(g, s) \/ MayInvite(g, s)
<1>1. PICK i \in 1 .. Len(signals') :
        /\ signals'[i].guest = g /\ signals'[i].kind = "invite"
        /\ signals'[i].invite.slot = s /\ signals'[i].text
  BY DEF Readable
<1>2. signals \in Seq(Message) /\ Len(signals) \in Nat /\ \A j \in 1 .. Len(signals) : signals[j] \in Message
  BY FunctionFacts, ElementOfSeq
<1>3. CASE UNCHANGED signals
  BY <1>1, <1>3 DEF Readable
<1>4. ASSUME NEW h \in Guests, Parts(h)
      PROVE  Readable(g, s)
  <2>1. /\ i \in 1 .. Len(signals)
        /\ signals'[i].guest = signals[i].guest /\ signals'[i].kind = signals[i].kind
        /\ signals'[i].invite = signals[i].invite
        /\ signals'[i].text = (signals[i].text /\ signals[i].guest # h)
    BY <1>1, <1>2, <1>4, LeaveTypes DEF Parts
  <2>2. signals[i].text \in BOOLEAN
    BY <1>2, <2>1 DEF Message
  <2>3. signals[i].text
    BY <1>1, <2>1, <2>2
  <2> QED
    BY <1>1, <2>1, <2>3 DEF Readable
<1>5. ASSUME NEW p \in Message, Posted(p), p.kind = "invite" => p.guest # g \/ p.invite.slot # s
      PROVE  Readable(g, s)
  <2>1. /\ Len(signals') = Len(signals) + 1
        /\ signals'[Len(signals')] = Signal(p.guest, p.kind, p.invite)
        /\ \A j \in 1 .. Len(signals) : signals'[j] = signals[j]
    BY <1>2, <1>5, PostTypes DEF Posted, Message
  <2>2. /\ Signal(p.guest, p.kind, p.invite).guest = p.guest
        /\ Signal(p.guest, p.kind, p.invite).kind = p.kind
        /\ Signal(p.guest, p.kind, p.invite).invite = p.invite
    BY DEF Signal
  <2>3. i # Len(signals')
    BY <1>1, <1>5, <2>1, <2>2
  <2>4. i \in 1 .. Len(signals)
    BY <1>2, <2>1, <2>3
  <2> QED
    BY <1>1, <2>1, <2>4 DEF Readable
<1>6. ASSUME HostPosts
      PROVE  Readable(g, s) \/ MayInvite(g, s)
  <2>1. /\ poll.pc = "command" /\ poll.action.kind \in Uploads /\ Posted(Uploaded(poll.action))
        /\ member[poll.action.guest] = "approved" /\ poll.action \in HostAction
    BY <1>6, Vocabulary DEF HostPosts
  <2>2. /\ Uploaded(poll.action) \in Message /\ Uploaded(poll.action).guest = poll.action.guest
        /\ Uploaded(poll.action).invite = poll.action.invite
    BY <2>1, UploadedType
  <2>3. /\ poll.view[poll.action.guest] = "approved"
        /\ poll.action.invite.slot = memory.peerByMember[poll.action.guest]
    BY <2>1 DEF HostBooks, Planned
  <2>4. CASE poll.action.guest = g /\ poll.action.invite.slot = s
    BY <2>1, <2>3, <2>4 DEF MayInvite
  <2>5. CASE poll.action.guest # g \/ poll.action.invite.slot # s
    BY <1>5, <2>1, <2>2, <2>5
  <2> QED
    BY <2>4, <2>5
<1>7. ASSUME NEW h \in Guests, Replies(h)
      PROVE  Readable(g, s)
  <2> DEFINE p == Signal(h, "response", gpoll[h].answers)
  <2>1. gpoll[h].answers \in Invites /\ Post(h, "response", gpoll[h].answers)
    BY <1>7 DEF Replies, Answering
  <2>2. p \in Message /\ p.guest = h /\ p.kind = "response" /\ p.invite = gpoll[h].answers
    BY <2>1 DEF Signal, Message, SignalKinds
  <2> HIDE DEF p
  <2>3. Posted(p)
    BY <2>1, <2>2 DEF Posted
  <2> QED
    BY <1>5, <2>2, <2>3
<1> QED
  BY <1>3, <1>4, <1>6, <1>7, SignalsMove

LEMMA ShutStays ==
  ASSUME IInv, TInv, HostBooks, [Next]_vars, NEW g \in Guests, NEW s \in 1 .. Len(slots),
         Shut(g, s)
  PROVE  Shut(g, s)'
BY MayInviteStays, ReadableMoves DEF Shut

LEMMA PartingShuts ==
  ASSUME IInv, TInv, NEW g \in Guests, Parts(g), NEW s
  PROVE  Shut(g, s)'
<1>1. signals \in Seq(Message) /\ Leave(g) /\ member \in [Guests -> Statuses]
  BY FunctionFacts DEF Parts
<1>2. member'[g] = "left"
  BY <1>1 DEF Leave
<1>3. \A i \in 1 .. Len(signals') : signals'[i].guest = g => ~signals'[i].text
  BY <1>1, LeaveTypes
<1> QED
  BY <1>2, <1>3 DEF Shut, MayInvite, Readable

(* What is spent remains spent.                                            *)
LEMMA SpentStays ==
  ASSUME IInv, TInv, HostBooks, PInv, [Next]_vars, NEW g \in Guests, GuestBooks(g),
         NEW invite \in Invites, invite.slot \in 1 .. Len(slots), Spent(g, invite)
  PROVE  Spent(g, invite)'
<1>1. CASE Shut(g, invite.slot)
  BY <1>1, ShutStays DEF Spent
<1>2. CASE Parts(g)
  BY <1>2, PartingShuts DEF Spent
<1> DEFINE Kept == peer[g].slot = 0 \/ (peer[g].slot = invite.slot /\ invite.gen <= peer[g].gen)
<1>3. CASE ~Parts(g) /\ Bound(g) /\ Kept
  <2>1. /\ peer[g] \in Peer /\ peer[g].gen \in Nat /\ invite.gen \in Nat /\ Linked(g)
        /\ link[g].n = requests[g] /\ link[g].joined /\ link[g] # NoLink
        /\ OfPoll(g) /\ OfImport(g)
    BY <1>3, GuestFacts DEF TInv, Peer, Invites, Bound, Linked, GuestBooks
  <2>2. ASSUME link'[g] # NoLink, link'[g].n = requests'[g], link'[g].joined, Kept'
        PROVE  Spent(g, invite)'
    BY <2>2 DEF Spent, Bound, Linked
  <2>3. ASSUME KeepsPeer(g), KeepsLink(g), requests'[g] = requests[g]
        PROVE  Spent(g, invite)'
    BY <1>3, <2>1, <2>2, <2>3 DEF KeepsPeer, KeepsLink
  <2>4. CASE \/ StaysPut(g) \/ IsDecided(g) \/ GivesUp(g) \/ Sets(g) \/ Answering(g)
    BY <2>3, <2>4 DEF StaysPut, IsDecided, GivesUp, Sets, Answering, KeepsStanding
  <2>5. CASE Asks(g)
    BY <2>1, <2>5 DEF Asks
  <2>6. CASE Changes(g)
    BY <1>3, <2>1, <2>2, <2>6 DEF Changes, KeepsLink, KeepsStanding, NotJoined
  <2>7. CASE Looks(g)
    BY <1>3, <2>1, <2>2, <2>7, NoLinkIsNone DEF Looks, KeepsPeer, KeepsStanding
  <2>8. ASSUME gpoll[g].pc # "idle"
        PROVE  gpoll[g].link.n = requests[g] /\ gpoll[g].link.joined
    BY <2>1, <2>8 DEF OfPoll
  <2>9. ASSUME NEW l, Saves(g, l)
        PROVE  Spent(g, invite)'
    <3>1. l.n = requests[g] /\ l.joined /\ l \in Link /\ link'[g] = l
      BY <2>1, <2>8, <2>9 DEF Saves, OfImport
    <3> QED
      BY <1>3, <2>2, <2>9, <3>1, NoLinkIsNone DEF Saves, KeepsStanding
  <2>10. CASE Imports(g)
    <3> DEFINE packet == signals[gpoll[g].link.invite].invite
    <3>1. /\ link'[g] = link[g] /\ requests'[g] = requests[g]
          /\ packet.slot \in 1 .. Len(slots) /\ packet \in Invites
          /\ \/ peer'[g] = peer[g]
             \/ /\ peer'[g] = Accepted(packet.slot, packet.gen)
                /\ packet.slot = peer[g].slot /\ packet.gen > peer[g].gen
      BY <2>8, <2>10 DEF Imports, KeepsPeer, KeepsLink, KeepsStanding, PInv, Rostered
    <3> HIDE DEF packet
    <3>2. /\ Accepted(packet.slot, packet.gen).slot = packet.slot
          /\ Accepted(packet.slot, packet.gen).gen = packet.gen
          /\ packet.gen \in Nat
      BY <3>1 DEF Accepted, Invites
    <3>3. CASE peer'[g] = peer[g]
      BY <1>3, <2>1, <2>2, <3>1, <3>3
    <3>4. CASE peer'[g] # peer[g]
      <4>1. /\ peer'[g].slot = packet.slot /\ peer'[g].gen = packet.gen
            /\ packet.slot = peer[g].slot /\ packet.gen > peer[g].gen /\ packet.slot # 0
        BY <3>1, <3>2, <3>4
      <4>2. Kept'
        BY <1>3, <2>1, <3>2, <4>1
      <4> QED
        BY <2>1, <2>2, <3>1, <4>2
    <3> QED
      BY <3>3, <3>4
  <2>11. StaysPut(g) \/ GuestMoves(g)
    BY <1>3, TextsFacts
  <2> QED
    BY <2>4, <2>5, <2>6, <2>7, <2>9, <2>10, <2>11, <1>3 DEF GuestMoves
<1> QED
  BY <1>1, <1>2, <1>3 DEF Spent

LEMMA ReplySpent ==
  ASSUME TInv, NEW g \in Guests, GuestBooks(g), Replies(g)
  PROVE  Bound(g) /\ Spent(g, gpoll[g].answers)'
<1>1. /\ gpoll[g].pc = "upload_response" /\ member[g] = "approved"
      /\ gpoll[g].link.n = requests[g]
      /\ peer'[g] = peer[g] /\ link'[g] = link[g] /\ requests'[g] = requests[g]
      /\ gpoll[g].answers \in Invites
  BY DEF Replies, Answering, KeepsPeer, KeepsLink, KeepsStanding
<1>2. /\ Linked(g) /\ gpoll[g].link.joined
      /\ peer[g].slot = 0 \/ Here(g) = gpoll[g].answers
      /\ IF gpoll[g].link.n = link[g].n THEN gpoll[g].link.joined = link[g].joined
         ELSE link[g].n = requests[g]
  BY <1>1 DEF GuestBooks, OfPoll, OfUpload
<1>3. Bound(g)
  BY <1>1, <1>2 DEF Bound
<1>4. peer[g].slot = 0 \/ (peer[g].slot = gpoll[g].answers.slot /\ gpoll[g].answers.gen <= peer[g].gen)
  <2>1. CASE Here(g) = gpoll[g].answers
    <3>1. Here(g).slot = peer[g].slot /\ Here(g).gen = peer[g].gen
      BY DEF Here
    <3>2. peer[g].gen \in Nat
      BY HereType DEF TInv
    <3> QED
      BY <2>1, <3>1, <3>2
  <2> QED
    BY <1>2, <2>1
<1>5. Spent(g, gpoll[g].answers) 
  BY <1>3, <1>4 DEF Spent
<1>6. gpoll'[g].answers = gpoll[g].answers
  BY DEF Replies, Answering
<1>7. Bound(g)'
  BY <1>1, <1>3 DEF Bound, Linked
<1>8. peer'[g].slot = 0
      \/ (peer'[g].slot = gpoll'[g].answers.slot /\ gpoll'[g].answers.gen <= peer'[g].gen)
  BY <1>1, <1>4, <1>6
<1> QED
  BY <1>3, <1>7, <1>8 DEF Spent

LEMMA SignalBooksSafe ==
  ASSUME IInv, TInv, HostBooks, PInv, \A g \in Guests : GuestBooks(g), SignalBooks, [Next]_vars
  PROVE  SignalBooks'
<1>1. signals \in Seq(Message) /\ Len(signals) \in Nat /\ \A j \in 1 .. Len(signals) : signals[j] \in Message
  BY FunctionFacts, ElementOfSeq
<1>2. ASSUME NEW i \in 1 .. Len(signals), signals[i].kind = "response"
      PROVE  Spent(signals[i].guest, signals[i].invite)' 
  <2>1. /\ signals[i].guest \in Guests /\ signals[i].invite \in Invites
        /\ signals[i].invite.slot \in 1 .. Len(slots)
        /\ Spent(signals[i].guest, signals[i].invite)
    BY <1>1, <1>2 DEF Message, PInv, Rostered, SignalBooks
  <2>2. signals'[i].guest = signals[i].guest /\ signals'[i].invite = signals[i].invite
    BY SignalsGo DEF Goes
  <2>3. PICK g \in Guests, invite \in Invites : g = signals[i].guest /\ invite = signals[i].invite
    BY <2>1
  <2>4. Spent(g, invite)'
    BY <2>1, <2>3, SpentStays
  <2> QED
    BY <2>2, <2>3, <2>4
<1>3. ASSUME NEW i \in 1 .. Len(signals), signals'[i].kind = "response"
      PROVE  Spent(signals[i].guest, signals[i].invite)'
  BY <1>2, <1>3, SignalsGo DEF Goes
<1>4. ASSUME Len(signals') = Len(signals)
      PROVE  SignalBooks'
  BY <1>3, <1>4 DEF SignalBooks
<1>5. ASSUME NEW p \in Message, Posted(p), p.kind = "response" => Spent(p.guest, p.invite)'
      PROVE  SignalBooks'
  <2>1. /\ Len(signals') = Len(signals) + 1
        /\ signals'[Len(signals')] = Signal(p.guest, p.kind, p.invite)
    BY <1>1, <1>5, PostTypes DEF Posted, Message
  <2>2. /\ Signal(p.guest, p.kind, p.invite).guest = p.guest
        /\ Signal(p.guest, p.kind, p.invite).kind = p.kind
        /\ Signal(p.guest, p.kind, p.invite).invite = p.invite
    BY DEF Signal
  <2>3. \A i \in 1 .. Len(signals') : i \in 1 .. Len(signals) \/ i = Len(signals')
    BY <1>1, <2>1
  <2>4. signals'[Len(signals')].kind = "response" =>
          Spent(signals[Len(signals)].guest, signals[Len(signals)].invite)'
    BY <1>5, <2>1, <2>2
  <2> QED
    BY <1>3, <2>3, <2>4 DEF SignalBooks
<1>6. ASSUME HostPosts
      PROVE  SignalBooks'
  <2>1. Uploaded(poll.action) \in Message /\ Uploaded(poll.action).kind # "response"
    BY <1>6, Vocabulary, UploadedType DEF HostPosts
  <2> QED
    BY <1>5, <1>6, <2>1 DEF HostPosts
<1>7. ASSUME NEW g \in Guests, Replies(g)
      PROVE  SignalBooks'
  <2> DEFINE p == Signal(g, "response", gpoll[g].answers)
  <2>1. gpoll[g].answers \in Invites /\ Post(g, "response", gpoll[g].answers)
        /\ gpoll'[g].answers = gpoll[g].answers
    BY <1>7 DEF Replies, Answering
  <2>2. p \in Message /\ p.guest = g /\ p.kind = "response" /\ p.invite = gpoll[g].answers
    BY <2>1 DEF Signal, Message, SignalKinds
  <2> HIDE DEF p
  <2>3. PICK q \in Message : q = p
    BY <2>2
  <2>4. Posted(q)
    BY <2>1, <2>2, <2>3 DEF Posted
  <2>5. Spent(g, gpoll[g].answers)'
    BY <1>7, ReplySpent
  <2>6. q.guest = g /\ q.kind = "response" /\ q.invite = gpoll'[g].answers
    BY <2>1, <2>2, <2>3
  <2>7. Spent(q.guest, q.invite)'
    BY <2>5, <2>6
  <2> QED
    BY <1>5, <2>4, <2>7
<1>8. ASSUME NEW g \in Guests, Parts(g)
      PROVE  SignalBooks'
  BY <1>1, <1>4, <1>8, LeaveTypes DEF Parts
<1>9. CASE UNCHANGED signals
  BY <1>4, <1>9
<1> QED
  BY <1>6, <1>7, <1>8, <1>9, SignalsMove

LEMMA SignalBooksStart ==
  ASSUME Init
  PROVE  SignalBooks
<1>1. signals = << >> /\ Len(signals) = 0
  BY DEF Init
<1> QED
  BY <1>1 DEF SignalBooks
-----------------------------------------------------------------------------
(* Slots and packets are counted.                                          *)
LEMMA CountFacts ==
  ASSUME NEW n \in Nat, NEW S \in SUBSET (1 .. n)
  PROVE  /\ IsFiniteSet(S) /\ Cardinality(S) \in Nat
         /\ Cardinality(S \cup {n + 1}) = Cardinality(S) + 1
<1>1. IsFiniteSet(1 .. n)
  BY FS_Interval
<1>2. IsFiniteSet(S)
  BY <1>1, FS_Subset
<1>3. n + 1 \notin S
  OBVIOUS
<1> QED
  BY <1>2, <1>3, FS_CardinalityType, FS_AddElement

LEMMA SlotsFacts ==
  ASSUME IInv, NEW g
  PROVE  SlotsOf(g) \in Nat /\ Len(slots) \in Nat
<1>1. Len(slots) \in Nat
  BY Vocabulary
<1>2. {s \in DOMAIN slots : slots[s].owner = g} \in SUBSET (1 .. Len(slots))
  BY Vocabulary
<1> QED
  BY <1>1, <1>2, CountFacts DEF SlotsOf

LEMMA SlotsKept ==
  ASSUME IInv, KeepsOwners, slots' \in Seq(Slot), NEW g
  PROVE  SlotsOf(g)' = SlotsOf(g)
<1>1. DOMAIN slots = 1 .. Len(slots) /\ DOMAIN slots' = 1 .. Len(slots)
  BY Vocabulary DEF KeepsOwners
<1>2. {s \in DOMAIN slots : slots[s].owner = g}' = {s \in DOMAIN slots : slots[s].owner = g}
  BY <1>1 DEF KeepsOwners
<1> QED
  BY <1>2 DEF SlotsOf

LEMMA SlotsAdded ==
  ASSUME IInv, NEW owner, slots' = Append(slots, NewSlot(owner)), NEW g
  PROVE  SlotsOf(g)' = IF owner = g THEN SlotsOf(g) + 1 ELSE SlotsOf(g)
<1>1. slots \in Seq(Slot) /\ Len(slots) \in Nat
  BY Vocabulary
<1> DEFINE n == Len(slots)
           S == {s \in 1 .. n : slots[s].owner = g}
           T == {s \in 1 .. n + 1 : slots'[s].owner = g}
<1>2. /\ DOMAIN slots = 1 .. n /\ DOMAIN slots' = 1 .. n + 1
      /\ \A s \in 1 .. n : slots'[s] = slots[s]
      /\ slots'[n + 1] = NewSlot(owner)
  BY <1>1
<1>3. NewSlot(owner).owner = owner
  BY DEF NewSlot
<1>4. SlotsOf(g) = Cardinality(S) /\ SlotsOf(g)' = Cardinality(T)
  BY <1>2 DEF SlotsOf
<1>5. T = IF owner = g THEN S \cup {n + 1} ELSE S
  <2> HIDE DEF n
  <2>1. n \in Nat
    BY <1>1 DEF n
  <2>2. \A s \in 1 .. n + 1 : s \in 1 .. n \/ s = n + 1
    BY <2>1
  <2>3. n + 1 \in 1 .. n + 1 /\ \A s \in 1 .. n : s \in 1 .. n + 1
    BY <2>1
  <2> QED
    BY <1>2, <1>3, <2>2, <2>3
<1> QED
  BY <1>1, <1>4, <1>5, CountFacts

LEMMA MessageText ==
  ASSUME NEW m \in Message
  PROVE  [m EXCEPT !.text = TRUE] = Signal(m.guest, m.kind, m.invite)
<1> DEFINE r == [m EXCEPT !.text = TRUE]
           s == Signal(m.guest, m.kind, m.invite)
<1>1. r \in Message /\ s \in Message
  BY DEF Message, Signal
<1>2. r.guest = m.guest /\ r.kind = m.kind /\ r.invite = m.invite /\ r.text = TRUE
  BY DEF Message
<1>3. s.guest = m.guest /\ s.kind = m.kind /\ s.invite = m.invite /\ s.text = TRUE
  BY DEF Signal
<1> HIDE DEF r, s
<1>4. r = s
  BY <1>1, <1>2, <1>3 DEF Message
<1> QED
  BY <1>4 DEF r, s

LEMMA PacketIs ==
  ASSUME NEW i, signals[i] \in Message
  PROVE  Packet(i) = Signal(signals[i].guest, signals[i].kind, signals[i].invite)
<1>1. [signals[i] EXCEPT !.text = TRUE] =
        Signal(signals[i].guest, signals[i].kind, signals[i].invite)
  BY MessageText
<1> QED
  BY <1>1 DEF Packet

LEMMA SentFacts ==
  ASSUME TInv, NEW p
  PROVE  /\ Sent(p) \in Nat
         /\ Sent(p) # 0 => \E i \in 1 .. Len(signals) : Packet(i) = p
<1>1. signals \in Seq(Message) /\ Len(signals) \in Nat
  BY DEF TInv, GuestTypes
<1> DEFINE S == {i \in DOMAIN signals : Packet(i) = p}
<1>2. S \in SUBSET (1 .. Len(signals))
  BY <1>1
<1>3. S = {} => Cardinality(S) = 0
  BY FS_EmptySet
<1>4. Cardinality(S) \in Nat
  BY <1>1, <1>2, CountFacts
<1>5. S # {} => \E i \in 1 .. Len(signals) : Packet(i) = p
  BY <1>1
<1> QED
  BY <1>3, <1>4, <1>5 DEF Sent

LEMMA SentKept ==
  ASSUME TInv, UNCHANGED signals \/ \E g \in Guests : Leave(g), NEW p
  PROVE  Sent(p)' = Sent(p)
<1>1. signals \in Seq(Message) /\ \A i \in 1 .. Len(signals) : signals[i] \in Message
  BY ElementOfSeq DEF TInv, GuestTypes
<1>2. CASE UNCHANGED signals
  BY <1>2 DEF Sent, Packet
<1>3. ASSUME NEW g \in Guests, Leave(g)
      PROVE  Sent(p)' = Sent(p)
  <2>1. /\ signals' \in Seq(Message) /\ Len(signals') = Len(signals)
        /\ \A i \in 1 .. Len(signals) :
             /\ signals'[i].guest = signals[i].guest /\ signals'[i].kind = signals[i].kind
             /\ signals'[i].invite = signals[i].invite
    BY <1>1, <1>3, LeaveTypes
  <2>2. \A i \in 1 .. Len(signals) : signals'[i] \in Message
    BY <2>1, ElementOfSeq
  <2>3. ASSUME NEW i \in 1 .. Len(signals)
        PROVE  Packet(i)' = Packet(i)
    <3>1. Packet(i)' = Signal(signals'[i].guest, signals'[i].kind, signals'[i].invite)
      <4>1. [signals'[i] EXCEPT !.text = TRUE] =
              Signal(signals'[i].guest, signals'[i].kind, signals'[i].invite)
        BY <2>2, MessageText
      <4> QED
        BY <4>1 DEF Packet
    <3> QED
      BY <1>1, <2>1, <3>1, PacketIs
  <2>4. DOMAIN signals = 1 .. Len(signals) /\ DOMAIN signals' = 1 .. Len(signals)
    BY <1>1, <2>1
  <2>5. {i \in DOMAIN signals : Packet(i) = p}' = {i \in DOMAIN signals : Packet(i) = p}
    BY <2>3, <2>4
  <2> QED
    BY <2>5 DEF Sent
<1> QED
  BY <1>2, <1>3

LEMMA SentPosted ==
  ASSUME TInv, NEW q \in Message, q.text = TRUE, Posted(q), NEW p
  PROVE  Sent(p)' = IF q = p THEN Sent(p) + 1 ELSE Sent(p)
<1>1. signals \in Seq(Message) /\ Len(signals) \in Nat
  BY DEF TInv, GuestTypes
<1> DEFINE n == Len(signals)
           S == {i \in 1 .. n : Packet(i) = p}
           T == {i \in 1 .. n + 1 : Packet(i)' = p}
<1>2. q = Signal(q.guest, q.kind, q.invite)
  BY DEF Message, Signal
<1>3. signals' = Append(signals, q)
  BY <1>2 DEF Posted, Post
<1>4. /\ DOMAIN signals = 1 .. n /\ DOMAIN signals' = 1 .. n + 1
      /\ \A i \in 1 .. n : signals'[i] = signals[i]
      /\ signals'[n + 1] = q
  BY <1>1, <1>3
<1>5. [q EXCEPT !.text = TRUE] = q
  BY DEF Message
<1>6. (\A k : k = n + 1 => Packet(k)' = q) /\ \A i \in 1 .. n : Packet(i)' = Packet(i)
  BY <1>4, <1>5 DEF Packet
<1>7. Sent(p) = Cardinality(S) /\ Sent(p)' = Cardinality(T)
  BY <1>4 DEF Sent
<1>8. T = IF q = p THEN S \cup {n + 1} ELSE S
  <2> HIDE DEF n
  <2>1. n \in Nat
    BY <1>1 DEF n
  <2>2. \A i \in 1 .. n + 1 : i \in 1 .. n \/ i = n + 1
    BY <2>1
  <2>3. n + 1 \in 1 .. n + 1 /\ \A i \in 1 .. n : i \in 1 .. n + 1
    BY <2>1
  <2> QED
    BY <1>6, <2>2, <2>3
<1> QED
  BY <1>1, <1>7, <1>8, CountFacts
-----------------------------------------------------------------------------
(* The slots of a guest are its approvals, one less while a slot is needed *)
(* for it.                                                                 *)
Needs(g) ==
    IF poll.view[g] = "approved"
    THEN memory.peerByMember[g] = 0 /\ ~(poll.pc = "reply" /\ Creating(g))
    ELSE member[g] = "approved"
SlotsDue(g) == SlotsOf(g) - approvals[g] + (IF Needs(g) THEN 1 ELSE 0)

HostFails == HostStepFails \/ HostReloads
SlotForgotten(g) == HostFails /\ poll.pc = "reply" /\ Creating(g)

LEMMA ApprovalsMove ==
  ASSUME [Next]_vars
  PROVE  \/ UNCHANGED approvals
         \/ \E g \in Guests, status \in {"approved", "rejected"} : Decide(g, status)
<1>1. CASE HostPoll
  BY <1>1 DEF HostPoll, HostFetch, HostPlan, HostPollEnds, HostCommand, HostUpload, HostReply
<1>2. CASE HostStepFails \/ HostReloads \/ InviteByHand
  BY <1>2 DEF HostStepFails, HostReloads, InviteByHand, Roster
<1>3. ASSUME NEW s \in DOMAIN slots,
             \/ RosterButton(s) \/ HostGathers(s) \/ ConnectTimesOut(s) \/ AttemptFails(s)
             \/ \E g \in Guests : LinkUp(s, g)
      PROVE  UNCHANGED approvals
  BY <1>3 DEF RosterButton, InviteAgain, ImportByHand, ApproveByHand, Refuse, Cancel,
              HostGathers, ConnectTimesOut, AttemptFails, LinkUp, Becomes, Roster
<1>4. ASSUME NEW g \in Guests,
             \/ RetryRequest(g) \/ RequestJoin(g) \/ EndLink(g) \/ LeaveSession(g)
             \/ GuestPoll(g) \/ GuestGathers(g) \/ GuestStepFails(g) \/ GuestReloads(g)
      PROVE  UNCHANGED approvals
  BY <1>4 DEF RetryRequest, RequestJoin, EndLink, LeaveSession, GuestGathers, GuestStepFails,
     GuestReloads, GuestPoll, GuestFetch, GuestPollEnds, GuestPlan, ImportNotice, ImportInvite,
     InviteImported, UploadResponse, ResponseUploaded
<1>5. CASE UNCHANGED vars
  BY <1>5 DEF vars
<1> QED
  BY <1>1, <1>2, <1>3, <1>4, <1>5 DEF Next

(* But for a fault, a guest needs a slot only if it did before; and when   *)
(* the slot is made, it needs none any more.                               *)
LEMMA NeedsMoves ==
  ASSUME IInv, TInv, HostBooks, [Next]_vars, NEW g \in Guests, KeepsStanding(g), Needs(g)'
  PROVE  Needs(g) \/ SlotForgotten(g)
<1>1. /\ member'[g] = member[g]
      /\ \A h \in Guests : poll.view[h] # "approved" => memory.peerByMember[h] = 0
      /\ poll.pc \in {"command", "reply"} => Planned(poll.action, poll.pc, poll.view, memory)
  BY DEF KeepsStanding, HostBooks
<1>2. CASE Fetches
  BY <1>1, <1>2 DEF Fetches, Needs
<1>3. CASE Plans
  BY <1>1, <1>3 DEF Plans, Needs
<1>4. CASE Rests /\ poll.pc # "reply"
  BY <1>1, <1>4 DEF Rests, Needs
<1>5. CASE Rests /\ (HostFails \/ ~Creating(g))
  BY <1>1, <1>5 DEF Rests, Needs, SlotForgotten
<1>6. CASE Executes
  BY <1>1, <1>6 DEF Executes, SameStep, Creating, Needs
<1>7. ASSUME NEW a \in HostAction, Files(a), SameStep(a, poll.action),
             HostFails \/ (poll.pc = "reply" /\ a = poll.action)
      PROVE  Needs(g) \/ SlotForgotten(g)
  <2>1. LedgerOf(a) /\ a.guest \in Guests /\ memory.peerByMember \in [Guests -> Nat]
    BY <1>7, FilesLedger
  <2>2. poll.pc \in {"command", "reply"} /\ poll'.pc = "steps" /\ poll'.view = poll.view
    BY <1>7 DEF Files
  <2>3. CASE a.kind = "create_invite" /\ a.ok /\ a.guest = g
    <3>1. a.signal \in Nat
      BY DEF HostAction
    <3>2. memory'.peerByMember[g] # 0
      BY <2>1, <2>3, <3>1 DEF LedgerOf
    <3>3. poll.view[g] = "approved"
      BY <1>1, <1>7, <2>2, <2>3 DEF Planned, SameStep
    <3> QED
      BY <2>2, <3>2, <3>3 DEF Needs
  <2>4. CASE ~(a.kind = "create_invite" /\ a.ok /\ a.guest = g)
    <3>1. memory'.peerByMember[g] = memory.peerByMember[g]
      BY <2>1, <2>4 DEF LedgerOf
    <3>2. Creating(g) => HostFails
      BY <1>1, <1>7, <2>2, <2>4 DEF Creating, SameStep, Planned
    <3> QED
      BY <1>1, <2>2, <3>1, <3>2 DEF Needs, SlotForgotten
  <2> QED
    BY <2>3, <2>4
<1>8. CASE (HostReply /\ Answers) \/ (HostStepFails /\ Fails)
  <2>1. poll.pc \in {"command", "reply"}
    BY <1>8 DEF Answers, Fails, Files
  <2>2. poll.action \in HostAction /\ SameStep(poll.action, poll.action)
    BY <2>1, Vocabulary DEF SameStep
  <2> QED
    BY <1>7, <1>8, <2>2, FailedType DEF Answers, Fails, HostFails
<1>9. CASE Waits
  BY <1>1, <1>9 DEF Waits, SameLedger, Creating, Needs
<1>10. HostMoves
  BY HostDigest
<1>11. HostPollEnds => poll.pc # "reply"
  BY DEF HostPollEnds
<1>12. HostUpload => poll.pc # "reply"
  BY DEF HostUpload
<1> QED
  BY <1>2, <1>3, <1>4, <1>5, <1>6, <1>8, <1>9, <1>10, <1>11, <1>12 DEF HostMoves, HostFails

(* A guest gets a slot only from the poll's create_invite for it.          *)
LEMMA RosterCounts ==
  ASSUME IInv, [Next]_vars, NEW g \in Guests
  PROVE  \/ SlotsOf(g)' = SlotsOf(g)
         \/ HostCommand /\ Creating(g) /\ SlotsOf(g)' = SlotsOf(g) + 1
<1>1. slots' \in Seq(Slot)
  BY StepSafe DEF IInv, HostTypes
<1>2. CASE KeepsOwners
  BY <1>1, <1>2, SlotsKept
<1>3. CASE HostCommand /\ Creates
  BY <1>3, SlotsAdded DEF Creates, Creating
<1>4. CASE slots' = Append(slots, NewSlot(Stranger))
  <2>1. Stranger # g
    BY GuestNames
  <2> QED
    BY <1>4, <2>1, SlotsAdded
<1> QED
  BY <1>2, <1>3, <1>4, RosterSteps

LEMMA SlotsDueMoves ==
  ASSUME IInv, TInv, HostBooks, [Next]_vars, NEW g \in Guests
  PROVE  /\ SlotsDue(g) \in Int /\ SlotsDue(g)' \in Int
         /\ \/ SlotsDue(g)' <= SlotsDue(g)
            \/ SlotForgotten(g) /\ SlotsDue(g)' <= SlotsDue(g) + 1
<1>1. SlotsOf(g) \in Nat /\ approvals[g] \in Nat
  BY SlotsFacts DEF TInv, GuestTypes
<1>2. SlotsOf(g)' \in Nat /\ approvals'[g] \in Nat
  <2>1. approvals' \in [Guests -> Nat]
    BY TypesSafe DEF TInv, GuestTypes
  <2>2. SlotsOf(g)' \in Nat
    BY <1>1, RosterCounts
  <2> QED
    BY <2>1, <2>2
<1>3. /\ SlotsDue(g) = SlotsOf(g) - approvals[g] + (IF Needs(g) THEN 1 ELSE 0)
      /\ SlotsDue(g)' = SlotsOf(g)' - approvals'[g] + (IF Needs(g)' THEN 1 ELSE 0)
  BY DEF SlotsDue
<1>4. ASSUME NEW h \in Guests, NEW status \in {"approved", "rejected"}, Decide(h, status)
      PROVE  SlotsDue(g)' <= SlotsDue(g)
  <2>1. /\ UNCHANGED <<slots, memory, poll>> /\ member' = [member EXCEPT ![h] = status]
        /\ poll.view[h] = "pending" /\ member[h] = "pending"
        /\ approvals' = IF status = "approved" THEN [approvals EXCEPT ![h] = @ + 1] ELSE approvals
        /\ member \in [Guests -> Statuses] /\ approvals \in [Guests -> Nat]
    BY <1>4, FunctionFacts DEF Decide, TInv, GuestTypes
  <2>2. SlotsOf(g)' = SlotsOf(g)
    BY <2>1 DEF SlotsOf
  <2>3. CASE g # h
    <3>1. Needs(g)' = Needs(g) /\ approvals'[g] = approvals[g]
      BY <2>1, <2>3 DEF Needs, Creating
    <3> QED
      BY <1>1, <1>3, <2>2, <3>1
  <2>4. CASE g = h /\ status = "approved"
    <3>1. approvals'[g] = approvals[g] + 1 /\ ~Needs(g)
      BY <2>1, <2>4 DEF Needs
    <3> QED
      BY <1>1, <1>3, <2>2, <3>1
  <2>5. CASE g = h /\ status = "rejected"
    <3>1. approvals'[g] = approvals[g] /\ ~Needs(g)'
      BY <2>1, <2>5 DEF Needs
    <3> QED
      BY <1>1, <1>3, <2>2, <3>1
  <2> QED
    BY <2>3, <2>4, <2>5
<1>5. ASSUME approvals'[g] = approvals[g], Needs(g)' => Needs(g) \/ SlotForgotten(g)
      PROVE  \/ SlotsDue(g)' <= SlotsDue(g)
             \/ SlotForgotten(g) /\ SlotsDue(g)' <= SlotsDue(g) + 1
  <2>1. CASE SlotsOf(g)' = SlotsOf(g)
    BY <1>1, <1>3, <1>5, <2>1
  <2>2. CASE HostCommand /\ Creating(g) /\ SlotsOf(g)' = SlotsOf(g) + 1
    <3>1. Executes /\ poll.pc = "command" /\ poll.action.kind = "create_invite" /\ poll.action.guest = g
      BY <2>2, CommandDigest DEF Executes, Creating
    <3>2. Needs(g)
      BY <3>1 DEF HostBooks, Planned, Needs
    <3>3. ~Needs(g)'
      BY <3>1 DEF HostBooks, Planned, Needs, Executes, SameStep, Creating
    <3> QED
      BY <1>1, <1>3, <1>5, <2>2, <3>2, <3>3
  <2> QED
    BY <2>1, <2>2, RosterCounts
<1>6. ASSUME UNCHANGED <<poll, memory>>, member'[g] # "approved", Needs(g)'
      PROVE  Needs(g)
  BY <1>6 DEF Needs, Creating
<1>7. ASSUME UNCHANGED approvals
      PROVE  \/ SlotsDue(g)' <= SlotsDue(g)
             \/ SlotForgotten(g) /\ SlotsDue(g)' <= SlotsDue(g) + 1
  <2>1. CASE KeepsStanding(g)
    BY <1>5, <1>7, <2>1, NeedsMoves
  <2>2. CASE Asks(g) \/ (Parts(g) /\ member'[g] = "left")
    BY <1>5, <1>6, <1>7, <2>2 DEF Asks, Parts
  <2>3. CASE IsDecided(g)
    BY <1>4, <2>3 DEF IsDecided
  <2> QED
    BY <2>1, <2>2, <2>3, StandingMoves
<1>8. SlotsDue(g) \in Int /\ SlotsDue(g)' \in Int
  BY <1>1, <1>2, <1>3
<1> QED
  BY <1>4, <1>7, <1>8, ApprovalsMove
-----------------------------------------------------------------------------
(* A packet was sent once at most, and not at all while it may still be.   *)
Carried(p) == poll.pc = "reply" /\ poll.action.kind \in Uploads /\ p = Uploaded(poll.action)
Answerable(g, invite) ==
    /\ Bound(g) /\ link[g].uploaded # invite
    /\ ~(gpoll[g].pc = "uploaded" /\ gpoll[g].link.n = requests[g] /\ gpoll[g].answers = invite)
    /\ Here(g) = invite \/ (gpoll[g].pc = "upload_response" /\ gpoll[g].answers = invite)
MaySend(p) ==
    /\ p.kind = "invite" => p.invite \notin memory.uploaded /\ ~Carried(p)
    /\ p.kind = "notice" => p.invite \notin memory.noticed /\ ~Carried(p)
    /\ p.kind = "response" => Answerable(p.guest, p.invite)
CopiesDue(p) == Sent(p) - (IF MaySend(p) THEN 0 ELSE 1)

PacketForgotten(p) == HostFails /\ Carried(p)
ReplyForgotten(p) ==
    /\ p.kind = "response" /\ GuestFails(p.guest)
    /\ gpoll[p.guest].pc = "uploaded" /\ gpoll[p.guest].answers = p.invite

LEMMA SentMoves ==
  ASSUME IInv, TInv, [Next]_vars, NEW p
  PROVE  \/ Sent(p)' = Sent(p)
         \/ HostPosts /\ p = Uploaded(poll.action) /\ Sent(p)' = Sent(p) + 1
         \/ \E g \in Guests : /\ Replies(g) /\ p = Signal(g, "response", gpoll[g].answers)
                              /\ Sent(p)' = Sent(p) + 1
<1>1. ASSUME UNCHANGED signals \/ \E g \in Guests : Parts(g)
      PROVE  Sent(p)' = Sent(p)
  BY <1>1, SentKept DEF Parts
<1>2. ASSUME HostPosts
      PROVE  Sent(p)' = IF p = Uploaded(poll.action) THEN Sent(p) + 1 ELSE Sent(p)
  <2>1. poll.pc = "command" /\ Posted(Uploaded(poll.action))
    BY <1>2 DEF HostPosts
  <2>2. Uploaded(poll.action) \in Message /\ Uploaded(poll.action).text = TRUE
    BY <2>1, Vocabulary, UploadedType
  <2> QED
    BY <2>1, <2>2, SentPosted
<1>3. ASSUME NEW g \in Guests, Replies(g)
      PROVE  Sent(p)' = IF p = Signal(g, "response", gpoll[g].answers) THEN Sent(p) + 1 ELSE Sent(p)
  <2> DEFINE q == Signal(g, "response", gpoll[g].answers)
  <2>1. gpoll[g].answers \in Invites /\ Post(g, "response", gpoll[g].answers)
    BY <1>3 DEF Replies, Answering
  <2>2. /\ q \in Message /\ q.guest = g /\ q.kind = "response" /\ q.invite = gpoll[g].answers
        /\ q.text = TRUE
    BY <2>1 DEF Signal, Message, SignalKinds
  <2> HIDE DEF q
  <2>3. Posted(q)
    BY <2>1, <2>2 DEF Posted
  <2>4. Sent(p)' = IF q = p THEN Sent(p) + 1 ELSE Sent(p)
    BY <2>2, <2>3, SentPosted
  <2> QED
    BY <2>4 DEF q
<1> QED
  BY <1>1, <1>2, <1>3, SignalsMove

LEMMA UploadMoves ==
  ASSUME IInv, TInv, HostBooks, [Next]_vars, NEW p \in Message, p.kind # "response", MaySend(p)'
  PROVE  MaySend(p) \/ PacketForgotten(p)
<1>1. p.kind \in {"invite", "notice"}
  BY DEF Message, SignalKinds
<1>2. /\ p.kind = "invite" => p.invite \notin memory'.uploaded
      /\ p.kind = "notice" => p.invite \notin memory'.noticed
  BY DEF MaySend
<1>3. ASSUME p.kind = "invite" => p.invite \notin memory.uploaded,
             p.kind = "notice" => p.invite \notin memory.noticed,
             ~Carried(p) \/ HostFails
      PROVE  MaySend(p) \/ PacketForgotten(p)
  BY <1>1, <1>3 DEF MaySend, PacketForgotten
<1>4. poll.pc # "reply" => ~Carried(p)
  BY DEF Carried
<1>5. CASE Fetches
  BY <1>2, <1>3, <1>4, <1>5 DEF Fetches
<1>6. CASE Plans
  BY <1>2, <1>3, <1>4, <1>6 DEF Plans
<1>7. CASE Rests /\ (HostFails \/ poll.pc # "reply")
  BY <1>2, <1>3, <1>4, <1>7 DEF Rests
<1>8. CASE Executes
  BY <1>2, <1>3, <1>4, <1>8 DEF Executes
<1>9. ASSUME NEW a \in HostAction, Files(a), HostFails \/ a = poll.action
      PROVE  MaySend(p) \/ PacketForgotten(p)
  <2>1. LedgerOf(a)
    BY <1>9, FilesLedger
  <2>2. /\ p.kind = "invite" => p.invite \notin memory.uploaded
        /\ p.kind = "notice" => p.invite \notin memory.noticed
    BY <1>2, <2>1 DEF LedgerOf
  <2>3. CASE a = poll.action /\ Carried(p)
    <3>1. a.kind \in Uploads /\ p = Uploaded(a)
      BY <2>3 DEF Carried
    <3>2. p.invite = a.invite /\ p.kind = IF a.kind = "upload_invite" THEN "invite" ELSE "notice"
      BY <3>1, UploadedType
    <3>3. a.invite \notin (IF a.kind = "upload_invite" THEN memory'.uploaded ELSE memory'.noticed)
      BY <1>2, <3>2
    <3> QED
      BY <2>1, <3>1, <3>3 DEF LedgerOf, Uploads
  <2> QED
    BY <1>3, <1>9, <2>2, <2>3
<1>10. CASE (HostReply /\ Answers) \/ (HostStepFails /\ Fails)
  <2>1. poll.pc \in {"command", "reply"}
    BY <1>10 DEF Answers, Fails, Files
  <2>2. poll.action \in HostAction
    BY <2>1, Vocabulary
  <2> QED
    BY <1>9, <1>10, <2>2, FailedType DEF Answers, Fails, HostFails
<1>11. CASE Waits
  <2>1. Carried(p)' <=> Carried(p)
    BY <1>11 DEF Waits, Carried, Uploaded
  <2>2. ~Carried(p)'
    BY <1>1 DEF MaySend
  <2> QED
    BY <1>2, <1>3, <1>11, <2>1, <2>2 DEF Waits, SameLedger
<1>12. HostMoves
  BY HostDigest
<1>13. (HostPollEnds => poll.pc # "reply") /\ (HostUpload => poll.pc # "reply")
  BY DEF HostPollEnds, HostUpload
<1> QED
  BY <1>5, <1>6, <1>7, <1>8, <1>10, <1>11, <1>12, <1>13 DEF HostMoves, HostFails

LEMMA PostingCarries ==
  ASSUME IInv, TInv, HostBooks, [Next]_vars, NEW p, HostPosts, p = Uploaded(poll.action)
  PROVE  MaySend(p) /\ ~MaySend(p)'
<1>1. /\ poll.pc = "command" /\ poll'.pc = "reply" /\ poll.action.kind \in Uploads
      /\ poll.action \in HostAction
  BY Vocabulary DEF HostPosts
<1>2. Executes
  BY <1>1, HostDigest DEF HostMoves, Fetches, Plans, Rests, Answers, Fails, Files, Waits
<1>3. p.invite = poll.action.invite
      /\ p.kind = IF poll.action.kind = "upload_invite" THEN "invite" ELSE "notice"
  BY <1>1, UploadedType
<1>4. MaySend(p)
  BY <1>1, <1>3 DEF HostBooks, Planned, MaySend, Carried, Uploads
<1>5. Carried(p)'
  BY <1>1, <1>2 DEF Executes, SameStep, Carried, Uploaded
<1> QED
  BY <1>3, <1>4, <1>5 DEF MaySend

(* A response that was sent may not be sent again, unless it was forgotten. *)
LEMMA AnswerMoves ==
  ASSUME IInv, TInv, HostBooks, PInv, [Next]_vars, NEW g \in Guests, GuestBooks(g),
         NEW invite \in Invites, invite.slot \in 1 .. Len(slots), Spent(g, invite),
         Answerable(g, invite)'
  PROVE  \/ Answerable(g, invite)
         \/ GuestFails(g) /\ gpoll[g].pc = "uploaded" /\ gpoll[g].answers = invite
<1>1. /\ link'[g] # NoLink /\ link'[g].n = requests'[g] /\ link'[g].joined
      /\ link'[g].uploaded # invite
      /\ \/ peer'[g].slot = invite.slot /\ peer'[g].gen = invite.gen
         \/ gpoll'[g].pc = "upload_response" /\ gpoll'[g].answers = invite
      /\ ~(/\ gpoll'[g].pc = "uploaded" /\ gpoll'[g].link.n = requests'[g]
           /\ gpoll'[g].answers = invite)
  <2>1. Here(g)' = invite => peer'[g].slot = invite.slot /\ peer'[g].gen = invite.gen
    BY DEF Here
  <2> QED
    BY <2>1 DEF Answerable, Bound, Linked
<1>2. invite.slot # 0 /\ Len(slots) \in Nat /\ invite.slot \in Nat /\ invite.gen \in Nat
  BY Vocabulary DEF Invites
<1>3. /\ OfPoll(g) /\ OfImport(g) /\ OfUpload(g) /\ (Bound(g) => Within(g))
      /\ peer[g] \in Peer /\ peer[g].slot \in Nat /\ peer[g].gen \in Nat
  BY GuestFacts DEF GuestBooks, TInv, Peer
<1>4. ASSUME peer[g].slot = invite.slot, peer[g].gen = invite.gen
      PROVE  Here(g) = invite
  BY <1>4 DEF Here, Invites
(* The link of now may answer, as it could before.                         *)
<1>5. ASSUME link[g] # NoLink, link[g].n = requests[g], link[g].joined,
             link[g].uploaded # invite,
             gpoll[g].pc = "uploaded" /\ gpoll[g].link.n = requests[g] => gpoll[g].answers # invite,
             \/ Here(g) = invite
             \/ gpoll[g].pc = "upload_response" /\ gpoll[g].answers = invite
      PROVE  Answerable(g, invite)
  BY <1>5 DEF Answerable, Bound, Linked
<1>6. CASE StaysPut(g) \/ IsDecided(g)
  <2>1. /\ peer'[g] = peer[g] /\ link'[g] = link[g] /\ gpoll'[g] = gpoll[g]
        /\ requests'[g] = requests[g]
    BY <1>6 DEF StaysPut, IsDecided, KeepsPeer, KeepsLink, KeepsPoll, KeepsStanding
  <2> QED
    BY <1>1, <1>4, <1>5, <2>1
<1>7. CASE Asks(g) \/ Parts(g)
  BY <1>1, <1>7 DEF Asks, Parts
<1>8. CASE Changes(g)
  <2>1. /\ link'[g] = link[g] /\ gpoll'[g] = gpoll[g] /\ requests'[g] = requests[g]
        /\ peer'[g].slot = 0 \/ (peer'[g].slot = peer[g].slot /\ peer'[g].gen = peer[g].gen)
    BY <1>8 DEF Changes, KeepsLink, KeepsPoll, KeepsStanding, NotJoined
  <2> QED
    BY <1>1, <1>2, <1>4, <1>5, <2>1
<1>9. CASE Looks(g)
  <2>1. /\ peer'[g] = peer[g] /\ requests'[g] = requests[g] /\ link[g] \in Link
        /\ gpoll[g].pc = "idle" /\ gpoll'[g].pc = "steps"
        /\ link'[g].n = link[g].n /\ link'[g].joined = link[g].joined
        /\ link'[g].uploaded = link[g].uploaded
    BY <1>9 DEF Looks, KeepsPeer, KeepsStanding
  <2> QED
    BY <1>1, <1>4, <1>5, <2>1, NoLinkIsNone
<1>10. CASE GivesUp(g)
  <2>1. /\ peer'[g] = peer[g] /\ requests'[g] = requests[g] /\ link'[g] = link[g]
        /\ gpoll'[g].pc = "idle" /\ (gpoll[g].pc = "uploaded" => GuestFails(g))
    BY <1>10 DEF GivesUp, KeepsPeer, KeepsLink, KeepsStanding
  <2> QED
    BY <1>1, <1>4, <1>5, <2>1
<1>11. CASE Sets(g)
  <2>1. /\ peer'[g] = peer[g] /\ requests'[g] = requests[g] /\ link'[g] = link[g]
        /\ gpoll[g].pc = "steps" /\ gpoll'[g].answers = Here(g)
    BY <1>11 DEF Sets, KeepsPeer, KeepsLink, KeepsStanding
  <2> QED
    BY <1>1, <1>4, <1>5, <2>1
<1>12. CASE Answering(g)
  <2>1. /\ peer'[g] = peer[g] /\ requests'[g] = requests[g] /\ link'[g] = link[g]
        /\ gpoll[g].pc = "upload_response" /\ gpoll'[g].pc = "uploaded"
    BY <1>12 DEF Answering, KeepsPeer, KeepsLink, KeepsStanding
  <2> QED
    BY <1>1, <1>4, <1>5, <2>1
<1>13. ASSUME gpoll[g].pc # "idle", Bound(g)
       PROVE  /\ gpoll[g].link.n = requests[g] /\ gpoll[g].link.joined
              /\ gpoll[g].link.uploaded = link[g].uploaded
              /\ link[g] # NoLink /\ link[g].n = requests[g] /\ link[g].joined
  BY <1>3, <1>13 DEF OfPoll, Bound, Linked
(* It became able to: by joining, with an invitation that can be read.     *)
<1>14. ASSUME ~Bound(g), peer'[g].slot = invite.slot
       PROVE  FALSE
  <2>1. Shut(g, invite.slot)
    BY <1>14 DEF Spent
  <2>2. Shut(g, invite.slot)'
    BY <2>1, ShutStays
  <2>3. Bound(g)' /\ GuestBooks(g)'
    BY GuestBooksSafe DEF Answerable
  <2>4. Within(g)'
    BY <2>3 DEF GuestBooks
  <2>5. Readable(g, peer[g].slot)'
    BY <1>2, <1>14, <2>4 DEF Within
  <2> QED
    BY <1>14, <2>2, <2>5 DEF Shut
<1>15. ASSUME NEW l, Saves(g, l)
       PROVE  Answerable(g, invite)
  <2>1. /\ peer'[g].slot = peer[g].slot /\ peer'[g].gen = peer[g].gen
        /\ requests'[g] = requests[g]
        /\ gpoll[g].pc # "idle" /\ gpoll'[g].pc = "steps"
        /\ link'[g] = IF link[g] = NoLink THEN NoLink ELSE l
        /\ l.uploaded = IF gpoll[g].pc = "uploaded" THEN gpoll[g].answers
                        ELSE gpoll[g].link.uploaded
    BY <1>15 DEF Saves, KeepsStanding
  <2>2. peer'[g].slot = invite.slot /\ Here(g) = invite /\ link'[g] = l
    BY <1>1, <1>4, <2>1
  <2>3. Bound(g)
    BY <1>14, <2>2
  <2>4. CASE gpoll[g].pc = "uploaded"
    <3>1. gpoll[g].answers = invite
      BY <1>2, <1>3, <2>1, <2>2, <2>4 DEF OfUpload
    <3> QED
      BY <1>1, <2>1, <2>2, <2>4, <3>1
  <2>5. CASE gpoll[g].pc # "uploaded"
    BY <1>1, <1>5, <1>13, <2>1, <2>2, <2>3, <2>5
  <2> QED
    BY <2>4, <2>5
<1>16. CASE Imports(g)
  <2> DEFINE packet == signals[gpoll[g].link.invite].invite
  <2>1. /\ link'[g] = link[g] /\ requests'[g] = requests[g]
        /\ gpoll[g].pc = "import_invite" /\ gpoll'[g].pc = "imported"
        /\ packet.slot \in 1 .. Len(slots) /\ packet \in Invites
        /\ \/ peer'[g] = peer[g]
           \/ /\ peer'[g] = Accepted(packet.slot, packet.gen)
              /\ gpoll[g].link.joined => packet.slot = peer[g].slot /\ packet.gen > peer[g].gen
    BY <1>16 DEF Imports, KeepsPeer, KeepsLink, KeepsStanding, PInv, Rostered
  <2> HIDE DEF packet
  <2>2. /\ Accepted(packet.slot, packet.gen).slot = packet.slot
        /\ Accepted(packet.slot, packet.gen).gen = packet.gen
        /\ packet.gen \in Nat
    BY <2>1 DEF Accepted, Invites
  <2>3. Bound(g) /\ peer'[g].slot = invite.slot /\ peer'[g].gen = invite.gen
    BY <1>1, <2>1 DEF Bound, Linked
  <2>4. CASE peer'[g] = peer[g]
    BY <1>1, <1>4, <1>5, <2>1, <2>3, <2>4
  <2>5. CASE peer'[g] # peer[g]
    <3>1. /\ packet.slot = peer[g].slot /\ packet.gen > peer[g].gen
          /\ packet.slot = invite.slot /\ packet.gen = invite.gen
      BY <1>13, <2>1, <2>2, <2>3, <2>5
    <3>2. Shut(g, invite.slot)
      BY <1>2, <1>3, <2>2, <3>1 DEF Spent
    <3>3. Readable(g, peer[g].slot)
      BY <1>2, <1>3, <2>3, <3>1 DEF Within
    <3> QED
      BY <3>1, <3>2, <3>3 DEF Shut
  <2> QED
    BY <2>4, <2>5
<1>17. StaysPut(g) \/ GuestMoves(g)
  BY TextsFacts DEF GuestMoves
<1> QED
  BY <1>6, <1>7, <1>8, <1>9, <1>10, <1>11, <1>12, <1>15, <1>16, <1>17 DEF GuestMoves
-----------------------------------------------------------------------------
(* A packet is a message as it was sent, and the books are what the proof  *)
(* carries of host, packets and guests.                                    *)
Packets == {p \in Message : p.text = TRUE}
Books == HostBooks /\ PInv /\ SignalBooks /\ \A g \in Guests : GuestBooks(g)

LEMMA PacketNames ==
  ASSUME NEW p \in Packets
  PROVE  /\ p = Signal(p.guest, p.kind, p.invite) /\ p \in Message
         /\ p.guest \in Guests /\ p.kind \in SignalKinds /\ p.invite \in Invites
<1>1. p \in Message /\ p.text = TRUE
  BY DEF Packets
<1>2. [p EXCEPT !.text = TRUE] = p
  BY <1>1 DEF Message
<1> QED
  BY <1>1, <1>2, MessageText DEF Message

LEMMA ReplyingSends ==
  ASSUME TInv, NEW g \in Guests, GuestBooks(g), Replies(g)
  PROVE  LET invite == gpoll[g].answers
         IN  /\ Answerable(g, invite)
             /\ gpoll'[g].pc = "uploaded" /\ gpoll'[g].answers = invite
             /\ gpoll'[g].link.n = requests'[g]
<1>1. /\ gpoll[g].pc = "upload_response" /\ gpoll[g].link.n = requests[g]
      /\ gpoll'[g].pc = "uploaded" /\ gpoll'[g].answers = gpoll[g].answers
      /\ gpoll'[g].link = gpoll[g].link /\ requests'[g] = requests[g]
  BY DEF Replies, Answering, KeepsStanding
<1>2. Bound(g)
  BY ReplySpent
<1>3. link[g].uploaded # gpoll[g].answers
  BY <1>1, <1>2 DEF GuestBooks, OfPoll, OfUpload, Bound
<1> QED
  BY <1>1, <1>2, <1>3 DEF Answerable

LEMMA SentAnswers ==
  ASSUME IInv, TInv, Books, NEW p \in Packets, p.kind = "response", Sent(p) # 0
  PROVE  p.invite.slot \in 1 .. Len(slots) /\ Spent(p.guest, p.invite)
<1>1. PICK i \in 1 .. Len(signals) : Packet(i) = p
  BY SentFacts
<1>2. signals[i] \in Message
  BY <1>1, ElementOfSeq DEF TInv, GuestTypes
<1>3. p = Signal(signals[i].guest, signals[i].kind, signals[i].invite)
  BY <1>1, <1>2, PacketIs
<1>4. signals[i].guest = p.guest /\ signals[i].kind = p.kind /\ signals[i].invite = p.invite
  BY <1>3 DEF Signal
<1> QED
  BY <1>4 DEF Books, PInv, Rostered, SignalBooks

LEMMA CopiesDueMoves ==
  ASSUME IInv, TInv, Books, [Next]_vars, NEW p \in Packets
  PROVE  /\ CopiesDue(p) \in Int /\ CopiesDue(p)' \in Int
         /\ \/ CopiesDue(p)' <= CopiesDue(p) \/ CopiesDue(p)' <= 0
            \/ (PacketForgotten(p) \/ ReplyForgotten(p)) /\ CopiesDue(p)' <= CopiesDue(p) + 1
<1>1. /\ CopiesDue(p) = Sent(p) - (IF MaySend(p) THEN 0 ELSE 1)
      /\ CopiesDue(p)' = Sent(p)' - (IF MaySend(p)' THEN 0 ELSE 1)
  BY DEF CopiesDue
<1>2. Sent(p) \in Nat /\ Sent(p)' \in Nat
  <2>1. Sent(p) \in Nat
    BY SentFacts
  <2> QED
    BY <2>1, SentMoves
<1>3. /\ p = Signal(p.guest, p.kind, p.invite) /\ p \in Message
      /\ p.guest \in Guests /\ p.kind \in SignalKinds /\ p.invite \in Invites
  BY PacketNames
<1>4. ASSUME Sent(p)' = Sent(p), MaySend(p)' => MaySend(p) \/ PacketForgotten(p) \/ ReplyForgotten(p)
      PROVE  \/ CopiesDue(p)' <= CopiesDue(p)
             \/ (PacketForgotten(p) \/ ReplyForgotten(p)) /\ CopiesDue(p)' <= CopiesDue(p) + 1
  BY <1>1, <1>2, <1>4
<1>5. ASSUME Sent(p)' = Sent(p) + 1, MaySend(p), ~MaySend(p)'
      PROVE  CopiesDue(p)' <= CopiesDue(p)
  BY <1>1, <1>2, <1>5
<1>6. ASSUME Sent(p)' = Sent(p)
      PROVE  \/ CopiesDue(p)' <= CopiesDue(p) \/ CopiesDue(p)' <= 0
             \/ (PacketForgotten(p) \/ ReplyForgotten(p)) /\ CopiesDue(p)' <= CopiesDue(p) + 1
  <2>1. CASE p.kind # "response"
    BY <1>3, <1>4, <1>6, <2>1, UploadMoves DEF Books
  <2>2. CASE p.kind = "response" /\ Sent(p) = 0
    BY <1>1, <1>2, <1>6, <2>2
  <2>3. CASE p.kind = "response" /\ Sent(p) # 0
    <3>1. p.invite.slot \in 1 .. Len(slots) /\ Spent(p.guest, p.invite) /\ GuestBooks(p.guest)
      BY <1>3, <2>3, SentAnswers DEF Books
    <3>2. Answerable(p.guest, p.invite)' => Answerable(p.guest, p.invite) \/ ReplyForgotten(p)
      BY <1>3, <2>3, <3>1, AnswerMoves DEF Books, ReplyForgotten
    <3>3. MaySend(p)' => MaySend(p) \/ ReplyForgotten(p)
      BY <2>3, <3>2 DEF MaySend
    <3> QED
      BY <1>4, <1>6, <3>3
  <2> QED
    BY <2>1, <2>2, <2>3
<1>7. ASSUME HostPosts, p = Uploaded(poll.action), Sent(p)' = Sent(p) + 1
      PROVE  CopiesDue(p)' <= CopiesDue(p)
  BY <1>5, <1>7, PostingCarries DEF Books
<1>8. ASSUME NEW g \in Guests, Replies(g), p = Signal(g, "response", gpoll[g].answers),
             Sent(p)' = Sent(p) + 1
      PROVE  CopiesDue(p)' <= CopiesDue(p)
  <2>1. p.guest = g /\ p.kind = "response" /\ p.invite = gpoll[g].answers
    BY <1>8 DEF Signal
  <2>2. /\ Answerable(g, p.invite) /\ gpoll'[g].pc = "uploaded" /\ gpoll'[g].answers = p.invite
        /\ gpoll'[g].link.n = requests'[g]
    BY <1>8, <2>1, ReplyingSends DEF Books
  <2>3. MaySend(p) /\ ~MaySend(p)'
    BY <2>1, <2>2 DEF MaySend, Answerable
  <2> QED
    BY <1>5, <1>8, <2>3
<1> QED
  BY <1>1, <1>2, <1>6, <1>7, <1>8, SentMoves
-----------------------------------------------------------------------------
(* What is owed to faults: the slots and copies that a guest or a packet   *)
(* has too many, and those that it may still get.                          *)
Owed ==
    {o \in {"slot"} \X Guests \X (Nat \ {0}) : o[3] <= SlotsDue(o[2])}
    \cup {o \in {"packet"} \X Packets \X (Nat \ {0}) : o[3] <= CopiesDue(o[2])}
Paid == IsFiniteSet(Owed) /\ Cardinality(Owed) <= faults

LEMMA OwedIs ==
  ASSUME NEW o
  PROVE  /\ o \in Owed <=> \/ \E g \in Guests, k \in Nat \ {0} :
                                o = <<"slot", g, k>> /\ k <= SlotsDue(g)
                           \/ \E p \in Packets, k \in Nat \ {0} :
                                o = <<"packet", p, k>> /\ k <= CopiesDue(p)
         /\ o \in Owed' <=> \/ \E g \in Guests, k \in Nat \ {0} :
                                 o = <<"slot", g, k>> /\ k <= SlotsDue(g)'
                            \/ \E p \in Packets, k \in Nat \ {0} :
                                 o = <<"packet", p, k>> /\ k <= CopiesDue(p)'
BY DEF Owed

LEMMA OwedGrows ==
  ASSUME IInv, TInv, Books, [Next]_vars, NEW x,
         \A g \in Guests : SlotForgotten(g) => x = <<"slot", g, SlotsDue(g) + 1>>,
         \A p \in Packets : PacketForgotten(p) \/ ReplyForgotten(p) =>
                              x = <<"packet", p, CopiesDue(p) + 1>>
  PROVE  Owed' \subseteq Owed \cup {x}
<1>1. ASSUME NEW g \in Guests, NEW k \in Nat \ {0}, k <= SlotsDue(g)'
      PROVE  <<"slot", g, k>> \in Owed \cup {x}
  <2>1. /\ SlotsDue(g) \in Int /\ SlotsDue(g)' \in Int
        /\ \/ SlotsDue(g)' <= SlotsDue(g)
           \/ SlotForgotten(g) /\ SlotsDue(g)' <= SlotsDue(g) + 1
    BY SlotsDueMoves DEF Books
  <2>2. k <= SlotsDue(g) \/ (SlotForgotten(g) /\ k = SlotsDue(g) + 1)
    BY <1>1, <2>1
  <2> QED
    BY <2>2, OwedIs
<1>2. ASSUME NEW p \in Packets, NEW k \in Nat \ {0}, k <= CopiesDue(p)'
      PROVE  <<"packet", p, k>> \in Owed \cup {x}
  <2>1. /\ CopiesDue(p) \in Int /\ CopiesDue(p)' \in Int
        /\ \/ CopiesDue(p)' <= CopiesDue(p) \/ CopiesDue(p)' <= 0
           \/ (PacketForgotten(p) \/ ReplyForgotten(p)) /\ CopiesDue(p)' <= CopiesDue(p) + 1
    BY CopiesDueMoves
  <2>2. \/ k <= CopiesDue(p)
        \/ (PacketForgotten(p) \/ ReplyForgotten(p)) /\ k = CopiesDue(p) + 1
    BY <1>2, <2>1
  <2> QED
    BY <2>2, OwedIs
<1> QED
  BY <1>1, <1>2, OwedIs

LEMMA FaultsMove ==
  ASSUME TInv, [Next]_vars
  PROVE  faults \in Nat /\ (faults' = faults \/ faults' = faults + 1)
<1>1. faults \in Nat
  BY DEF TInv, GuestTypes
<1>2. CASE HostPoll \/ HostStepFails \/ HostReloads \/ InviteByHand
  BY <1>1, <1>2 DEF HostPoll, HostFetch, HostPlan, HostPollEnds, HostCommand, HostUpload, HostReply,
     HostStepFails, HostReloads, InviteByHand, Roster, Fine, Fault, ByHand
<1>3. ASSUME NEW s \in DOMAIN slots,
             \/ RosterButton(s) \/ HostGathers(s) \/ ConnectTimesOut(s) \/ AttemptFails(s)
             \/ \E g \in Guests : LinkUp(s, g)
      PROVE  faults' = faults \/ faults' = faults + 1
  BY <1>3 DEF RosterButton, HostGathers, ConnectTimesOut, AttemptFails, LinkUp, Fine, Fault, ByHand
<1>4. ASSUME NEW g \in Guests,
             \/ \E status \in {"approved", "rejected"} : Decide(g, status)
             \/ RetryRequest(g) \/ RequestJoin(g) \/ EndLink(g) \/ LeaveSession(g)
             \/ GuestPoll(g) \/ GuestGathers(g) \/ GuestStepFails(g) \/ GuestReloads(g)
      PROVE  faults' = faults \/ faults' = faults + 1
  BY <1>4 DEF Decide, RetryRequest, RequestJoin, EndLink, LeaveSession, GuestGathers,
     GuestStepFails, GuestReloads, GuestPoll, GuestFetch, GuestPollEnds, GuestPlan, ImportNotice,
     ImportInvite, InviteImported, UploadResponse, ResponseUploaded, Fine, Fault
<1>5. CASE UNCHANGED vars
  BY <1>1, <1>5 DEF vars
<1> QED
  BY <1>1, <1>2, <1>3, <1>4, <1>5 DEF Next

(* A fault makes one poll forget, and that one thing.                      *)
LEMMA OneForgets ==
  ASSUME IInv, TInv, [Next]_vars,
         \/ \E g \in Guests : SlotForgotten(g)
         \/ \E p \in Packets : PacketForgotten(p) \/ ReplyForgotten(p)
  PROVE  /\ faults' = faults + 1
         /\ \/ \E g \in Guests : \A h \in Guests : /\ SlotForgotten(h) => h = g
                                                   /\ \A p \in Packets : ~PacketForgotten(p) /\ ~ReplyForgotten(p)
            \/ \E q \in Packets : /\ \A h \in Guests : ~SlotForgotten(h)
                                  /\ \A p \in Packets : PacketForgotten(p) \/ ReplyForgotten(p) => p = q
<1>1. gpoll \in [Guests -> GuestPolls] /\ Idle.pc = "idle"
  BY FunctionFacts DEF Idle
<1>2. HostFails => faults' = faults + 1 /\ UNCHANGED gpoll
  BY DEF HostFails, HostStepFails, HostReloads, Fault
<1>3. ASSUME NEW g \in Guests, GuestFails(g), gpoll[g].pc = "uploaded"
      PROVE  /\ faults' = faults + 1 /\ gpoll'[g].pc = "idle"
             /\ \A h \in Guests \ {g} : gpoll'[h] = gpoll[h]
  BY <1>1, <1>3 DEF GuestFails, GuestStepFails, GuestReloads, GuestAwaits, Fault
<1>4. ASSUME NEW p \in Packets, ReplyForgotten(p)
      PROVE  /\ p.guest \in Guests /\ GuestFails(p.guest) /\ gpoll[p.guest].pc = "uploaded"
             /\ p = Signal(p.guest, "response", gpoll[p.guest].answers)
  BY <1>4, PacketNames DEF ReplyForgotten
<1>5. ASSUME NEW g \in Guests, SlotForgotten(g)
      PROVE  /\ HostFails /\ g = poll.action.guest
             /\ \A p \in Packets : ~PacketForgotten(p)
  BY <1>5 DEF SlotForgotten, PacketForgotten, Carried, Creating, Uploads
<1>6. ASSUME HostFails
      PROVE  \A p \in Packets : ~ReplyForgotten(p)
  BY <1>2, <1>3, <1>4, <1>6
<1>7. CASE \E g \in Guests : SlotForgotten(g)
  BY <1>2, <1>5, <1>6, <1>7
<1>8. ASSUME \A h \in Guests : ~SlotForgotten(h), NEW q \in Packets, PacketForgotten(q)
      PROVE  faults' = faults + 1
             /\ \A p \in Packets : PacketForgotten(p) \/ ReplyForgotten(p) => p = q
  BY <1>2, <1>6, <1>8 DEF PacketForgotten, Carried
<1>9. ASSUME \A h \in Guests : ~SlotForgotten(h), \A p \in Packets : ~PacketForgotten(p),
             NEW q \in Packets, ReplyForgotten(q)
      PROVE  faults' = faults + 1 /\ \A p \in Packets : ReplyForgotten(p) => p = q
  <2>1. ASSUME NEW p \in Packets, ReplyForgotten(p)
        PROVE  p.guest = q.guest
    BY <1>3, <1>4, <1>9, <2>1
  <2> QED
    BY <1>3, <1>4, <1>9, <2>1
<1> QED
  BY <1>7, <1>8, <1>9

(* The books hold, and what is owed never exceeds the faults.              *)
LEMMA BooksSafe ==
  ASSUME IInv, TInv, Books, [Next]_vars
  PROVE  Books'
BY HostBooksSafe, PlacesSafe, SignalBooksSafe, GuestBooksSafe DEF Books

LEMMA BooksStart ==
  ASSUME Init
  PROVE  Books
BY HostBooksStart, PlacesStart, SignalBooksStart, GuestBooksStart DEF Books

LEMMA PaidSafe ==
  ASSUME IInv, TInv, Books, Paid, [Next]_vars
  PROVE  Paid'
<1>1. /\ IsFiniteSet(Owed) /\ Cardinality(Owed) <= faults /\ Cardinality(Owed) \in Nat
      /\ faults \in Nat /\ (faults' = faults \/ faults' = faults + 1)
  BY FaultsMove, FS_CardinalityType DEF Paid
<1>2. ASSUME NEW x, Owed' \subseteq Owed \cup {x}, faults' = faults + 1
      PROVE  Paid'
  <2>1. /\ IsFiniteSet(Owed \cup {x})
        /\ Cardinality(Owed \cup {x}) = IF x \in Owed THEN Cardinality(Owed) ELSE Cardinality(Owed) + 1
    BY <1>1, FS_AddElement
  <2>2. /\ IsFiniteSet(Owed') /\ Cardinality(Owed') <= Cardinality(Owed \cup {x})
        /\ Cardinality(Owed') \in Nat
    BY <1>2, <2>1, FS_Subset, FS_CardinalityType
  <2>3. Cardinality(Owed') <= faults'
    BY <1>1, <1>2, <2>1, <2>2
  <2> QED
    BY <2>2, <2>3 DEF Paid
<1> DEFINE Forgotten == \/ \E g \in Guests : SlotForgotten(g)
                        \/ \E p \in Packets : PacketForgotten(p) \/ ReplyForgotten(p)
<1>3. CASE Forgotten
  <2>1. faults' = faults + 1
    BY <1>3, OneForgets
  <2>2. ASSUME NEW g \in Guests,
               \A h \in Guests : /\ SlotForgotten(h) => h = g
                                 /\ \A p \in Packets : ~PacketForgotten(p) /\ ~ReplyForgotten(p)
        PROVE  Paid'
    BY <1>2, <2>1, <2>2, OwedGrows
  <2>3. ASSUME NEW q \in Packets, \A h \in Guests : ~SlotForgotten(h),
               \A p \in Packets : PacketForgotten(p) \/ ReplyForgotten(p) => p = q
        PROVE  Paid'
    BY <1>2, <2>1, <2>3, OwedGrows
  <2> QED
    BY <1>3, <2>2, <2>3, OneForgets
<1>4. CASE ~Forgotten
  <2>1. \A x : Owed' \subseteq Owed \cup {x}
    BY <1>4, OwedGrows
  <2>2. Owed' \subseteq Owed
    <3>1. ASSUME NEW o \in Owed', o \notin Owed
          PROVE  FALSE
      <4>1. PICK x : x # o
        <5>1. 0 # 1 /\ (o # 0 \/ o # 1)
          OBVIOUS
        <5> QED
          BY <5>1
      <4> QED
        BY <2>1, <3>1, <4>1
    <3> QED
      BY <3>1
  <2>3. /\ IsFiniteSet(Owed') /\ Cardinality(Owed') <= Cardinality(Owed)
        /\ Cardinality(Owed') \in Nat
    BY <1>1, <2>2, FS_Subset, FS_CardinalityType
  <2>4. Cardinality(Owed') <= faults'
    BY <1>1, <2>3
  <2> QED
    BY <2>3, <2>4 DEF Paid
<1> QED
  BY <1>3, <1>4

LEMMA PaidStart ==
  ASSUME Init
  PROVE  Paid
<1>1. /\ slots = << >> /\ signals = << >> /\ faults = 0
      /\ \A g \in Guests : approvals[g] = 0 /\ poll.view[g] = "none" /\ member[g] = "none"
  BY DEF Init
<1>2. ASSUME NEW g \in Guests
      PROVE  SlotsDue(g) = 0
  <2>1. SlotsOf(g) = 0
    <3>1. {s \in DOMAIN slots : slots[s].owner = g} = {}
      BY <1>1
    <3> QED
      BY <3>1, FS_EmptySet DEF SlotsOf
  <2>2. ~Needs(g)
    BY <1>1 DEF Needs
  <2> QED
    BY <1>1, <2>1, <2>2 DEF SlotsDue
<1>3. ASSUME NEW p \in Packets
      PROVE  CopiesDue(p) \in Int /\ CopiesDue(p) <= 0
  <2>1. Sent(p) = 0
    <3>1. {i \in DOMAIN signals : Packet(i) = p} = {}
      BY <1>1
    <3> QED
      BY <3>1, FS_EmptySet DEF Sent
  <2>2. CopiesDue(p) = 0 - 0 \/ CopiesDue(p) = 0 - 1
    BY <2>1 DEF CopiesDue
  <2> QED
    BY <2>2
<1>4. Owed = {}
  BY <1>2, <1>3, OwedIs
<1> QED
  BY <1>1, <1>4, FS_EmptySet DEF Paid

LEMMA RepeatsOwed ==
  ASSUME IInv, TInv, Books, Paid
  PROVE  RepeatsNeedAFault
<1>1. ASSUME NEW g \in Guests, NEW k \in 1 .. SlotsOf(g) - approvals[g]
      PROVE  <<"slot", g, k>> \in Owed
  <2>1. SlotsOf(g) \in Nat /\ approvals[g] \in Nat
    BY SlotsFacts DEF TInv, GuestTypes
  <2>2. k \in Nat \ {0} /\ k <= SlotsDue(g)
    BY <1>1, <2>1 DEF SlotsDue
  <2> QED
    BY <2>2, OwedIs
<1>2. ASSUME NEW i \in DOMAIN signals, NEW k \in 1 .. Sent(Packet(i)) - 1
      PROVE  <<"packet", Packet(i), k>> \in Owed
  <2>1. signals[i] \in Message
    BY ElementOfSeq DEF TInv, GuestTypes
  <2>2. Packet(i) \in Packets
    BY <2>1 DEF Packet, Packets, Message
  <2>3. Sent(Packet(i)) \in Nat
    BY SentFacts
  <2>4. k \in Nat \ {0} /\ k <= CopiesDue(Packet(i))
    BY <1>2, <2>3 DEF CopiesDue
  <2> QED
    BY <2>2, <2>4, OwedIs
<1>3. Repeats \subseteq Owed
  <2>1. ASSUME NEW r \in Repeats
        PROVE  (\E g \in Guests : r \in SlotsTooMany(g)) \/ \E i \in DOMAIN signals : r \in CopiesTooMany(i)
    BY <2>1, Zenon DEF Repeats
  <2>2. ASSUME NEW g \in Guests
        PROVE  SlotsTooMany(g) \subseteq Owed
    BY <1>1, <2>2 DEF SlotsTooMany
  <2>3. ASSUME NEW i \in DOMAIN signals
        PROVE  CopiesTooMany(i) \subseteq Owed
    BY <1>2, <2>3 DEF CopiesTooMany
  <2> QED
    BY <2>1, <2>2, <2>3
<1>4. /\ IsFiniteSet(Owed) /\ Cardinality(Owed) <= faults /\ Cardinality(Owed) \in Nat
      /\ faults \in Nat
  BY FS_CardinalityType DEF Paid, TInv, GuestTypes
<1>5. Cardinality(Repeats) <= Cardinality(Owed) /\ Cardinality(Repeats) \in Nat
  BY <1>3, <1>4, FS_Subset, FS_CardinalityType
<1> QED
  BY <1>4, <1>5 DEF RepeatsNeedAFault

(* A poll never repeats a step it has done, whatever is left, asked again, *)
(* renewed and pasted between its steps: a guest gets no more slots than   *)
(* the host approved it, and no packet is sent a second time, but for one  *)
(* repeat each for what a lost reply or a reload made the poll forget      *)
(* (HostMemory, persist).                                                  *)
THEOREM NothingIsRepeated == Spec => []RepeatsNeedAFault
<1>1. Spec => []IInv
  BY Invariance
<1>2. Init => TInv
  BY TypesStart
<1>3. IInv /\ TInv /\ [Next]_vars => TInv'
  BY TypesSafe
<1>4. Spec => []TInv
  BY <1>1, <1>2, <1>3, PTL DEF Spec
<1>5. Init => Books
  BY BooksStart
<1>6. IInv /\ TInv /\ Books /\ [Next]_vars => Books'
  BY BooksSafe
<1>7. Spec => []Books
  BY <1>1, <1>4, <1>5, <1>6, PTL DEF Spec
<1>8. Init => Paid
  BY PaidStart
<1>9. IInv /\ TInv /\ Books /\ Paid /\ [Next]_vars => Paid'
  BY PaidSafe
<1>10. Spec => []Paid
  BY <1>1, <1>4, <1>7, <1>8, <1>9, PTL DEF Spec
<1>11. IInv /\ TInv /\ Books /\ Paid => RepeatsNeedAFault
  BY RepeatsOwed
<1> QED
  BY <1>1, <1>4, <1>7, <1>10, <1>11, PTL
=============================================================================
