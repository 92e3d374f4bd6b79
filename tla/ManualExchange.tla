----------------------------- MODULE ManualExchange -----------------------------
(***************************************************************************)
(* The exchange of signed packets by which the host and a guest of the     *)
(* native Junction come to a connection (runtime.cpp), as functions of the *)
(* roster slot at the host and of the session at the guest.                *)
(*                                                                         *)
(* An invitation is the slot it was made for and its generation: inviteId, *)
(* generation and attempt change together.  Descriptions, certificates and *)
(* signatures are those of the device that made the packet; of them only   *)
(* whose answer a slot took is kept.  A slot that is connected is not      *)
(* invited again (the code would build a replacement beside it).           *)
(***************************************************************************)
EXTENDS Integers, Sequences

CONSTANT Nobody

(* Expired and needs_exchange attempts are failed ones here, and rejected  *)
(* ones cancelled: nothing tells them apart but their wording.             *)
Terminal == {"failed", "cancelled"}

(* invite.create, for a new participant and for one of the roster.  `owner` *)
(* is the DJ it was meant for, which the engine only has as a name.         *)
NewSlot(owner) ==
    [owner |-> owner, gen |-> 1, state |-> "collecting", answer |-> Nobody,
     approved |-> FALSE, device |-> Nobody, notice |-> FALSE]
Renewed(slot) ==
    [slot EXCEPT !.gen = @ + 1, !.state = "collecting", !.answer = Nobody, !.notice = FALSE]

(* exchange.import at the host: the response answers the slot's invitation *)
(* of now, nobody has answered it, and an approved slot is one device's.   *)
Importable(slot, gen, device) ==
    /\ slot.gen = gen
    /\ slot.state = "invite_ready"
    /\ ~(slot.approved /\ slot.device \notin {Nobody, device})
Imported(slot, device) == [slot EXCEPT !.state = "approval_pending", !.answer = device]

(* peer.approve; invite.cancel, and a refusal, leave a notice to deliver.  *)
Approved(slot) ==
    [slot EXCEPT !.state = "connecting", !.device = slot.answer, !.answer = Nobody,
                 !.approved = TRUE]
Withdrawn(slot) == [slot EXCEPT !.state = "cancelled", !.answer = Nobody, !.notice = TRUE]

(* The guest's session: join with an invitation, or a newer one of it.     *)
NotJoined == [slot |-> 0, gen |-> 0, state |-> "none"]
Active(peer) == peer.slot # 0
Acceptable(peer, slot, gen) == slot = peer.slot /\ gen > peer.gen
Accepted(slot, gen) == [slot |-> slot, gen |-> gen, state |-> "collecting"]

=============================================================================
