------------------------------ MODULE MCMailRelay ------------------------------
(***************************************************************************)
(* One mailbox identifier that two owners compete for.  c1 is replaced by  *)
(* c2, which ends its receiving period earlier than mail sealed for c1     *)
(* expires; d1 is another owner's registration once the identifier is      *)
(* forgotten.                                                              *)
(***************************************************************************)
EXTENDS MailRelay

Card(owner, nonce, created, expires, until, routes) ==
    [owner |-> owner, mailbox_id |-> "mb", nonce |-> nonce,
     created_at |-> created, expires_at |-> expires, receive_until |-> until,
     routes |-> routes, max_packet_bytes |-> 2]

c1 == Card("alice", 1, 0, 2, 3, {"r1"})
c2 == Card("alice", 2, 1, 2, 2, {"r1"})
d1 == Card("dave", 2, 3, 5, 5, {"r1"})

Packet(sender, card, created, expires, size, label) ==
    [sender |-> sender, mailbox_id |-> "mb", card_hash |-> card,
     created_at |-> created, expires_at |-> expires, size |-> size,
     label |-> label]

MCCards == {c1, c2, d1}
MCPackets ==
    {Packet("bob", c1, 0, 1, 1, "p"), Packet("bob", c1, 0, 3, 2, "q"),
     Packet("bob", c2, 0, 2, 1, "r"), Packet("bob", d1, 3, 5, 1, "s")}
=============================================================================
