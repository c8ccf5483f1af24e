----------------------------- MODULE MCMailExchange -----------------------------
(***************************************************************************)
(* Two cards of one mailbox and a closing one; three messages, two of them *)
(* under the same identifier, the second outliving the first.              *)
(***************************************************************************)
EXTENDS MailExchange

Card(nonce, created, expires, until, routes) ==
    [owner |-> Owner, mailbox_id |-> "mb", nonce |-> nonce,
     created_at |-> created, expires_at |-> expires, receive_until |-> until,
     routes |-> routes, max_packet_bytes |-> 1]

MCCards ==
    {Card(1, 1, 3, 3, {"r1"}), Card(2, 2, 4, 5, {"r1"}), Card(3, 2, 3, 3, {})}

Message(id, created, expires) ==
    [message_id |-> id, sender |-> "bob", created_at |-> created,
     expires_at |-> expires]

MCmessage ==
    [m |-> Message("id1", 2, 4), m2 |-> Message("id1", 3, 5),
     n |-> Message("id2", 3, 5)]

MCPackets ==
    {[sender |-> "bob", mailbox_id |-> "mb", card_hash |-> c, created_at |-> t,
      expires_at |-> MCmessage[l].expires_at, size |-> 1, label |-> l] :
        l \in DOMAIN MCmessage, c \in Cards, t \in 1..3}
        \cap {p \in PacketFields : checked_packet(p)}
=============================================================================
