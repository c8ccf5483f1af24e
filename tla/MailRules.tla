------------------------------- MODULE MailRules -------------------------------
(***************************************************************************)
(* The data of Agent Mail that relays, senders and recipients check alike: *)
(* signed mailbox cards, signed packets and their time bounds.             *)
(*                                                                         *)
(* A card or a packet IS its hash here: two records with equal fields are  *)
(* one signed object.  Keys, ciphertext and routes other than their origin *)
(* names carry no further structure.                                       *)
(***************************************************************************)
EXTENDS LiveWriteRules

CONSTANTS
    MAX_TTL_MS,      \* the longest life of a card, a message or a key
    FUTURE_SKEW_MS,  \* tolerated clock difference
    Agents,          \* agent identities: mailbox owners and senders
    Mailboxes,       \* mailbox identifiers
    Origins,         \* relay origins
    Cards,           \* the signed cards in circulation
    Packets          \* the signed packets in circulation

(* BTreeMap::insert on a map written as a function over its present keys.  *)
insert(map, k, v) ==
    [key \in DOMAIN map \cup {k} |-> IF key = k THEN v ELSE map[key]]

Lifetime(created, expires) == expires - created \in 1..MAX_TTL_MS

(***************************************************************************)
(* What validate_card leaves of a card: a bounded sending period and a     *)
(* receiving period that ends at most MAX_TTL_MS after it.                 *)
(***************************************************************************)
validate_card(c) ==
    /\ c.nonce \in 1..MAX_SAFE_NONCE
    /\ Lifetime(c.created_at, c.expires_at)
    /\ c.receive_until - c.expires_at \in 0..MAX_TTL_MS

CardFields ==
    [owner : Agents, mailbox_id : Mailboxes, nonce : Nat, created_at : Nat,
     expires_at : Nat, receive_until : Nat, routes : SUBSET Origins,
     max_packet_bytes : Nat]

check_card_usable(c, now) ==
    /\ c.created_at <= now + FUTURE_SKEW_MS
    /\ c.routes # {}
    /\ now < c.expires_at

(***************************************************************************)
(* checked_packet: a packet names its card by hash and carries its own     *)
(* expiry, at most one message life and one skew after its creation.       *)
(***************************************************************************)
checked_packet(p) ==
    /\ p.size > 0
    /\ p.expires_at - p.created_at \in 1..(MAX_TTL_MS + FUTURE_SKEW_MS)

PacketFields ==
    [sender : Agents, mailbox_id : Mailboxes, card_hash : Cards,
     created_at : Nat, expires_at : Nat, size : Nat, label : STRING]

ASSUME MailTimeAssumption ==
    /\ MAX_TTL_MS \in Nat \ {0}
    /\ FUTURE_SKEW_MS \in Nat

ASSUME CardsAssumption ==
    /\ Cards \subseteq CardFields
    /\ \A c \in Cards : validate_card(c)

ASSUME PacketsAssumption ==
    /\ Packets \subseteq PacketFields
    /\ \A p \in Packets : checked_packet(p)
=============================================================================
