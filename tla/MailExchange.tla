------------------------------ MODULE MailExchange ------------------------------
(***************************************************************************)
(* MailExchange: what a sender and a recipient of Agent Mail keep, and the *)
(* cards and packets that pass between them.                               *)
(*                                                                         *)
(*   sender      MailCardCache: the pinned card of each mailbox            *)
(*   recipient   MailKeyring: cards whose secrets are retained             *)
(*               MailInbox: the messages accepted so far                   *)
(*                                                                         *)
(* The network shows the sender any card ever signed and the recipient any *)
(* packet ever sealed, in any order and any number of times.  The two have *)
(* clocks of their own, within one skew of the time `now` of the relays.   *)
(***************************************************************************)
EXTENDS MailRules, Sequences, FiniteSets, SequencesExt

CONSTANTS
    message,    \* the plaintext a packet's label stands for
    Owner,      \* the recipient, owner of every card here
    MaxTime,    \* bound on the time
    MaxSealed,  \* bound on the packets in circulation
    NoCard

Labels == DOMAIN message

MessageFields ==
    [message_id : STRING, sender : Agents, created_at : Nat, expires_at : Nat]

ASSUME ExchangeAssumption ==
    /\ message \in [Labels -> MessageFields]
    /\ \A l \in Labels : Lifetime(message[l].created_at, message[l].expires_at)
    /\ \A c \in Cards : c.owner = Owner
    /\ NoCard \notin Cards
    /\ MaxTime \in Nat

VARIABLES
    now,       \* the time of the relays
    skew,      \* how far each party's clock is ahead of it
    signed,    \* cards in circulation
    keyring,   \* the recipient's cards with a retained secret
    pins,      \* the sender's pinned card of each mailbox
    sealed,    \* packets in circulation
    accepted,  \* MailInbox: [message key -> its deadline and content]
    blocked,   \* MailInbox: senders the recipient refuses
    stored,    \* the messages the application took, in order
    saved,     \* the last snapshot of the inbox, saved with those messages
    greatest   \* history: the greatest nonce the sender saw of each mailbox

inbox == <<accepted, blocked, stored>>
vars == <<now, skew, signed, keyring, pins, sealed, inbox, saved, greatest>>

owner_now == now + skew.owner
sender_now == now + skew.sender

Key(l) == <<message[l].sender, message[l].message_id>>
Acceptance == [expires_at : Nat, content : Labels]
Snapshot == [accepted |-> accepted, blocked |-> blocked, stored |-> stored]

TypeOK ==
    /\ now \in FUTURE_SKEW_MS..MaxTime
    /\ skew \in [owner : -FUTURE_SKEW_MS..FUTURE_SKEW_MS,
                 sender : -FUTURE_SKEW_MS..FUTURE_SKEW_MS]
    /\ signed \subseteq Cards /\ keyring \subseteq signed
    /\ pins \in [Mailboxes -> signed \cup {NoCard}]
    /\ sealed \subseteq Packets
    /\ \A i \in {Snapshot, saved} :
          /\ DOMAIN i.accepted \subseteq {Key(l) : l \in Labels}
          /\ \A k \in DOMAIN i.accepted : i.accepted[k] \in Acceptance
          /\ i.blocked \subseteq Agents
          /\ i.stored \in Seq(Labels)
    /\ greatest \in [Mailboxes -> 0..MAX_SAFE_NONCE]

Init ==
    /\ now = FUTURE_SKEW_MS
    /\ skew \in [owner : -FUTURE_SKEW_MS..FUTURE_SKEW_MS,
                 sender : -FUTURE_SKEW_MS..FUTURE_SKEW_MS]
    /\ signed = {} /\ keyring = {}
    /\ pins = [m \in Mailboxes |-> NoCard]
    /\ sealed = {}
    /\ accepted = <<>> /\ blocked = {} /\ stored = <<>>
    /\ saved = Snapshot
    /\ greatest = [m \in Mailboxes |-> 0]

Tick ==
    /\ now < MaxTime
    /\ now' = now + 1
    /\ UNCHANGED <<skew, signed, keyring, pins, sealed, inbox, saved, greatest>>
-----------------------------------------------------------------------------
(* The owner's cards *)

(* sign_mail_card: the owner's time and a nonce greater than every earlier *)
(* one.                                                                    *)
SignMailCard(c) ==
    /\ c.created_at = owner_now
    /\ \A d \in signed : d.nonce < c.nonce

(* The secret is kept first; relays take the card within their window.     *)
PublishCard(c) ==
    /\ SignMailCard(c)
    /\ c.created_at - now \in -FUTURE_SKEW_MS..FUTURE_SKEW_MS
    /\ signed' = signed \cup {c}
    /\ keyring' = keyring \cup {c}
    /\ UNCHANGED <<now, skew, pins, sealed, inbox, saved, greatest>>

\* fault: a secret goes when its card stops being offered
Retained_Offered == {c \in keyring : owner_now < c.expires_at}

Retained == {c \in keyring : owner_now < c.receive_until}

PruneKeyring ==
    /\ keyring' = Retained
    /\ UNCHANGED <<now, skew, signed, pins, sealed, inbox, saved, greatest>>
-----------------------------------------------------------------------------
(* The sender *)

(* observe_historical keeps the greatest nonce, closed and expired cards   *)
(* included; the pinned card itself may be shown again.                    *)
PinAllowed(c) ==
    LET pin == pins[c.mailbox_id] IN
    /\ c.created_at <= sender_now + FUTURE_SKEW_MS
    /\ pin # NoCard => pin = c \/ c.nonce > pin.nonce

Pin(c) ==
    /\ PinAllowed(c)
    /\ pins' = [pins EXCEPT ![c.mailbox_id] = c]
    /\ greatest' = [greatest EXCEPT ![c.mailbox_id] =
                       IF c.nonce > @ THEN c.nonce ELSE @]

ObserveHistorical(c) ==
    /\ c \in signed
    /\ Pin(c)
    /\ UNCHANGED <<now, skew, signed, keyring, sealed, inbox, saved>>

Encryptable(l, c) ==
    /\ message[l].created_at <= sender_now + FUTURE_SKEW_MS
    /\ message[l].expires_at > sender_now
    /\ message[l].expires_at <= c.receive_until

(* Pin the card shown, require that it is usable, encrypt, sign.           *)
Seal(l, c) ==
    \E p \in Packets :
        /\ Cardinality(sealed) < MaxSealed
        /\ c \in signed
        /\ message[l].created_at <= sender_now
        /\ Pin(c)
        /\ check_card_usable(c, sender_now)
        /\ Encryptable(l, c)
        /\ p.label = l /\ p.card_hash = c /\ p.mailbox_id = c.mailbox_id
        /\ p.sender = message[l].sender
        /\ p.created_at = sender_now
        /\ p.expires_at = message[l].expires_at
        /\ p.size <= c.max_packet_bytes
        /\ sealed' = sealed \cup {p}
        /\ UNCHANGED <<now, skew, signed, keyring, inbox, saved>>

\* fault: a pin goes with the sending period of its own card
PinKept_UntilExpiry(pin) == sender_now < pin.expires_at

PinKept(pin) == sender_now < pin.created_at + MAX_TTL_MS + FUTURE_SKEW_MS

PrunePins ==
    /\ pins' = [m \in Mailboxes |->
                   IF pins[m] # NoCard /\ PinKept(pins[m]) THEN pins[m]
                   ELSE NoCard]
    /\ UNCHANGED <<now, skew, signed, keyring, sealed, inbox, saved, greatest>>
-----------------------------------------------------------------------------
(* The recipient *)

(* open_verified: timestamps, the binding to a retained card, the binding  *)
(* of the plaintext to its packet.                                         *)
Opens(p) ==
    LET c == p.card_hash
        msg == message[p.label]
    IN  /\ p.created_at <= owner_now + FUTURE_SKEW_MS
        /\ c \in keyring
        /\ p.size <= c.max_packet_bytes
        /\ p.mailbox_id = c.mailbox_id
        /\ p.expires_at <= c.receive_until
        /\ msg.sender = p.sender
        /\ msg.expires_at = p.expires_at
        /\ msg.created_at <= owner_now + FUTURE_SKEW_MS
        /\ msg.created_at <= p.created_at + FUTURE_SKEW_MS

\* fault: a forgotten message may be accepted again
NewMessage_AnyTime(p) == Key(p.label) \notin DOMAIN accepted

NewMessage(p) ==
    /\ owner_now < message[p.label].expires_at
    /\ Key(p.label) \notin DOMAIN accepted

NewAcceptance(l) == [expires_at |-> message[l].expires_at, content |-> l]

(* A retained key is answered as a duplicate, or refused when its content  *)
(* differs; neither changes the inbox.                                     *)
Accept(p) ==
    /\ p \in sealed
    /\ p.sender \notin blocked
    /\ Opens(p)
    /\ NewMessage(p)
    /\ accepted' = insert(accepted, Key(p.label), NewAcceptance(p.label))
    /\ stored' = Append(stored, p.label)
    /\ UNCHANGED <<now, skew, signed, keyring, pins, sealed, blocked, saved,
                   greatest>>

SetSenderBlocked(sender, isBlocked) ==
    /\ blocked' = IF isBlocked THEN blocked \cup {sender} ELSE blocked \ {sender}
    /\ UNCHANGED <<now, skew, signed, keyring, pins, sealed, accepted, stored,
                   saved, greatest>>

PruneInbox ==
    /\ accepted' = Restrict(accepted,
                       {k \in DOMAIN accepted : owner_now < accepted[k].expires_at})
    /\ UNCHANGED <<now, skew, signed, keyring, pins, sealed, blocked, stored,
                   saved, greatest>>

(* The application saves the snapshot of the inbox with its messages.      *)
Save ==
    /\ saved' = Snapshot
    /\ UNCHANGED <<now, skew, signed, keyring, pins, sealed, inbox, greatest>>

Crash ==
    /\ accepted' = saved.accepted
    /\ blocked' = saved.blocked
    /\ stored' = saved.stored
    /\ UNCHANGED <<now, skew, signed, keyring, pins, sealed, saved, greatest>>
-----------------------------------------------------------------------------
Senders == {message[l].sender : l \in Labels}

Next ==
    \/ Tick
    \/ \E c \in Cards : PublishCard(c)
    \/ PruneKeyring
    \/ \E c \in Cards : ObserveHistorical(c)
    \/ \E l \in Labels, c \in Cards : Seal(l, c)
    \/ PrunePins
    \/ \E p \in Packets : Accept(p)
    \/ \E s \in Senders, b \in BOOLEAN : SetSenderBlocked(s, b)
    \/ PruneInbox
    \/ Save
    \/ Crash

Spec == Init /\ [][Next]_vars
-----------------------------------------------------------------------------
(***************************************************************************)
(* A packet that its sender could seal opens at its recipient for as long  *)
(* as the message lives, once its timestamps are within one skew: the      *)
(* secret outlives every message sealed for its card, whatever newer cards *)
(* the owner published meanwhile.                                          *)
(***************************************************************************)
UnexpiredMailOpens ==
    \A p \in sealed :
        (/\ owner_now < p.expires_at
         /\ p.created_at <= owner_now + FUTURE_SKEW_MS
         /\ message[p.label].created_at <= owner_now + FUTURE_SKEW_MS)
            => Opens(p)

(***************************************************************************)
(* The application takes no message twice, and a second one under the same *)
(* sender and message ID only once the first has expired, over packets     *)
(* sealed again for other cards, replays, pruning of the inbox and crashes *)
(* that lose what was not saved.                                           *)
(***************************************************************************)
ReceivedOnce ==
    \A i, j \in DOMAIN stored :
        ( i < j /\ Key(stored[i]) = Key(stored[j]) ) =>
            message[stored[i]].expires_at < message[stored[j]].expires_at

(***************************************************************************)
(* No message is sealed for a card older than one the sender has seen of   *)
(* that mailbox, be its pin pruned or not.                                 *)
(***************************************************************************)
NeverSealsForOlderCard ==
    [][ \A p \in sealed' \ sealed :
            p.card_hash.nonce >= greatest[p.mailbox_id] ]_vars
=============================================================================
