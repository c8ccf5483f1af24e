--------------------------- MODULE MailExchangeProofs ---------------------------
(***************************************************************************)
(* What sender and recipient of Agent Mail rely on, for every set of       *)
(* cards, packets and messages, every skew of the two clocks and any time  *)
(* bound: unexpired mail opens, no message is taken twice, and none is     *)
(* sealed for a card older than one its sender has seen.                   *)
(***************************************************************************)
EXTENDS MailExchange, TLAPS

(* The part of the state that is about cards and packets has its type; so  *)
(* has the inbox, and its last snapshot.                                   *)
ExchangeTyped ==
    /\ now \in Int
    /\ skew \in [owner : Int, sender : Int]
    /\ signed \subseteq Cards /\ keyring \subseteq signed
    /\ pins \in [Mailboxes -> signed \cup {NoCard}]
    /\ sealed \subseteq Packets
    /\ greatest \in [Mailboxes -> Nat]

InboxTyped(i) == i.stored \in Seq(Labels)

(* A signed card keeps its secret through its receiving period.            *)
SecretsRetained == \A c \in signed : owner_now < c.receive_until => c \in keyring

(* What the checks of Seal leave of a packet.                              *)
SealedChecked ==
    \A p \in sealed :
        /\ p.card_hash \in signed /\ p.label \in Labels
        /\ p.mailbox_id = p.card_hash.mailbox_id
        /\ p.size <= p.card_hash.max_packet_bytes
        /\ p.sender = message[p.label].sender
        /\ p.expires_at = message[p.label].expires_at
        /\ p.expires_at <= p.card_hash.receive_until
        /\ message[p.label].created_at <= p.created_at

(* The owner signs cards in the order of their nonces and of time.         *)
SignedInOrder ==
    /\ \A c \in signed : c.created_at <= owner_now
    /\ \A c, d \in signed : c.nonce < d.nonce => c.created_at <= d.created_at

(* The newest card the sender saw of a mailbox is its pin, or was signed   *)
(* so long ago that every card up to it has expired.                       *)
PinOrPast(m, g) ==
    /\ g \in signed /\ g.mailbox_id = m /\ g.nonce = greatest[m]
    /\ pins[m] = g \/ sender_now >= g.created_at + MAX_TTL_MS + FUTURE_SKEW_MS

NewestPinned ==
    \A m \in Mailboxes :
        /\ greatest[m] # 0 => \E g \in signed : PinOrPast(m, g)
        /\ pins[m] # NoCard => greatest[m] # 0

(* An inbox retains every message it took until that message expires, and  *)
(* took messages of one key in the order of their deadlines.               *)
Remembers(i) ==
    \A n \in DOMAIN i.stored :
        owner_now < message[i.stored[n]].expires_at =>
            /\ Key(i.stored[n]) \in DOMAIN i.accepted
            /\ i.accepted[Key(i.stored[n])].expires_at
                 = message[i.stored[n]].expires_at

Ordered(i) ==
    \A n, k \in DOMAIN i.stored :
        ( n < k /\ Key(i.stored[n]) = Key(i.stored[k]) ) =>
            message[i.stored[n]].expires_at < message[i.stored[k]].expires_at

InboxSound(i) == InboxTyped(i) /\ Remembers(i) /\ Ordered(i)

InboxesSound == InboxSound(Snapshot) /\ InboxSound(saved)
-----------------------------------------------------------------------------

(* What validate_card leaves of a card: fields of their types, a positive  *)
(* nonce and a lifetime within MAX_TTL_MS.                                 *)
LEMMA CardData ==
  ASSUME NEW c \in Cards
  PROVE  /\ c.mailbox_id \in Mailboxes /\ c # NoCard
         /\ c.nonce \in Nat /\ c.nonce >= 1
         /\ c.created_at \in Nat /\ c.expires_at \in Nat /\ c.receive_until \in Nat
         /\ c.expires_at <= c.created_at + MAX_TTL_MS
<1>1. c \in CardFields /\ validate_card(c)
  BY CardsAssumption
<1>2. /\ c.mailbox_id \in Mailboxes /\ c.nonce \in Nat /\ c.created_at \in Nat
      /\ c.expires_at \in Nat /\ c.receive_until \in Nat
  BY <1>1 DEF CardFields
<1>3. c.nonce >= 1
  BY <1>1, <1>2, NonceAssumption DEF validate_card
<1>4. c.expires_at <= c.created_at + MAX_TTL_MS
  BY <1>1, <1>2, MailTimeAssumption DEF validate_card, Lifetime
<1> QED
  BY <1>2, <1>3, <1>4, ExchangeAssumption

(* The times of a message are natural numbers.                             *)
LEMMA MessageData ==
  ASSUME NEW l \in Labels
  PROVE  message[l].created_at \in Nat /\ message[l].expires_at \in Nat
BY ExchangeAssumption DEF MessageFields

(* So are the limits on lifetimes, skew and clock.                         *)
LEMMA LimitData == MAX_TTL_MS \in Nat /\ FUTURE_SKEW_MS \in Nat /\ MaxTime \in Nat
BY MailTimeAssumption, ExchangeAssumption

(* Sealing and pinning: what the two actions share. *)
LEMMA PinEffect ==
  ASSUME ExchangeTyped, NEW c \in signed, Pin(c), NEW m, m = c.mailbox_id
  PROVE  /\ m \in Mailboxes
         /\ pins' = [pins EXCEPT ![m] = c]
         /\ pins'[m] = c
         /\ pins[m] # NoCard => pins[m] = c \/ c.nonce > pins[m].nonce
         /\ greatest' \in [Mailboxes -> Nat]
         /\ greatest'[m] = IF c.nonce > greatest[m] THEN c.nonce ELSE greatest[m]
         /\ \A n \in Mailboxes \ {m} : pins'[n] = pins[n] /\ greatest'[n] = greatest[n]
<1>1. c \in Cards /\ m \in Mailboxes /\ c.nonce \in Nat
  BY CardData DEF ExchangeTyped
<1>2. /\ pins' = [pins EXCEPT ![m] = c]
      /\ greatest' = [greatest EXCEPT ![m] = IF c.nonce > @ THEN c.nonce ELSE @]
      /\ pins[m] # NoCard => pins[m] = c \/ c.nonce > pins[m].nonce
  BY DEF Pin, PinAllowed
<1> QED
  BY <1>1, <1>2 DEF ExchangeTyped

(* What Seal requires and puts in circulation. *)
LEMMA SealEffect ==
  ASSUME ExchangeTyped, NEW l \in Labels, NEW c \in Cards, Seal(l, c)
  PROVE  /\ c \in signed /\ Pin(c) /\ sender_now < c.expires_at
         /\ UNCHANGED <<now, skew, signed, keyring, inbox, saved>>
         /\ \E p \in Packets :
               /\ sealed' = sealed \cup {p}
               /\ p.label = l /\ p.card_hash = c /\ p.mailbox_id = c.mailbox_id
               /\ p.sender = message[l].sender
               /\ p.expires_at = message[l].expires_at
               /\ p.expires_at <= c.receive_until
               /\ p.size <= c.max_packet_bytes
               /\ message[l].created_at <= p.created_at
BY DEF Seal, check_card_usable, Encryptable

(* The cards, packets and pins have their types. *)
LEMMA ExchangeTyping == Spec => []ExchangeTyped
<1>1. Init => ExchangeTyped
  BY LimitData DEF Init, ExchangeTyped
<1>2. ExchangeTyped /\ [Next]_vars => ExchangeTyped'
  <2> SUFFICES ASSUME ExchangeTyped, [Next]_vars PROVE ExchangeTyped'
    OBVIOUS
  <2> USE DEF ExchangeTyped
  <2>1. CASE Tick
    BY <2>1 DEF Tick
  <2>2. ASSUME NEW c \in Cards, PublishCard(c) PROVE ExchangeTyped'
    BY <2>2 DEF PublishCard
  <2>3. CASE PruneKeyring
    BY <2>3 DEF PruneKeyring, Retained
  <2>4. ASSUME NEW c \in Cards, ObserveHistorical(c) PROVE ExchangeTyped'
    <3>1. /\ c \in signed /\ Pin(c)
          /\ UNCHANGED <<now, skew, signed, keyring, sealed>>
      BY <2>4 DEF ObserveHistorical
    <3>2. pins' = [pins EXCEPT ![c.mailbox_id] = c] /\ greatest' \in [Mailboxes -> Nat]
      BY <3>1, PinEffect
    <3> QED
      BY <3>1, <3>2
  <2>5. ASSUME NEW l \in Labels, NEW c \in Cards, Seal(l, c) PROVE ExchangeTyped'
    <3>1. /\ c \in signed /\ Pin(c)
          /\ UNCHANGED <<now, skew, signed, keyring>>
          /\ sealed' \subseteq Packets
      BY <2>5, SealEffect
    <3>2. pins' = [pins EXCEPT ![c.mailbox_id] = c] /\ greatest' \in [Mailboxes -> Nat]
      BY <3>1, PinEffect
    <3> QED
      BY <3>1, <3>2
  <2>6. CASE PrunePins
    BY <2>6 DEF PrunePins
  <2>7. CASE UNCHANGED <<now, skew, signed, keyring, pins, sealed, greatest>>
    BY <2>7
  <2> QED
    BY <2>1, <2>2, <2>3, <2>4, <2>5, <2>6, <2>7
       DEF Next, vars, Accept, SetSenderBlocked, PruneInbox, Save, Crash
<1> QED
  BY <1>1, <1>2, PTL DEF Spec

(* The owner's secrets and the order of the owner's cards. *)
LEMMA OwnersCards == Spec => [](SecretsRetained /\ SignedInOrder)
<1>1. Init => SecretsRetained /\ SignedInOrder
  BY DEF Init, SecretsRetained, SignedInOrder
<1>2. ExchangeTyped /\ SecretsRetained /\ SignedInOrder /\ [Next]_vars
        => SecretsRetained' /\ SignedInOrder'
  <2> SUFFICES ASSUME ExchangeTyped, SecretsRetained, SignedInOrder, [Next]_vars
               PROVE  SecretsRetained' /\ SignedInOrder'
    OBVIOUS
  <2>0. /\ owner_now \in Int
        /\ \A c \in signed : /\ c.receive_until \in Nat /\ c.created_at \in Nat
                             /\ c.nonce \in Nat
    BY CardData DEF ExchangeTyped, owner_now
  <2> USE DEF SecretsRetained, SignedInOrder
  <2>1. CASE Tick
    <3>1. owner_now' = owner_now + 1 /\ UNCHANGED <<signed, keyring>>
      BY <2>1 DEF Tick, owner_now, ExchangeTyped
    <3> QED
      BY <2>0, <3>1
  <2>2. ASSUME NEW c \in Cards, PublishCard(c) PROVE SecretsRetained' /\ SignedInOrder'
    <3>1. /\ c.created_at = owner_now /\ \A d \in signed : d.nonce < c.nonce
          /\ signed' = signed \cup {c} /\ keyring' = keyring \cup {c}
          /\ owner_now' = owner_now
      BY <2>2 DEF PublishCard, SignMailCard, owner_now
    <3>2. c.nonce \in Nat
      BY CardData
    <3> QED
      BY <2>0, <3>1, <3>2
  <2>3. CASE PruneKeyring
    <3>1. /\ keyring' = {c \in keyring : owner_now < c.receive_until}
          /\ signed' = signed /\ owner_now' = owner_now
      BY <2>3 DEF PruneKeyring, Retained, owner_now
    <3> QED
      BY <3>1
  <2>4. CASE UNCHANGED <<now, skew, signed, keyring>>
    BY <2>4 DEF owner_now
  <2> QED
    BY <2>1, <2>2, <2>3, <2>4, SealEffect
       DEF Next, vars, ObserveHistorical, PrunePins, Accept, SetSenderBlocked,
           PruneInbox, Save, Crash
<1> QED
  BY <1>1, <1>2, ExchangeTyping, PTL DEF Spec

(* Every packet in circulation passed the checks of its sender. *)
LEMMA SealedPackets == Spec => []SealedChecked
<1>1. Init => SealedChecked
  BY DEF Init, SealedChecked
<1>2. ExchangeTyped /\ SealedChecked /\ [Next]_vars => SealedChecked'
  <2> SUFFICES ASSUME ExchangeTyped, SealedChecked, [Next]_vars PROVE SealedChecked'
    OBVIOUS
  <2>1. ASSUME NEW l \in Labels, NEW c \in Cards, Seal(l, c) PROVE SealedChecked'
    BY <2>1, SealEffect DEF SealedChecked
  <2>2. CASE signed \subseteq signed' /\ UNCHANGED sealed
    BY <2>2 DEF SealedChecked
  <2> QED
    BY <2>1, <2>2
       DEF Next, vars, Tick, PublishCard, PruneKeyring, ObserveHistorical, PrunePins,
           Accept, SetSenderBlocked, PruneInbox, Save, Crash
<1> QED
  BY <1>1, <1>2, ExchangeTyping, PTL DEF Spec

(* The secret of a card outlives every message sealed for it. *)
THEOREM MailOpens == Spec => []UnexpiredMailOpens
<1>1. ExchangeTyped /\ SecretsRetained /\ SealedChecked => UnexpiredMailOpens
  <2> SUFFICES ASSUME ExchangeTyped, SecretsRetained, SealedChecked, NEW p \in sealed,
                      owner_now < p.expires_at,
                      p.created_at <= owner_now + FUTURE_SKEW_MS,
                      message[p.label].created_at <= owner_now + FUTURE_SKEW_MS
               PROVE  Opens(p)
    BY DEF UnexpiredMailOpens
  <2> DEFINE c == p.card_hash
  <2>1. /\ c \in signed /\ p.label \in Labels /\ p.mailbox_id = c.mailbox_id
        /\ p.size <= c.max_packet_bytes /\ p.sender = message[p.label].sender
        /\ p.expires_at = message[p.label].expires_at
        /\ p.expires_at <= c.receive_until
        /\ message[p.label].created_at <= p.created_at
    BY DEF SealedChecked
  <2>2. /\ p \in Packets /\ p.created_at \in Nat /\ p.expires_at \in Nat
        /\ c.receive_until \in Nat /\ owner_now \in Int
        /\ message[p.label].created_at \in Nat
    BY <2>1, CardData, MessageData, PacketsAssumption
       DEF ExchangeTyped, PacketFields, owner_now
  <2>3. c \in keyring
    BY <2>1, <2>2 DEF SecretsRetained
  <2>4. message[p.label].created_at <= p.created_at + FUTURE_SKEW_MS
    BY <2>1, <2>2, LimitData
  <2> QED
    BY <2>1, <2>3, <2>4 DEF Opens
<1> QED
  BY <1>1, ExchangeTyping, OwnersCards, SealedPackets, PTL
-----------------------------------------------------------------------------
(* Pinning a card in circulation keeps track of the newest card seen. *)
LEMMA PinKeepsNewest ==
  ASSUME ExchangeTyped, NewestPinned, NEW c \in signed, Pin(c),
         UNCHANGED <<now, skew, signed>>
  PROVE  NewestPinned'
<1> DEFINE m == c.mailbox_id
<1>1. /\ m \in Mailboxes /\ pins'[m] = c
      /\ pins[m] # NoCard => pins[m] = c \/ c.nonce > pins[m].nonce
      /\ greatest'[m] = IF c.nonce > greatest[m] THEN c.nonce ELSE greatest[m]
      /\ \A n \in Mailboxes \ {m} : pins'[n] = pins[n] /\ greatest'[n] = greatest[n]
  BY PinEffect
<1>2. c.nonce \in Nat /\ c.nonce >= 1 /\ greatest[m] \in Nat /\ c # NoCard
  BY <1>1, CardData DEF ExchangeTyped
<1>3. sender_now' = sender_now /\ signed' = signed
  BY DEF sender_now
<1>4. ASSUME NEW n \in Mailboxes
      PROVE  /\ greatest'[n] # 0 => \E g \in signed : PinOrPast(n, g)'
             /\ pins'[n] # NoCard => greatest'[n] # 0
  <2>1. CASE n # m
    BY <1>1, <1>3, <2>1 DEF NewestPinned, PinOrPast
  <2>2. CASE n = m /\ c.nonce > greatest[m]
    <3>1. greatest'[m] = c.nonce
      BY <1>1, <2>2
    <3>2. PinOrPast(m, c)'
      BY <1>1, <1>3, <3>1 DEF PinOrPast
    <3> QED
      BY <1>2, <2>2, <3>1, <3>2
  <2>3. CASE n = m /\ ~ (c.nonce > greatest[m])
    <3>1. greatest'[m] = greatest[m] /\ greatest[m] # 0
      BY <1>1, <1>2, <2>3
    <3>2. PICK g \in signed : PinOrPast(m, g)
      BY <1>1, <3>1 DEF NewestPinned
    <3>3. g.nonce = greatest[m] /\ g # NoCard
      BY <3>2, CardData DEF PinOrPast, ExchangeTyped
    <3>4. pins[m] = g => g = c
      BY <1>1, <1>2, <2>3, <3>3
    <3>5. PinOrPast(m, g)'
      BY <1>1, <1>3, <3>1, <3>2, <3>4 DEF PinOrPast
    <3> QED
      BY <2>3, <3>1, <3>5
  <2> QED
    BY <2>1, <2>2, <2>3
<1> QED
  BY <1>3, <1>4 DEF NewestPinned

(* A sender's pin of a mailbox is always the newest card it has seen.      *)
LEMMA SendersPins == Spec => []NewestPinned
<1>1. Init => NewestPinned
  BY DEF Init, NewestPinned
<1>2. ExchangeTyped /\ NewestPinned /\ [Next]_vars => NewestPinned'
  <2> SUFFICES ASSUME ExchangeTyped, NewestPinned, [Next]_vars PROVE NewestPinned'
    OBVIOUS
  <2>0. /\ sender_now \in Int /\ \A g \in signed : g.created_at \in Nat /\ g # NoCard
        /\ MAX_TTL_MS \in Nat /\ FUTURE_SKEW_MS \in Nat
    BY CardData, LimitData DEF ExchangeTyped, sender_now
  <2>1. CASE Tick
    <3>1. sender_now' = sender_now + 1 /\ UNCHANGED <<signed, pins, greatest>>
      BY <2>1 DEF Tick, sender_now, ExchangeTyped
    <3>2. \A m \in Mailboxes : \A g \in signed : PinOrPast(m, g) => PinOrPast(m, g)'
      BY <2>0, <3>1 DEF PinOrPast
    <3> QED
      BY <3>1, <3>2 DEF NewestPinned
  <2>2. ASSUME NEW c \in Cards, ObserveHistorical(c) PROVE NewestPinned'
    BY <2>2, PinKeepsNewest DEF ObserveHistorical
  <2>3. ASSUME NEW l \in Labels, NEW c \in Cards, Seal(l, c) PROVE NewestPinned'
    BY <2>3, SealEffect, PinKeepsNewest
  <2>4. CASE PrunePins
    <3>1. /\ UNCHANGED <<signed, greatest>> /\ sender_now' = sender_now
          /\ \A m \in Mailboxes :
                pins'[m] = IF pins[m] # NoCard /\ PinKept(pins[m]) THEN pins[m] ELSE NoCard
      BY <2>4 DEF PrunePins, sender_now
    <3>2. ASSUME NEW m \in Mailboxes, NEW g \in signed, PinOrPast(m, g)
          PROVE  PinOrPast(m, g)'
      <4>1. CASE PinKept(g)
        BY <2>0, <3>1, <3>2, <4>1 DEF PinOrPast
      <4>2. CASE ~ PinKept(g)
        <5>1. sender_now >= g.created_at + MAX_TTL_MS + FUTURE_SKEW_MS
          BY <2>0, <4>2 DEF PinKept
        <5> QED
          BY <3>1, <3>2, <5>1 DEF PinOrPast
      <4> QED
        BY <4>1, <4>2
    <3> QED
      BY <3>1, <3>2 DEF NewestPinned
  <2>5. CASE signed \subseteq signed' /\ UNCHANGED <<now, skew, pins, greatest>>
    <3>1. \A m \in Mailboxes : \A g \in signed : PinOrPast(m, g) => PinOrPast(m, g)'
      BY <2>5 DEF PinOrPast, sender_now
    <3> QED
      BY <2>5, <3>1 DEF NewestPinned
  <2> QED
    BY <2>1, <2>2, <2>3, <2>4, <2>5
       DEF Next, vars, PublishCard, PruneKeyring, Accept, SetSenderBlocked,
           PruneInbox, Save, Crash
<1> QED
  BY <1>1, <1>2, ExchangeTyping, PTL DEF Spec

(* No message is sealed for a card older than one the sender has seen: a   *)
(* pruned pin leaves only cards behind that have expired, because the      *)
(* owner's nonces follow the owner's clock.                                *)
THEOREM SealsForNewest == Spec => NeverSealsForOlderCard
<1> DEFINE SealsNewest ==
      \A p \in sealed' \ sealed : p.card_hash.nonce >= greatest[p.mailbox_id]
<1>1. ExchangeTyped /\ SignedInOrder /\ NewestPinned /\ [Next]_vars
        => [SealsNewest]_vars
  <2> SUFFICES ASSUME ExchangeTyped, SignedInOrder, NewestPinned, [Next]_vars
               PROVE  SealsNewest
    OBVIOUS
  <2>1. ASSUME NEW l \in Labels, NEW c \in Cards, Seal(l, c) PROVE SealsNewest
    <3> DEFINE m == c.mailbox_id
    <3>1. /\ c \in signed /\ Pin(c) /\ sender_now < c.expires_at
          /\ \A p \in sealed' \ sealed : p.card_hash = c /\ p.mailbox_id = m
      BY <2>1, SealEffect
    <3>2. /\ m \in Mailboxes
          /\ pins[m] # NoCard => pins[m] = c \/ c.nonce > pins[m].nonce
      BY <3>1, PinEffect
    <3>3. /\ c.nonce \in Nat /\ c.created_at \in Nat /\ c.expires_at \in Nat
          /\ c.expires_at <= c.created_at + MAX_TTL_MS /\ greatest[m] \in Nat
          /\ sender_now \in Int /\ MAX_TTL_MS \in Nat /\ FUTURE_SKEW_MS \in Nat
      BY <3>2, CardData, LimitData DEF ExchangeTyped, sender_now
    <3>4. c.nonce >= greatest[m]
      <4> SUFFICES ASSUME ~ (c.nonce >= greatest[m]) PROVE FALSE
        OBVIOUS
      <4>1. PICK g \in signed : PinOrPast(m, g)
        BY <3>2, <3>3 DEF NewestPinned
      <4>2. g.nonce = greatest[m] /\ g # NoCard /\ g.created_at \in Nat
        BY <4>1, CardData DEF PinOrPast, ExchangeTyped
      <4>3. pins[m] # g
        BY <3>2, <3>3, <4>2
      <4>4. c.created_at <= g.created_at
        BY <3>1, <3>3, <4>2 DEF SignedInOrder
      <4>5. sender_now >= g.created_at + MAX_TTL_MS + FUTURE_SKEW_MS
        BY <4>1, <4>3 DEF PinOrPast
      <4> QED
        BY <3>1, <3>3, <4>2, <4>4, <4>5
    <3> QED
      BY <3>1, <3>4
  <2>2. CASE UNCHANGED sealed
    BY <2>2
  <2> QED
    BY <2>1, <2>2
       DEF Next, vars, Tick, PublishCard, PruneKeyring, ObserveHistorical, PrunePins,
           Accept, SetSenderBlocked, PruneInbox, Save, Crash
<1> QED
  BY <1>1, ExchangeTyping, OwnersCards, SendersPins, PTL
     DEF Spec, NeverSealsForOlderCard
-----------------------------------------------------------------------------
(* An inbox that lost nothing but what expired is as sound as before.      *)
LEMMA InboxAges ==
  ASSUME NEW i, InboxSound(i), ExchangeTyped, now' >= now, now' \in Int, UNCHANGED skew
  PROVE  /\ Ordered(i) /\ InboxTyped(i)
         /\ \A n \in DOMAIN i.stored :
              owner_now' < message[i.stored[n]].expires_at =>
                /\ Key(i.stored[n]) \in DOMAIN i.accepted
                /\ i.accepted[Key(i.stored[n])].expires_at
                     = message[i.stored[n]].expires_at
<1>1. \A n \in DOMAIN i.stored :
        i.stored[n] \in Labels /\ message[i.stored[n]].expires_at \in Nat
  BY MessageData DEF InboxSound, InboxTyped
<1>2. owner_now' >= owner_now /\ owner_now \in Int /\ owner_now' \in Int
  BY DEF owner_now, ExchangeTyped
<1> QED
  BY <1>1, <1>2 DEF InboxSound, Remembers

(* The inbox and its last snapshot remember what they took. *)
LEMMA InboxSoundness == Spec => []InboxesSound
<1>1. Init => InboxesSound
  BY DEF Init, InboxesSound, InboxSound, InboxTyped, Remembers, Ordered, Snapshot
<1>2. ExchangeTyped /\ SealedChecked /\ InboxesSound /\ [Next]_vars => InboxesSound'
  <2> SUFFICES ASSUME ExchangeTyped, SealedChecked, InboxesSound, [Next]_vars PROVE InboxesSound'
    OBVIOUS
  <2>0. InboxSound(Snapshot) /\ InboxSound(saved)
    BY DEF InboxesSound
  <2>1. CASE Tick
    <3>1. now' = now + 1 /\ UNCHANGED <<skew, inbox, saved>>
      BY <2>1 DEF Tick
    <3>2. now' >= now /\ now' \in Int /\ Snapshot' = Snapshot
      BY <3>1 DEF ExchangeTyped, Snapshot, inbox
    <3> QED
      BY <2>0, <3>1, <3>2, InboxAges DEF InboxesSound, InboxSound, InboxTyped, Remembers, Ordered
  <2>2. ASSUME NEW p \in Packets, Accept(p) PROVE InboxesSound'
    <3> DEFINE l == p.label
               k == Key(l)
               last == Len(stored) + 1
    <3>1. /\ accepted' = insert(accepted, k, NewAcceptance(l))
          /\ stored' = Append(stored, l)
          /\ owner_now < message[l].expires_at /\ k \notin DOMAIN accepted
          /\ owner_now' = owner_now /\ UNCHANGED saved /\ p \in sealed
      BY <2>2 DEF Accept, NewMessage, owner_now
    <3>2. /\ l \in Labels /\ message[l].expires_at \in Nat /\ owner_now \in Int
      BY <3>1, MessageData DEF SealedChecked, ExchangeTyped, owner_now
    <3>3. /\ DOMAIN accepted' = DOMAIN accepted \cup {k}
          /\ accepted'[k].expires_at = message[l].expires_at
          /\ \A j \in DOMAIN accepted : accepted'[j] = accepted[j]
      BY <3>1 DEF insert, NewAcceptance
    <3>4. /\ stored \in Seq(Labels)
          /\ \A n \in DOMAIN stored :
                /\ stored[n] \in Labels /\ message[stored[n]].expires_at \in Nat
                /\ owner_now < message[stored[n]].expires_at =>
                     /\ Key(stored[n]) \in DOMAIN accepted
                     /\ accepted[Key(stored[n])].expires_at = message[stored[n]].expires_at
          /\ \A n, j \in DOMAIN stored :
                ( n < j /\ Key(stored[n]) = Key(stored[j]) ) =>
                   message[stored[n]].expires_at < message[stored[j]].expires_at
      <4>1. stored \in Seq(Labels)
        BY <2>0 DEF InboxSound, InboxTyped, Snapshot
      <4> QED
        BY <2>0, <4>1, MessageData DEF InboxSound, Remembers, Ordered, Snapshot
    <3>5. /\ stored' \in Seq(Labels)
          /\ DOMAIN stored' = DOMAIN stored \cup {last} /\ DOMAIN stored = 1..Len(stored)
          /\ last = Len(stored) + 1 /\ Len(stored) \in Nat
          /\ stored'[last] = l /\ \A n \in DOMAIN stored : stored'[n] = stored[n]
      BY <3>1, <3>2, <3>4
    <3> HIDE DEF k, last
    <3>6. ASSUME NEW n \in DOMAIN stored', owner_now < message[stored'[n]].expires_at
          PROVE  /\ Key(stored'[n]) \in DOMAIN accepted'
                 /\ accepted'[Key(stored'[n])].expires_at = message[stored'[n]].expires_at
      <4>1. CASE n = last
        BY <3>2, <3>3, <3>5, <4>1 DEF k
      <4>2. CASE n \in DOMAIN stored
        BY <3>3, <3>4, <3>5, <3>6, <4>2
      <4> QED
        BY <3>5, <4>1, <4>2
    <3>7. ASSUME NEW n \in DOMAIN stored', NEW j \in DOMAIN stored', n < j,
                 Key(stored'[n]) = Key(stored'[j])
          PROVE  message[stored'[n]].expires_at < message[stored'[j]].expires_at
      <4>1. n \in DOMAIN stored
        BY <3>5, <3>7
      <4>2. CASE j = last
        <5>1. Key(stored[n]) = k
          BY <3>5, <3>7, <4>1, <4>2 DEF k
        <5>2. ~ (owner_now < message[stored[n]].expires_at)
          BY <3>1, <3>4, <4>1, <5>1
        <5> QED
          BY <3>1, <3>2, <3>4, <3>5, <4>1, <4>2, <5>2
      <4>3. CASE j \in DOMAIN stored
        BY <3>4, <3>5, <3>7, <4>1, <4>3
      <4> QED
        BY <3>5, <4>2, <4>3
    <3>8. InboxSound(Snapshot)'
      BY <3>1, <3>5, <3>6, <3>7 DEF InboxSound, InboxTyped, Remembers, Ordered, Snapshot
    <3>9. InboxSound(saved)'
      BY <2>0, <3>1 DEF InboxSound, InboxTyped, Remembers, Ordered
    <3> QED
      BY <3>8, <3>9 DEF InboxesSound
  <2>3. CASE PruneInbox
    <3> DEFINE kept == {j \in DOMAIN accepted : owner_now < accepted[j].expires_at}
    <3>1. /\ accepted' = Restrict(accepted, kept)
          /\ owner_now' = owner_now /\ UNCHANGED <<stored, saved>>
      BY <2>3 DEF PruneInbox, owner_now
    <3>2. DOMAIN accepted' = kept /\ \A j \in kept : accepted'[j] = accepted[j]
      BY <3>1 DEF Restrict
    <3>4. ASSUME NEW n \in DOMAIN stored, owner_now < message[stored[n]].expires_at
          PROVE  /\ Key(stored[n]) \in DOMAIN accepted'
                 /\ accepted'[Key(stored[n])].expires_at = message[stored[n]].expires_at
      <4> DEFINE j == Key(stored[n])
      <4>1. j \in DOMAIN accepted /\ accepted[j].expires_at = message[stored[n]].expires_at
        BY <2>0, <3>4 DEF InboxSound, Remembers, Snapshot
      <4>2. j \in kept
        BY <3>4, <4>1
      <4> QED
        BY <3>2, <4>1, <4>2
    <3>5. InboxSound(Snapshot)'
      BY <2>0, <3>1, <3>4 DEF InboxSound, InboxTyped, Remembers, Ordered, Snapshot
    <3> QED
      BY <2>0, <3>1, <3>5 DEF InboxesSound, InboxSound, InboxTyped, Remembers, Ordered
  <2>4. CASE Save
    <3>1. saved' = Snapshot /\ Snapshot' = Snapshot /\ owner_now' = owner_now
      BY <2>4 DEF Save, Snapshot, inbox, owner_now
    <3> QED
      BY <2>0, <3>1 DEF InboxesSound, InboxSound, InboxTyped, Remembers, Ordered
  <2>5. CASE Crash
    <3>1. /\ accepted' = saved.accepted /\ stored' = saved.stored
          /\ saved' = saved /\ owner_now' = owner_now
      BY <2>5 DEF Crash, owner_now
    <3>2. Snapshot'.accepted = saved.accepted /\ Snapshot'.stored = saved.stored
      BY <3>1 DEF Snapshot
    <3> QED
      BY <2>0, <3>1, <3>2 DEF InboxesSound, InboxSound, InboxTyped, Remembers, Ordered
  <2>6. CASE UNCHANGED <<now, skew, accepted, stored, saved>>
    <3>1. /\ Snapshot'.accepted = Snapshot.accepted /\ Snapshot'.stored = Snapshot.stored
          /\ saved' = saved /\ owner_now' = owner_now
      BY <2>6 DEF Snapshot, owner_now
    <3> QED
      BY <2>0, <3>1 DEF InboxesSound, InboxSound, InboxTyped, Remembers, Ordered
  <2> QED
    BY <2>1, <2>2, <2>3, <2>4, <2>5, <2>6, SealEffect
       DEF Next, vars, inbox, PublishCard, PruneKeyring, ObserveHistorical, PrunePins,
           SetSenderBlocked
<1> QED
  BY <1>1, <1>2, ExchangeTyping, SealedPackets, PTL DEF Spec

(* No message is taken twice: a key is free again only after the deadline  *)
(* of every message taken under it, also after a crash lost what came      *)
(* after the last snapshot.                                                *)
THEOREM MailReceivedOnce == Spec => []ReceivedOnce
<1>1. InboxesSound => ReceivedOnce
  BY DEF InboxesSound, InboxSound, Ordered, Snapshot, ReceivedOnce
<1> QED
  BY <1>1, InboxSoundness, PTL
=============================================================================
