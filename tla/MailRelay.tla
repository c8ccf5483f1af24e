------------------------------- MODULE MailRelay -------------------------------
(***************************************************************************)
(* MailRelayStore: the store-and-forward relay of Agent Mail at one        *)
(* origin.  Owners publish signed cards, anybody delivers signed packets,  *)
(* owners page through, and delete, what is stored, the host blocks        *)
(* senders, prunes, and restarts the relay from its last snapshot.         *)
(*                                                                         *)
(* Deliveries and publications may arrive at any time, in any order and    *)
(* any number of times.  A refused call that changes nothing is a          *)
(* stuttering step; one that changes something (a delivery refused for     *)
(* quota or policy has already dropped expired packets) is an action.      *)
(***************************************************************************)
EXTENDS MailRules, Sequences, FiniteSets, Functions, FiniteSetsExt

CONSTANTS
    Origin,       \* this relay
    max_packets,  \* per-mailbox quota of stored packets
    max_bytes,    \* per-mailbox quota of stored bytes
    PageLimit,    \* the limit of a list request
    MaxTime,      \* bound on the clock
    MaxRestarts,  \* bound on the restarts
    NoCard        \* the current card of an identifier nobody registered

ASSUME RelayAssumption ==
    /\ Origin \in Origins
    /\ max_packets \in Nat \ {0} /\ max_bytes \in Nat \ {0}
    /\ PageLimit \in 1..1000
    /\ MaxTime \in Nat /\ MaxRestarts \in Nat
    /\ NoCard \notin Cards

VARIABLES
    now,         \* the relay's clock
    nonces,      \* MemoryNonceStore of the origin, in memory only
    current,     \* current card of each mailbox, or NoCard
    last_seq,    \* last sequence number given in the mailbox
    bytes,       \* accounted size of the stored packets
    packets,     \* stored packets: [packet -> accepted_at, seq]
    tombstones,  \* accepted packets not yet expired: [packet -> accepted_at]
    blocked,     \* blocked senders of each mailbox
    reader,      \* an owner's enumeration of a mailbox
    restarts,    \* history: how often the relay restarted
    accepted,    \* history: every accepted delivery
    deleted      \* history: packets their owner deleted

store == <<current, last_seq, bytes, packets, tombstones, blocked>>
history == <<restarts, accepted, deleted>>
vars == <<now, nonces, store, reader, history>>

PacketRecord == [accepted_at : 0..MaxTime, seq : 1..MAX_SAFE_NONCE]

(* A list enumeration: the cursor, what it returned, what was there first. *)
Reader == [state : {"idle", "paging", "done"}, cursor : 0..MAX_SAFE_NONCE,
           seen : SUBSET Packets, due : SUBSET Packets]

IdleReader == [state |-> "idle", cursor |-> 0, seen |-> {}, due |-> {}]

TypeOK ==
    /\ now \in 0..MaxTime
    /\ nonces \in [Agents -> NonceRecord]
    /\ current \in [Mailboxes -> Cards \cup {NoCard}]
    /\ last_seq \in [Mailboxes -> 0..MAX_SAFE_NONCE]
    /\ bytes \in [Mailboxes -> 0..max_bytes]
    /\ \A m \in Mailboxes :
          /\ DOMAIN packets[m] \subseteq Packets
          /\ packets[m] \in [DOMAIN packets[m] -> PacketRecord]
          /\ DOMAIN tombstones[m] \subseteq Packets
          /\ tombstones[m] \in [DOMAIN tombstones[m] -> 0..MaxTime]
    /\ blocked \in [Mailboxes -> SUBSET Agents]
    /\ reader \in [Mailboxes -> Reader]
    /\ restarts \in 0..MaxRestarts
    /\ accepted \in Seq([packet : Packets, accepted_at : 0..MaxTime,
                         seq : 1..MAX_SAFE_NONCE])
    /\ deleted \subseteq Packets

Init ==
    /\ now = 0
    /\ nonces = [a \in Agents |-> NoRecord]
    /\ current = [m \in Mailboxes |-> NoCard]
    /\ last_seq = [m \in Mailboxes |-> 0]
    /\ bytes = [m \in Mailboxes |-> 0]
    /\ packets = [m \in Mailboxes |-> <<>>]
    /\ tombstones = [m \in Mailboxes |-> <<>>]
    /\ blocked = [m \in Mailboxes |-> {}]
    /\ reader = [m \in Mailboxes |-> IdleReader]
    /\ restarts = 0
    /\ accepted = <<>>
    /\ deleted = {}

Tick ==
    /\ now < MaxTime
    /\ now' = now + 1
    /\ UNCHANGED <<nonces, store, reader, history>>

Registered(m) == current[m] # NoCard

Size(stored) == MapThenSumSet(LAMBDA p : p.size, DOMAIN stored)

Unexpired(stored) == {p \in DOMAIN stored : now < p.expires_at}

drop_expired_Rotated(m) ==  \* fault: rotation drops the mail of older cards
    Restrict(packets[m], {p \in Unexpired(packets[m]) : p.card_hash = current[m]})

drop_expired(m) == Restrict(packets[m], Unexpired(packets[m]))
-----------------------------------------------------------------------------
(* Card publication *)

PublishAllowed_AnyOwner(c) ==  \* fault: no mailbox_conflict check
    LET m == c.mailbox_id IN
    /\ IF Registered(m) THEN c.nonce > current[m].nonce ELSE Origin \in c.routes
    /\ verify_timestamp(c.created_at, now, FUTURE_SKEW_MS)
    /\ NonceAllowed(nonces[c.owner], c.nonce, now)

PublishAllowed_CacheOnly(c) ==  \* fault: card order left to the nonce cache
    LET m == c.mailbox_id IN
    /\ IF Registered(m)
       THEN current[m].owner = c.owner /\ current[m] # c
       ELSE Origin \in c.routes
    /\ verify_timestamp(c.created_at, now, FUTURE_SKEW_MS)
    /\ NonceAllowed(nonces[c.owner], c.nonce, now)

PublishAllowed(c) ==
    LET m == c.mailbox_id IN
    /\ IF Registered(m)
       THEN /\ current[m].owner = c.owner
            /\ current[m] # c
            /\ c.nonce > current[m].nonce
       ELSE Origin \in c.routes
    /\ verify_timestamp(c.created_at, now, FUTURE_SKEW_MS)
    /\ NonceAllowed(nonces[c.owner], c.nonce, now)

(* An exact resubmission of the current card is answered without a change. *)
Publish(c) ==
    /\ PublishAllowed(c)
    /\ nonces' = [nonces EXCEPT ![c.owner] =
                     UpdatedRecord(c.nonce, now, 2 * FUTURE_SKEW_MS)]
    /\ current' = [current EXCEPT ![c.mailbox_id] = c]
    /\ UNCHANGED <<now, last_seq, bytes, packets, tombstones, blocked, reader,
                   restarts, accepted, deleted>>
-----------------------------------------------------------------------------
(* Delivery *)

(* The checks of deliver up to the first change it makes.  A packet with a *)
(* tombstone is answered with its original acceptance and goes no further. *)
DeliveryChecked(p) ==
    LET m == p.mailbox_id
        card == current[m]
    IN  /\ Registered(m)
        /\ p \notin DOMAIN tombstones[m]
        /\ Origin \in card.routes
        /\ p.card_hash = card /\ now < card.expires_at
        /\ now < p.expires_at
        /\ p.expires_at <= card.receive_until
        /\ p.expires_at <= now + MAX_TTL_MS + FUTURE_SKEW_MS
        /\ p.created_at <= now + FUTURE_SKEW_MS
        /\ p.size <= card.max_packet_bytes

DroppedBytes_Kept(m) ==  \* fault: the branches of retain are swapped
    Size(Restrict(packets[m], Unexpired(packets[m])))

DroppedBytes(m) ==
    Size(Restrict(packets[m], DOMAIN packets[m] \ Unexpired(packets[m])))

(* The quota counts what is left once the expired packets are dropped.     *)
QuotaLeft(p) ==
    LET m == p.mailbox_id IN
    /\ Cardinality(Unexpired(packets[m])) < max_packets
    /\ bytes[m] - DroppedBytes(m) + p.size <= max_bytes
    /\ last_seq[m] < MAX_SAFE_NONCE

NextSeq(m) == last_seq[m] + 1

Deliver(p) ==
    LET m == p.mailbox_id
        seq == NextSeq(m)
    IN  /\ DeliveryChecked(p)
        /\ QuotaLeft(p)
        /\ p.sender \notin blocked[m]
        /\ last_seq' = [last_seq EXCEPT ![m] = seq]
        /\ bytes' = [bytes EXCEPT ![m] = @ - DroppedBytes(m) + p.size]
        /\ packets' = [packets EXCEPT ![m] =
               insert(drop_expired(m), p, [accepted_at |-> now, seq |-> seq])]
        /\ tombstones' = [tombstones EXCEPT ![m] = insert(@, p, now)]
        /\ accepted' = Append(accepted,
               [packet |-> p, accepted_at |-> now, seq |-> seq])
        /\ UNCHANGED <<now, nonces, current, blocked, reader, restarts,
                       deleted>>

DeliverRefused(p) ==
    LET m == p.mailbox_id IN
    /\ DeliveryChecked(p)
    /\ ~ QuotaLeft(p) \/ p.sender \in blocked[m]
    /\ packets' = [packets EXCEPT ![m] = drop_expired(m)]
    /\ bytes' = [bytes EXCEPT ![m] = @ - DroppedBytes(m)]
    /\ UNCHANGED <<now, nonces, current, last_seq, tombstones, blocked, reader,
                   history>>

(* The result of deliver for a packet the mailbox has a tombstone of.      *)
OriginalResult(p) == tombstones[p.mailbox_id][p]
-----------------------------------------------------------------------------
(* The owner's requests and the host's policy *)

SetSenderBlocked(m, s, isBlocked) ==
    /\ Registered(m)
    /\ blocked' = [blocked EXCEPT ![m] =
                      IF isBlocked THEN @ \cup {s} ELSE @ \ {s}]
    /\ UNCHANGED <<now, nonces, current, last_seq, bytes, packets, tombstones,
                   reader, history>>

Delete_KeepsBytes(m, p) ==  \* fault: the byte count is not given back
    /\ Registered(m)
    /\ p \in DOMAIN packets[m]
    /\ packets' = [packets EXCEPT ![m] = Restrict(@, DOMAIN @ \ {p})]
    /\ deleted' = deleted \cup {p}
    /\ UNCHANGED <<now, nonces, current, last_seq, bytes, tombstones, blocked,
                   reader, restarts, accepted>>

Delete(m, p) ==
    /\ Registered(m)
    /\ p \in DOMAIN packets[m]
    /\ packets' = [packets EXCEPT ![m] = Restrict(@, DOMAIN @ \ {p})]
    /\ bytes' = [bytes EXCEPT ![m] = @ - p.size]
    /\ deleted' = deleted \cup {p}
    /\ UNCHANGED <<now, nonces, current, last_seq, tombstones, blocked, reader,
                   restarts, accepted>>

(* A request without a cursor starts an enumeration.                       *)
ListFirst(m) ==
    /\ Registered(m)
    /\ reader[m].state # "paging"
    /\ reader' = [reader EXCEPT ![m] =
          [state |-> "paging", cursor |-> 0, seen |-> {},
           due |-> Unexpired(packets[m])]]
    /\ UNCHANGED <<now, nonces, store, history>>

Matching(m) == {p \in Unexpired(packets[m]) : packets[m][p].seq > reader[m].cursor}

Page_Unsorted(m) ==  \* fault: truncated before it is sorted by seq
    CHOOSE page \in SUBSET Matching(m) :
        \/ page = Matching(m) /\ Cardinality(page) <= PageLimit
        \/ Cardinality(Matching(m)) > PageLimit /\ Cardinality(page) = PageLimit

Page(m) ==
    {p \in Matching(m) :
        Cardinality({q \in Matching(m) : packets[m][q].seq < packets[m][p].seq})
            < PageLimit}

ListNext(m) ==
    LET more == Page(m) # Matching(m) IN
    /\ Registered(m)
    /\ reader[m].state = "paging"
    /\ reader' = [reader EXCEPT ![m] =
          [state |-> IF more THEN "paging" ELSE "done",
           cursor |-> IF more THEN Max({packets[m][p].seq : p \in Page(m)})
                      ELSE reader[m].cursor,
           seen |-> reader[m].seen \cup Page(m),
           due |-> reader[m].due]]
    /\ UNCHANGED <<now, nonces, store, history>>
-----------------------------------------------------------------------------
(* Retention and restarts *)

LiveTombstones_Stored(m) ==  \* fault: a tombstone goes with its packet
    {p \in DOMAIN tombstones[m] : p \in Unexpired(packets[m])}

LiveTombstones(m) == {p \in DOMAIN tombstones[m] : now < p.expires_at}

(* What prune forgets once its mailbox holds nothing that must be kept.    *)
Forgotten_ByCard ==  \* fault: only the card's receive_until is looked at
    {m \in Mailboxes : Registered(m) /\ now >= current[m].receive_until}

Forgotten ==
    {m \in Mailboxes :
        /\ Registered(m)
        /\ now >= current[m].receive_until
        /\ Unexpired(packets[m]) = {}
        /\ LiveTombstones(m) = {}}

Prune ==
    /\ current' = [m \in Mailboxes |->
                      IF m \in Forgotten THEN NoCard ELSE current[m]]
    /\ last_seq' = [m \in Mailboxes |->
                      IF m \in Forgotten THEN 0 ELSE last_seq[m]]
    /\ packets' = [m \in Mailboxes |->
                      IF m \in Forgotten THEN <<>> ELSE drop_expired(m)]
    /\ bytes' = [m \in Mailboxes |->
                      IF m \in Forgotten THEN 0 ELSE bytes[m] - DroppedBytes(m)]
    /\ tombstones' = [m \in Mailboxes |->
                      IF m \in Forgotten THEN <<>>
                      ELSE Restrict(tombstones[m], LiveTombstones(m))]
    /\ blocked' = [m \in Mailboxes |->
                      IF m \in Forgotten THEN {} ELSE blocked[m]]
    /\ UNCHANGED <<now, nonces, reader, history>>

(* from_snapshot: the host saves a snapshot with every change, the nonce   *)
(* cache is not part of it and the byte count is computed anew.            *)
Restart ==
    /\ restarts < MaxRestarts
    /\ restarts' = restarts + 1
    /\ nonces' = [a \in Agents |-> NoRecord]
    /\ bytes' = [m \in Mailboxes |-> Size(packets[m])]
    /\ UNCHANGED <<now, current, last_seq, packets, tombstones, blocked, reader,
                   accepted, deleted>>
-----------------------------------------------------------------------------
(* Blocking anybody else tells no two behaviours apart.                    *)
Senders == {p.sender : p \in Packets}

Next ==
    \/ Tick
    \/ Prune
    \/ Restart
    \/ \E c \in Cards : Publish(c)
    \/ \E p \in Packets : Deliver(p) \/ DeliverRefused(p)
    \/ \E m \in Mailboxes :
          \/ \E s \in Senders, b \in BOOLEAN : SetSenderBlocked(m, s, b)
          \/ \E p \in Packets : Delete(m, p)
          \/ ListFirst(m)
          \/ ListNext(m)

Spec == Init /\ [][Next]_vars
-----------------------------------------------------------------------------
(***************************************************************************)
(* Until a packet expires a retried delivery is answered, and with the     *)
(* time of the original acceptance, whatever happened to the packet, the   *)
(* card or the sender in between.                                          *)
(***************************************************************************)
RetryAnswered ==
    \A i \in DOMAIN accepted :
        LET p == accepted[i].packet IN
        now < p.expires_at =>
            /\ Registered(p.mailbox_id)
            /\ p \in DOMAIN tombstones[p.mailbox_id]
            /\ OriginalResult(p) = accepted[i].accepted_at

(***************************************************************************)
(* What the relay accepted it keeps: until its expiry a packet leaves the  *)
(* store only because its owner deleted it; rotation to a shorter card,    *)
(* pruning, quota pressure and restarts never lose it.                     *)
(***************************************************************************)
AcceptedRetained ==
    \A i \in DOMAIN accepted :
        LET p == accepted[i].packet IN
        ( now < p.expires_at /\ p \notin deleted )
        => /\ p \in DOMAIN packets[p.mailbox_id]
           /\ packets[p.mailbox_id][p].seq = accepted[i].seq

(***************************************************************************)
(* Unexpired mail is only ever in the hands of the owner it was sealed     *)
(* for: no second registration of the identifier happens before it is gone.*)
(***************************************************************************)
MailStaysWithOwner ==
    \A m \in Mailboxes : \A p \in Unexpired(packets[m]) :
        Registered(m) /\ current[m].owner = p.card_hash.owner

(***************************************************************************)
(* The incremental byte count is the size of what is stored, and both      *)
(* quotas hold, over expiry, deletion, refused deliveries and restarts.    *)
(***************************************************************************)
QuotaHolds ==
    \A m \in Mailboxes :
        /\ bytes[m] = Size(packets[m])
        /\ bytes[m] <= max_bytes
        /\ Cardinality(DOMAIN packets[m]) <= max_packets

(***************************************************************************)
(* An enumeration that ended returned every packet that was listable when  *)
(* it began and still is, under deliveries, deletions, expiry, pruning and *)
(* a restart between its pages.                                            *)
(***************************************************************************)
EnumerationComplete ==
    \A m \in Mailboxes :
        reader[m].state = "done" =>
            reader[m].due \cap Unexpired(packets[m]) \subseteq reader[m].seen

(***************************************************************************)
(* While a mailbox is remembered its owner never changes and its card only *)
(* gives way to one of a greater nonce, also after a restart emptied the   *)
(* nonce cache.                                                            *)
(***************************************************************************)
CardNeverRollsBack ==
    [][\A m \in Mailboxes :
          ( Registered(m) /\ current[m]' # NoCard /\ current[m]' # current[m] )
          => /\ current[m]'.owner = current[m].owner
             /\ current[m]'.nonce > current[m].nonce]_vars

(***************************************************************************)
(* The promise of MailDelivery, read off the relay's state without its     *)
(* history: a packet is held while stored, gone once it was accepted or    *)
(* can no longer be, and new before.                                       *)
(***************************************************************************)
Status(p) ==
    LET m == p.mailbox_id IN
    IF p \in DOMAIN packets[m] THEN "held"
    ELSE IF p \in DOMAIN tombstones[m] \/ now >= p.expires_at THEN "gone"
    ELSE "new"

Promise == INSTANCE MailDelivery WITH status <- [p \in Packets |-> Status(p)]

PromiseKept == Promise!Spec
=============================================================================
