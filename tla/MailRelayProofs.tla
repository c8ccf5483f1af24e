---------------------------- MODULE MailRelayProofs ----------------------------
(***************************************************************************)
(* What the mail relay promises, for every set of cards and packets, every *)
(* quota, page limit, clock bound and number of restarts: its state has    *)
(* its type, retries are answered, accepted mail is retained and stays     *)
(* with its owner, the byte count is exact, enumerations miss nothing, no  *)
(* card rolls back, and the relay implements MailDelivery.                 *)
(***************************************************************************)
EXTENDS MailRelay, FiniteSetsExt, FiniteSetTheorems, TLAPS

(* A set of natural numbers has a least element.  The library's induction  *)
(* rules take an operator; what is shown by induction elsewhere is shown   *)
(* here by a least counterexample.                                         *)
LEMMA LeastNumber ==
  ASSUME NEW T \in SUBSET Nat, T # {}
  PROVE  \E x \in T : \A y \in T : x <= y
<1> DEFINE R == {ss \in Nat \X Nat : ss[1] < ss[2]}
<1>1. IsWellFoundedOn(R, Nat)
  BY NatLessThanWellFounded DEF OpToRel
<1>2. \A x, y \in Nat : <<y, x>> \in R <=> y < x
  OBVIOUS
<1> HIDE DEF R
<1>3. PICK x \in T : \A y \in T : ~ (<<y, x>> \in R)
  BY <1>1, WFMin
<1>4. ASSUME NEW y \in T PROVE x <= y
  <2>1. x \in Nat /\ y \in Nat
    OBVIOUS
  <2>2. ~ (y < x)
    BY <1>2, <1>3, <2>1
  <2> QED
    BY <2>1, <2>2
<1> QED
  BY <1>4
(* A bounded set of natural numbers has a maximum, and Max is it.          *)
LEMMA MaxOfBounded ==
  ASSUME NEW b \in Nat, NEW T \in SUBSET (0..b), T # {}
  PROVE  /\ Max(T) \in T
         /\ \A y \in T : Max(T) >= y
<1> DEFINE U == {n \in Nat : b - n \in T}
<1>1. U \in SUBSET Nat /\ U # {}
  <2>1. PICK x \in T : TRUE
    OBVIOUS
  <2>2. b - x \in Nat /\ b - (b - x) = x
    BY <2>1
  <2> QED
    BY <2>1, <2>2
<1>2. PICK u \in U : \A v \in U : u <= v
  BY <1>1, LeastNumber
<1>3. b - u \in T /\ u \in Nat
  OBVIOUS
<1>4. ASSUME NEW y \in T PROVE b - u >= y
  <2>1. b - y \in Nat /\ b - (b - y) = y
    OBVIOUS
  <2>2. b - y \in U
    BY <2>1
  <2>3. u <= b - y
    BY <1>2, <2>2
  <2> QED
    BY <2>1, <2>3, <1>3
<1> QED
  BY <1>3, <1>4 DEF Max
-----------------------------------------------------------------------------
(* What the assumptions say of one card and of one packet.                 *)
LEMMA CardData ==
  ASSUME NEW c \in Cards
  PROVE  /\ c.owner \in Agents /\ c.mailbox_id \in Mailboxes
         /\ c.nonce \in 1..MAX_SAFE_NONCE
         /\ c # NoCard
BY CardsAssumption, RelayAssumption DEF CardFields, validate_card

(* A packet that passes checked_packet has fields of their types and a     *)
(* deadline after time zero.                                               *)
LEMMA PacketData ==
  ASSUME NEW p \in Packets
  PROVE  /\ p.mailbox_id \in Mailboxes /\ p.sender \in Agents
         /\ p.card_hash \in Cards /\ p.size \in Nat
         /\ p.expires_at \in Nat /\ p.expires_at >= 1
<1>1. /\ p.mailbox_id \in Mailboxes /\ p.sender \in Agents
      /\ p.card_hash \in Cards /\ p.size \in Nat
      /\ p.expires_at \in Nat /\ p.created_at \in Nat
  BY PacketsAssumption DEF PacketFields
<1>2. p.expires_at - p.created_at >= 1
  BY <1>1, PacketsAssumption, MailTimeAssumption DEF checked_packet
<1> QED
  BY <1>1, <1>2

(* The limits of the relay are natural numbers, a page holds at least one  *)
(* packet.                                                                 *)
LEMMA LimitData ==
  /\ MAX_SAFE_NONCE \in Nat /\ MAX_SAFE_NONCE >= 1
  /\ max_packets \in Nat /\ max_bytes \in Nat
  /\ PageLimit \in Nat /\ PageLimit >= 1
  /\ MaxTime \in Nat /\ MaxRestarts \in Nat /\ FUTURE_SKEW_MS \in Nat
BY RelayAssumption, NonceAssumption, MailTimeAssumption

(* The maps of one mailbox. *)
StoredMap(stored) ==
    /\ DOMAIN stored \subseteq Packets /\ IsFiniteSet(DOMAIN stored)
    /\ stored \in [DOMAIN stored -> PacketRecord]

TombstoneMap(map) ==
    /\ DOMAIN map \subseteq Packets
    /\ map \in [DOMAIN map -> 0..MaxTime]

(* A mailbox without packets or tombstones is typed.                       *)
LEMMA EmptyMap ==
  /\ DOMAIN <<>> = {}
  /\ StoredMap(<<>>) /\ TombstoneMap(<<>>)
<1>1. DOMAIN <<>> = {} /\ <<>> \in [{} -> PacketRecord] /\ <<>> \in [{} -> 0..MaxTime]
  OBVIOUS
<1> QED
  BY <1>1, FS_EmptySet DEF StoredMap, TombstoneMap

(* Dropping entries of a map leaves the others as they were, and typed.    *)
LEMMA RestrictedMap ==
  ASSUME NEW map, NEW D, D \subseteq DOMAIN map
  PROVE  /\ DOMAIN Restrict(map, D) = D
         /\ \A p \in D : Restrict(map, D)[p] = map[p]
         /\ StoredMap(map) => StoredMap(Restrict(map, D))
         /\ TombstoneMap(map) => TombstoneMap(Restrict(map, D))
<1>1. /\ DOMAIN Restrict(map, D) = D
      /\ \A p \in D : Restrict(map, D)[p] = map[p]
      /\ \A R : map \in [DOMAIN map -> R] => Restrict(map, D) \in [D -> R]
  BY DEF Restrict
<1>2. IsFiniteSet(DOMAIN map) => IsFiniteSet(D)
  BY FS_Subset
<1> QED
  BY <1>1, <1>2 DEF StoredMap, TombstoneMap

(* Inserting an entry of the type leaves a map typed.                      *)
LEMMA ExtendedMap ==
  ASSUME NEW map, NEW p \in Packets, NEW v
  PROVE  /\ StoredMap(map) /\ v \in PacketRecord => StoredMap(insert(map, p, v))
         /\ TombstoneMap(map) /\ v \in 0..MaxTime => TombstoneMap(insert(map, p, v))
<1>1. /\ DOMAIN insert(map, p, v) = DOMAIN map \cup {p}
      /\ \A R : map \in [DOMAIN map -> R] /\ v \in R
                  => insert(map, p, v) \in [DOMAIN map \cup {p} -> R]
  BY DEF insert
<1>2. IsFiniteSet(DOMAIN map) => IsFiniteSet(DOMAIN map \cup {p})
  BY FS_AddElement
<1> QED
  BY <1>1, <1>2 DEF StoredMap, TombstoneMap
-----------------------------------------------------------------------------
(* The type of the state.  TypeOK bounds the byte count by max_bytes,      *)
(* which only the exact count (QuotaHolds) justifies.                      *)
AcceptedDelivery ==
    [packet : Packets, accepted_at : 0..MaxTime, seq : 1..MAX_SAFE_NONCE]

StoreTyped ==
    /\ now \in 0..MaxTime
    /\ nonces \in [Agents -> NonceRecord]
    /\ current \in [Mailboxes -> Cards \cup {NoCard}]
    /\ last_seq \in [Mailboxes -> 0..MAX_SAFE_NONCE]
    /\ bytes = [m \in Mailboxes |-> bytes[m]]
    /\ packets = [m \in Mailboxes |-> packets[m]]
    /\ tombstones = [m \in Mailboxes |-> tombstones[m]]
    /\ \A m \in Mailboxes : StoredMap(packets[m]) /\ TombstoneMap(tombstones[m])
    /\ blocked \in [Mailboxes -> SUBSET Agents]
    /\ reader \in [Mailboxes -> Reader]
    /\ restarts \in 0..MaxRestarts
    /\ accepted \in Seq(AcceptedDelivery)
    /\ deleted \subseteq Packets

(* The packets a page leaves for the next one all have a greater sequence  *)
(* number than every packet on it, and a page leaves none or has one.      *)
LEMMA PageIsFirst ==
  ASSUME StoreTyped, NEW m \in Mailboxes, Page(m) # Matching(m)
  PROVE  LET cursor == Max({packets[m][p].seq : p \in Page(m)}) IN
         /\ cursor \in 0..MAX_SAFE_NONCE
         /\ \A p \in Matching(m) \ Page(m) : packets[m][p].seq > cursor
<1> DEFINE M == Matching(m)
           seq(p) == packets[m][p].seq
           Before(p) == {q \in M : seq(q) < seq(p)}
           T == {seq(p) : p \in Page(m)}
<1>1. /\ M \subseteq DOMAIN packets[m] /\ IsFiniteSet(M)
      /\ \A p \in M : seq(p) \in 1..MAX_SAFE_NONCE
  <2>1. StoredMap(packets[m])
    BY DEF StoreTyped
  <2>2. M \subseteq DOMAIN packets[m]
    BY DEF Matching, Unexpired
  <2> QED
    BY <2>1, <2>2, FS_Subset DEF StoredMap, PacketRecord
<1>2. Page(m) = {p \in M : Cardinality(Before(p)) < PageLimit}
  BY DEF Page
<1>3. \A p \in M : IsFiniteSet(Before(p)) /\ Cardinality(Before(p)) \in Nat
  <2> TAKE p \in M
  <2>1. Before(p) \in SUBSET M
    OBVIOUS
  <2> QED
    BY <1>1, <2>1, FS_Subset, FS_CardinalityType
<1> HIDE DEF M
<1>4. PICK p \in M : \A q \in M : seq(p) <= seq(q)
  <2> DEFINE U == {n \in Nat : \E p \in M : seq(p) = n}
  <2>1. M # {}
    BY <1>2 DEF M
  <2>2. U \in SUBSET Nat /\ U # {}
    BY <1>1, <2>1
  <2>3. PICK n \in U : \A k \in U : n <= k
    <3> HIDE DEF U
    <3> QED
      BY <2>2, LeastNumber
  <2> QED
    BY <1>1, <2>3
<1>5. p \in Page(m)
  <2>1. Before(p) = {}
    BY <1>1, <1>4
  <2>2. Cardinality(Before(p)) = 0
    BY <2>1, FS_EmptySet
  <2> QED
    BY <1>2, <1>4, <2>2, LimitData
<1>6. T \in SUBSET (0..MAX_SAFE_NONCE) /\ T # {}
  <2>1. seq(p) \in T
    BY <1>5
  <2>2. ASSUME NEW x \in T PROVE x \in 0..MAX_SAFE_NONCE
    <3>1. PICK r \in Page(m) : x = seq(r)
      OBVIOUS
    <3>2. seq(r) \in 1..MAX_SAFE_NONCE
      BY <1>1, <1>2, <3>1
    <3> QED
      BY <3>1, <3>2
  <2> QED
    BY <2>1, <2>2
<1>7. Max(T) \in T
  <2> HIDE DEF T
  <2> QED
    BY <1>6, MaxOfBounded, LimitData
<1>8. PICK r \in Page(m) : Max(T) = seq(r)
  BY <1>7
<1>9. ASSUME NEW q \in M, q \notin Page(m) PROVE seq(q) > Max(T)
  <2>1. r \in M /\ Cardinality(Before(r)) < PageLimit /\ ~ (Cardinality(Before(q)) < PageLimit)
    BY <1>2, <1>8, <1>9
  <2>2. CASE seq(q) <= seq(r)
    <3>1. Before(q) \in SUBSET Before(r)
      BY <1>1, <2>1, <2>2
    <3>2. Cardinality(Before(q)) <= Cardinality(Before(r))
      BY <1>3, <2>1, <3>1, FS_Subset
    <3>3. Cardinality(Before(q)) \in Nat /\ Cardinality(Before(r)) \in Nat
      BY <1>3, <2>1
    <3> HIDE DEF Before
    <3>4. FALSE
      BY <2>1, <3>2, <3>3, LimitData
    <3> QED
      BY <3>4
  <2>3. CASE seq(q) > seq(r)
    BY <1>8, <2>3
  <2> QED
    BY <1>1, <2>1, <2>2, <2>3
<1> QED
  BY <1>6, <1>7, <1>9 DEF M

(* In every reachable state the relay's store is well formed. *)
THEOREM RelayTyping == Spec => []StoreTyped
<1>1. Init => StoreTyped
  <2> SUFFICES ASSUME Init PROVE StoreTyped
    OBVIOUS
  <2>1. NoRecord \in NonceRecord /\ IdleReader \in Reader
    BY LimitData DEF NoRecord, NonceRecord, IdleReader, Reader
  <2> QED
    BY <2>1, EmptyMap, LimitData DEF Init, StoreTyped
<1>2. StoreTyped /\ [Next]_vars => StoreTyped'
  <2> SUFFICES ASSUME StoreTyped, [Next]_vars PROVE StoreTyped'
    OBVIOUS
  <2> USE DEF StoreTyped
  <2>1. CASE Tick
    BY <2>1, LimitData DEF Tick, store, history
  <2>2. CASE Prune
    <3>1. ASSUME NEW m \in Mailboxes
          PROVE  StoredMap(packets[m])' /\ TombstoneMap(tombstones[m])'
      <4>1. Unexpired(packets[m]) \subseteq DOMAIN packets[m]
            /\ LiveTombstones(m) \subseteq DOMAIN tombstones[m]
        BY DEF Unexpired, LiveTombstones
      <4> QED
        BY <2>2, <4>1, EmptyMap, RestrictedMap DEF Prune, drop_expired
    <3>2. /\ current' \in [Mailboxes -> Cards \cup {NoCard}]
          /\ last_seq' \in [Mailboxes -> 0..MAX_SAFE_NONCE]
          /\ blocked' \in [Mailboxes -> SUBSET Agents]
      BY <2>2, LimitData DEF Prune
    <3>3. /\ bytes' = [m \in Mailboxes |-> bytes'[m]]
          /\ packets' = [m \in Mailboxes |-> packets'[m]]
          /\ tombstones' = [m \in Mailboxes |-> tombstones'[m]]
      BY <2>2 DEF Prune
    <3>4. UNCHANGED <<now, nonces, reader, restarts, accepted, deleted>>
      BY <2>2 DEF Prune, history
    <3> QED
      BY <3>1, <3>2, <3>3, <3>4
  <2>3. CASE Restart
    <3>1. NoRecord \in NonceRecord
      BY LimitData DEF NoRecord, NonceRecord
    <3> QED
      BY <2>3, <3>1, LimitData DEF Restart
  <2>4. ASSUME NEW c \in Cards, Publish(c) PROVE StoreTyped'
    <3>1. UpdatedRecord(c.nonce, now, 2 * FUTURE_SKEW_MS) \in NonceRecord
      BY CardData, LimitData DEF UpdatedRecord, NonceRecord
    <3> QED
      BY <2>4, <3>1, CardData DEF Publish
  <2>5. ASSUME NEW p \in Packets, Deliver(p) PROVE StoreTyped'
    <3> DEFINE m == p.mailbox_id
               seq == NextSeq(m)
    <3>1. m \in Mailboxes /\ seq \in 1..MAX_SAFE_NONCE /\ now \in 0..MaxTime
      BY <2>5, PacketData, LimitData, SMTT(60) DEF Deliver, QuotaLeft, NextSeq
    <3>2. /\ [accepted_at |-> now, seq |-> seq] \in PacketRecord
          /\ [packet |-> p, accepted_at |-> now, seq |-> seq] \in AcceptedDelivery
      BY <3>1 DEF PacketRecord, AcceptedDelivery
    <3>3. StoredMap(drop_expired(m)) /\ TombstoneMap(tombstones[m])
      <4>1. Unexpired(packets[m]) \subseteq DOMAIN packets[m]
        BY DEF Unexpired
      <4> QED
        BY <3>1, <4>1, RestrictedMap DEF drop_expired
    <3>4. /\ packets' = [packets EXCEPT ![m] =
                            insert(drop_expired(m), p, [accepted_at |-> now, seq |-> seq])]
          /\ tombstones' = [tombstones EXCEPT ![m] = insert(@, p, now)]
          /\ last_seq' = [last_seq EXCEPT ![m] = seq]
          /\ bytes' = [bytes EXCEPT ![m] = @ - DroppedBytes(m) + p.size]
          /\ accepted' = Append(accepted, [packet |-> p, accepted_at |-> now, seq |-> seq])
          /\ UNCHANGED <<now, nonces, current, blocked, reader, restarts, deleted>>
      BY <2>5 DEF Deliver
    <3>5. StoredMap(packets'[m]) /\ TombstoneMap(tombstones'[m])
      <4>1. /\ packets'[m] = insert(drop_expired(m), p, [accepted_at |-> now, seq |-> seq])
            /\ tombstones'[m] = insert(tombstones[m], p, now)
        BY <3>1, <3>4
      <4>2. StoredMap(insert(drop_expired(m), p, [accepted_at |-> now, seq |-> seq]))
        BY <3>2, <3>3, ExtendedMap
      <4>3. TombstoneMap(insert(tombstones[m], p, now))
        BY <3>1, <3>3, ExtendedMap
      <4> QED
        BY <4>1, <4>2, <4>3, Zenon
    <3> HIDE DEF m, seq
    <3>6. \A n \in Mailboxes : n # m => packets'[n] = packets[n] /\ tombstones'[n] = tombstones[n]
      BY <3>4
    <3>7. \A n \in Mailboxes : StoredMap(packets'[n]) /\ TombstoneMap(tombstones'[n])
      BY <3>5, <3>6
    <3>8. /\ packets' = [n \in Mailboxes |-> packets'[n]]
          /\ tombstones' = [n \in Mailboxes |-> tombstones'[n]]
      BY <3>4
    <3>10. bytes' = [n \in Mailboxes |-> bytes'[n]]
      BY <3>4
    <3>11. last_seq' \in [Mailboxes -> 0..MAX_SAFE_NONCE]
      BY <3>1, <3>4
    <3>9. accepted' \in Seq(AcceptedDelivery)
      BY <3>2, <3>4
    <3> QED
      BY <3>4, <3>7, <3>8, <3>9, <3>10, <3>11
  <2>6. ASSUME NEW p \in Packets, DeliverRefused(p) PROVE StoreTyped'
    <3> DEFINE m == p.mailbox_id
    <3>1. m \in Mailboxes
      BY PacketData
    <3>2. StoredMap(drop_expired(m))
      <4>1. Unexpired(packets[m]) \subseteq DOMAIN packets[m]
        BY DEF Unexpired
      <4> QED
        BY <3>1, <4>1, RestrictedMap DEF drop_expired
    <3>3. /\ packets' = [packets EXCEPT ![m] = drop_expired(m)]
          /\ bytes' = [bytes EXCEPT ![m] = @ - DroppedBytes(m)]
          /\ UNCHANGED <<now, nonces, current, last_seq, tombstones, blocked, reader, history>>
      BY <2>6 DEF DeliverRefused
    <3> HIDE DEF m
    <3>4. \A n \in Mailboxes : StoredMap(packets'[n])
      BY <3>1, <3>2, <3>3
    <3> QED
      BY <3>1, <3>3, <3>4 DEF history
  <2>7. ASSUME NEW m \in Mailboxes, NEW s \in Senders, NEW b \in BOOLEAN,
               SetSenderBlocked(m, s, b)
        PROVE  StoreTyped'
    <3>1. s \in Agents
      BY PacketData DEF Senders
    <3> QED
      BY <2>7, <3>1 DEF SetSenderBlocked, history
  <2>8. ASSUME NEW m \in Mailboxes, NEW p \in Packets, Delete(m, p) PROVE StoreTyped'
    <3> DEFINE left == Restrict(packets[m], DOMAIN packets[m] \ {p})
    <3>1. StoredMap(left)
      BY RestrictedMap
    <3>2. /\ packets' = [packets EXCEPT ![m] = left]
          /\ bytes' = [bytes EXCEPT ![m] = @ - p.size]
          /\ deleted' = deleted \cup {p}
          /\ UNCHANGED <<now, nonces, current, last_seq, tombstones, blocked, reader,
                         restarts, accepted>>
      BY <2>8 DEF Delete
    <3> HIDE DEF left
    <3>3. \A n \in Mailboxes : StoredMap(packets'[n])
      BY <3>1, <3>2
    <3> QED
      BY <3>2, <3>3
  <2>9. ASSUME NEW m \in Mailboxes, ListFirst(m) PROVE StoreTyped'
    <3>1. [state |-> "paging", cursor |-> 0, seen |-> {}, due |-> Unexpired(packets[m])]
            \in Reader
      BY LimitData DEF Reader, Unexpired, StoredMap
    <3> QED
      BY <2>9, <3>1 DEF ListFirst, store, history
  <2>10. ASSUME NEW m \in Mailboxes, ListNext(m) PROVE StoreTyped'
    <3> DEFINE more == Page(m) # Matching(m)
               cursor == IF more THEN Max({packets[m][p].seq : p \in Page(m)})
                         ELSE reader[m].cursor
               r == [state |-> IF more THEN "paging" ELSE "done", cursor |-> cursor,
                     seen |-> reader[m].seen \cup Page(m), due |-> reader[m].due]
    <3>1. reader[m] \in Reader /\ cursor \in 0..MAX_SAFE_NONCE
      BY PageIsFirst DEF Reader
    <3>2. Page(m) \subseteq Packets
      BY DEF Page, Matching, Unexpired, StoredMap
    <3>3. r \in Reader
      <4> HIDE DEF cursor
      <4> QED
        BY <3>1, <3>2 DEF Reader
    <3>4. reader' = [reader EXCEPT ![m] = r] /\ UNCHANGED <<now, nonces, store, history>>
      BY <2>10 DEF ListNext
    <3> HIDE DEF r
    <3> QED
      BY <3>3, <3>4 DEF store, history
  <2>11. CASE UNCHANGED vars
    BY <2>11 DEF vars, store, history
  <2> QED
    BY <2>1, <2>2, <2>3, <2>4, <2>5, <2>6, <2>7, <2>8, <2>9, <2>10, <2>11 DEF Next
<1> QED
  BY <1>1, <1>2, PTL DEF Spec
-----------------------------------------------------------------------------
(* What the steps that change the maps leave in them, mailbox by mailbox.  *)
Delivered(p, m) ==
    /\ m \in Mailboxes /\ Registered(m) /\ p.card_hash = current[m]
    /\ now < p.expires_at /\ p \notin DOMAIN tombstones[m]
    /\ DOMAIN packets'[m] = Unexpired(packets[m]) \cup {p}
    /\ packets'[m][p].seq = NextSeq(m)
    /\ \A q \in Unexpired(packets[m]) : q # p => packets'[m][q] = packets[m][q]
    /\ DOMAIN tombstones'[m] = DOMAIN tombstones[m] \cup {p}
    /\ tombstones'[m][p] = now
    /\ \A q \in DOMAIN tombstones[m] : tombstones'[m][q] = tombstones[m][q]
    /\ \A n \in Mailboxes \ {m} :
          packets'[n] = packets[n] /\ tombstones'[n] = tombstones[n]
    /\ DOMAIN accepted' = DOMAIN accepted \cup {Len(accepted) + 1}
    /\ \A i \in DOMAIN accepted : accepted'[i] = accepted[i]
    /\ accepted'[Len(accepted) + 1] =
          [packet |-> p, accepted_at |-> now, seq |-> NextSeq(m)]
    /\ UNCHANGED <<now, nonces, current, blocked, reader, restarts, deleted>>

(* An accepted delivery drops what expired in the mailbox and adds the     *)
(* packet under the next sequence number.                                  *)
LEMMA DeliverEffect ==
  ASSUME StoreTyped, NEW p \in Packets, Deliver(p)
  PROVE  Delivered(p, p.mailbox_id)
<1> DEFINE m == p.mailbox_id
<1> DEFINE new == [accepted_at |-> now, seq |-> NextSeq(m)]
           entry == [packet |-> p, accepted_at |-> now, seq |-> NextSeq(m)]
<1>1. /\ m \in Mailboxes /\ Registered(m) /\ p.card_hash = current[m]
      /\ now < p.expires_at /\ p \notin DOMAIN tombstones[m]
  BY PacketData DEF Deliver, DeliveryChecked
<1>2. /\ packets' = [packets EXCEPT ![m] = insert(drop_expired(m), p, new)]
      /\ tombstones' = [tombstones EXCEPT ![m] = insert(@, p, now)]
      /\ accepted' = Append(accepted, entry)
      /\ UNCHANGED <<now, nonces, current, blocked, reader, restarts, deleted>>
  BY DEF Deliver
<1>3. /\ packets'[m] = insert(drop_expired(m), p, new)
      /\ tombstones'[m] = insert(tombstones[m], p, now)
      /\ \A n \in Mailboxes \ {m} :
            packets'[n] = packets[n] /\ tombstones'[n] = tombstones[n]
  BY <1>1, <1>2 DEF StoreTyped
<1>4. /\ DOMAIN drop_expired(m) = Unexpired(packets[m])
      /\ \A q \in Unexpired(packets[m]) : drop_expired(m)[q] = packets[m][q]
  BY RestrictedMap DEF drop_expired, Unexpired
<1>5. /\ DOMAIN packets'[m] = Unexpired(packets[m]) \cup {p}
      /\ packets'[m][p].seq = NextSeq(m)
      /\ \A q \in Unexpired(packets[m]) : q # p => packets'[m][q] = packets[m][q]
  <2> HIDE DEF new
  <2>1. /\ DOMAIN packets'[m] = Unexpired(packets[m]) \cup {p}
        /\ packets'[m][p] = new
        /\ \A q \in Unexpired(packets[m]) : q # p => packets'[m][q] = packets[m][q]
    <3> DEFINE map == drop_expired(m)
    <3>1. /\ DOMAIN insert(map, p, new) = DOMAIN map \cup {p}
          /\ insert(map, p, new)[p] = new
          /\ \A q \in DOMAIN map : q # p => insert(map, p, new)[q] = map[q]
      BY DEF insert
    <3> QED
      BY <1>3, <1>4, <3>1
  <2> QED
    BY <2>1 DEF new
<1>6. /\ DOMAIN tombstones'[m] = DOMAIN tombstones[m] \cup {p}
      /\ tombstones'[m][p] = now
      /\ \A q \in DOMAIN tombstones[m] : tombstones'[m][q] = tombstones[m][q]
  <2> DEFINE map == tombstones[m]
  <2>1. /\ DOMAIN insert(map, p, now) = DOMAIN map \cup {p}
        /\ insert(map, p, now)[p] = now
        /\ \A q \in DOMAIN map : q # p => insert(map, p, now)[q] = map[q]
    BY DEF insert
  <2> QED
    BY <1>1, <1>3, <2>1
<1>7. /\ DOMAIN accepted' = DOMAIN accepted \cup {Len(accepted) + 1}
      /\ \A i \in DOMAIN accepted : accepted'[i] = accepted[i]
      /\ accepted'[Len(accepted) + 1] = entry
  <2>1. accepted \in Seq(AcceptedDelivery)
    BY DEF StoreTyped
  <2> HIDE DEF entry
  <2> QED
    BY <1>2, <2>1
<1> HIDE DEF m, new
<1>8. Delivered(p, m)
  BY <1>1, <1>2, <1>3, <1>5, <1>6, <1>7 DEF Delivered
<1> QED
  BY <1>8 DEF m

(* A delivery refused by the quota drops what expired in the mailbox, and  *)
(* changes nothing else the properties read.                               *)
LEMMA RefusedEffect ==
  ASSUME StoreTyped, NEW p \in Packets, DeliverRefused(p), NEW m, m = p.mailbox_id
  PROVE  /\ m \in Mailboxes
         /\ DOMAIN packets'[m] = Unexpired(packets[m])
         /\ \A q \in Unexpired(packets[m]) : packets'[m][q] = packets[m][q]
         /\ \A n \in Mailboxes \ {m} : packets'[n] = packets[n]
         /\ UNCHANGED <<now, nonces, current, last_seq, tombstones, blocked, reader,
                        restarts, accepted, deleted>>
<1>1. m \in Mailboxes
  BY PacketData
<1>2. /\ packets'[m] = drop_expired(m)
      /\ \A n \in Mailboxes \ {m} : packets'[n] = packets[n]
      /\ UNCHANGED <<now, nonces, current, last_seq, tombstones, blocked, reader,
                     restarts, accepted, deleted>>
  BY <1>1 DEF DeliverRefused, StoreTyped, history
<1>3. /\ DOMAIN drop_expired(m) = Unexpired(packets[m])
      /\ \A q \in Unexpired(packets[m]) : drop_expired(m)[q] = packets[m][q]
  BY RestrictedMap DEF drop_expired, Unexpired
<1> QED
  BY <1>1, <1>2, <1>3

(* A deletion removes the packet and nothing else.                         *)
LEMMA DeleteEffect ==
  ASSUME StoreTyped, NEW m \in Mailboxes, NEW p \in Packets, Delete(m, p)
  PROVE  /\ p \in DOMAIN packets[m]
         /\ DOMAIN packets'[m] = DOMAIN packets[m] \ {p}
         /\ \A q \in DOMAIN packets[m] \ {p} : packets'[m][q] = packets[m][q]
         /\ \A n \in Mailboxes \ {m} : packets'[n] = packets[n]
         /\ deleted' = deleted \cup {p}
         /\ UNCHANGED <<now, nonces, current, last_seq, tombstones, blocked, reader,
                        restarts, accepted>>
<1>1. /\ packets'[m] = Restrict(packets[m], DOMAIN packets[m] \ {p})
      /\ \A n \in Mailboxes \ {m} : packets'[n] = packets[n]
  BY DEF Delete, StoreTyped
<1>2. /\ DOMAIN packets'[m] = DOMAIN packets[m] \ {p}
      /\ \A q \in DOMAIN packets[m] \ {p} : packets'[m][q] = packets[m][q]
  BY <1>1, RestrictedMap
<1> QED
  BY <1>1, <1>2 DEF Delete

(* A mailbox is forgotten only when it holds no unexpired packet and no    *)
(* unexpired tombstone.                                                    *)
LEMMA PruneEffect ==
  ASSUME StoreTyped, Prune, NEW m \in Mailboxes
  PROVE  /\ \/ /\ Unexpired(packets[m]) = {} /\ LiveTombstones(m) = {}
               /\ Registered(m) /\ current'[m] = NoCard
            \/ current'[m] = current[m]
         /\ DOMAIN packets'[m] = Unexpired(packets[m])
         /\ \A q \in Unexpired(packets[m]) : packets'[m][q] = packets[m][q]
         /\ DOMAIN tombstones'[m] = LiveTombstones(m)
         /\ \A q \in LiveTombstones(m) : tombstones'[m][q] = tombstones[m][q]
         /\ UNCHANGED <<now, nonces, reader, restarts, accepted, deleted>>
<1>1. /\ Unexpired(packets[m]) \subseteq DOMAIN packets[m]
      /\ LiveTombstones(m) \subseteq DOMAIN tombstones[m]
  BY DEF Unexpired, LiveTombstones
<1>2. UNCHANGED <<now, nonces, reader, restarts, accepted, deleted>>
  BY DEF Prune, history
<1>3. CASE m \in Forgotten
  <2>1. Unexpired(packets[m]) = {} /\ LiveTombstones(m) = {} /\ Registered(m)
    BY <1>3 DEF Forgotten
  <2>2. packets'[m] = <<>> /\ tombstones'[m] = <<>> /\ current'[m] = NoCard
    BY <1>3 DEF Prune
  <2> QED
    BY <1>2, <2>1, <2>2, EmptyMap
<1>4. CASE m \notin Forgotten
  <2>1. /\ packets'[m] = Restrict(packets[m], Unexpired(packets[m]))
        /\ tombstones'[m] = Restrict(tombstones[m], LiveTombstones(m))
        /\ current'[m] = current[m]
    BY <1>4 DEF Prune, drop_expired
  <2> QED
    BY <1>1, <1>2, <2>1, RestrictedMap
<1> QED
  BY <1>3, <1>4
-----------------------------------------------------------------------------
(* The steps that touch neither the maps, the cards nor the clock.         *)
Quiet == UNCHANGED <<now, current, packets, tombstones, accepted, deleted>>

(* The ways a step can be: what every proof below goes through.            *)
LEMMA StepKinds ==
  ASSUME [Next]_vars
  PROVE  \/ Tick \/ Prune
         \/ \E c \in Cards : Publish(c)
         \/ \E p \in Packets : Deliver(p) \/ DeliverRefused(p)
         \/ \E m \in Mailboxes, p \in Packets : Delete(m, p)
         \/ (\E m \in Mailboxes : ListFirst(m) \/ ListNext(m)) /\ Quiet
         \/ UNCHANGED reader /\ Quiet
BY DEF Next, vars, store, history, Quiet, Restart, SetSenderBlocked, ListFirst, ListNext

(* Until a packet expires a retried delivery is answered with its original *)
(* acceptance: prune forgets no mailbox and no tombstone before.           *)
THEOREM RelayRetryAnswered == Spec => []RetryAnswered
<1>1. Init => RetryAnswered
  BY DEF Init, RetryAnswered
<1>2. StoreTyped /\ RetryAnswered /\ [Next]_vars => RetryAnswered'
  <2> SUFFICES ASSUME StoreTyped, RetryAnswered, [Next]_vars PROVE RetryAnswered'
    OBVIOUS
  <2>0. \A i \in DOMAIN accepted :
          /\ accepted[i].packet \in Packets
          /\ accepted[i].packet.mailbox_id \in Mailboxes
          /\ accepted[i].packet.expires_at \in Nat
    <3> TAKE i \in DOMAIN accepted
    <3>1. accepted[i] \in AcceptedDelivery
      BY DEF StoreTyped
    <3>2. accepted[i].packet \in Packets
      BY <3>1 DEF AcceptedDelivery
    <3> QED
      BY <3>2, PacketData
  <2> USE DEF RetryAnswered, OriginalResult, Registered
  <2>1. CASE Tick
    <3>1. now \in Nat /\ now' = now + 1 /\ UNCHANGED <<current, tombstones, accepted>>
      BY <2>1 DEF Tick, store, history, StoreTyped
    <3> QED
      BY <2>0, <3>1
  <2>2. CASE Prune
    <3>1. UNCHANGED <<now, accepted>>
      BY <2>2 DEF Prune, history
    <3>2. ASSUME NEW i \in DOMAIN accepted, NEW p, p = accepted[i].packet,
                 now < p.expires_at
          PROVE  /\ current'[p.mailbox_id] # NoCard
                 /\ p \in DOMAIN tombstones'[p.mailbox_id]
                 /\ tombstones'[p.mailbox_id][p] = accepted[i].accepted_at
      <4>1. p.mailbox_id \in Mailboxes /\ p \in LiveTombstones(p.mailbox_id)
        BY <2>0, <3>2 DEF LiveTombstones
      <4> QED
        BY <2>2, <3>2, <4>1, PruneEffect
    <3> QED
      BY <3>1, <3>2
  <2>3. ASSUME NEW c \in Cards, Publish(c) PROVE RetryAnswered'
    <3>1. /\ current' = [current EXCEPT ![c.mailbox_id] = c]
          /\ UNCHANGED <<now, tombstones, accepted>>
      BY <2>3 DEF Publish
    <3>2. \A m \in Mailboxes : current'[m] = current[m] \/ current'[m] = c
      BY <3>1 DEF StoreTyped
    <3> QED
      BY <2>0, <3>1, <3>2, CardData
  <2>4. ASSUME NEW p \in Packets, Deliver(p) PROVE RetryAnswered'
    <3> DEFINE m == p.mailbox_id
               last == Len(accepted) + 1
    <3>0. Delivered(p, m)
      BY <2>4, DeliverEffect
    <3> HIDE DEF m
    <3>1. /\ m \in Mailboxes /\ current[m] # NoCard /\ p \notin DOMAIN tombstones[m]
          /\ DOMAIN tombstones'[m] = DOMAIN tombstones[m] \cup {p}
          /\ tombstones'[m][p] = now
          /\ \A q \in DOMAIN tombstones[m] : tombstones'[m][q] = tombstones[m][q]
          /\ \A n \in Mailboxes \ {m} : tombstones'[n] = tombstones[n]
          /\ DOMAIN accepted' = DOMAIN accepted \cup {last}
          /\ \A i \in DOMAIN accepted : accepted'[i] = accepted[i]
          /\ accepted'[last].packet = p /\ accepted'[last].accepted_at = now
          /\ UNCHANGED <<now, current>>
      BY <3>0 DEF Delivered
    <3> HIDE DEF last
    <3> SUFFICES ASSUME NEW i \in DOMAIN accepted', NEW q, q = accepted'[i].packet,
                        now < q.expires_at
                 PROVE  /\ current'[q.mailbox_id] # NoCard
                        /\ q \in DOMAIN tombstones'[q.mailbox_id]
                        /\ tombstones'[q.mailbox_id][q] = accepted'[i].accepted_at
      BY <3>1
    <3>2. CASE i = last
      BY <3>1, <3>2 DEF m
    <3>3. CASE i \in DOMAIN accepted
      BY <2>0, <3>1, <3>3
    <3> QED
      BY <3>1, <3>2, <3>3
  <2>5. ASSUME NEW p \in Packets, DeliverRefused(p) PROVE RetryAnswered'
    BY <2>5, RefusedEffect
  <2>6. ASSUME NEW m \in Mailboxes, NEW p \in Packets, Delete(m, p)
        PROVE  RetryAnswered'
    BY <2>6, DeleteEffect
  <2>7. CASE Quiet
    BY <2>7 DEF Quiet
  <2> QED
    BY <2>1, <2>2, <2>3, <2>4, <2>5, <2>6, <2>7, StepKinds
<1> QED
  BY <1>1, <1>2, RelayTyping, PTL DEF Spec

(* What was accepted and when, one entry at a time. *)
LEMMA AcceptedEntry ==
  ASSUME StoreTyped, NEW i \in DOMAIN accepted
  PROVE  /\ accepted[i].packet \in Packets
         /\ accepted[i].packet.mailbox_id \in Mailboxes
         /\ accepted[i].packet.expires_at \in Nat
<1>1. accepted[i] \in AcceptedDelivery
  BY DEF StoreTyped
<1>2. accepted[i].packet \in Packets
  BY <1>1 DEF AcceptedDelivery
<1> QED
  BY <1>2, PacketData

(* The clock moves alone.                                                  *)
LEMMA TickEffect ==
  ASSUME StoreTyped, Tick
  PROVE  /\ now \in Nat /\ now' = now + 1
         /\ UNCHANGED <<nonces, current, last_seq, bytes, packets, tombstones, blocked,
                        reader, restarts, accepted, deleted>>
BY DEF Tick, StoreTyped, store, history

(* An accepted packet stays in the store, under its sequence number, until *)
(* it expires or its owner deletes it.  It is not stored a second time     *)
(* because until then its tombstone answers every retry.                   *)
THEOREM RelayAcceptedRetained == Spec => []AcceptedRetained
<1>1. Init => AcceptedRetained
  BY DEF Init, AcceptedRetained
<1>2. StoreTyped /\ RetryAnswered /\ AcceptedRetained /\ [Next]_vars
        => AcceptedRetained'
  <2> SUFFICES ASSUME StoreTyped, RetryAnswered, AcceptedRetained, [Next]_vars
               PROVE  AcceptedRetained'
    OBVIOUS
  <2> USE DEF AcceptedRetained
  <2>1. CASE Tick
    BY <2>1, TickEffect, AcceptedEntry
  <2>2. CASE Prune
    <3>1. UNCHANGED <<now, accepted, deleted>>
      BY <2>2 DEF Prune, history
    <3>2. ASSUME NEW i \in DOMAIN accepted, NEW p, p = accepted[i].packet,
                 now < p.expires_at, p \notin deleted
          PROVE  /\ p \in DOMAIN packets'[p.mailbox_id]
                 /\ packets'[p.mailbox_id][p].seq = accepted[i].seq
      <4>1. p.mailbox_id \in Mailboxes /\ p \in Unexpired(packets[p.mailbox_id])
        BY <3>2, AcceptedEntry DEF Unexpired
      <4> QED
        BY <2>2, <3>2, <4>1, PruneEffect
    <3> QED
      BY <3>1, <3>2
  <2>3. ASSUME NEW c \in Cards, Publish(c) PROVE AcceptedRetained'
    BY <2>3 DEF Publish
  <2>4. ASSUME NEW p \in Packets, Deliver(p) PROVE AcceptedRetained'
    <3> DEFINE m == p.mailbox_id
               last == Len(accepted) + 1
    <3>0. Delivered(p, m)
      BY <2>4, DeliverEffect
    <3> HIDE DEF m
    <3>1. /\ m \in Mailboxes /\ now < p.expires_at /\ p \notin DOMAIN tombstones[m]
          /\ DOMAIN packets'[m] = Unexpired(packets[m]) \cup {p}
          /\ packets'[m][p].seq = NextSeq(m)
          /\ \A q \in Unexpired(packets[m]) : q # p => packets'[m][q] = packets[m][q]
          /\ \A n \in Mailboxes \ {m} : packets'[n] = packets[n]
          /\ DOMAIN accepted' = DOMAIN accepted \cup {last}
          /\ \A i \in DOMAIN accepted : accepted'[i] = accepted[i]
          /\ accepted'[last].packet = p /\ accepted'[last].seq = NextSeq(m)
          /\ UNCHANGED <<now, deleted>>
      BY <3>0 DEF Delivered
    <3> HIDE DEF last
    <3> SUFFICES ASSUME NEW i \in DOMAIN accepted', NEW q, q = accepted'[i].packet,
                        now < q.expires_at, q \notin deleted
                 PROVE  /\ q \in DOMAIN packets'[q.mailbox_id]
                        /\ packets'[q.mailbox_id][q].seq = accepted'[i].seq
      BY <3>1
    <3>2. CASE i = last
      BY <3>1, <3>2 DEF m
    <3>3. CASE i \in DOMAIN accepted
      <4>1. q = accepted[i].packet /\ q.mailbox_id \in Mailboxes
        BY <3>1, <3>3, AcceptedEntry
      <4>2. q # p
        BY <3>1, <3>3, <4>1 DEF RetryAnswered, m
      <4>3. q.mailbox_id = m => q \in Unexpired(packets[m])
        BY <3>3, <4>1 DEF Unexpired
      <4> QED
        BY <3>1, <3>3, <4>1, <4>2, <4>3
    <3> QED
      BY <3>1, <3>2, <3>3
  <2>5. ASSUME NEW p \in Packets, DeliverRefused(p) PROVE AcceptedRetained'
    <3> DEFINE m == p.mailbox_id
    <3>1. /\ m \in Mailboxes
          /\ DOMAIN packets'[m] = Unexpired(packets[m])
          /\ \A q \in Unexpired(packets[m]) : packets'[m][q] = packets[m][q]
          /\ \A n \in Mailboxes \ {m} : packets'[n] = packets[n]
          /\ UNCHANGED <<now, accepted, deleted>>
      BY <2>5, RefusedEffect
    <3> HIDE DEF m
    <3> QED
      BY <3>1, AcceptedEntry DEF Unexpired
  <2>6. ASSUME NEW m \in Mailboxes, NEW p \in Packets, Delete(m, p)
        PROVE  AcceptedRetained'
    BY <2>6, DeleteEffect, AcceptedEntry
  <2>7. CASE Quiet
    BY <2>7 DEF Quiet
  <2> QED
    BY <2>1, <2>2, <2>3, <2>4, <2>5, <2>6, <2>7, StepKinds
<1> QED
  BY <1>1, <1>2, RelayTyping, RelayRetryAnswered, PTL DEF Spec

(* Every unexpired packet in the store has its tombstone: nothing that is  *)
(* still stored can be delivered a second time.                            *)
StoredIsTombstoned ==
    \A m \in Mailboxes : Unexpired(packets[m]) \subseteq DOMAIN tombstones[m]

(* Every unexpired packet in the store has its tombstone.                  *)
LEMMA RelayStoredIsTombstoned == Spec => []StoredIsTombstoned
<1>1. Init => StoredIsTombstoned
  BY EmptyMap DEF Init, StoredIsTombstoned, Unexpired
<1>2. StoreTyped /\ StoredIsTombstoned /\ [Next]_vars => StoredIsTombstoned'
  <2> SUFFICES ASSUME StoreTyped, StoredIsTombstoned, [Next]_vars
               PROVE  StoredIsTombstoned'
    OBVIOUS
  <2>0. \A m \in Mailboxes : \A p \in DOMAIN packets[m] : p \in Packets /\ p.expires_at \in Nat
    BY PacketData DEF StoreTyped, StoredMap
  <2> USE DEF StoredIsTombstoned, Unexpired
  <2>1. CASE Tick
    BY <2>1, <2>0, TickEffect
  <2>2. CASE Prune
    BY <2>2, PruneEffect DEF LiveTombstones
  <2>3. ASSUME NEW c \in Cards, Publish(c) PROVE StoredIsTombstoned'
    BY <2>3 DEF Publish
  <2>4. ASSUME NEW p \in Packets, Deliver(p) PROVE StoredIsTombstoned'
    <3> DEFINE m == p.mailbox_id
    <3>0. Delivered(p, m)
      BY <2>4, DeliverEffect
    <3> HIDE DEF m
    <3> QED
      BY <3>0 DEF Delivered
  <2>5. ASSUME NEW p \in Packets, DeliverRefused(p) PROVE StoredIsTombstoned'
    BY <2>5, RefusedEffect
  <2>6. ASSUME NEW m \in Mailboxes, NEW p \in Packets, Delete(m, p)
        PROVE  StoredIsTombstoned'
    BY <2>6, DeleteEffect
  <2>7. CASE Quiet
    BY <2>7 DEF Quiet
  <2> QED
    BY <2>1, <2>2, <2>3, <2>4, <2>5, <2>6, <2>7, StepKinds
<1> QED
  BY <1>1, <1>2, RelayTyping, PTL DEF Spec

(* No second owner ever reaches the unexpired mail of the first: a mailbox *)
(* holding some is not forgotten, and its cards keep their owner.          *)
THEOREM RelayMailStaysWithOwner == Spec => []MailStaysWithOwner
<1>1. Init => MailStaysWithOwner
  BY EmptyMap DEF Init, MailStaysWithOwner, Unexpired
<1>2. StoreTyped /\ MailStaysWithOwner /\ [Next]_vars => MailStaysWithOwner'
  <2> SUFFICES ASSUME StoreTyped, MailStaysWithOwner, [Next]_vars
               PROVE  MailStaysWithOwner'
    OBVIOUS
  <2>0. \A m \in Mailboxes : \A p \in DOMAIN packets[m] : p \in Packets /\ p.expires_at \in Nat
    BY PacketData DEF StoreTyped, StoredMap
  <2> USE DEF MailStaysWithOwner, Unexpired, Registered
  <2>1. CASE Tick
    BY <2>1, <2>0, TickEffect
  <2>2. CASE Prune
    BY <2>2, PruneEffect
  <2>3. ASSUME NEW c \in Cards, Publish(c) PROVE MailStaysWithOwner'
    <3> DEFINE m == c.mailbox_id
    <3>1. /\ current' = [current EXCEPT ![m] = c]
          /\ UNCHANGED <<now, packets>>
          /\ current[m] # NoCard => current[m].owner = c.owner
      BY <2>3 DEF Publish, PublishAllowed
    <3>2. /\ current'[m] = c /\ c # NoCard
          /\ \A n \in Mailboxes \ {m} : current'[n] = current[n]
      BY <3>1, CardData DEF StoreTyped
    <3> HIDE DEF m
    <3> QED
      BY <3>1, <3>2
  <2>4. ASSUME NEW p \in Packets, Deliver(p) PROVE MailStaysWithOwner'
    <3> DEFINE m == p.mailbox_id
    <3>0. Delivered(p, m)
      BY <2>4, DeliverEffect
    <3> HIDE DEF m
    <3> QED
      BY <3>0 DEF Delivered
  <2>5. ASSUME NEW p \in Packets, DeliverRefused(p) PROVE MailStaysWithOwner'
    BY <2>5, RefusedEffect
  <2>6. ASSUME NEW m \in Mailboxes, NEW p \in Packets, Delete(m, p)
        PROVE  MailStaysWithOwner'
    BY <2>6, DeleteEffect
  <2>7. CASE Quiet
    BY <2>7 DEF Quiet
  <2> QED
    BY <2>1, <2>2, <2>3, <2>4, <2>5, <2>6, <2>7, StepKinds
<1> QED
  BY <1>1, <1>2, RelayTyping, PTL DEF Spec

(* A remembered mailbox only ever moves to a card of the same owner with a *)
(* greater nonce.                                                          *)
THEOREM RelayCardNeverRollsBack == Spec => CardNeverRollsBack
<1> DEFINE Replaces(m) ==
      ( Registered(m) /\ current[m]' # NoCard /\ current[m]' # current[m] )
      => /\ current[m]'.owner = current[m].owner
         /\ current[m]'.nonce > current[m].nonce
<1>1. StoreTyped /\ [Next]_vars => [\A m \in Mailboxes : Replaces(m)]_vars
  <2> SUFFICES ASSUME StoreTyped, [Next]_vars, NEW m \in Mailboxes PROVE Replaces(m)
    OBVIOUS
  <2> USE DEF Registered
  <2>1. CASE Tick
    BY <2>1, TickEffect
  <2>2. CASE Prune
    BY <2>2, PruneEffect
  <2>3. ASSUME NEW c \in Cards, Publish(c) PROVE Replaces(m)
    <3>1. current' = [current EXCEPT ![c.mailbox_id] = c] /\ PublishAllowed(c)
      BY <2>3 DEF Publish
    <3>2. IF m = c.mailbox_id THEN current'[m] = c ELSE current'[m] = current[m]
      BY <3>1 DEF StoreTyped
    <3> QED
      BY <3>1, <3>2 DEF PublishAllowed
  <2>4. ASSUME NEW p \in Packets, Deliver(p) PROVE Replaces(m)
    BY <2>4 DEF Deliver
  <2>5. ASSUME NEW p \in Packets, DeliverRefused(p) PROVE Replaces(m)
    BY <2>5 DEF DeliverRefused
  <2>6. ASSUME NEW n \in Mailboxes, NEW p \in Packets, Delete(n, p) PROVE Replaces(m)
    BY <2>6 DEF Delete
  <2>7. CASE Quiet
    BY <2>7 DEF Quiet
  <2> QED
    BY <2>1, <2>2, <2>3, <2>4, <2>5, <2>6, <2>7, StepKinds
<1> QED
  BY <1>1, RelayTyping, PTL DEF Spec, CardNeverRollsBack
-----------------------------------------------------------------------------
(* A collection of subsets of a finite set has a member that is minimal in *)
(* it.                                                                     *)
LEMMA SmallestSet ==
  ASSUME NEW S, IsFiniteSet(S), NEW C \in SUBSET (SUBSET S), C # {}
  PROVE  \E c \in C : \A d \in C : d \subseteq c => d = c
<1> DEFINE T == {Cardinality(c) : c \in C}
<1>1. \A c \in C : IsFiniteSet(c) /\ Cardinality(c) \in Nat
  BY FS_Subset, FS_CardinalityType
<1>2. T \in SUBSET Nat /\ T # {}
  BY <1>1
<1> HIDE DEF T
<1>3. PICK n \in T : \A y \in T : n <= y
  BY <1>2, LeastNumber
<1>4. PICK c \in C : n = Cardinality(c)
  BY <1>3 DEF T
<1>5. ASSUME NEW d \in C, d \subseteq c PROVE d = c
  <2>1. Cardinality(c) <= Cardinality(d)
    BY <1>3, <1>4 DEF T
  <2>2. IsFiniteSet(c) /\ d \in SUBSET c
    BY <1>1, <1>5
  <2>3. Cardinality(d) <= Cardinality(c) /\ (Cardinality(c) = Cardinality(d) => c = d)
    BY <2>2, FS_Subset
  <2> QED
    BY <2>1, <2>3, <1>1
<1> QED
  BY <1>5

SizeSum(D) == MapThenSumSet(LAMBDA p : p.size, D)

First(s) == CHOOSE x \in s : TRUE

SumStep(it, s) == IF s = {} THEN 0 ELSE First(s).size + it[s \ {First(s)}]

IsSum(it, C) == it = [s \in C |-> SumStep(it, s)]

Sized(D) == IsFiniteSet(D) /\ \A p \in D : p.size \in Nat

SizeSums(D) == CHOOSE it : it = [s \in SUBSET D |-> SumStep(it, s)]

(* The sum of the sizes of a set is the value the fold's function takes    *)
(* there.                                                                  *)
LEMMA SumDef ==
  ASSUME NEW D
  PROVE  SizeSum(D) = SizeSums(D)[D]
BY Zenon DEF SizeSum, MapThenSumSet, MapThenFoldSet, SizeSums, SumStep, First

(* The recursion of the fold has a solution on the subsets of a finite     *)
(* set: a least number of elements it could fail for does not exist.       *)
LEMMA SumExists ==
  ASSUME NEW D, IsFiniteSet(D)
  PROVE  \E it : IsSum(it, SUBSET D)
<1> DEFINE L(n) == {s \in SUBSET D : Cardinality(s) <= n}
           Bad == {n \in Nat : ~ \E it : IsSum(it, L(n))}
<1>1. Bad = {}
  <2> SUFFICES ASSUME Bad # {} PROVE FALSE
    OBVIOUS
  <2>1. PICK n \in Bad : \A k \in Bad : n <= k
    BY LeastNumber
  <2>2. ASSUME NEW s \in L(n), s # {}
        PROVE  /\ First(s) \in s
               /\ n # 0
               /\ s \ {First(s)} \in L(n - 1)
               /\ s \ {First(s)} \in L(n)
    <3>1. First(s) \in s
      BY <2>2 DEF First
    <3>2. IsFiniteSet(s) /\ s \subseteq D /\ Cardinality(s) <= n
      BY FS_Subset
    <3>3. Cardinality(s) \in Nat /\ Cardinality(s) # 0
      BY <2>2, <3>2, FS_CardinalityType, FS_EmptySet
    <3>4. Cardinality(s \ {First(s)}) = Cardinality(s) - 1
      BY <3>1, <3>2, FS_RemoveElement
    <3> QED
      BY <3>1, <3>2, <3>3, <3>4
  <2>3. PICK f : n # 0 => IsSum(f, L(n - 1))
    <3>1. n \in Nat
      BY <2>1
    <3>2. CASE n # 0
      <4>1. n - 1 \in Nat /\ ~ (n <= n - 1)
        BY <3>1, <3>2
      <4>2. n - 1 \notin Bad
        BY <2>1, <4>1
      <4> QED
        BY <4>1, <4>2
    <3> QED
      BY <3>2
  <2> DEFINE g == [s \in L(n) |-> SumStep(f, s)]
  <2>4. ASSUME NEW s \in L(n) PROVE SumStep(g, s) = SumStep(f, s)
    <3>1. CASE s = {}
      BY <3>1 DEF SumStep
    <3>2. CASE s # {}
      <4>1. s \ {First(s)} \in L(n - 1) /\ s \ {First(s)} \in L(n) /\ n # 0
        BY <2>2, <3>2
      <4>2. f[s \ {First(s)}] = SumStep(f, s \ {First(s)})
        BY <2>3, <4>1 DEF IsSum
      <4>3. g[s \ {First(s)}] = SumStep(f, s \ {First(s)})
        BY <4>1
      <4> QED
        BY <4>2, <4>3, <3>2 DEF SumStep
    <3> QED
      BY <3>1, <3>2
  <2>5. IsSum(g, L(n))
    <3> HIDE DEF L
    <3> QED
      BY <2>4 DEF IsSum
  <2> QED
    BY <2>1, <2>5
<1>2. Cardinality(D) \in Nat
  BY FS_CardinalityType
<1>3. L(Cardinality(D)) = SUBSET D
  BY FS_Subset
<1>4. \E it : IsSum(it, L(Cardinality(D)))
  BY <1>1, <1>2
<1> QED
  BY <1>3, <1>4

(* The fold's function therefore satisfies its own recursion.              *)
LEMMA SumOfIsSum ==
  ASSUME NEW D, IsFiniteSet(D)
  PROVE  IsSum(SizeSums(D), SUBSET D)
<1>1. \E it : it = [s \in SUBSET D |-> SumStep(it, s)]
  BY SumExists DEF IsSum
<1> QED
  BY <1>1 DEF SizeSums, IsSum

(* The sum of a subset does not depend on the set it is taken from.        *)
LEMMA SumOfSubset ==
  ASSUME NEW D, IsFiniteSet(D), NEW E \in SUBSET D
  PROVE  SizeSums(D)[E] = SizeSum(E)
<1> DEFINE f == SizeSums(D)
           g == SizeSums(E)
           C == {s \in SUBSET E : f[s] # g[s]}
<1>1. IsFiniteSet(E)
  BY FS_Subset
<1>2. \A s \in SUBSET E : f[s] = SumStep(f, s) /\ g[s] = SumStep(g, s)
  <2>1. IsSum(f, SUBSET D) /\ IsSum(g, SUBSET E)
    BY <1>1, SumOfIsSum
  <2> HIDE DEF f, g
  <2> QED
    BY <2>1 DEF IsSum
<1> HIDE DEF f, g
<1>3. C = {}
  <2> SUFFICES ASSUME C # {} PROVE FALSE
    OBVIOUS
  <2>0. C \in SUBSET (SUBSET E)
    OBVIOUS
  <2>1. PICK c \in C : \A d \in C : d \subseteq c => d = c
    <3> HIDE DEF C
    <3> QED
      BY <1>1, <2>0, SmallestSet
  <2>2. CASE c = {}
    BY <2>2, <1>2 DEF SumStep
  <2>3. CASE c # {}
    <3>1. First(c) \in c
      BY <2>3 DEF First
    <3>2. f[c \ {First(c)}] = g[c \ {First(c)}]
      BY <2>1, <3>1
    <3> QED
      BY <1>2, <2>3, <3>2 DEF SumStep
  <2> QED
    BY <2>2, <2>3
<1>4. f[E] = g[E]
  BY <1>3
<1> QED
  BY <1>4, SumDef DEF f, g

(* The sum over nothing, and over what is left without one element.        *)
LEMMA SumUnfolds ==
  ASSUME NEW D, IsFiniteSet(D)
  PROVE  SizeSum(D) = IF D = {} THEN 0 ELSE First(D).size + SizeSum(D \ {First(D)})
<1>1. SizeSums(D)[D] = SumStep(SizeSums(D), D)
  BY SumOfIsSum DEF IsSum
<1>2. SizeSums(D)[D \ {First(D)}] = SizeSum(D \ {First(D)})
  BY SumOfSubset
<1> QED
  BY <1>1, <1>2, SumDef DEF SumStep

(* Which element comes first makes no difference.                          *)
LEMMA SumWithout ==
  ASSUME NEW D, Sized(D)
  PROVE  /\ SizeSum(D) \in Nat
         /\ \A x \in D : SizeSum(D) = x.size + SizeSum(D \ {x})
<1> DEFINE OK(s) == /\ SizeSum(s) \in Nat
                   /\ \A x \in s : SizeSum(s) = x.size + SizeSum(s \ {x})
           C == {s \in SUBSET D : ~ OK(s)}
<1>0. \A s \in SUBSET D : IsFiniteSet(s)
  BY FS_Subset DEF Sized
<1>1. C = {}
  <2> SUFFICES ASSUME C # {} PROVE FALSE
    OBVIOUS
  <2>0. C \in SUBSET (SUBSET D)
    OBVIOUS
  <2>1. PICK c \in C : \A d \in C : d \subseteq c => d = c
    <3> HIDE DEF C
    <3> QED
      BY <2>0, SmallestSet DEF Sized
  <2>2. IsFiniteSet(c) /\ c \subseteq D
    BY <1>0
  <2>3. CASE c = {}
    <3>1. SizeSum(c) = 0
      BY <2>2, <2>3, SumUnfolds
    <3> QED
      BY <2>3, <3>1
  <2>4. CASE c # {}
    <3> DEFINE a == First(c)
    <3>1. a \in c /\ a.size \in Nat
      BY <2>2, <2>4 DEF First, Sized
    <3> HIDE DEF a
    <3>2. SizeSum(c) = a.size + SizeSum(c \ {a})
      BY <2>2, <2>4, SumUnfolds DEF a
    <3>3. \A x \in c : OK(c \ {x})
      BY <2>1, <2>2
    <3>4. SizeSum(c) \in Nat
      BY <3>1, <3>2, <3>3
    <3>5. ASSUME NEW x \in c, x # a PROVE SizeSum(c) = x.size + SizeSum(c \ {x})
      <4>1. SizeSum(c \ {a}) = x.size + SizeSum((c \ {a}) \ {x})
        BY <3>1, <3>3, <3>5
      <4>2. SizeSum(c \ {x}) = a.size + SizeSum((c \ {x}) \ {a})
        BY <3>1, <3>3, <3>5
      <4>3. (c \ {a}) \ {x} = (c \ {x}) \ {a}
        OBVIOUS
      <4>4. x.size \in Nat
        BY <2>2 DEF Sized
      <4>5. SizeSum((c \ {a}) \ {x}) \in Int
        <5>1. (c \ {a}) \ {x} \in SUBSET D /\ (c \ {a}) \ {x} \subseteq c /\ (c \ {a}) \ {x} # c
          BY <2>2, <3>1
        <5>2. (c \ {a}) \ {x} \notin C
          BY <2>1, <5>1
        <5> QED
          BY <5>1, <5>2
      <4> QED
        BY <3>1, <3>2, <4>1, <4>2, <4>3, <4>4, <4>5
    <3> QED
      BY <3>2, <3>4, <3>5
  <2> QED
    BY <2>3, <2>4
<1>2. D \notin C
  BY <1>1
<1> QED
  BY <1>2

(* An element that is new to the set adds its size. *)
LEMMA SumWith ==
  ASSUME NEW D, Sized(D), NEW x, x \notin D, x.size \in Nat
  PROVE  /\ Sized(D \cup {x})
         /\ SizeSum(D \cup {x}) = SizeSum(D) + x.size
<1>1. Sized(D \cup {x})
  BY FS_AddElement DEF Sized
<1>2. (D \cup {x}) \ {x} = D
  OBVIOUS
<1>3. SizeSum(D \cup {x}) = x.size + SizeSum((D \cup {x}) \ {x})
  BY <1>1, SumWithout
<1>4. SizeSum(D) \in Nat
  BY SumWithout
<1>5. SizeSum(D \cup {x}) = x.size + SizeSum(D)
  BY <1>2, <1>3
<1> QED
  BY <1>1, <1>4, <1>5

(* A set falls in two parts.                                               *)
LEMMA SumOfParts ==
  ASSUME NEW D, Sized(D), NEW E \in SUBSET D
  PROVE  /\ Sized(E) /\ Sized(D \ E)
         /\ SizeSum(D) = SizeSum(E) + SizeSum(D \ E)
<1> DEFINE R == D \ E
           C == {s \in SUBSET E : SizeSum(s \cup R) # SizeSum(s) + SizeSum(R)}
<1>1. \A s \in SUBSET D : Sized(s) /\ SizeSum(s) \in Nat
  BY FS_Subset, SumWithout DEF Sized
<1>2. R \in SUBSET D /\ R \cap E = {} /\ E \cup R = D
  OBVIOUS
<1> HIDE DEF R
<1>3. C = {}
  <2> SUFFICES ASSUME C # {} PROVE FALSE
    OBVIOUS
  <2>0. C \in SUBSET (SUBSET E)
    OBVIOUS
  <2>1. PICK c \in C : \A d \in C : d \subseteq c => d = c
    <3>1. IsFiniteSet(E)
      BY <1>1 DEF Sized
    <3> HIDE DEF C
    <3> QED
      BY <2>0, <3>1, SmallestSet
  <2>2. c \in SUBSET E /\ c \in SUBSET D /\ c \cup R \in SUBSET D
    BY <1>2
  <2>3. CASE c = {}
    <3>1. SizeSum(c) = 0
      BY <2>3, <2>2, <1>1, SumUnfolds DEF Sized
    <3>2. c \cup R = R /\ SizeSum(R) \in Nat
      BY <2>3, <1>1, <1>2
    <3>3. SizeSum(c \cup R) = SizeSum(R)
      BY <3>2, Zenon
    <3>4. SizeSum(c \cup R) = SizeSum(c) + SizeSum(R)
      BY <3>1, <3>2, <3>3
    <3> QED
      BY <3>4
  <2>4. CASE c # {}
    <3>1. PICK x \in c : TRUE
      BY <2>4
    <3> DEFINE b == c \ {x}
    <3>2. (c \cup R) \ {x} = b \cup R
      BY <1>2, <2>2, <3>1
    <3>3. b \in SUBSET E /\ b \subseteq c /\ b # c /\ b \in SUBSET D
      BY <2>2, <3>1
    <3>4. SizeSum(b \cup R) = SizeSum(b) + SizeSum(R)
      BY <2>1, <3>3
    <3>5. SizeSum(c) = x.size + SizeSum(b)
      BY <1>1, <2>2, <3>1, SumWithout
    <3>6. SizeSum(c \cup R) = x.size + SizeSum((c \cup R) \ {x})
      BY <1>1, <2>2, <3>1, SumWithout
    <3>7. x.size \in Nat /\ SizeSum(b) \in Nat /\ SizeSum(R) \in Nat
      BY <1>1, <1>2, <2>2, <3>1, <3>3 DEF Sized
    <3>8. SizeSum(c \cup R) = SizeSum(c) + SizeSum(R)
      <4> HIDE DEF b
      <4> QED
        BY <3>2, <3>4, <3>5, <3>6, <3>7
    <3> QED
      BY <3>8
  <2> QED
    BY <2>3, <2>4
<1>4. SizeSum(E \cup R) = SizeSum(E) + SizeSum(R)
  BY <1>3
<1> QED
  BY <1>1, <1>2, <1>4 DEF R

(* The sizes of stored packets, over sums of finite sets.                  *)
LEMMA SizeIsSum ==
  ASSUME NEW stored
  PROVE  Size(stored) = SizeSum(DOMAIN stored)
BY Zenon DEF Size, SizeSum

(* The sizes of what is stored in a mailbox, and of what of it is          *)
(* unexpired, have sums, and the difference of the sums is what dropping   *)
(* the expired packets frees.                                              *)
LEMMA StoredSizes ==
  ASSUME StoreTyped, NEW m \in Mailboxes
  PROVE  /\ Sized(DOMAIN packets[m]) /\ Sized(Unexpired(packets[m]))
         /\ Size(packets[m]) \in Nat /\ DroppedBytes(m) \in Nat
         /\ SizeSum(Unexpired(packets[m])) \in Nat
         /\ Size(packets[m]) - DroppedBytes(m) = SizeSum(Unexpired(packets[m]))
         /\ Cardinality(Unexpired(packets[m])) \in Nat
         /\ Cardinality(Unexpired(packets[m])) <= Cardinality(DOMAIN packets[m])
<1> DEFINE D == DOMAIN packets[m]
           E == Unexpired(packets[m])
<1>1. Sized(D) /\ E \in SUBSET D
  BY PacketData DEF StoreTyped, StoredMap, Sized, Unexpired
<1>2. DroppedBytes(m) = SizeSum(D \ E)
  <2>1. DOMAIN Restrict(packets[m], D \ E) = D \ E
    BY RestrictedMap
  <2> QED
    BY <2>1, SizeIsSum DEF DroppedBytes
<1>3. Size(packets[m]) = SizeSum(D)
  BY SizeIsSum
<1> HIDE DEF D, E
<1>4. Sized(E) /\ Sized(D \ E) /\ SizeSum(D) = SizeSum(E) + SizeSum(D \ E)
  BY <1>1, SumOfParts
<1>5. SizeSum(D) \in Nat /\ SizeSum(E) \in Nat /\ SizeSum(D \ E) \in Nat
  BY <1>1, <1>4, SumWithout
<1>6. Cardinality(E) \in Nat /\ Cardinality(E) <= Cardinality(D)
  BY <1>1, FS_Subset, FS_CardinalityType DEF Sized
<1>7. SizeSum(D) - SizeSum(D \ E) = SizeSum(E)
  BY <1>4, <1>5
<1> QED
  BY <1>1, <1>2, <1>3, <1>4, <1>5, <1>6, <1>7 DEF D, E

(* The byte count is exact and both quotas hold, whatever expired, was     *)
(* deleted, refused or restarted in between.                               *)
THEOREM RelayQuotaHolds == Spec => []QuotaHolds
<1> DEFINE Exact(m) == /\ bytes[m] = Size(packets[m])
                       /\ bytes[m] <= max_bytes
                       /\ Cardinality(DOMAIN packets[m]) <= max_packets
<1>1. Init => QuotaHolds
  <2> SUFFICES ASSUME Init, NEW m \in Mailboxes PROVE Exact(m)
    BY DEF QuotaHolds
  <2>1. bytes[m] = 0 /\ packets[m] = <<>>
    BY DEF Init
  <2>2. Size(packets[m]) = SizeSum({})
    BY <2>1, SizeIsSum, EmptyMap
  <2>3. SizeSum({}) = 0 /\ Cardinality({}) = 0
    BY SumUnfolds, FS_EmptySet
  <2> QED
    BY <2>1, <2>2, <2>3, EmptyMap, LimitData
<1>2. StoreTyped /\ StoredIsTombstoned /\ QuotaHolds /\ [Next]_vars => QuotaHolds'
  <2> SUFFICES ASSUME StoreTyped, StoredIsTombstoned, QuotaHolds, [Next]_vars,
                      NEW m \in Mailboxes
               PROVE  Exact(m)'
    BY DEF QuotaHolds
  <2>0. Exact(m)
    BY DEF QuotaHolds
  <2> DEFINE E == Unexpired(packets[m])
  (* A mailbox that dropped what expired. *)
  <2>1. ASSUME DOMAIN packets'[m] = E, bytes'[m] = bytes[m] - DroppedBytes(m)
        PROVE  Exact(m)'
    <3>1. Size(packets'[m]) = SizeSum(E)
      BY <2>1, SizeIsSum
    <3> HIDE DEF E
    <3>2. bytes'[m] = Size(packets'[m])
      BY <2>0, <2>1, <3>1, StoredSizes DEF E
    <3>3. bytes'[m] <= max_bytes
      BY <2>0, <2>1, StoredSizes, LimitData
    <3>4. Cardinality(DOMAIN packets'[m]) <= max_packets
      <4>1. Cardinality(DOMAIN packets[m]) \in Nat
        BY StoredSizes, FS_CardinalityType DEF Sized
      <4> QED
        BY <2>0, <2>1, <4>1, StoredSizes, LimitData DEF E
    <3> QED
      BY <3>2, <3>3, <3>4
  <2>2. ASSUME UNCHANGED <<bytes[m], packets[m]>> PROVE Exact(m)'
    BY <2>0, <2>2
  <2>3. CASE Prune
    <3>1. DOMAIN packets'[m] = E
      BY <2>3, PruneEffect
    <3>2. CASE m \in Forgotten
      <4>1. E = {} /\ bytes'[m] = 0
        BY <2>3, <3>2 DEF Prune, Forgotten
      <4>2. Size(packets'[m]) = 0 /\ Cardinality(DOMAIN packets'[m]) = 0
        <5>1. DOMAIN packets'[m] = {}
          BY <3>1, <4>1
        <5> QED
          BY <5>1, SizeIsSum, SumUnfolds, FS_EmptySet
      <4> QED
        BY <4>1, <4>2, LimitData
    <3>3. CASE m \notin Forgotten
      <4>1. bytes'[m] = bytes[m] - DroppedBytes(m)
        BY <2>3, <3>3 DEF Prune
      <4> QED
        BY <2>1, <3>1, <4>1
    <3> QED
      BY <3>2, <3>3
  <2>4. CASE Restart
    BY <2>0, <2>4 DEF Restart
  <2>5. ASSUME NEW p \in Packets, Deliver(p) PROVE Exact(m)'
    <3>1. CASE p.mailbox_id # m
      <4>1. bytes'[m] = bytes[m]
        BY <2>5, <3>1 DEF Deliver, StoreTyped
      <4>2. packets'[m] = packets[m]
        BY <2>5, <3>1, DeliverEffect DEF Delivered
      <4> QED
        BY <2>2, <4>1, <4>2
    <3>2. CASE p.mailbox_id = m
      <4>1. /\ now < p.expires_at /\ p \notin DOMAIN tombstones[m]
            /\ DOMAIN packets'[m] = E \cup {p}
        BY <2>5, <3>2, DeliverEffect DEF Delivered
      <4>2. p \notin E
        BY <4>1 DEF StoredIsTombstoned
      <4>3. /\ Cardinality(E) < max_packets
            /\ bytes[m] - DroppedBytes(m) + p.size <= max_bytes
            /\ bytes'[m] = bytes[m] - DroppedBytes(m) + p.size
        BY <2>5, <3>2 DEF Deliver, QuotaLeft, StoreTyped
      <4> HIDE DEF E
      <4>4. p.size \in Nat /\ Sized(E)
        BY PacketData, StoredSizes DEF E
      <4>5. SizeSum(E \cup {p}) = SizeSum(E) + p.size
        BY <4>2, <4>4, SumWith
      <4>6. Cardinality(E \cup {p}) = Cardinality(E) + 1
        BY <4>2, <4>4, FS_AddElement DEF Sized
      <4>7. Size(packets'[m]) = SizeSum(E) + p.size
        BY <4>1, <4>5, SizeIsSum
      <4>8. SizeSum(E) = bytes[m] - DroppedBytes(m) /\ Cardinality(E) \in Nat
        BY <2>0, StoredSizes DEF E
      <4>9. bytes'[m] = Size(packets'[m])
        BY <4>3, <4>7, <4>8
      <4>10. Cardinality(DOMAIN packets'[m]) <= max_packets
        BY <4>1, <4>3, <4>6, <4>8, LimitData
      <4> QED
        BY <4>3, <4>9, <4>10
    <3> QED
      BY <3>1, <3>2
  <2>6. ASSUME NEW p \in Packets, DeliverRefused(p) PROVE Exact(m)'
    <3>1. CASE p.mailbox_id # m
      BY <2>2, <2>6, <3>1 DEF DeliverRefused, StoreTyped
    <3>2. CASE p.mailbox_id = m
      <4>1. bytes'[m] = bytes[m] - DroppedBytes(m)
        BY <2>6, <3>2 DEF DeliverRefused, StoreTyped
      <4> QED
        BY <2>1, <2>6, <3>2, <4>1, RefusedEffect
    <3> QED
      BY <3>1, <3>2
  <2>7. ASSUME NEW n \in Mailboxes, NEW p \in Packets, Delete(n, p) PROVE Exact(m)'
    <3>1. CASE n # m
      BY <2>2, <2>7, <3>1 DEF Delete, StoreTyped
    <3>2. CASE n = m
      <4> DEFINE D == DOMAIN packets[m]
      <4>1. p \in D /\ DOMAIN packets'[m] = D \ {p}
        BY <2>7, <3>2, DeleteEffect
      <4>2. bytes'[m] = bytes[m] - p.size
        BY <2>7, <3>2 DEF Delete, StoreTyped
      <4>3. Sized(D) /\ p.size \in Nat /\ bytes[m] = SizeSum(D) /\ bytes[m] \in Nat
        BY <2>0, StoredSizes, SizeIsSum, PacketData
      <4>4. Cardinality(D) <= max_packets
        BY <2>0
      <4> HIDE DEF D
      <4>5. SizeSum(D) = p.size + SizeSum(D \ {p})
        BY <4>1, <4>3, SumWithout
      <4>6. SizeSum(D \ {p}) \in Nat
        <5>1. Sized(D \ {p})
          BY <4>3, FS_RemoveElement DEF Sized
        <5> QED
          BY <5>1, SumWithout
      <4>7. bytes'[m] = Size(packets'[m])
        <5>1. Size(packets'[m]) = SizeSum(D \ {p})
          BY <4>1, SizeIsSum
        <5> QED
          BY <4>2, <4>3, <4>5, <4>6, <5>1
      <4>8. bytes'[m] <= max_bytes
        BY <2>0, <4>2, <4>3, LimitData
      <4>9. Cardinality(DOMAIN packets'[m]) <= max_packets
        <5>1. Cardinality(D \ {p}) = Cardinality(D) - 1 /\ Cardinality(D) \in Nat
          BY <4>1, <4>3, FS_RemoveElement, FS_CardinalityType DEF Sized
        <5> QED
          BY <4>1, <4>4, <5>1, LimitData
      <4> QED
        BY <4>7, <4>8, <4>9
    <3> QED
      BY <3>1, <3>2
  <2>8. ASSUME UNCHANGED <<bytes, packets>> PROVE Exact(m)'
    BY <2>2, <2>8
  <2> QED
    BY <2>3, <2>4, <2>5, <2>6, <2>7, <2>8
       DEF Next, vars, store, Tick, Publish, SetSenderBlocked, ListFirst, ListNext
<1> QED
  BY <1>1, <1>2, RelayTyping, RelayStoredIsTombstoned, PTL DEF Spec

(* The type invariant the runs check: the byte count stays in its bounds.  *)
THEOREM RelayTypeOK == Spec => []TypeOK
<1>1. StoreTyped /\ QuotaHolds => TypeOK
  <2> SUFFICES ASSUME StoreTyped, QuotaHolds PROVE TypeOK
    OBVIOUS
  <2>1. \A m \in Mailboxes : bytes[m] \in 0..max_bytes
    BY StoredSizes, LimitData DEF QuotaHolds
  <2>2. bytes \in [Mailboxes -> 0..max_bytes]
    BY <2>1 DEF StoreTyped
  <2> QED
    BY <2>2 DEF StoreTyped, TypeOK, StoredMap, TombstoneMap, AcceptedDelivery
<1> QED
  BY <1>1, RelayTyping, RelayQuotaHolds, PTL
-----------------------------------------------------------------------------
(* While an enumeration goes on, what was due and is still listable is     *)
(* either returned already or beyond the cursor, and it has a tombstone,   *)
(* so it is not delivered again under another sequence number.             *)
OnTrack(m) ==
    /\ \A p \in reader[m].due : now < p.expires_at => p \in DOMAIN tombstones[m]
    /\ reader[m].state = "paging" =>
          \A p \in reader[m].due \cap Unexpired(packets[m]) :
             p \in reader[m].seen \/ packets[m][p].seq > reader[m].cursor
    /\ reader[m].state = "done" =>
          \A p \in reader[m].due \cap Unexpired(packets[m]) : p \in reader[m].seen

ReadersOnTrack == \A m \in Mailboxes : OnTrack(m)

(* Every enumeration in progress has seen what it has to have seen by its  *)
(* cursor.                                                                 *)
LEMMA RelayReadersOnTrack == Spec => []ReadersOnTrack
<1>1. Init => ReadersOnTrack
  BY DEF Init, ReadersOnTrack, OnTrack, IdleReader
<1>2. StoreTyped /\ StoredIsTombstoned /\ ReadersOnTrack /\ [Next]_vars
        => ReadersOnTrack'
  <2> SUFFICES ASSUME StoreTyped, StoredIsTombstoned, ReadersOnTrack, [Next]_vars,
                      NEW m \in Mailboxes
               PROVE  OnTrack(m)'
    BY DEF ReadersOnTrack
  <2>0. OnTrack(m)
    BY DEF ReadersOnTrack
  <2>00. /\ \A p \in reader[m].due : p \in Packets /\ p.expires_at \in Nat
         /\ \A p \in DOMAIN packets[m] : packets[m][p].seq \in 1..MAX_SAFE_NONCE
    <3>1. reader[m] \in Reader /\ StoredMap(packets[m])
      BY DEF StoreTyped
    <3>2. /\ \A p \in reader[m].due : p \in Packets
          /\ \A p \in DOMAIN packets[m] : packets[m][p].seq \in 1..MAX_SAFE_NONCE
      BY <3>1 DEF Reader, StoredMap, PacketRecord
    <3> QED
      BY <3>2, PacketData
  (* A step that leaves the reader alone and keeps what is unexpired in the *)
  (* tombstones and unchanged in the packets, adding nothing that is due.   *)
  <2>1. ASSUME UNCHANGED reader[m],
               \A p \in Packets : now' < p.expires_at => now < p.expires_at,
               \A p \in DOMAIN tombstones[m] :
                  now' < p.expires_at => p \in DOMAIN tombstones'[m],
               \A p \in DOMAIN packets'[m] :
                  p \in reader[m].due /\ now' < p.expires_at
                    => p \in DOMAIN packets[m] /\ packets'[m][p] = packets[m][p]
        PROVE  OnTrack(m)'
    BY <2>0, <2>00, <2>1 DEF OnTrack, Unexpired
  <2>2. CASE Tick
    <3>1. now \in Nat /\ now' = now + 1 /\ UNCHANGED <<reader, tombstones, packets>>
      BY <2>2, TickEffect
    <3>2. \A p \in Packets : now' < p.expires_at => now < p.expires_at
      BY <3>1, PacketData
    <3> QED
      BY <2>1, <3>1, <3>2
  <2>3. CASE Prune
    BY <2>1, <2>3, PruneEffect DEF LiveTombstones, Unexpired
  <2>4. ASSUME NEW c \in Cards, Publish(c) PROVE OnTrack(m)'
    BY <2>1, <2>4 DEF Publish
  <2>5. ASSUME NEW p \in Packets, Deliver(p) PROVE OnTrack(m)'
    <3>0. Delivered(p, p.mailbox_id)
      BY <2>5, DeliverEffect
    <3>1. UNCHANGED <<now, reader>>
      BY <3>0 DEF Delivered
    <3>2. CASE p.mailbox_id # m
      <4>1. UNCHANGED <<packets[m], tombstones[m]>>
        BY <3>0, <3>2 DEF Delivered
      <4> QED
        BY <2>1, <3>1, <4>1
    <3>3. CASE p.mailbox_id = m
      <4>1. /\ p \notin DOMAIN tombstones[m] /\ now < p.expires_at
            /\ DOMAIN packets'[m] = Unexpired(packets[m]) \cup {p}
            /\ \A q \in Unexpired(packets[m]) : q # p => packets'[m][q] = packets[m][q]
            /\ DOMAIN tombstones'[m] = DOMAIN tombstones[m] \cup {p}
        BY <3>0, <3>3 DEF Delivered
      <4>2. p \notin reader[m].due
        BY <2>0, <4>1 DEF OnTrack
      <4> QED
        BY <2>1, <3>1, <4>1, <4>2 DEF Unexpired
    <3> QED
      BY <3>2, <3>3
  <2>6. ASSUME NEW p \in Packets, DeliverRefused(p) PROVE OnTrack(m)'
    BY <2>1, <2>6, RefusedEffect DEF Unexpired
  <2>7. ASSUME NEW n \in Mailboxes, NEW p \in Packets, Delete(n, p) PROVE OnTrack(m)'
    BY <2>1, <2>7, DeleteEffect
  <2>8. ASSUME NEW n \in Mailboxes, ListFirst(n), Quiet PROVE OnTrack(m)'
    <3>1. CASE n # m
      <4>1. reader'[m] = reader[m]
        BY <2>8, <3>1 DEF ListFirst, StoreTyped
      <4> QED
        BY <2>1, <2>8, <4>1 DEF Quiet
    <3>2. CASE n = m
      <4>1. reader'[m] = [state |-> "paging", cursor |-> 0, seen |-> {},
                          due |-> Unexpired(packets[m])]
        BY <2>8, <3>2 DEF ListFirst, StoreTyped
      <4>2. UNCHANGED <<now, packets, tombstones>>
        BY <2>8 DEF Quiet
      <4> QED
        BY <2>00, <4>1, <4>2 DEF OnTrack, StoredIsTombstoned, Unexpired
    <3> QED
      BY <3>1, <3>2
  <2>9. ASSUME NEW n \in Mailboxes, ListNext(n), Quiet PROVE OnTrack(m)'
    <3>1. CASE n # m
      <4>1. reader'[m] = reader[m]
        BY <2>9, <3>1 DEF ListNext, StoreTyped
      <4> QED
        BY <2>1, <2>9, <4>1 DEF Quiet
    <3>2. CASE n = m
      <4> DEFINE top == Max({packets[m][p].seq : p \in Page(m)})
                 more == Page(m) # Matching(m)
      <4>1. /\ reader'[m] = [state |-> IF more THEN "paging" ELSE "done",
                             cursor |-> IF more THEN top ELSE reader[m].cursor,
                             seen |-> reader[m].seen \cup Page(m),
                             due |-> reader[m].due]
            /\ reader[m].state = "paging"
        BY <2>9, <3>2 DEF ListNext, StoreTyped
      <4>2. UNCHANGED <<now, packets, tombstones>>
        BY <2>9 DEF Quiet
      <4>3. \A p \in reader[m].due \cap Unexpired(packets[m]) :
               p \in reader[m].seen \/ p \in Matching(m)
        BY <2>0, <4>1 DEF OnTrack, Matching
      <4>4. more => \A p \in Matching(m) \ Page(m) : packets[m][p].seq > top
        BY PageIsFirst
      <4> HIDE DEF top
      <4>5. CASE more
        <5>1. reader'[m].state = "paging" /\ reader'[m].cursor = top
              /\ reader'[m].seen = reader[m].seen \cup Page(m)
              /\ reader'[m].due = reader[m].due
          BY <4>1, <4>5
        <5> QED
          BY <2>0, <4>2, <4>3, <4>4, <4>5, <5>1 DEF OnTrack, Unexpired
      <4>6. CASE ~ more
        <5>1. reader'[m].state = "done"
              /\ reader'[m].seen = reader[m].seen \cup Matching(m)
              /\ reader'[m].due = reader[m].due
          BY <4>1, <4>6
        <5> QED
          BY <2>0, <4>2, <4>3, <5>1 DEF OnTrack, Unexpired
      <4> QED
        BY <4>5, <4>6
    <3> QED
      BY <3>1, <3>2
  <2>10. CASE UNCHANGED reader /\ Quiet
    BY <2>1, <2>10 DEF Quiet
  <2> QED
    BY <2>2, <2>3, <2>4, <2>5, <2>6, <2>7, <2>8, <2>9, <2>10, StepKinds
<1> QED
  BY <1>1, <1>2, RelayTyping, RelayStoredIsTombstoned, PTL DEF Spec

(* An enumeration that ended missed nothing that was there when it began   *)
(* and still is, for every page limit and whatever happened between pages. *)
THEOREM RelayEnumerationComplete == Spec => []EnumerationComplete
<1>1. ReadersOnTrack => EnumerationComplete
  BY DEF ReadersOnTrack, OnTrack, EnumerationComplete
<1> QED
  BY <1>1, RelayReadersOnTrack, PTL
-----------------------------------------------------------------------------
(* The refinement.  A step that changes no status but of held packets that *)
(* expired, which are then gone, is one that MailDelivery allows.          *)
LEMMA DropsAreAllowed ==
  ASSUME UNCHANGED now,
         \A p \in Packets :
            \/ Status(p)' = Status(p)
            \/ Status(p) = "held" /\ now >= p.expires_at /\ Status(p)' = "gone"
  PROVE  Promise!DropExpired
<1> DEFINE out == {p \in Packets : /\ Status(p) = "held" /\ now >= p.expires_at
                                   /\ Status(p)' = "gone"}
<1>1. out \in SUBSET Promise!ExpiredHeld
  BY DEF Promise!ExpiredHeld, Promise!Expired
<1>2. [p \in Packets |-> Status(p)]' =
        [q \in Packets |-> IF q \in out THEN "gone"
                          ELSE [p \in Packets |-> Status(p)][q]]
  OBVIOUS
<1> HIDE DEF out
<1> QED
  BY <1>1, <1>2 DEF Promise!DropExpired

(* Each step of the relay is a step of MailDelivery or changes nothing     *)
(* MailDelivery sees.                                                      *)
LEMMA StepKeepsPromise ==
  ASSUME StoreTyped, StoredIsTombstoned, [Next]_vars
  PROVE  [Promise!Next]_<<now, [p \in Packets |-> Status(p)]>>
<1> DEFINE st == [p \in Packets |-> Status(p)]
<1>0. \A p \in Packets : p.mailbox_id \in Mailboxes /\ p.expires_at \in Nat
  BY PacketData
<1>1. CASE Tick
  <2>1. /\ now \in Nat /\ now' = now + 1 /\ UNCHANGED <<packets, tombstones>>
        /\ now < MaxTime
    BY <1>1, TickEffect DEF Tick
  <2>2. \A p \in Packets : Status(p)' = IF Status(p) = "new" /\ now' >= p.expires_at
                                        THEN "gone" ELSE Status(p)
    BY <1>0, <2>1 DEF Status
  <2>3. st' = [p \in Packets |-> IF st[p] = "new" /\ now' >= p.expires_at
                                 THEN "gone" ELSE st[p]]
    BY <2>2
  <2> QED
    BY <2>1, <2>3 DEF Promise!Next, Promise!Tick
<1>2. CASE Prune
  <2>1. UNCHANGED now
    BY <1>2 DEF Prune
  <2>2. ASSUME NEW p \in Packets
        PROVE  \/ Status(p)' = Status(p)
               \/ Status(p) = "held" /\ now >= p.expires_at /\ Status(p)' = "gone"
    <3> DEFINE m == p.mailbox_id
    <3>1. /\ DOMAIN packets'[m] = Unexpired(packets[m])
          /\ DOMAIN tombstones'[m] = LiveTombstones(m)
      BY <1>0, <1>2, PruneEffect
    <3> QED
      BY <1>0, <2>1, <3>1 DEF Status, Unexpired, LiveTombstones, StoreTyped
  <2>3. Promise!DropExpired
    BY <2>1, <2>2, DropsAreAllowed
  <2> QED
    BY <2>3 DEF Promise!Next
<1>3. ASSUME NEW c \in Cards, Publish(c) PROVE UNCHANGED <<now, st>>
  BY <1>3 DEF Publish, Status
<1>4. ASSUME NEW p \in Packets, Deliver(p) PROVE Promise!Accept(p)
  <2> DEFINE m == p.mailbox_id
  <2>0. Delivered(p, m)
    BY <1>4, DeliverEffect
  <2>1. /\ m \in Mailboxes /\ now < p.expires_at /\ p \notin DOMAIN tombstones[m]
        /\ DOMAIN packets'[m] = Unexpired(packets[m]) \cup {p}
        /\ DOMAIN tombstones'[m] = DOMAIN tombstones[m] \cup {p}
        /\ \A n \in Mailboxes \ {m} :
              packets'[n] = packets[n] /\ tombstones'[n] = tombstones[n]
        /\ UNCHANGED now
    BY <2>0 DEF Delivered
  <2>2. now \in Nat
    BY DEF StoreTyped
  <2>3. Status(p) = "new" /\ Status(p)' = "held" /\ ~ (now >= p.expires_at)
    <3>1. p \notin DOMAIN packets[m]
      BY <2>1 DEF StoredIsTombstoned, Unexpired
    <3> QED
      BY <1>0, <2>1, <2>2, <3>1 DEF Status
  <2>4. ASSUME NEW q \in Packets, q # p
        PROVE  \/ Status(q)' = Status(q)
               \/ Status(q) = "held" /\ now >= q.expires_at /\ Status(q)' = "gone"
    <3>1. CASE q.mailbox_id = m
      BY <1>0, <2>1, <2>2, <2>4, <3>1 DEF Status, Unexpired
    <3>2. CASE q.mailbox_id # m
      BY <1>0, <2>1, <3>2 DEF Status
    <3> QED
      BY <3>1, <3>2
  <2> DEFINE out == {q \in Packets : /\ q # p /\ Status(q) = "held"
                                     /\ now >= q.expires_at /\ Status(q)' = "gone"}
  <2>5. out \in SUBSET Promise!ExpiredHeld
    BY DEF Promise!ExpiredHeld, Promise!Expired
  <2>6. st' = [q \in Packets |-> IF q = p THEN "held"
                                 ELSE IF q \in out THEN "gone" ELSE st[q]]
    BY <2>3, <2>4
  <2> HIDE DEF out
  <2>7. st[p] = "new"
    BY <2>3
  <2> QED
    BY <2>1, <2>3, <2>5, <2>6, <2>7 DEF Promise!Accept, Promise!Expired
<1>5. ASSUME NEW p \in Packets, DeliverRefused(p) PROVE Promise!DropExpired
  <2> DEFINE m == p.mailbox_id
  <2>1. /\ m \in Mailboxes
        /\ DOMAIN packets'[m] = Unexpired(packets[m])
        /\ \A n \in Mailboxes \ {m} : packets'[n] = packets[n]
        /\ UNCHANGED <<now, tombstones>>
    BY <1>5, RefusedEffect
  <2>2. now \in Nat
    BY DEF StoreTyped
  <2> HIDE DEF m
  <2>3. ASSUME NEW q \in Packets
        PROVE  \/ Status(q)' = Status(q)
               \/ Status(q) = "held" /\ now >= q.expires_at /\ Status(q)' = "gone"
    <3>1. CASE q.mailbox_id = m
      BY <1>0, <2>1, <2>2, <3>1 DEF Status, Unexpired
    <3>2. CASE q.mailbox_id # m
      BY <1>0, <2>1, <3>2 DEF Status
    <3> QED
      BY <3>1, <3>2
  <2> QED
    BY <2>1, <2>3, DropsAreAllowed
<1>6. ASSUME NEW m \in Mailboxes, NEW p \in Packets, Delete(m, p)
      PROVE  Promise!Release(p) \/ UNCHANGED <<now, st>>
  <2>1. /\ p \in DOMAIN packets[m]
        /\ DOMAIN packets'[m] = DOMAIN packets[m] \ {p}
        /\ \A n \in Mailboxes \ {m} : packets'[n] = packets[n]
        /\ UNCHANGED <<now, tombstones>>
    BY <1>6, DeleteEffect
  <2>2. \A q \in Packets : q # p => Status(q)' = Status(q)
    BY <1>0, <2>1 DEF Status
  <2>3. CASE p.mailbox_id = m
    <3>1. now \in Nat
      BY DEF StoreTyped
    <3>2. Status(p) = "held" /\ Status(p)' = "gone"
      BY <1>0, <2>1, <2>3, <3>1 DEF Status, StoredIsTombstoned, Unexpired
    <3>3. st' = [st EXCEPT ![p] = "gone"] /\ st[p] = "held"
      BY <2>2, <3>2
    <3> QED
      BY <2>1, <3>3 DEF Promise!Release
  <2>4. CASE p.mailbox_id # m
    <3>1. Status(p)' = Status(p)
      BY <1>0, <2>1, <2>4 DEF Status
    <3> QED
      BY <2>1, <2>2, <3>1
  <2> QED
    BY <2>3, <2>4
<1>7. ASSUME Quiet PROVE UNCHANGED <<now, st>>
  BY <1>7 DEF Quiet, Status
<1> QED
  BY <1>1, <1>2, <1>3, <1>4, <1>5, <1>6, <1>7, StepKinds DEF Promise!Next

(* The relay implements MailDelivery: no packet is ever taken in twice,    *)
(* comes back, or is given up before its expiry except by its owner.       *)
THEOREM RelayKeepsPromise == Spec => PromiseKept
<1>1. Init => Promise!Init
  <2> SUFFICES ASSUME Init, NEW p \in Packets PROVE now = 0 /\ Status(p) = "new"
    BY DEF Promise!Init, Init
  <2>1. /\ packets[p.mailbox_id] = <<>> /\ tombstones[p.mailbox_id] = <<>>
        /\ now = 0 /\ ~ (now >= p.expires_at)
    BY PacketData DEF Init
  <2> QED
    BY <2>1, EmptyMap DEF Status
<1>2. StoreTyped /\ StoredIsTombstoned /\ [Next]_vars
        => [Promise!Next]_<<now, [p \in Packets |-> Status(p)]>>
  BY StepKeepsPromise
<1> QED
  BY <1>1, <1>2, RelayTyping, RelayStoredIsTombstoned, PTL
     DEF Spec, PromiseKept, Promise!Spec
=============================================================================
