---------------------------- MODULE ConnectorProofs ----------------------------
(***************************************************************************)
(* What a local connector tells its agent.                                 *)
(*                                                                         *)
(* First, of a room: the head it reports, and the part of the room its     *)
(* agent has been shown, for every set of types and every order of reads,  *)
(* writes and deliveries, any length of the room and of the history kept,  *)
(* and any number of attempts of send_anyway.  What they assume of a       *)
(* connector is that room lists carry the types of the room (Typed).       *)
(*                                                                         *)
(* Then, of a credential: what a relying party and an auditor may conclude *)
(* about it, for every set of keys, ceilings and grants, any age of the    *)
(* service's copy of the document, any skew of the relying party's clock,  *)
(* any time bound and any number of accepted events.                       *)
(***************************************************************************)
EXTENDS RoomConnector, Delegation, FiniteSetTheorems, TLAPS

(* A set of natural numbers has a least element.                           *)
LEMMA LeastNumber ==
  ASSUME NEW T \in SUBSET Nat, T # {}
  PROVE  \E x \in T : \A y \in T : x <= y
<1> DEFINE R == {ss \in Nat \X Nat : ss[1] < ss[2]}
<1>1. IsWellFoundedOn(R, Nat)
  BY NatLessThanWellFounded DEF OpToRel
<1>2. \A x, y \in Nat : <<y, x>> \in R <=> y < x
  OBVIOUS
<1> HIDE DEF R
<1>3. PICK x \in T : \A y \in T : ~ (<<y, x>> \in R)
  BY <1>1, WFMin
<1>4. ASSUME NEW y \in T PROVE x <= y
  <2>1. x \in Nat /\ y \in Nat
    OBVIOUS
  <2>2. ~ (y < x)
    BY <1>2, <1>3, <2>1
  <2> QED
    BY <2>1, <2>2
<1> QED
  BY <1>4
(* A bounded set of natural numbers has a maximum, and Max is it.          *)
LEMMA MaxOfBounded ==
  ASSUME NEW b \in Nat, NEW T \in SUBSET (0..b), T # {}
  PROVE  /\ Max(T) \in T
         /\ \A y \in T : Max(T) >= y
<1> DEFINE U == {n \in Nat : b - n \in T}
<1>1. U \in SUBSET Nat /\ U # {}
  <2>1. PICK x \in T : TRUE
    OBVIOUS
  <2>2. b - x \in Nat /\ b - (b - x) = x
    BY <2>1
  <2> QED
    BY <2>1, <2>2
<1>2. PICK u \in U : \A v \in U : u <= v
  BY <1>1, LeastNumber
<1>3. b - u \in T /\ u \in Nat
  OBVIOUS
<1>4. ASSUME NEW y \in T PROVE b - u >= y
  <2>1. b - y \in Nat /\ b - (b - y) = y
    OBVIOUS
  <2>2. b - y \in U
    BY <2>1
  <2>3. u <= b - y
    BY <1>2, <2>2
  <2> QED
    BY <2>1, <2>3, <1>3
<1> QED
  BY <1>3, <1>4 DEF Max
-----------------------------------------------------------------------------
(* What the results assume: every room list carries the types of the room. *)
Typed == FALSE \notin Listings

(* The local copy of a room.                                               *)
LocalRoom == [known : BOOLEAN, types : SUBSET DOMAIN CustomTypes, head_seq : Nat,
              synced_seq : Nat, first : Nat \ {0}, presented_seq : Nat]

(* A call, whatever the number of its draft.                               *)
CallRecord(id) ==
    [step : {"idle", "check", "submit", "sync"},
     tool : {"none", "write", "room_join", "room_state", "room_timeline"},
     type : Types \cup {"none"}, policy : Policies \cup {"none"}, draft : {id},
     base : Nat, origin : Nat, attempts : Nat, presented : Nat, previous : Nat,
     bound : BOOLEAN, own : Nat, until : Nat]

(* The room's log: it begins with its creation, and a custom type is used  *)
(* once the registry has it.                                               *)
LogOf(l) ==
    /\ l \in Seq(RoomRecord) /\ Len(l) <= MaxSeq
    /\ l # <<>> => l[1].type = "create"
    /\ \A s \in 1..Len(l) : l[s].type \in DOMAIN BuiltinClass \cup TypesAt(l, s - 1)

(* A copy of it: the types known are enough for the records it has and for *)
(* the next, and so is the head.                                           *)
RoomOf(l, r) ==
    /\ r \in LocalRoom
    /\ r.synced_seq \in 0..Len(l) /\ r.first \in 1..r.synced_seq + 1
    /\ IF r.known THEN TypesAt(l, r.synced_seq) \subseteq r.types ELSE r.synced_seq = 0
    /\ r.head_seq = HeadAt(l, r.synced_seq)
    /\ r.presented_seq \in 0..r.head_seq

(* A call is about a room that is known, and a write has a type.           *)
CallTyped ==
    /\ call \in CallRecord(call.draft)
    /\ IF call.step = "idle" THEN call = IdleCall ELSE room.known
    /\ call.step \in {"check", "submit"} => call.tool \in {"write", "room_join"}
    /\ call.step = "check" => call.tool = "write"
    /\ call.tool \in {"write", "room_join"} => call.type \in Types
    /\ call.tool = "write" => call.policy \in Policies
    /\ call.tool = "room_join" => call.type = "join" /\ ~ call.bound
    /\ call.step = "sync" /\ call.tool = "room_join" => call.own > 0
    /\ \A d \in drafts : room.known /\ d.type \in Types /\ d.base \in Nat

ConnectorSound == LogOf(log) /\ RoomOf(log, room) /\ CallTyped
-----------------------------------------------------------------------------
(* Types and heads of a log *)

(* The classes of the built-in types.                                      *)
LEMMA BuiltinTypes ==
  /\ DOMAIN BuiltinClass = {"create", "update", "define", "message", "join"}
  /\ BuiltinClass["create"] = "genesis" /\ BuiltinClass["update"] = "contract"
  /\ BuiltinClass["define"] = "contract" /\ BuiltinClass["message"] = "message"
  /\ BuiltinClass["join"] = "signal"
BY DEF BuiltinClass

(* A type that is known is classed as the registry with all types does. *)
LEMMA KnownClass ==
  ASSUME NEW types \in SUBSET DOMAIN CustomTypes,
         NEW t \in DOMAIN BuiltinClass \cup types
  PROVE  /\ AdvancesHead(t, types) = AdvancesHead(t, DOMAIN CustomTypes)
         /\ RequiresHead(t, types) = RequiresHead(t, DOMAIN CustomTypes)
<1>1. RecordClass(t, types) = RecordClass(t, DOMAIN CustomTypes)
  BY DEF RecordClass
<1> QED
  BY <1>1 DEF AdvancesHead, RequiresHead

(* The registry only grows, with the first definition. *)
LEMMA RegistryGrows ==
  ASSUME NEW l, NEW n \in Nat
  PROVE  /\ TypesAt(l, n) \subseteq DOMAIN CustomTypes
         /\ \A k \in 0..n : TypesAt(l, k) \subseteq TypesAt(l, n)
         /\ l[n + 1].type = "define" => TypesAt(l, n + 1) = DOMAIN CustomTypes
         /\ l[n + 1].type # "define" => TypesAt(l, n + 1) = TypesAt(l, n)
<1>1. TypesAt(l, n) \subseteq DOMAIN CustomTypes
  BY TypesAssumption DEF TypesAt
<1>2. \A k \in 0..n : TypesAt(l, k) \subseteq TypesAt(l, n)
  <2> TAKE k \in 0..n
  <2>1. 1..k \subseteq 1..n
    OBVIOUS
  <2> QED
    BY <2>1, TypesAssumption DEF TypesAt
<1>3. 1..(n + 1) = 1..n \cup {n + 1}
  OBVIOUS
<1> QED
  BY <1>1, <1>2, <1>3 DEF TypesAt

(* The head up to n is the latest record up to n that advances it. *)
LEMMA HeadUpTo ==
  ASSUME NEW l, NEW n \in Nat
  PROVE  /\ HeadAt(l, n) \in 0..n
         /\ \A s \in Heads(l, 1..n) : s <= HeadAt(l, n)
         /\ HeadAt(l, n) > 0 => HeadAt(l, n) \in Heads(l, 1..n)
<1> DEFINE S == Heads(l, 1..n)
<1>1. S \in SUBSET (0..n) /\ \A s \in S : s > 0
  BY DEF Heads
<1> HIDE DEF S
<1>2. CASE S = {}
  BY <1>2 DEF HeadAt, MaxOrZero, S
<1>3. CASE S # {}
  <2>1. Max(S) \in S /\ \A s \in S : Max(S) >= s
    BY <1>1, <1>3, MaxOfBounded
  <2>2. HeadAt(l, n) = Max(S)
    BY <1>3 DEF HeadAt, MaxOrZero, S
  <2>3. \A s \in S : s \in 0..n
    BY <1>1
  <2>4. HeadAt(l, n) \in S /\ \A s \in S : s <= HeadAt(l, n)
    <3> DEFINE m == Max(S)
    <3>1. m \in 0..n
      BY <2>1, <2>3
    <3>2. \A s \in S : m >= s
      BY <2>1
    <3> HIDE DEF m
    <3>3. \A s \in S : s <= m
      BY <2>3, <3>1, <3>2
    <3> QED
      BY <2>1, <2>2, <3>3 DEF m
  <2> QED
    BY <2>3, <2>4 DEF S
<1> QED
  BY <1>2, <1>3

(* What two bounds on the head determine. *)
LEMMA HeadIs ==
  ASSUME NEW l, NEW n \in Nat, NEW h \in Nat,
         h = 0 \/ h \in Heads(l, 1..n), \A s \in Heads(l, 1..n) : s <= h
  PROVE  HeadAt(l, n) = h
<1>1. /\ HeadAt(l, n) \in 0..n
      /\ \A s \in Heads(l, 1..n) : s <= HeadAt(l, n)
      /\ HeadAt(l, n) > 0 => HeadAt(l, n) \in Heads(l, 1..n)
  BY HeadUpTo
<1> QED
  BY <1>1

(* One record more moves the head, or leaves it. *)
LEMMA HeadNext ==
  ASSUME NEW l, NEW n \in Nat
  PROVE  HeadAt(l, n + 1) =
            IF AdvancesHead(l[n + 1].type, DOMAIN CustomTypes) THEN n + 1 ELSE HeadAt(l, n)
<1>1. 1..(n + 1) = 1..n \cup {n + 1}
  OBVIOUS
<1>2. Heads(l, 1..(n + 1)) = Heads(l, 1..n) \cup Heads(l, {n + 1})
  BY <1>1 DEF Heads
<1>3. Heads(l, {n + 1}) = IF AdvancesHead(l[n + 1].type, DOMAIN CustomTypes)
                          THEN {n + 1} ELSE {}
  BY DEF Heads
<1>4. \A s \in Heads(l, 1..n) : s \in 1..n
  BY DEF Heads
<1>5. CASE AdvancesHead(l[n + 1].type, DOMAIN CustomTypes)
  <2>1. n + 1 \in Heads(l, 1..(n + 1))
    BY <1>2, <1>3, <1>5
  <2>2. \A s \in Heads(l, 1..(n + 1)) : s <= n + 1
    <3> TAKE s \in Heads(l, 1..(n + 1))
    <3>1. s \in Heads(l, 1..n) \/ s \in {n + 1}
      BY <1>2, <1>3, <1>5, Zenon
    <3>2. s \in 1..n \/ s = n + 1
      BY <1>4, <3>1
    <3> QED
      BY <3>2
  <2>3. n + 1 \in Nat
    OBVIOUS
  <2>4. HeadAt(l, n + 1) = n + 1
    BY <2>1, <2>2, <2>3, HeadIs
  <2> QED
    BY <1>5, <2>4
<1>6. CASE ~ AdvancesHead(l[n + 1].type, DOMAIN CustomTypes)
  <2>1. Heads(l, 1..(n + 1)) = Heads(l, 1..n)
    BY <1>2, <1>3, <1>6
  <2> QED
    BY <1>6, <2>1 DEF HeadAt
<1> QED
  BY <1>5, <1>6

(* A log that has been created has a head. *)
LEMMA CreatedHasHead ==
  ASSUME NEW l, LogOf(l), NEW n \in 1..Len(l)
  PROVE  HeadAt(l, n) > 0
<1>1. l[1].type = "create" /\ 1 \in 1..n
  BY DEF LogOf
<1>2. AdvancesHead("create", DOMAIN CustomTypes)
  BY BuiltinTypes DEF AdvancesHead, RecordClass
<1>3. 1 \in Heads(l, 1..n)
  BY <1>1, <1>2 DEF Heads
<1> QED
  BY <1>3, HeadUpTo

(* What a log says of its first n records does not change when it grows. *)
LEMMA LogGrows ==
  ASSUME NEW l, LogOf(l), NEW record \in RoomRecord
  PROVE  /\ Append(l, record) \in Seq(RoomRecord)
         /\ Len(Append(l, record)) = Len(l) + 1 /\ Append(l, record)[Len(l) + 1] = record
         /\ \A s \in 1..Len(l) : Append(l, record)[s] = l[s]
         /\ \A n \in 0..Len(l) : /\ TypesAt(Append(l, record), n) = TypesAt(l, n)
                                 /\ HeadAt(Append(l, record), n) = HeadAt(l, n)
                                 /\ Heads(Append(l, record), 1..n) = Heads(l, 1..n)
<1> DEFINE k == Append(l, record)
<1>1. l \in Seq(RoomRecord) /\ Len(l) \in Nat
  BY DEF LogOf
<1>2. /\ k \in Seq(RoomRecord) /\ Len(k) = Len(l) + 1 /\ k[Len(l) + 1] = record
      /\ \A s \in 1..Len(l) : k[s] = l[s]
  BY <1>1
<1> HIDE DEF k
<1>3. ASSUME NEW n \in 0..Len(l)
      PROVE  /\ TypesAt(k, n) = TypesAt(l, n)
             /\ Heads(k, 1..n) = Heads(l, 1..n)
  <2>1. \A s \in 1..n : k[s] = l[s]
    BY <1>1, <1>2
  <2> QED
    BY <2>1 DEF TypesAt, Heads
<1> QED
  BY <1>2, <1>3 DEF k, HeadAt
-----------------------------------------------------------------------------
(* The copy of a room, step by step *)

(* trim_history keeps the latest records. *)
LEMMA TrimmedRoom ==
  ASSUME NEW r \in LocalRoom, r.first \in 1..r.synced_seq + 1
  PROVE  /\ Trimmed(r) \in LocalRoom
         /\ Trimmed(r).first \in r.first..r.synced_seq + 1
         /\ Trimmed(r).known = r.known /\ Trimmed(r).types = r.types
         /\ Trimmed(r).head_seq = r.head_seq /\ Trimmed(r).synced_seq = r.synced_seq
         /\ Trimmed(r).presented_seq = r.presented_seq
         /\ r.synced_seq <= ROOM_HISTORY_LIMIT => Trimmed(r).first = r.first
<1> DEFINE f == r.first
           g == r.synced_seq + 1 - ROOM_HISTORY_LIMIT
           h == Max({f, g})
<1>1. f \in Nat \ {0} /\ g \in Int /\ g <= r.synced_seq /\ r.synced_seq \in Nat
  BY ConnectorAssumption DEF LocalRoom
<1>2. r.synced_seq <= ROOM_HISTORY_LIMIT => g <= f
  BY <1>1, ConnectorAssumption
<1> HIDE DEF f, g
<1>3. h = IF f >= g THEN f ELSE g
  <2>1. \E x \in {f, g} : \A y \in {f, g} : x >= y
    BY <1>1
  <2>2. h \in {f, g} /\ \A y \in {f, g} : h >= y
    BY <2>1 DEF Max
  <2> QED
    BY <1>1, <2>2
<1>4. h \in f..r.synced_seq + 1 /\ h \in Nat \ {0}
  <2>1. f \in 1..r.synced_seq + 1
    BY DEF f
  <2> HIDE DEF h
  <2> QED
    BY <1>1, <1>3, <2>1
<1>5. Trimmed(r) = [r EXCEPT !.first = h]
  BY DEF Trimmed, f, g
<1> HIDE DEF h
<1> QED
  BY <1>1, <1>2, <1>3, <1>4, <1>5 DEF LocalRoom, f

(* Applying the next record keeps the copy what it is. *)
LEMMA AppliedRoom ==
  ASSUME NEW l, LogOf(l), NEW r, RoomOf(l, r), r.known,
         NEW s, s = r.synced_seq + 1, s <= Len(l)
  PROVE  /\ RoomOf(l, Applied(r, s, l[s])) /\ Applied(r, s, l[s]).known
         /\ Applied(r, s, l[s]).synced_seq = s
         /\ Applied(r, s, l[s]).presented_seq = r.presented_seq
         /\ Applied(r, s, l[s]).first \in r.first..s + 1
         /\ s <= ROOM_HISTORY_LIMIT => Applied(r, s, l[s]).first = r.first
<1> DEFINE n == r.synced_seq
           type == l[s].type
           types == IF type = "define" THEN DOMAIN CustomTypes ELSE r.types
           head == IF AdvancesHead(type, types) THEN s ELSE r.head_seq
           q == [r EXCEPT !.types = types, !.head_seq = head, !.synced_seq = s]
<1>1. /\ r \in LocalRoom /\ n \in Nat /\ s = n + 1 /\ s \in Nat /\ r.first \in 1..s
      /\ TypesAt(l, n) \subseteq r.types /\ r.types \subseteq DOMAIN CustomTypes
      /\ r.head_seq = HeadAt(l, n) /\ r.presented_seq \in 0..r.head_seq
      /\ s \in 1..Len(l) /\ Len(l) \in Nat
  BY DEF RoomOf, LocalRoom, LogOf
<1>2. Applied(r, s, l[s]) = Trimmed(q)
  BY DEF Applied
<1>3. type \in DOMAIN BuiltinClass \cup TypesAt(l, n)
  BY <1>1 DEF LogOf
<1>4. types \in SUBSET DOMAIN CustomTypes /\ type \in DOMAIN BuiltinClass \cup types
  BY <1>1, <1>3, BuiltinTypes
<1>5. TypesAt(l, s) \subseteq types
  BY <1>1, RegistryGrows
<1>6. head = HeadAt(l, s)
  <2>1. AdvancesHead(type, types) = AdvancesHead(type, DOMAIN CustomTypes)
    BY <1>4, KnownClass
  <2>2. HeadAt(l, s) = IF AdvancesHead(type, DOMAIN CustomTypes) THEN s ELSE HeadAt(l, n)
    <3>1. HeadAt(l, n + 1) = IF AdvancesHead(l[n + 1].type, DOMAIN CustomTypes)
                             THEN n + 1 ELSE HeadAt(l, n)
      BY <1>1, HeadNext
    <3> QED
      BY <1>1, <3>1
  <2> QED
    BY <1>1, <2>1, <2>2
<1>7. head \in Nat /\ r.head_seq \in Nat /\ r.head_seq <= head
  <2>1. HeadAt(l, n) \in 0..n
    BY <1>1, HeadUpTo
  <2> QED
    BY <1>1, <2>1
<1> HIDE DEF types, head, type
<1>8. /\ q \in LocalRoom /\ q.known = r.known /\ q.types = types /\ q.head_seq = head
      /\ q.synced_seq = s /\ q.first = r.first /\ q.presented_seq = r.presented_seq
  BY <1>1, <1>4, <1>7 DEF LocalRoom
<1> HIDE DEF q
<1>9. /\ Trimmed(q) \in LocalRoom /\ Trimmed(q).first \in r.first..s + 1
      /\ Trimmed(q).known = r.known /\ Trimmed(q).types = types
      /\ Trimmed(q).head_seq = head /\ Trimmed(q).synced_seq = s
      /\ Trimmed(q).presented_seq = r.presented_seq
      /\ s <= ROOM_HISTORY_LIMIT => Trimmed(q).first = r.first
  <2>1. q.first \in 1..q.synced_seq + 1
    BY <1>1, <1>8
  <2> QED
    BY <1>8, <2>1, TrimmedRoom
<1>10. RoomOf(l, Trimmed(q))
  <2>1. Trimmed(q).first \in 1..s + 1 /\ s \in 0..Len(l)
    BY <1>1, <1>9
  <2>2. r.presented_seq \in 0..head
    BY <1>1, <1>7
  <2> QED
    BY <1>5, <1>6, <1>9, <2>1, <2>2 DEF RoomOf
<1> QED
  BY <1>2, <1>9, <1>10

(* Reading the room resource replaces the types by those of the registry.  *)
LEMMA ObservedRoom ==
  ASSUME NEW l, LogOf(l), NEW r, RoomOf(l, r)
  PROVE  /\ RoomOf(l, ObserveRoom(r, TypesAt(l, Len(l))))
         /\ ObserveRoom(r, TypesAt(l, Len(l))).known
         /\ \A types : LET q == ObserveRoom(r, types) IN
              /\ q.synced_seq = r.synced_seq /\ q.first = r.first /\ q.head_seq = r.head_seq
              /\ q.presented_seq = r.presented_seq
<1> DEFINE types == TypesAt(l, Len(l))
<1>1. r \in LocalRoom /\ r.synced_seq \in 0..Len(l) /\ Len(l) \in Nat
  BY DEF RoomOf, LogOf
<1>2. types \subseteq DOMAIN CustomTypes /\ TypesAt(l, r.synced_seq) \subseteq types
  BY <1>1, RegistryGrows
<1> HIDE DEF types
<1>3. \A t : LET q == ObserveRoom(r, t) IN
         /\ q.synced_seq = r.synced_seq /\ q.first = r.first /\ q.head_seq = r.head_seq
         /\ q.presented_seq = r.presented_seq /\ q.types = t /\ q.known = TRUE
  BY <1>1 DEF ObserveRoom, LocalRoom
<1>4. ObserveRoom(r, types) \in LocalRoom
  BY <1>1, <1>2 DEF ObserveRoom, LocalRoom
<1>5. RoomOf(l, ObserveRoom(r, types))
  BY <1>2, <1>3, <1>4 DEF RoomOf
<1> QED
  BY <1>3, <1>5 DEF types

(* The positions a room resource gives, taken over as they are. *)
LEMMA AcceptedPositions ==
  ASSUME NEW r \in LocalRoom, NEW types, types \in SUBSET DOMAIN CustomTypes,
         NEW head, head \in Nat, NEW n, n \in Nat,
         NEW q, q = AcceptRoomResponse(r, types, head, n)
  PROVE  /\ q \in LocalRoom /\ q.known /\ q.types = types /\ q.head_seq = head
         /\ q.synced_seq = n /\ q.first = n + 1 /\ q.presented_seq = r.presented_seq
<1> DEFINE o == ObserveRoom(r, types)
<1>1. /\ o \in LocalRoom /\ o.known = TRUE /\ o.types = types
      /\ o.presented_seq = r.presented_seq
  BY DEF ObserveRoom, LocalRoom
<1>2. q = [o EXCEPT !.head_seq = head, !.synced_seq = n, !.first = n + 1]
  BY DEF AcceptRoomResponse
<1>3. n + 1 \in Nat \ {0}
  OBVIOUS
<1> HIDE DEF o
<1>4. q = [known |-> TRUE, types |-> types, head_seq |-> head, synced_seq |-> n,
           first |-> n + 1, presented_seq |-> r.presented_seq]
  BY <1>1, <1>2 DEF LocalRoom
<1>5. r.presented_seq \in Nat
  BY DEF LocalRoom
<1>6. q \in LocalRoom
  BY <1>3, <1>4, <1>5 DEF LocalRoom
<1> QED
  BY <1>4, <1>6

(* They are the positions of the room as it is. *)
LEMMA AcceptedRoom ==
  ASSUME NEW l, LogOf(l), NEW r \in LocalRoom, r.presented_seq = 0,
         NEW types \in SUBSET DOMAIN CustomTypes, TypesAt(l, Len(l)) \subseteq types
  PROVE  LET q == AcceptRoomResponse(r, types, HeadAt(l, Len(l)), Len(l)) IN
         /\ RoomOf(l, q) /\ q.known /\ q.first = Len(l) + 1
         /\ q.synced_seq = Len(l) /\ q.head_seq = HeadAt(l, Len(l)) /\ q.presented_seq = 0
<1> DEFINE n == Len(l)
           head == HeadAt(l, n)
           q == AcceptRoomResponse(r, types, head, n)
<1>1. n \in Nat /\ head \in 0..n
  BY HeadUpTo DEF LogOf
<1> HIDE DEF n, head
<1>2. /\ q \in LocalRoom /\ q.known /\ q.types = types /\ q.head_seq = head
      /\ q.synced_seq = n /\ q.first = n + 1 /\ q.presented_seq = 0
  <2>1. n \in Nat /\ head \in Nat
    BY <1>1
  <2> QED
    BY <2>1, AcceptedPositions
<1>3. TypesAt(l, n) \subseteq types
  BY DEF n
<1> HIDE DEF q
<1>4. RoomOf(l, q)
  BY <1>1, <1>2, <1>3 DEF RoomOf, n, head
<1> QED
  BY <1>2, <1>4 DEF q, n, head

(* Presenting moves on to a head of the room. *)
LEMMA PresentedRoom ==
  ASSUME NEW l, NEW r, RoomOf(l, r), NEW h \in 0..r.head_seq
  PROVE  LET q == [r EXCEPT !.presented_seq = h] IN
         /\ RoomOf(l, q) /\ q.known = r.known /\ q.presented_seq = h
         /\ q.head_seq = r.head_seq /\ q.synced_seq = r.synced_seq
         /\ q.first = r.first /\ q.types = r.types
BY DEF RoomOf, LocalRoom

(* A log that grows leaves the copy of its beginning what it was. *)
LEMMA GrownLog ==
  ASSUME NEW l, LogOf(l), NEW record \in RoomRecord, Len(l) < MaxSeq,
         l = <<>> => record.type = "create", TypeAccepted(l, record.type)
  PROVE  /\ LogOf(Append(l, record))
         /\ \A r : RoomOf(l, r) => RoomOf(Append(l, record), r)
<1> DEFINE k == Append(l, record)
<1>1. /\ k \in Seq(RoomRecord) /\ Len(k) = Len(l) + 1 /\ k[Len(l) + 1] = record
      /\ \A s \in 1..Len(l) : k[s] = l[s]
      /\ \A n \in 0..Len(l) : TypesAt(k, n) = TypesAt(l, n) /\ HeadAt(k, n) = HeadAt(l, n)
  BY LogGrows
<1>2. l \in Seq(RoomRecord) /\ Len(l) \in Nat /\ Len(l) < MaxSeq /\ MaxSeq \in Nat
  BY ConnectorAssumption DEF LogOf
<1> HIDE DEF k
<1>3. k[1].type = "create"
  <2>1. CASE l = <<>>
    BY <1>1, <2>1
  <2>2. CASE l # <<>>
    <3>1. 1 \in 1..Len(l) /\ l[1].type = "create"
      BY <1>2, <2>2 DEF LogOf
    <3> QED
      BY <1>1, <3>1
  <2> QED
    BY <2>1, <2>2
<1>4. ASSUME NEW s \in 1..Len(k)
      PROVE  k[s].type \in DOMAIN BuiltinClass \cup TypesAt(k, s - 1)
  <2>1. CASE s = Len(l) + 1
    <3>1. s - 1 = Len(l) /\ s - 1 \in 0..Len(l)
      BY <1>2, <2>1
    <3> QED
      BY <1>1, <2>1, <3>1 DEF TypeAccepted
  <2>2. CASE s # Len(l) + 1
    <3>1. s \in 1..Len(l) /\ s - 1 \in 0..Len(l)
      BY <1>1, <1>2, <2>2
    <3> QED
      BY <1>1, <3>1 DEF LogOf
  <2> QED
    BY <2>1, <2>2
<1>5. LogOf(k)
  BY <1>1, <1>2, <1>3, <1>4 DEF LogOf
<1>6. ASSUME NEW r, RoomOf(l, r) PROVE RoomOf(k, r)
  <2>1. r.synced_seq \in 0..Len(l)
    BY <1>6 DEF RoomOf
  <2>2. r.synced_seq \in 0..Len(k)
    BY <1>1, <1>2, <2>1
  <2> QED
    BY <1>1, <1>6, <2>1, <2>2 DEF RoomOf
<1> QED
  BY <1>5, <1>6 DEF k
-----------------------------------------------------------------------------
(* The call in progress, step by step *)

(* No call in progress is a call of the type.                              *)
LEMMA IdleRecord ==
  /\ IdleCall \in CallRecord(IdleCall.draft) /\ IdleCall.step = "idle"
  /\ IdleCall.tool = "none" /\ IdleCall.own = 0
BY DEF IdleCall, CallRecord

(* All a write or a read keeps of the call c but what it sets. *)
SameWrite(c, e) ==
    /\ c.tool = e.tool /\ c.type = e.type /\ c.policy = e.policy /\ c.draft = e.draft
    /\ c.origin = e.origin /\ c.attempts = e.attempts /\ c.presented = e.presented
    /\ c.previous = e.previous /\ c.bound = e.bound

(* A write begins with its base and no attempt. *)
LEMMA WriteRecord ==
  ASSUME NEW t \in Types, NEW policy \in Policies, NEW id, NEW base \in Nat,
         NEW r \in LocalRoom, NEW e, e = Write(t, policy, id, base, r)
  PROVE  /\ e \in CallRecord(e.draft) /\ e.step = "check" /\ e.tool = "write"
         /\ e.type = t /\ e.policy = policy /\ e.draft = id /\ e.attempts = 0
         /\ e.presented = 0 /\ e.previous = 0 /\ e.own = 0
         /\ e.base = WriteBase(r, base) /\ e.origin = WriteBase(r, base)
         /\ e.bound = RequiresHead(t, r.types)
<1> DEFINE b == WriteBase(r, base)
           h == RequiresHead(t, r.types)
<1>1. b \in Nat
  BY DEF WriteBase, LocalRoom
<1>2. h \in BOOLEAN
  BY DEF RequiresHead
<1>3. e = [IdleCall EXCEPT !.step = "check", !.tool = "write", !.type = t, !.policy = policy,
                           !.draft = id, !.base = b, !.origin = b, !.bound = h]
  BY DEF Write
<1> HIDE DEF b, h
<1> DEFINE x == [IdleCall EXCEPT !.step = "check", !.tool = "write", !.type = t,
                                 !.policy = policy]
<1>4. /\ x \in CallRecord(0) /\ x.step = "check" /\ x.tool = "write" /\ x.type = t
      /\ x.policy = policy /\ x.attempts = 0 /\ x.presented = 0 /\ x.previous = 0
      /\ x.own = 0
  BY DEF IdleCall, CallRecord
<1>5. e = [x EXCEPT !.draft = id, !.base = b, !.origin = b, !.bound = h]
  BY <1>3
<1> HIDE DEF x
<1>6. /\ e \in CallRecord(id) /\ e.step = "check" /\ e.tool = "write" /\ e.type = t
      /\ e.policy = policy /\ e.draft = id /\ e.attempts = 0 /\ e.presented = 0
      /\ e.previous = 0 /\ e.own = 0 /\ e.base = b /\ e.origin = b /\ e.bound = h
  BY <1>1, <1>2, <1>4, <1>5 DEF CallRecord
<1> QED
  BY <1>6 DEF b, h

(* An attempt remembers the heads it starts from. *)
LEMMA AttemptedRecord ==
  ASSUME NEW c, c \in CallRecord(c.draft), room \in LocalRoom, NEW e, e = Attempted(c)
  PROVE  /\ e \in CallRecord(c.draft) /\ e.step = "submit" /\ e.attempts = c.attempts + 1
         /\ e.presented = room.presented_seq /\ e.previous = room.head_seq
         /\ e.tool = c.tool /\ e.type = c.type /\ e.policy = c.policy
         /\ e.draft = c.draft /\ e.base = c.base /\ e.origin = c.origin
         /\ e.bound = c.bound /\ e.own = c.own
<1> DEFINE n == c.attempts + 1
           p == room.presented_seq
           h == room.head_seq
<1>1. e = [c EXCEPT !.step = "submit", !.attempts = n, !.presented = p, !.previous = h]
  BY DEF Attempted
<1>2. n \in Nat /\ p \in Nat /\ h \in Nat
  BY DEF CallRecord, LocalRoom
<1> HIDE DEF n, p, h
<1> QED
  BY <1>1, <1>2 DEF CallRecord, n, p, h

(* A sync keeps the call it is part of. *)
LEMMA SyncedRecord ==
  ASSUME NEW c, c \in CallRecord(c.draft), NEW n \in Nat,
         NEW e, e = [c EXCEPT !.step = "sync", !.until = n]
  PROVE  /\ e \in CallRecord(c.draft) /\ e.step = "sync" /\ e.until = n
         /\ SameWrite(c, e) /\ e.base = c.base /\ e.own = c.own
BY DEF CallRecord, SameWrite

(* A write knows its record, looks again, or is re-based. *)
LEMMA UpdatedCall ==
  ASSUME NEW c, c \in CallRecord(c.draft), NEW n \in Nat
  PROVE  /\ LET e == [c EXCEPT !.own = n] IN
                /\ e \in CallRecord(c.draft) /\ e.own = n
                /\ SameWrite(c, e) /\ e.base = c.base /\ e.step = c.step
         /\ LET e == [c EXCEPT !.step = "check"] IN
                /\ e \in CallRecord(c.draft) /\ e.step = "check"
                /\ SameWrite(c, e) /\ e.base = c.base /\ e.own = c.own
         /\ LET e == [c EXCEPT !.base = n] IN
                /\ e \in CallRecord(c.draft) /\ e.base = n
                /\ SameWrite(c, e) /\ e.step = c.step /\ e.own = c.own
BY DEF CallRecord, SameWrite

(* A sync that reads. *)
LEMMA ReadRecord ==
  ASSUME NEW tool \in {"room_state", "room_timeline"}, NEW n \in Nat,
         NEW e, e = [[IdleCall EXCEPT !.tool = tool] EXCEPT !.step = "sync", !.until = n]
  PROVE  /\ e \in CallRecord(e.draft) /\ e.step = "sync" /\ e.tool = tool /\ e.own = 0
BY DEF CallRecord, IdleCall

(* room_join goes straight to the host. *)
LEMMA JoinRecord ==
  ASSUME NEW b \in Nat,
         NEW e, e = [IdleCall EXCEPT !.step = "submit", !.tool = "room_join",
                                     !.type = "join", !.base = b]
  PROVE  /\ e \in CallRecord(e.draft) /\ e.step = "submit" /\ e.tool = "room_join"
         /\ e.type = "join" /\ e.base = b /\ ~ e.bound /\ e.own = 0
         /\ e.presented = 0 /\ e.previous = 0
BY BuiltinTypes DEF CallRecord, IdleCall, Types
-----------------------------------------------------------------------------
(* Every step keeps the copy of the room sound *)

(* The heads among the records kept, as the registry classes them.         *)
LEMMA LocalHeadsExact ==
  ASSUME LogOf(log), NEW k \in 0..Len(log), NEW r, r.types \in SUBSET DOMAIN CustomTypes,
         TypesAt(log, k) \subseteq r.types, NEW S, S \cap Kept(r) \subseteq 1..k
  PROVE  LocalHeads(r, S) = Heads(log, S \cap Kept(r))
<1>1. ASSUME NEW s \in S \cap Kept(r)
      PROVE  AdvancesHead(log[s].type, r.types) = AdvancesHead(log[s].type, DOMAIN CustomTypes)
  <2>1. s \in 1..k /\ s \in 1..Len(log) /\ s - 1 \in 0..k /\ k \in Nat
    BY <1>1 DEF LogOf
  <2>2. log[s].type \in DOMAIN BuiltinClass \cup TypesAt(log, s - 1)
    BY <2>1 DEF LogOf
  <2>3. TypesAt(log, s - 1) \subseteq TypesAt(log, k)
    BY <2>1, RegistryGrows
  <2>4. log[s].type \in DOMAIN BuiltinClass \cup r.types
    BY <2>2, <2>3
  <2> QED
    BY <2>4, KnownClass
<1> QED
  BY <1>1 DEF LocalHeads, Heads

(* room_state presents the head, a read the latest head it has shown.      *)
LEMMA PresentingRoom ==
  ASSUME LogOf(log), RoomOf(log, room)
  PROVE  /\ RoomOf(log, PresentHead(room)) /\ PresentHead(room).known = room.known
         /\ \A n \in Nat : LET q == PresentThrough(room, n) IN
               RoomOf(log, q) /\ q.known = room.known
<1>1. room \in LocalRoom /\ room.head_seq \in Nat /\ room.presented_seq \in 0..room.head_seq
  BY DEF RoomOf, LocalRoom
<1>2. RoomOf(log, PresentHead(room)) /\ PresentHead(room).known = room.known
  <2>1. CASE room.head_seq = 0
    BY <2>1 DEF PresentHead
  <2>2. CASE room.head_seq # 0
    <3>1. room.head_seq \in 0..room.head_seq
      BY <1>1
    <3> QED
      BY <2>2, <3>1, PresentedRoom DEF PresentHead
  <2> QED
    BY <2>1, <2>2
<1>3. ASSUME NEW n \in Nat
      PROVE  LET q == PresentThrough(room, n) IN RoomOf(log, q) /\ q.known = room.known
  <2> DEFINE found == LocalHeads(room, (room.presented_seq + 1)..n)
             k == room.synced_seq
  <2>1. CASE found = {}
    BY <2>1 DEF PresentThrough
  <2>2. CASE found # {}
    <3>1. room.known
      <4>1. k \in Nat /\ room.first \in 1..k + 1
        BY <1>1 DEF RoomOf, LocalRoom
      <4>2. PICK s \in found : TRUE
        BY <2>2
      <4>3. s \in room.first..k
        BY <4>2 DEF LocalHeads, Kept
      <4>4. k # 0
        <5> HIDE DEF k
        <5> QED
          BY <4>1, <4>3
      <4> QED
        BY <4>4 DEF RoomOf
    <3>2. k \in 0..Len(log) /\ Kept(room) \subseteq 1..k
      BY <1>1 DEF RoomOf, Kept, LocalRoom
    <3>3. found \subseteq Heads(log, 1..k)
      <4>1. found = Heads(log, ((room.presented_seq + 1)..n) \cap Kept(room))
        <5>1. TypesAt(log, k) \subseteq room.types /\ room.types \in SUBSET DOMAIN CustomTypes
          BY <1>1, <3>1 DEF RoomOf, LocalRoom
        <5>2. ((room.presented_seq + 1)..n) \cap Kept(room) \subseteq 1..k
          BY <3>2
        <5> QED
          BY <3>2, <5>1, <5>2, LocalHeadsExact
      <4> QED
        BY <3>2, <4>1 DEF Heads
    <3>4. \A s \in found : s \in 0..room.head_seq
      <4>1. k \in Nat /\ room.head_seq = HeadAt(log, k)
        BY <1>1 DEF RoomOf, LocalRoom
      <4>2. \A s \in Heads(log, 1..k) : s \in 1..k /\ s <= HeadAt(log, k)
        BY <4>1, HeadUpTo DEF Heads
      <4> HIDE DEF found, k
      <4> QED
        BY <1>1, <3>3, <4>1, <4>2
    <3> HIDE DEF found
    <3>5. found \in SUBSET (0..room.head_seq)
      BY <3>4
    <3>6. Max(found) \in found
      BY <1>1, <2>2, <3>5, MaxOfBounded
    <3>7. Max(found) \in 0..room.head_seq
      BY <3>4, <3>6
    <3>8. PresentThrough(room, n) = [room EXCEPT !.presented_seq = Max(found)]
      BY <2>2 DEF PresentThrough, found
    <3> QED
      BY <3>7, <3>8, PresentedRoom
  <2> QED
    BY <2>1, <2>2
<1> QED
  BY <1>2, <1>3

(* A call that ends, or goes on about a room still known, stays typed.     *)
LEMMA CallStays ==
  ASSUME CallTyped, call' = IdleCall \/ call' = call, room.known => room'.known,
         \A d \in drafts' :
             d \in drafts \/ (room'.known /\ d.type \in Types /\ d.base \in Nat)
  PROVE  CallTyped'
BY IdleRecord DEF CallTyped

(* A record of its creation begins a log. *)
LEMMA CreatedRoom ==
  ASSUME log = <<>>, LogOf(log), NEW record,
         record = [type |-> "create", base |-> 0], log' = <<record>>
  PROVE  /\ LogOf(log') /\ \A r : RoomOf(log, r) => RoomOf(log', r)
         /\ Len(log') = 1 /\ HeadAt(log', 1) = 1
<1>1. record \in RoomRecord /\ record.type = "create" /\ TypeAccepted(log, "create")
  BY BuiltinTypes DEF RoomRecord, Types, TypeAccepted
<1>2. log' = Append(log, record) /\ Len(log) = 0 /\ MaxSeq \in Nat /\ 0 < MaxSeq
  BY ConnectorAssumption
<1>3. LogOf(log') /\ \A r : RoomOf(log, r) => RoomOf(log', r)
  BY <1>1, <1>2, GrownLog
<1>4. Len(log') = 1 /\ log'[1] = record
  OBVIOUS
<1>5. HeadAt(log', 1) > 0 /\ HeadAt(log', 1) \in 0..1
  BY <1>3, <1>4, CreatedHasHead, HeadUpTo
<1> QED
  BY <1>3, <1>4, <1>5

(* The records of the others. *)
LEMMA OthersKeepSound ==
  ASSUME ConnectorSound, Others
  PROVE  ConnectorSound'
<1> USE DEF ConnectorSound
<1>1. CallTyped'
  <2>1. call' = call /\ drafts' = drafts /\ room' = room
    BY DEF Others, OtherCreates, OtherWrites
  <2> QED
    BY <2>1, CallStays
<1>2. CASE OtherCreates
  <2>1. log = <<>> /\ log' = <<[type |-> "create", base |-> 0]>> /\ room' = room
    BY <1>2 DEF OtherCreates
  <2>2. LogOf(log') /\ RoomOf(log', room)
    BY <2>1, CreatedRoom
  <2> QED
    BY <1>1, <2>1, <2>2
<1>3. ASSUME NEW t \in OtherTypes, NEW on \in OtherBases, OtherWrites(t, on)
      PROVE  ConnectorSound'
  <2> DEFINE base == IF on = "head" \/ RequiresHead(t, DOMAIN CustomTypes)
                     THEN HeadAt(log, Len(log)) ELSE 1
             record == [type |-> t, base |-> base]
  <2>1. /\ Len(log) \in 1..(MaxSeq - 1) /\ TypeAccepted(log, t)
        /\ log' = Append(log, record) /\ room' = room
    BY <1>3 DEF OtherWrites
  <2>2. base \in Nat
    BY <2>1, HeadUpTo
  <2> HIDE DEF base
  <2>3. record \in RoomRecord /\ record.type = t
    BY <2>2, ConnectorAssumption DEF RoomRecord
  <2> HIDE DEF record
  <2>4. Len(log) < MaxSeq /\ log # <<>>
    BY <2>1, ConnectorAssumption
  <2>5. LogOf(log') /\ RoomOf(log', room)
    BY <2>1, <2>3, <2>4, GrownLog
  <2> QED
    BY <1>1, <2>1, <2>5
<1> QED
  BY <1>2, <1>3 DEF Others

(* A sync that begins: the room is known, and as it was. *)
LEMMA SyncStarts ==
  ASSUME LogOf(log), RoomOf(log, room), NEW c, c \in CallRecord(c.draft), NEW n \in Nat,
         StartSync(c, n)
  PROVE  /\ RoomOf(log, room') /\ room'.known
         /\ room'.synced_seq = room.synced_seq /\ room'.first = room.first
         /\ room'.head_seq = room.head_seq /\ room'.presented_seq = room.presented_seq
         /\ call' \in CallRecord(call'.draft) /\ call'.step = "sync" /\ call'.until = n
         /\ SameWrite(c, call') /\ call'.base = c.base /\ call'.own = c.own
<1>1. room' = ObserveRoom(room, TypesAt(log, Len(log)))
  BY DEF StartSync
<1>2. call' = [c EXCEPT !.step = "sync", !.until = n]
  BY DEF StartSync
<1>3. /\ call' \in CallRecord(c.draft) /\ call'.step = "sync" /\ call'.until = n
      /\ SameWrite(c, call') /\ call'.base = c.base /\ call'.own = c.own
  <2> DEFINE e == [c EXCEPT !.step = "sync", !.until = n]
  <2>1. /\ e \in CallRecord(c.draft) /\ e.step = "sync" /\ e.until = n
        /\ SameWrite(c, e) /\ e.base = c.base /\ e.own = c.own
    BY SyncedRecord, ZenonT(60)
  <2> HIDE DEF e
  <2> QED
    BY <1>2, <2>1 DEF e
<1>4. call'.draft = c.draft
  BY <1>3 DEF SameWrite
<1> QED
  BY <1>1, <1>3, <1>4, ObservedRoom

(* A read that syncs first. *)
LEMMA ReadStarts ==
  ASSUME ConnectorSound, NEW tool \in {"room_state", "room_timeline"},
         StartSync([IdleCall EXCEPT !.tool = tool], Len(log)), UNCHANGED <<log, drafts>>
  PROVE  /\ ConnectorSound' /\ call'.tool = tool /\ call'.step = "sync" /\ call'.own = 0
         /\ room'.synced_seq = room.synced_seq /\ room'.first = room.first
         /\ room'.head_seq = room.head_seq /\ room'.presented_seq = room.presented_seq
<1> DEFINE c == [IdleCall EXCEPT !.tool = tool]
<1>1. c \in CallRecord(0) /\ c.draft = 0 /\ c.tool = tool /\ c.own = 0
  BY DEF CallRecord, IdleCall
<1>2. StartSync(c, Len(log)) /\ LogOf(log) /\ RoomOf(log, room) /\ Len(log) \in Nat
  BY DEF ConnectorSound, LogOf
<1> HIDE DEF c
<1>3. /\ RoomOf(log, room') /\ room'.known
      /\ room'.synced_seq = room.synced_seq /\ room'.first = room.first
      /\ room'.head_seq = room.head_seq /\ room'.presented_seq = room.presented_seq
      /\ call' \in CallRecord(call'.draft) /\ call'.step = "sync" /\ call'.own = c.own
      /\ SameWrite(c, call')
  BY <1>1, <1>2, SyncStarts
<1>4. call'.tool = tool
  BY <1>1, <1>3 DEF SameWrite
<1>5. CallTyped'
  BY <1>3, <1>4 DEF CallTyped, ConnectorSound
<1> QED
  BY <1>1, <1>2, <1>3, <1>4, <1>5 DEF ConnectorSound

(* What is read of the room. *)
LEMMA ReadsKeepSound ==
  ASSUME Typed, ConnectorSound, Reads
  PROVE  ConnectorSound'
<1> USE DEF ConnectorSound
<1>0. RoomOf(log, room) /\ LogOf(log) /\ Len(log) \in Nat
  BY DEF LogOf
<1>1. ASSUME NEW typed \in Listings, RoomsListed(typed) PROVE ConnectorSound'
  <2>1. typed
    BY ConnectorAssumption DEF Typed
  <2>2. RoomOf(log, room') /\ room'.known
    BY <1>0, <1>1, <2>1, ObservedRoom DEF RoomsListed
  <2>3. call' = call /\ drafts' = drafts /\ log' = log
    BY <1>1 DEF RoomsListed
  <2>4. CallTyped'
    BY <2>2, <2>3, CallStays
  <2> QED
    BY <2>2, <2>3, <2>4
<1>2. ASSUME NEW s \in 1..Len(log), Deliver(s) PROVE ConnectorSound'
  <2>1. /\ call' = call /\ drafts' = drafts /\ log' = log /\ room.known
        /\ room' = ApplyRecord(room, s, log[s])
    BY <1>2 DEF Deliver
  <2>2. RoomOf(log, room') /\ room'.known
    <3>1. CASE Acceptable(room, s, log[s])
      <4>1. s = room.synced_seq + 1 /\ s <= Len(log)
        BY <1>0, <3>1 DEF Acceptable
      <4>2. room' = Applied(room, s, log[s])
        BY <2>1, <3>1 DEF ApplyRecord
      <4> QED
        BY <2>1, <4>1, <4>2, AppliedRoom
    <3>2. CASE ~ Acceptable(room, s, log[s])
      BY <2>1, <3>2 DEF ApplyRecord
    <3> QED
      BY <3>1, <3>2
  <2>3. CallTyped'
    BY <2>1, <2>2, CallStays
  <2> QED
    BY <2>1, <2>2, <2>3
<1>3. CASE SyncRecord
  <2> DEFINE s == room.synced_seq + 1
  <2>1. /\ call' = call /\ drafts' = drafts /\ log' = log /\ call.step = "sync"
        /\ room.synced_seq < Len(log) /\ room' = Applied(room, s, log[s])
    BY <1>3 DEF SyncRecord
  <2>2. room.known
    BY <2>1 DEF CallTyped
  <2>3. s <= Len(log)
    BY <1>0, <2>1 DEF RoomOf, LocalRoom
  <2>4. RoomOf(log, room') /\ room'.known
    BY <2>1, <2>2, <2>3, AppliedRoom
  <2>5. CallTyped'
    BY <2>1, <2>4, CallStays
  <2> QED
    BY <2>1, <2>4, <2>5
<1>4. CASE SyncFails \/ TimelineEmpty
  <2>1. call' = IdleCall /\ drafts' = drafts /\ log' = log /\ room' = room
    BY <1>4 DEF SyncFails, TimelineEmpty
  <2> QED
    BY <2>1, CallStays
<1>5. CASE RoomState \/ RoomStateSynced
  <2>1. CASE FirstStateRead(room) /\ (call' = call \/ call' = IdleCall)
    <3>1. log' = log /\ drafts' = drafts
      BY <1>5 DEF RoomState, RoomStateSynced
    <3>2. RoomOf(log, room') /\ room'.known = room.known
      BY <2>1, PresentingRoom DEF FirstStateRead
    <3> QED
      BY <2>1, <3>1, <3>2, CallStays
  <2>2. CASE StartSync([IdleCall EXCEPT !.tool = "room_state"], Len(log))
    <3>1. UNCHANGED <<log, drafts>>
      BY <1>5 DEF RoomState, RoomStateSynced
    <3> QED
      BY <2>2, <3>1, ReadStarts
  <2> QED
    BY <1>5, <2>1, <2>2 DEF RoomState, RoomStateSynced
<1>6. CASE TimelineRefresh
  <2>1. /\ StartSync([IdleCall EXCEPT !.tool = "room_timeline"], Len(log))
        /\ UNCHANGED <<log, drafts>>
    BY <1>6 DEF TimelineRefresh
  <2> QED
    BY <2>1, ReadStarts
<1>7. ASSUME NEW lo \in 1..Len(log), NEW hi \in 1..Len(log), NEW filtered \in BOOLEAN,
             RoomTimeline(lo, hi, filtered)
      PROVE  ConnectorSound'
  <2>1. /\ call' = IdleCall /\ drafts' = drafts /\ log' = log
        /\ room' = room \/ room' = PresentThrough(room, hi)
    BY <1>7 DEF RoomTimeline
  <2>2. hi \in Nat
    BY <1>0
  <2>3. RoomOf(log, room') /\ room'.known = room.known
    BY <2>1, <2>2, PresentingRoom
  <2> QED
    BY <2>1, <2>3, CallStays
<1> QED
  BY <1>1, <1>2, <1>3, <1>4, <1>5, <1>6, <1>7 DEF Reads

(* The write that is done. *)
LEMMA SentKeepsSound ==
  ASSUME CallTyped, LogOf(log'), NEW r, RoomOf(log', r), r.known, NEW s, Sent(r, s)
  PROVE  /\ RoomOf(log', room') /\ room'.known /\ CallTyped'
         /\ room' = r \/ (ExtendsPresented(r, s) /\ room' = [r EXCEPT !.presented_seq = s])
         /\ call' = IdleCall /\ drafts' \subseteq drafts
         /\ shown' = shown \cup Heads(log', {s})
<1>1. /\ call' = IdleCall /\ drafts' \subseteq drafts
      /\ room' = r \/ (ExtendsPresented(r, s) /\ room' = [r EXCEPT !.presented_seq = s])
      /\ shown' = shown \cup Heads(log', {s})
  BY Zenon DEF Sent
<1>2. ASSUME ExtendsPresented(r, s), room' = [r EXCEPT !.presented_seq = s]
      PROVE  RoomOf(log', room') /\ room'.known
  <2>1. s = r.head_seq /\ s \in 0..r.head_seq
    BY <1>2 DEF ExtendsPresented, RoomOf, LocalRoom
  <2> QED
    BY <1>2, <2>1, PresentedRoom
<1>3. RoomOf(log', room') /\ room'.known
  BY <1>1, <1>2
<1>4. CallTyped'
  BY <1>1, <1>3, CallStays
<1> QED
  BY <1>1, <1>3, <1>4

(* A write that begins or is tried. *)
LEMMA WriteKeepsSound ==
  ASSUME ConnectorSound, room.known, UNCHANGED <<log, room, drafts>>,
         call' \in CallRecord(call'.draft), call'.step \in {"check", "submit"},
         call'.tool = "write", call'.type \in Types, call'.policy \in Policies
  PROVE  ConnectorSound'
BY DEF ConnectorSound, CallTyped

(* The record the host would write, and the copy of the room beside it.    *)
LEMMA OwnRecord ==
  ASSUME ConnectorSound, call.step = "submit", Len(log) < MaxSeq,
         TypeAccepted(log, call.type), BaseAccepted(log, call.type, call.base),
         NEW record, record = [type |-> call.type, base |-> call.base],
         log' = Append(log, record)
  PROVE  /\ record \in RoomRecord /\ room.known /\ Len(log) \in Nat \ {0}
         /\ LogOf(log') /\ \A r : RoomOf(log, r) => RoomOf(log', r)
         /\ Len(log') = Len(log) + 1 /\ log'[Len(log) + 1] = record
<1>1. call \in CallRecord(call.draft) /\ call.type \in Types /\ room.known
  BY DEF ConnectorSound, CallTyped
<1>2. call.base \in Nat
  BY <1>1 DEF CallRecord
<1>3. record \in RoomRecord /\ record.type = call.type
  BY <1>1, <1>2 DEF RoomRecord
<1>4. Len(log) \in Nat \ {0} /\ log # <<>> /\ LogOf(log)
  BY DEF BaseAccepted, ConnectorSound, LogOf
<1>5. TypeAccepted(log, record.type)
  BY <1>3
<1> QED
  BY <1>1, <1>3, <1>4, <1>5, GrownLog, LogGrows

(* The agent's own writes. *)
LEMMA HostAcceptsKeepsSound ==
  ASSUME ConnectorSound, NEW answered \in BOOLEAN, HostAccepts(answered)
  PROVE  ConnectorSound'
<1> DEFINE s == Len(log) + 1
           record == [type |-> call.type, base |-> call.base]
<1>1. /\ call.step = "submit" /\ Len(log) < MaxSeq /\ log' = Append(log, record)
      /\ TypeAccepted(log, call.type) /\ BaseAccepted(log, call.type, call.base)
  BY DEF HostAccepts
<1>2. /\ record \in RoomRecord /\ room.known /\ Len(log) \in Nat \ {0}
      /\ LogOf(log') /\ \A r : RoomOf(log, r) => RoomOf(log', r)
      /\ Len(log') = s /\ log'[s] = record
  BY <1>1, OwnRecord
<1>3. RoomOf(log, room) /\ RoomOf(log', room) /\ LogOf(log) /\ CallTyped
  BY <1>2 DEF ConnectorSound
<1>4. CASE call' = IdleCall /\ UNCHANGED <<room, drafts, shown>>
  BY <1>2, <1>3, <1>4, CallStays DEF ConnectorSound
<1>5. CASE s > room.synced_seq + 1 /\ StartSync([call EXCEPT !.own = s], s) /\ drafts' = drafts
  <2> DEFINE c == [call EXCEPT !.own = s]
  <2>1. call \in CallRecord(call.draft) /\ s \in Nat
    BY <1>2, <1>3 DEF CallTyped
  <2>2. c \in CallRecord(call.draft) /\ c.own = s /\ SameWrite(call, c)
    BY <2>1, UpdatedCall, ZenonT(60)
  <2>3. StartSync(c, s)
    BY <1>5
  <2> HIDE DEF c, s
  <2>4. c.draft = call.draft
    BY <2>2 DEF SameWrite
  <2>5. /\ RoomOf(log, room') /\ room'.known
        /\ call' \in CallRecord(call'.draft) /\ call'.step = "sync"
        /\ SameWrite(c, call') /\ call'.own = c.own
    BY <1>3, <2>1, <2>2, <2>3, <2>4, SyncStarts
  <2>6. RoomOf(log', room')
    BY <1>2, <2>5
  <2>7. /\ call'.tool = call.tool /\ call'.type = call.type
        /\ call'.policy = call.policy /\ call'.bound = call.bound /\ call'.own = s
    BY <2>2, <2>5 DEF SameWrite
  <2>8. s > 0
    BY <1>2 DEF s
  <2>9. CallTyped'
    BY <1>1, <1>3, <1>5, <2>5, <2>7, <2>8 DEF CallTyped
  <2> QED
    BY <1>2, <2>6, <2>9 DEF ConnectorSound
<1>6. CASE ~ (s > room.synced_seq + 1) /\ Sent(Applied(room, s, record), s)
  <2>1. s = room.synced_seq + 1 /\ s <= Len(log')
    BY <1>2, <1>3, <1>6 DEF RoomOf, LocalRoom
  <2>2. RoomOf(log', Applied(room, s, log'[s])) /\ Applied(room, s, log'[s]).known
    BY <1>2, <1>3, <2>1, AppliedRoom
  <2>3. RoomOf(log', Applied(room, s, record)) /\ Applied(room, s, record).known
    BY <1>2, <2>2
  <2> QED
    BY <1>2, <1>3, <1>6, <2>3, SentKeepsSound DEF ConnectorSound
<1> QED
  BY <1>4, <1>5, <1>6 DEF HostAccepts

(* Every step of a write keeps ConnectorSound.                             *)
LEMMA WritesKeepSound ==
  ASSUME ConnectorSound, Writes
  PROVE  ConnectorSound'
<1>0. /\ RoomOf(log, room) /\ LogOf(log) /\ Len(log) \in Nat /\ CallTyped
      /\ room \in LocalRoom /\ call \in CallRecord(call.draft)
  BY DEF LogOf, ConnectorSound, CallTyped, RoomOf
<1>1. ASSUME NEW t \in OwnTypes, NEW policy \in Policies,
             NEW base \in {0} \cup (shown \cap 1..room.presented_seq),
             SubmitRoomWrite(t, policy, base)
      PROVE  ConnectorSound'
  <2>1. /\ UNCHANGED <<log, room, drafts>> /\ room.known /\ t \in Types /\ base \in Nat
        /\ call' = Write(t, policy, 0, base, room)
    BY <1>1, ConnectorAssumption DEF SubmitRoomWrite
  <2>2. /\ call' \in CallRecord(call'.draft) /\ call'.step = "check" /\ call'.tool = "write"
        /\ call'.type = t /\ call'.policy = policy
    BY <1>0, <2>1, WriteRecord
  <2> QED
    BY <2>1, <2>2, WriteKeepsSound
<1>2. ASSUME NEW d \in drafts, NEW policy \in Policies, DraftCommit(d, policy)
      PROVE  ConnectorSound'
  <2>1. /\ UNCHANGED <<log, room, drafts>> /\ room.known /\ d.type \in Types /\ 0 \in Nat
        /\ call' = Write(d.type, policy, d.id, 0, room)
    BY <1>0, <1>2 DEF DraftCommit, CallTyped
  <2>2. /\ call' \in CallRecord(call'.draft) /\ call'.step = "check" /\ call'.tool = "write"
        /\ call'.type = d.type /\ call'.policy = policy
    BY <1>0, <2>1, WriteRecord
  <2> QED
    BY <2>1, <2>2, WriteKeepsSound
<1>3. ASSUME NEW d \in drafts, DraftDrop(d) \/ DraftsList(d)
      PROVE  ConnectorSound'
  <2>1. /\ call' = call /\ drafts' \subseteq drafts /\ log' = log
        /\ room' = room \/ room' = PresentHead(room)
    BY <1>3 DEF DraftDrop, DraftsList
  <2>2. RoomOf(log, room') /\ room'.known = room.known
    BY <1>0, <2>1, PresentingRoom
  <2> QED
    BY <1>0, <2>1, <2>2, CallStays DEF ConnectorSound
<1>4. CASE RoomJoin
  <2> DEFINE n == Len(log)
             r == IF room.head_seq = 0
                  THEN AcceptRoomResponse(room, TypesAt(log, n), HeadAt(log, n), n)
                  ELSE room
             b == WriteBase(r, 0)
  <2>1. /\ UNCHANGED <<log, drafts>> /\ room' = r
        /\ call' = [IdleCall EXCEPT !.step = "submit", !.tool = "room_join",
                                    !.type = "join", !.base = b]
    BY <1>4 DEF RoomJoin
  <2>2. RoomOf(log, r) /\ r.known
    <3>1. CASE room.head_seq = 0
      <4>1. room.presented_seq = 0
        BY <1>0, <3>1 DEF RoomOf
      <4>2. TypesAt(log, n) \in SUBSET DOMAIN CustomTypes
        BY <1>0, RegistryGrows
      <4> QED
        BY <1>0, <3>1, <4>1, <4>2, AcceptedRoom
    <3>2. CASE room.head_seq # 0
      <4>1. room.synced_seq # 0
        <5>1. HeadAt(log, 0) \in 0..0
          BY HeadUpTo
        <5> QED
          BY <1>0, <3>2, <5>1 DEF RoomOf
      <4> QED
        BY <1>0, <3>2, <4>1 DEF RoomOf
    <3> QED
      BY <3>1, <3>2
  <2>3. b \in Nat
    BY <2>2 DEF WriteBase, RoomOf, LocalRoom
  <2> HIDE DEF r, b
  <2>4. /\ call' \in CallRecord(call'.draft) /\ call'.step = "submit"
        /\ call'.tool = "room_join" /\ call'.type = "join" /\ ~ call'.bound
    BY <2>1, <2>3, JoinRecord, ZenonT(60)
  <2>5. "join" \in Types
    BY BuiltinTypes DEF Types
  <2>6. CallTyped'
    BY <1>0, <2>1, <2>2, <2>4, <2>5 DEF CallTyped
  <2> QED
    BY <1>0, <2>1, <2>2, <2>6 DEF ConnectorSound
<1>5. ASSUME NEW answered \in BOOLEAN, RoomCreate(answered) PROVE ConnectorSound'
  <2>1. /\ log = <<>> /\ log' = <<[type |-> "create", base |-> 0]>>
        /\ call' = call /\ drafts' = drafts
    BY <1>5 DEF RoomCreate
  <2>2. LogOf(log') /\ RoomOf(log', room) /\ Len(log') = 1 /\ HeadAt(log', 1) = 1
    BY <1>0, <2>1, CreatedRoom
  <2>3. CASE room' = room
    BY <1>0, <2>1, <2>2, <2>3, CallStays DEF ConnectorSound
  <2>4. CASE room' = PresentHead(AcceptRoomResponse(room, Declared, 1, 1))
    <3> DEFINE r == AcceptRoomResponse(room, Declared, 1, 1)
    <3>1. room.presented_seq = 0
      <4>1. room.synced_seq = 0 /\ HeadAt(log, 0) \in 0..0
        BY <1>0, <2>1, HeadUpTo DEF RoomOf
      <4> QED
        BY <1>0, <4>1 DEF RoomOf
    <3>2. TypesAt(log', 1) = Declared /\ Declared \in SUBSET DOMAIN CustomTypes
      <4>1. \A i \in 1..1 : log'[i].type = "create"
        BY <2>1
      <4> QED
        BY <4>1, TypesAssumption DEF TypesAt
    <3>3. RoomOf(log', r) /\ r.known /\ r.head_seq = 1
      <4> DEFINE l == log'
      <4>1. LogOf(l) /\ Len(l) = 1 /\ HeadAt(l, Len(l)) = 1 /\ TypesAt(l, Len(l)) = Declared
        BY <2>2, <3>2
      <4> HIDE DEF l
      <4>2. RoomOf(l, AcceptRoomResponse(room, Declared, HeadAt(l, Len(l)), Len(l)))
        BY <1>0, <3>1, <3>2, <4>1, AcceptedRoom
      <4>3. LET q == AcceptRoomResponse(room, Declared, HeadAt(l, Len(l)), Len(l)) IN
               q.known /\ q.head_seq = HeadAt(l, Len(l))
        BY <1>0, <3>1, <3>2, <4>1, AcceptedRoom
      <4> QED
        BY <4>1, <4>2, <4>3 DEF l
    <3> HIDE DEF r
    <3>4. 1 \in 0..r.head_seq
      BY <3>3
    <3>5. room' = [r EXCEPT !.presented_seq = 1]
      BY <2>4, <3>3 DEF PresentHead, r
    <3>6. RoomOf(log', room') /\ room'.known
      BY <3>3, <3>4, <3>5, PresentedRoom
    <3> QED
      BY <1>0, <2>1, <2>2, <3>6, CallStays DEF ConnectorSound
  <2> QED
    BY <1>5, <2>3, <2>4 DEF RoomCreate
<1>6. CASE Attempt
  <2>1. /\ call.step = "check" /\ UNCHANGED <<log, room, drafts>>
        /\ call' = Attempted(call) \/ call' = Attempted([call EXCEPT !.base = room.head_seq])
    BY <1>6 DEF Attempt
  <2>2. /\ call.tool = "write" /\ room.known /\ call.type \in Types
        /\ call.policy \in Policies /\ room.head_seq \in Nat
    BY <1>0, <2>1 DEF CallTyped, LocalRoom
  <2>3. PICK c : /\ call' = Attempted(c) /\ c \in CallRecord(c.draft) /\ SameWrite(call, c)
    <3>1. CASE call' = Attempted(call)
      BY <1>0, <3>1 DEF SameWrite
    <3>2. CASE call' = Attempted([call EXCEPT !.base = room.head_seq])
      <4> DEFINE c == [call EXCEPT !.base = room.head_seq]
      <4>1. c \in CallRecord(call.draft) /\ SameWrite(call, c)
        BY <1>0, <2>2, UpdatedCall, ZenonT(60)
      <4>2. call' = Attempted(c)
        BY <3>2
      <4> HIDE DEF c
      <4>3. c.draft = call.draft
        BY <4>1 DEF SameWrite
      <4> QED
        BY <4>1, <4>2, <4>3
    <3> QED
      BY <2>1, <3>1, <3>2
  <2>4. /\ call' \in CallRecord(call'.draft) /\ call'.step = "submit" /\ call'.tool = c.tool
        /\ call'.type = c.type /\ call'.policy = c.policy
    <3> DEFINE e == Attempted(c)
    <3>1. /\ e \in CallRecord(c.draft) /\ e.step = "submit" /\ e.tool = c.tool
          /\ e.type = c.type /\ e.policy = c.policy /\ e.draft = c.draft
      BY <1>0, <2>3, AttemptedRecord
    <3> HIDE DEF e
    <3> QED
      BY <2>3, <3>1 DEF e
  <2> QED
    BY <2>1, <2>2, <2>3, <2>4, WriteKeepsSound DEF SameWrite
<1>7. CASE RejectedHeadMismatch \/ HoldDraft
  <2>1. /\ call.step = "check" /\ log' = log /\ call' = IdleCall /\ room' = PresentHead(room)
        /\ \A d \in drafts' : d \in drafts \/ (d.type = call.type /\ d.base = call.base)
    <3>1. CASE RejectedHeadMismatch
      BY <3>1 DEF RejectedHeadMismatch, ShowChanges
    <3>2. CASE HoldDraft
      BY <3>2 DEF HoldDraft, ShowChanges
    <3> QED
      BY <1>7, <3>1, <3>2
  <2>2. room.known /\ call.type \in Types /\ call.base \in Nat
    BY <1>0, <2>1 DEF CallTyped, CallRecord
  <2>3. RoomOf(log, room') /\ room'.known
    BY <1>0, <2>1, <2>2, PresentingRoom
  <2> QED
    BY <1>0, <2>1, <2>2, <2>3, CallStays DEF ConnectorSound
<1>8. ASSUME NEW answered \in BOOLEAN, HostAccepts(answered) PROVE ConnectorSound'
  BY <1>8, HostAcceptsKeepsSound
<1>9. CASE HostRefuses
  <2>1. call.step = "submit" /\ UNCHANGED <<log, drafts>>
    BY <1>9 DEF HostRefuses
  <2>2. CASE call' = IdleCall /\ UNCHANGED room
    BY <1>0, <2>1, <2>2, CallStays DEF ConnectorSound
  <2>3. CASE call.bound /\ StartSync(call, Len(log))
    <3>1. /\ RoomOf(log, room') /\ room'.known
          /\ call' \in CallRecord(call'.draft) /\ call'.step = "sync" /\ SameWrite(call, call')
      BY <1>0, <2>3, SyncStarts
    <3>2. /\ call'.tool = call.tool /\ call'.type = call.type /\ call'.policy = call.policy
          /\ call.tool = "write"
      BY <1>0, <2>1, <2>3, <3>1 DEF SameWrite, CallTyped
    <3>3. CallTyped'
      BY <1>0, <2>1, <3>1, <3>2 DEF CallTyped
    <3> QED
      BY <1>0, <2>1, <3>1, <3>3 DEF ConnectorSound
  <2> QED
    BY <1>9, <2>2, <2>3 DEF HostRefuses
<1>10. CASE RequestLost
  BY <1>0, <1>10, CallStays DEF RequestLost, ConnectorSound
<1>11. CASE WriteSynced
  <2>1. call.step = "sync" /\ log' = log /\ room.known
    BY <1>0, <1>11 DEF WriteSynced, Synced, CallTyped
  <2>2. CASE Sent(room, call.own)
    BY <1>0, <2>1, <2>2, SentKeepsSound DEF ConnectorSound
  <2>3. CASE call' = IdleCall /\ UNCHANGED <<room, drafts, shown>>
    BY <1>0, <2>1, <2>3, CallStays DEF ConnectorSound
  <2>4. CASE /\ ~ (call.own > 0) /\ call' = [call EXCEPT !.step = "check"]
             /\ UNCHANGED <<room, drafts, shown>>
    <3> DEFINE e == [call EXCEPT !.step = "check"]
    <3>1. e \in CallRecord(call.draft) /\ e.step = "check" /\ SameWrite(call, e)
      BY <1>0, UpdatedCall, ZenonT(60)
    <3> HIDE DEF e
    <3>2. /\ e \in CallRecord(e.draft) /\ e.tool = "write" /\ call.tool = "write"
          /\ e.type = call.type /\ e.policy = call.policy
      <4>1. call.tool = "write"
        BY <1>0, <1>11, <2>1, <2>4 DEF WriteSynced, Synced, CallTyped
      <4> QED
        BY <3>1, <4>1 DEF SameWrite
    <3>3. e.type \in Types /\ e.policy \in Policies
      BY <1>0, <3>2 DEF CallTyped
    <3> QED
      BY <2>1, <2>4, <3>1, <3>2, <3>3, WriteKeepsSound DEF e
  <2> QED
    BY <1>11, <2>2, <2>3, <2>4 DEF WriteSynced
<1> QED
  BY <1>1, <1>2, <1>3, <1>4, <1>5, <1>6, <1>7, <1>8, <1>9, <1>10, <1>11 DEF Writes

(* ConnectorSound holds in every state, provided room lists carry the      *)
(* types of the room.                                                      *)
LEMMA ConnectorStays ==
  ASSUME Typed
  PROVE  Spec => []ConnectorSound
<1>1. Init => ConnectorSound
  <2> SUFFICES ASSUME Init PROVE ConnectorSound
    OBVIOUS
  <2>1. LogOf(log)
    BY ConnectorAssumption DEF Init, LogOf
  <2>2. HeadAt(log, 0) = 0
    BY HeadUpTo
  <2>3. RoomOf(log, room)
    BY <2>2 DEF Init, NoRoom, RoomOf, LocalRoom
  <2>4. CallTyped
    BY IdleRecord DEF Init, CallTyped
  <2> QED
    BY <2>1, <2>3, <2>4 DEF ConnectorSound
<1>2. ConnectorSound /\ [Next]_vars => ConnectorSound'
  <2> SUFFICES ASSUME ConnectorSound, [Next]_vars PROVE ConnectorSound'
    OBVIOUS
  <2>1. CASE UNCHANGED vars
    BY <2>1 DEF vars, ConnectorSound, CallTyped
  <2>2. CASE Next
    BY <2>2, OthersKeepSound, ReadsKeepSound, WritesKeepSound DEF Next
  <2> QED
    BY <2>1, <2>2
<1> QED
  BY <1>1, <1>2, PTL DEF Spec

(***************************************************************************)
(* The head a connector reports is the head of the room as of the records  *)
(* it has verified, if the entries of room lists carry the room's types    *)
(* (observe_room, apply_record_to, accept_room_response).                  *)
(***************************************************************************)
THEOREM HeadStaysExact ==
  ASSUME Typed
  PROVE  Spec => []HeadExact
<1>1. ConnectorSound => HeadExact
  BY DEF ConnectorSound, RoomOf, HeadExact
<1> QED
  BY <1>1, ConnectorStays, PTL
-----------------------------------------------------------------------------
(* What the agent has been shown *)

(* What the agent was shown, and what its results had to leave out.        *)
Seen == shown \cup passed

(* The heads of l up to n are in the view that starts at b or among S.     *)
IsRead(l, b, S, n) == \A s \in Heads(l, 1..n) : s <= b \/ s \in S

Writing == call.tool = "write" /\ call.step \in {"check", "submit", "sync"}

(* What leads up to the presented head has been read.  A held draft is     *)
(* based on a head that was presented when it was held.                    *)
ViewSound ==
    /\ start \in Nat
    /\ IsRead(log, start, Seen, room.presented_seq)
    /\ \A d \in drafts : d.base \in 1..room.presented_seq

(* The agent wrote on what it had been shown, if it had been shown a head; *)
(* only send_anyway moves the base on, to a head of the room.              *)
WriteSound ==
    Writing =>
        /\ call.base \in 1..room.head_seq
        /\ room.presented_seq > 0 => call.origin <= room.presented_seq
        /\ room.presented_seq > 0 /\ call.policy # "send_anyway" =>
              call.base <= room.presented_seq
        /\ call.step # "check" => call.presented = room.presented_seq

OwnSound ==
    /\ call.step \in {"check", "submit"} => call.own = 0
    /\ call.step = "sync" /\ call.own > 0 =>
          call.own = call.until /\ call.own \in 1..Len(log)

ReadSound == ViewSound /\ WriteSound /\ OwnSound
-----------------------------------------------------------------------------
(* What a step leaves of it *)

(* The log a step has before it is the beginning of the one after it. *)
LogKept ==
    /\ Len(log) \in Nat /\ Len(log') \in Nat /\ Len(log) <= Len(log')
    /\ \A n \in 0..Len(log) :
          Heads(log', 1..n) = Heads(log, 1..n) /\ TypesAt(log', n) = TypesAt(log, n)

(* Every step but a write leaves the log. *)
LEMMA SameLog ==
  ASSUME LogOf(log), log' = log
  PROVE  LogKept
BY DEF LogKept, LogOf

(* A record appended to the log leaves the heads and classes of the log so *)
(* far as they were.                                                       *)
LEMMA LongerLog ==
  ASSUME LogOf(log), NEW record \in RoomRecord, log' = Append(log, record)
  PROVE  LogKept
BY LogGrows DEF LogKept, LogOf

(* The positions of a room's copy. *)
LEMMA RoomPositions ==
  ASSUME NEW l, LogOf(l), NEW r, RoomOf(l, r)
  PROVE  /\ Len(l) \in Nat /\ r.synced_seq \in 0..Len(l) /\ r.synced_seq \in Nat
         /\ r.first \in 1..r.synced_seq + 1 /\ r.first \in Nat \ {0}
         /\ r.head_seq \in 0..r.synced_seq /\ r.head_seq \in Nat
         /\ r.presented_seq \in 0..r.head_seq /\ r.presented_seq \in Nat
         /\ r.head_seq = HeadAt(l, r.synced_seq) /\ r \in LocalRoom
<1>1. /\ r \in LocalRoom /\ Len(l) \in Nat /\ r.synced_seq \in 0..Len(l)
      /\ r.head_seq = HeadAt(l, r.synced_seq) /\ r.presented_seq \in 0..r.head_seq
      /\ r.first \in 1..r.synced_seq + 1
  BY DEF RoomOf, LogOf
<1>2. /\ r.synced_seq \in Nat /\ r.first \in Nat \ {0} /\ r.head_seq \in Nat
      /\ r.presented_seq \in Nat
  BY <1>1 DEF LocalRoom
<1>3. HeadAt(l, r.synced_seq) \in 0..r.synced_seq
  BY <1>2, HeadUpTo
<1> QED
  BY <1>1, <1>2, <1>3

(* The positions of the connector's copy, before and after a step. *)
LEMMA Positions ==
  ASSUME ConnectorSound
  PROVE  /\ LogOf(log) /\ RoomOf(log, room) /\ Len(log) \in Nat /\ CallTyped
         /\ room.synced_seq \in 0..Len(log) /\ room.synced_seq \in Nat
         /\ room.head_seq \in 0..room.synced_seq /\ room.head_seq \in Nat
         /\ room.presented_seq \in 0..room.head_seq /\ room.presented_seq \in Nat
         /\ room.first \in 1..room.synced_seq + 1 /\ room.first \in Nat \ {0}
         /\ room \in LocalRoom
BY RoomPositions DEF ConnectorSound

(* A step that presents what has been read keeps the view sound. *)
LEMMA ViewStep ==
  ASSUME ConnectorSound, ConnectorSound', ViewSound,
         room.presented_seq <= room'.presented_seq, start' \in Nat,
         IsRead(log', start', Seen', room'.presented_seq),
         \A d \in drafts' : d \in drafts \/ d.base \in 1..room'.presented_seq
  PROVE  ViewSound'
<1>1. room.presented_seq \in Nat /\ room'.presented_seq \in Nat
  <2>1. RoomOf(log', room') /\ LogOf(log')
    BY DEF ConnectorSound
  <2> QED
    BY <2>1, Positions, RoomPositions
<1>2. ASSUME NEW d \in drafts' PROVE d.base \in 1..room'.presented_seq
  <2>1. CASE d \in drafts
    <3>1. d.base \in 1..room.presented_seq
      BY <2>1 DEF ViewSound
    <3> QED
      BY <1>1, <3>1
  <2> QED
    BY <2>1
<1> QED
  BY <1>2 DEF ViewSound

(* A step that presents nothing does so too: what has been read stays read. *)
LEMMA QuietStep ==
  ASSUME ConnectorSound, ViewSound, LogKept, room'.presented_seq = room.presented_seq,
         start' = start, Seen \subseteq Seen', drafts' \subseteq drafts
  PROVE  ViewSound'
<1>1. room.presented_seq \in 0..Len(log)
  BY Positions
<1>2. ASSUME NEW s \in Heads(log', 1..room'.presented_seq) PROVE s <= start' \/ s \in Seen'
  <2>1. s \in Heads(log, 1..room.presented_seq)
    BY <1>1 DEF LogKept
  <2>2. s <= start \/ s \in Seen
    BY <2>1 DEF ViewSound, IsRead
  <2> HIDE DEF Seen
  <2> QED
    BY <2>2
<1>3. IsRead(log', start', Seen', room'.presented_seq)
  BY <1>2 DEF IsRead
<1> QED
  BY <1>3 DEF ViewSound

(* A call that ends is no write. *)
LEMMA EndedCall ==
  ASSUME call' = IdleCall
  PROVE  WriteSound' /\ OwnSound'
BY IdleRecord DEF WriteSound, OwnSound, Writing

(* A call that goes on while the room is synced. *)
LEMMA CallGoesOn ==
  ASSUME ConnectorSound, ConnectorSound', WriteSound, OwnSound, LogKept, call' = call,
         room.head_seq <= room'.head_seq, room'.presented_seq = room.presented_seq
  PROVE  WriteSound' /\ OwnSound'
<1>1. /\ room.head_seq \in Nat /\ room'.head_seq \in Nat
      /\ Len(log) \in Nat /\ Len(log') \in Nat /\ Len(log) <= Len(log')
  <2>1. RoomOf(log', room') /\ LogOf(log')
    BY DEF ConnectorSound
  <2> QED
    BY <2>1, Positions, RoomPositions DEF LogKept
<1>2. OwnSound'
  BY <1>1 DEF OwnSound
<1>3. ASSUME Writing' PROVE call'.base \in 1..room'.head_seq
  <2>1. call.base \in 1..room.head_seq
    BY <1>3 DEF WriteSound, Writing
  <2> QED
    BY <1>1, <2>1
<1>4. WriteSound'
  BY <1>3 DEF WriteSound, Writing
<1> QED
  BY <1>2, <1>4

(* The records of the others. *)
LEMMA OthersKeepRead ==
  ASSUME ConnectorSound, ConnectorSound', ReadSound, Others
  PROVE  ReadSound'
<1>1. UNCHANGED <<room, drafts, call, start, shown, passed>>
  BY DEF Others, OtherCreates, OtherWrites
<1>2. LogKept
  <2>1. CASE OtherCreates
    <3>1. log = <<>> /\ log' = <<[type |-> "create", base |-> 0]>>
      BY <2>1 DEF OtherCreates
    <3>2. [type |-> "create", base |-> 0] \in RoomRecord
      BY BuiltinTypes DEF RoomRecord, Types
    <3>3. log' = Append(log, [type |-> "create", base |-> 0])
      BY <3>1
    <3> QED
      BY <3>2, <3>3, LongerLog DEF ConnectorSound
  <2>2. ASSUME NEW t \in OtherTypes, NEW on \in OtherBases, OtherWrites(t, on)
        PROVE  LogKept
    <3> DEFINE base == IF on = "head" \/ RequiresHead(t, DOMAIN CustomTypes)
                       THEN HeadAt(log, Len(log)) ELSE 1
               record == [type |-> t, base |-> base]
    <3>1. Len(log) \in 1..(MaxSeq - 1) /\ log' = Append(log, record)
      BY <2>2 DEF OtherWrites
    <3>2. base \in Nat
      BY <3>1, HeadUpTo
    <3> HIDE DEF base
    <3>3. record \in RoomRecord
      BY <3>2, ConnectorAssumption DEF RoomRecord
    <3> HIDE DEF record
    <3> QED
      BY <3>1, <3>3, LongerLog DEF ConnectorSound
  <2> QED
    BY <2>1, <2>2 DEF Others
<1>3. Seen \subseteq Seen'
  BY <1>1 DEF Seen
<1>4. ViewSound'
  BY <1>1, <1>2, <1>3, QuietStep DEF ReadSound
<1>5. WriteSound' /\ OwnSound'
  BY <1>1, <1>2, Positions, CallGoesOn DEF ReadSound
<1> QED
  BY <1>4, <1>5 DEF ReadSound

(* Records that are applied, one after the other. *)
LEMMA AppliedKeepsRead ==
  ASSUME ConnectorSound, ConnectorSound', ReadSound, room.known,
         NEW s, s = room.synced_seq + 1, s <= Len(log), room' = Applied(room, s, log[s]),
         UNCHANGED <<log, drafts, call, start, shown, passed>>
  PROVE  ReadSound'
<1>1. /\ LogOf(log) /\ RoomOf(log, room) /\ RoomOf(log, room')
      /\ room.synced_seq \in Nat /\ room.head_seq = HeadAt(log, room.synced_seq)
      /\ room.head_seq \in 0..room.synced_seq
  BY Positions, RoomPositions DEF ConnectorSound
<1>2. room'.synced_seq = s /\ room'.presented_seq = room.presented_seq
  BY <1>1, AppliedRoom
<1>3. room.head_seq <= room'.head_seq
  <2>1. room'.head_seq = HeadAt(log, s)
    BY <1>1, <1>2, RoomPositions
  <2>2. \/ HeadAt(log, room.synced_seq + 1) = room.synced_seq + 1
        \/ HeadAt(log, room.synced_seq + 1) = HeadAt(log, room.synced_seq)
    BY <1>1, HeadNext
  <2> QED
    BY <1>1, <2>1, <2>2
<1>4. LogKept /\ Seen \subseteq Seen'
  BY <1>1, SameLog DEF Seen
<1> QED
  BY <1>2, <1>3, <1>4, QuietStep, CallGoesOn DEF ReadSound

(* Presenting the head, or the latest of the heads lately shown. *)
LEMMA HeadPresented ==
  ASSUME ConnectorSound
  PROVE  LET q == PresentHead(room) IN
         /\ q.presented_seq = room.head_seq /\ q.head_seq = room.head_seq
<1>1. RoomOf(log, room) /\ room.presented_seq \in 0..room.head_seq /\ room.head_seq \in Nat
  BY Positions
<1>2. CASE room.head_seq = 0
  BY <1>1, <1>2 DEF PresentHead
<1>3. CASE room.head_seq # 0
  <2>1. room.head_seq \in 0..room.head_seq
    BY <1>1
  <2> QED
    BY <1>1, <1>3, <2>1, PresentedRoom DEF PresentHead
<1> QED
  BY <1>2, <1>3

(* PresentThrough moves the presented head forward to a head the room's    *)
(* copy has, no further than asked.                                        *)
LEMMA ThroughPresented ==
  ASSUME ConnectorSound, NEW n \in Nat
  PROVE  LET q == PresentThrough(room, n) IN
         \/ q.presented_seq = room.presented_seq
         \/ q.presented_seq \in (room.presented_seq + 1)..n
<1> DEFINE found == LocalHeads(room, (room.presented_seq + 1)..n)
           p == room.presented_seq
<1>1. room \in LocalRoom /\ p \in Nat
  BY Positions
<1>2. CASE found = {}
  BY <1>2 DEF PresentThrough
<1>3. CASE found # {}
  <2>1. \A s \in found : s \in (p + 1)..n
    BY DEF LocalHeads
  <2>2. PresentThrough(room, n) = [room EXCEPT !.presented_seq = Max(found)]
    BY <1>3 DEF PresentThrough
  <2> HIDE DEF found
  <2>3. found \in SUBSET (0..n)
    BY <1>1, <2>1
  <2>4. Max(found) \in found
    BY <1>3, <2>3, MaxOfBounded
  <2>5. Max(found) \in (p + 1)..n
    BY <2>1, <2>4
  <2> HIDE DEF p
  <2> QED
    BY <1>1, <2>2, <2>5 DEF LocalRoom, p
<1> QED
  BY <1>2, <1>3

(* room_state shows the room from its head on, when it is the first read.  *)
LEMMA StateKeepsRead ==
  ASSUME ConnectorSound, ConnectorSound', ReadSound, FirstStateRead(room),
         call' = IdleCall, UNCHANGED <<log, drafts, shown, passed>>
  PROVE  ReadSound'
<1>1. /\ LogKept /\ Seen \subseteq Seen' /\ room.head_seq \in Nat
      /\ room.presented_seq \in 0..room.head_seq
  BY Positions, SameLog DEF Seen
<1>2. CASE room.presented_seq # 0
  <2>1. room' = room /\ start' = start
    BY <1>2 DEF FirstStateRead
  <2> QED
    BY <1>1, <2>1, QuietStep, EndedCall DEF ReadSound
<1>3. CASE room.presented_seq = 0
  <2>1. room'.presented_seq = room.head_seq /\ start' = room.head_seq
    BY <1>3, HeadPresented DEF FirstStateRead
  <2>2. IsRead(log', start', Seen', room'.presented_seq)
    BY <1>1, <2>1 DEF IsRead, Heads
  <2>3. ViewSound'
    BY <1>1, <2>1, <2>2, ViewStep DEF ReadSound
  <2> QED
    BY <2>3, EndedCall DEF ReadSound
<1> QED
  BY <1>2, <1>3

(* A read without a gap presents what it shows. *)
LEMMA TimelineKeepsRead ==
  ASSUME ConnectorSound, ConnectorSound', ReadSound,
         NEW lo \in 1..Len(log), NEW hi \in 1..Len(log), NEW filtered \in BOOLEAN,
         RoomTimeline(lo, hi, filtered)
  PROVE  ReadSound'
<1> DEFINE p == room.presented_seq
           n == room'.presented_seq
           S == {s \in lo..hi : filtered => log[s].type = "message"}
<1>1. /\ p \in Nat /\ Len(log) \in Nat /\ hi \in Nat /\ lo \in Nat /\ LogOf(log)
  BY Positions
<1>2. /\ UNCHANGED <<log, drafts, start, passed>> /\ call' = IdleCall
      /\ shown' = shown \cup Heads(log, S)
      /\ room' = IF TimelinePresents(lo, filtered) THEN PresentThrough(room, hi) ELSE room
  BY DEF RoomTimeline, Show
<1>3. \/ n = p
      \/ n \in (p + 1)..hi /\ TimelinePresents(lo, filtered)
  BY <1>1, <1>2, ThroughPresented
<1> HIDE DEF S
<1>4. LogKept /\ Seen \subseteq Seen'
  BY <1>1, <1>2, SameLog DEF Seen
<1>5. CASE n = p
  BY <1>2, <1>4, <1>5, QuietStep, EndedCall DEF ReadSound
<1>6. CASE n \in (p + 1)..hi /\ TimelinePresents(lo, filtered)
  <2>1. S = lo..hi /\ lo <= p + 1 /\ p <= n /\ n <= hi
    BY <1>1, <1>6 DEF TimelinePresents, S
  <2>2. ASSUME NEW s \in Heads(log, 1..n) PROVE s <= start \/ s \in Seen'
    <3>1. s \in 1..n /\ s \in Nat
      BY DEF Heads
    <3>2. CASE s <= p
      <4>1. s \in Heads(log, 1..p)
        BY <1>1, <3>1, <3>2 DEF Heads
      <4>2. s <= start \/ s \in Seen
        BY <4>1 DEF ReadSound, ViewSound, IsRead
      <4> QED
        BY <1>4, <4>2
    <3>3. CASE ~ (s <= p)
      <4>1. s \in lo..hi
        BY <1>1, <2>1, <1>6, <3>1, <3>3
      <4>2. s \in Heads(log, S)
        BY <2>1, <4>1 DEF Heads
      <4> QED
        BY <1>2, <4>2 DEF Seen
    <3> QED
      BY <3>2, <3>3
  <2>3. IsRead(log', start', Seen', n)
    BY <1>2, <2>2 DEF IsRead
  <2>4. ViewSound'
    BY <1>2, <2>1, <2>3, ViewStep DEF ReadSound, ViewSound
  <2> QED
    BY <1>2, <2>4, EndedCall DEF ReadSound
<1> QED
  BY <1>3, <1>5, <1>6

(* What is read of the room. *)
LEMMA ReadsKeepRead ==
  ASSUME ConnectorSound, ConnectorSound', ReadSound, Reads
  PROVE  ReadSound'
<1>0. LogOf(log) /\ RoomOf(log, room) /\ Len(log) \in Nat /\ room.synced_seq \in Nat
  BY Positions
<1>1. ASSUME UNCHANGED <<log, drafts, start, shown, passed>>
      PROVE  LogKept /\ Seen \subseteq Seen'
  BY <1>0, <1>1, SameLog DEF Seen
<1>2. ASSUME NEW typed \in Listings, RoomsListed(typed) PROVE ReadSound'
  <2>1. UNCHANGED <<log, drafts, call, start, shown, passed>> /\ call = IdleCall
    BY <1>2 DEF RoomsListed
  <2>2. room'.presented_seq = room.presented_seq
    BY <1>0, <1>2, ObservedRoom DEF RoomsListed
  <2> QED
    BY <1>1, <2>1, <2>2, QuietStep, EndedCall DEF ReadSound
<1>3. ASSUME NEW s \in 1..Len(log), Deliver(s) PROVE ReadSound'
  <2>1. UNCHANGED <<log, drafts, call, start, shown, passed>> /\ call = IdleCall /\ room.known
    BY <1>3 DEF Deliver
  <2>2. CASE Acceptable(room, s, log[s])
    <3>1. s = room.synced_seq + 1 /\ s <= Len(log) /\ room' = Applied(room, s, log[s])
      BY <1>0, <1>3, <2>2 DEF Acceptable, Deliver, ApplyRecord
    <3> QED
      BY <2>1, <3>1, AppliedKeepsRead
  <2>3. CASE ~ Acceptable(room, s, log[s])
    <3>1. room' = room
      BY <1>3, <2>3 DEF Deliver, ApplyRecord
    <3> QED
      BY <1>1, <2>1, <3>1, QuietStep, EndedCall DEF ReadSound
  <2> QED
    BY <2>2, <2>3
<1>4. CASE SyncRecord
  <2> DEFINE s == room.synced_seq + 1
  <2>1. /\ UNCHANGED <<log, drafts, call, start, shown, passed>> /\ call.step = "sync"
        /\ room.synced_seq < Len(log) /\ room' = Applied(room, s, log[s])
    BY <1>4 DEF SyncRecord
  <2>2. room.known
    BY <2>1 DEF ConnectorSound, CallTyped
  <2>3. s <= Len(log)
    BY <1>0, <2>1
  <2> QED
    BY <2>1, <2>2, <2>3, AppliedKeepsRead
<1>5. CASE SyncFails \/ TimelineEmpty
  <2>1. call' = IdleCall /\ UNCHANGED <<log, room, drafts, start, shown, passed>>
    BY <1>5 DEF SyncFails, TimelineEmpty
  <2> QED
    BY <1>1, <2>1, QuietStep, EndedCall DEF ReadSound
<1>6. CASE RoomState \/ RoomStateSynced
  <2>1. UNCHANGED <<log, drafts, shown, passed>>
    BY <1>6 DEF RoomState, RoomStateSynced
  <2>2. CASE FirstStateRead(room) /\ call' = IdleCall
    BY <2>1, <2>2, StateKeepsRead
  <2>3. CASE StartSync([IdleCall EXCEPT !.tool = "room_state"], Len(log)) /\ start' = start
    <3>1. /\ call'.tool = "room_state" /\ call'.step = "sync" /\ call'.own = 0
          /\ room'.presented_seq = room.presented_seq
      BY <2>1, <2>3, ReadStarts
    <3>2. ViewSound'
      BY <1>1, <2>1, <2>3, <3>1, QuietStep DEF ReadSound
    <3> QED
      BY <3>1, <3>2 DEF ReadSound, WriteSound, OwnSound, Writing
  <2> QED
    BY <1>6, <2>2, <2>3 DEF RoomState, RoomStateSynced
<1>7. CASE TimelineRefresh
  <2>1. /\ StartSync([IdleCall EXCEPT !.tool = "room_timeline"], Len(log))
        /\ UNCHANGED <<log, drafts, start, shown, passed>>
    BY <1>7 DEF TimelineRefresh
  <2>2. /\ call'.tool = "room_timeline" /\ call'.step = "sync" /\ call'.own = 0
        /\ room'.presented_seq = room.presented_seq
    BY <2>1, ReadStarts
  <2>3. ViewSound'
    BY <1>1, <2>1, <2>2, QuietStep DEF ReadSound
  <2> QED
    BY <2>2, <2>3 DEF ReadSound, WriteSound, OwnSound, Writing
<1>8. ASSUME NEW lo \in 1..Len(log), NEW hi \in 1..Len(log), NEW filtered \in BOOLEAN,
             RoomTimeline(lo, hi, filtered)
      PROVE  ReadSound'
  BY <1>8, TimelineKeepsRead
<1> QED
  BY <1>2, <1>3, <1>4, <1>5, <1>6, <1>7, <1>8 DEF Reads

(* Presenting the head: what led up to it is read up to the origin o, is   *)
(* left out because no record of it is kept or the base n is past it, or   *)
(* is shown as a change since n.                                           *)
LEMMA ChangesPresented ==
  ASSUME ConnectorSound, ConnectorSound', ReadSound, NEW n \in Nat, NEW o \in Nat,
         start' \in Nat, IsRead(log, start', Seen, o),
         log' = log, room' = PresentHead(room), Show(ChangesSince(room, n)),
         PassOver(o, 1..n \cup Forgotten(room)) \/ (PassOver(o, Forgotten(room)) /\ n = o),
         \A d \in drafts' : d \in drafts \/ d.base \in 1..room.head_seq
  PROVE  ViewSound'
<1>1. /\ Len(log) \in Nat /\ room.synced_seq \in 0..Len(log) /\ room.synced_seq \in Nat
      /\ room.head_seq \in 0..room.synced_seq /\ room.head_seq \in Nat
      /\ room.presented_seq \in 0..room.head_seq /\ room.first \in Nat \ {0}
  BY Positions
<1>2. room'.presented_seq = room.head_seq
  BY HeadPresented
<1>3. /\ shown' = shown \cup Heads(log, ChangesSince(room, n))
      /\ \A s \in Heads(log, Forgotten(room) \cap 1..Len(log)) : s > o => s \in passed'
      /\ \A s \in Heads(log, 1..n \cap 1..Len(log)) : s > o => s \in passed' \/ n = o
      /\ passed \subseteq passed'
  BY DEF Show, PassOver, Heads
<1>4. ASSUME NEW s \in Heads(log, 1..room.head_seq) PROVE s <= start' \/ s \in Seen'
  <2>1. /\ s \in 1..room.head_seq /\ s \in Nat /\ s \in 1..Len(log)
        /\ AdvancesHead(log[s].type, DOMAIN CustomTypes)
    BY <1>1 DEF Heads
  <2>2. CASE s <= o
    <3>1. s \in Heads(log, 1..o)
      BY <2>1, <2>2 DEF Heads
    <3>2. s <= start' \/ s \in Seen
      BY <3>1 DEF IsRead
    <3> QED
      BY <1>3, <3>2 DEF Seen
  <2>3. CASE s > o /\ s < room.first
    <3>1. s \in Heads(log, Forgotten(room) \cap 1..Len(log))
      BY <1>1, <2>1, <2>3 DEF Heads, Forgotten
    <3> QED
      BY <1>3, <2>3, <3>1 DEF Seen
  <2>4. CASE s > o /\ s <= n
    <3>1. s \in Heads(log, 1..n \cap 1..Len(log)) /\ n # o
      BY <2>1, <2>4 DEF Heads
    <3> QED
      BY <1>3, <2>4, <3>1 DEF Seen
  <2>5. CASE s > n /\ ~ (s < room.first)
    <3>1. s \in Heads(log, ChangesSince(room, n))
      BY <1>1, <2>1, <2>5 DEF Heads, ChangesSince, Kept
    <3> QED
      BY <1>3, <3>1 DEF Seen
  <2> QED
    BY <2>1, <2>2, <2>3, <2>4, <2>5
<1>5. IsRead(log', start', Seen', room'.presented_seq)
  BY <1>2, <1>4 DEF IsRead
<1>6. room.presented_seq <= room'.presented_seq
  BY <1>1, <1>2
<1> QED
  BY <1>2, <1>5, <1>6, ViewStep DEF ReadSound

(* Nothing precedes the write s but what the agent has read and what is no *)
(* longer kept.                                                            *)
LEMMA ExtendsRead ==
  ASSUME ConnectorSound, LogOf(log'), LogKept, NEW r, RoomOf(log', r), r.known,
         NEW s \in Nat \ {0}, s - 1 \in 0..Len(log), s <= r.synced_seq,
         call.presented = room.presented_seq, ExtendsPresented(r, s),
         NEW h \in Heads(log, 1..(s - 1)), h > room.presented_seq
  PROVE  h \in Heads(log, Forgotten(r) \cap 1..Len(log))
<1> DEFINE p == room.presented_seq
           found == LocalHeads(r, 1..(s - 1))
<1>1. p \in Nat /\ HeadBefore(r, s, call.previous) = p /\ Len(log) \in Nat
  BY Positions DEF ExtendsPresented
<1>2. /\ r.synced_seq \in 0..Len(log') /\ r.synced_seq \in Nat /\ r.first \in Nat \ {0}
      /\ TypesAt(log', r.synced_seq) \subseteq r.types /\ r.types \in SUBSET DOMAIN CustomTypes
      /\ s - 1 \in 0..r.synced_seq
  <2>1. r \in LocalRoom /\ r.synced_seq \in Nat /\ r.first \in Nat \ {0}
    BY RoomPositions
  <2>2. TypesAt(log', r.synced_seq) \subseteq r.types /\ r.synced_seq \in 0..Len(log')
    BY DEF RoomOf
  <2> QED
    BY <2>1, <2>2 DEF LocalRoom
<1>3. TypesAt(log, s - 1) \subseteq r.types
  <2>1. TypesAt(log', s - 1) \subseteq TypesAt(log', r.synced_seq)
    BY <1>2, RegistryGrows
  <2>2. TypesAt(log', s - 1) = TypesAt(log, s - 1)
    BY DEF LogKept
  <2> QED
    BY <1>2, <2>1, <2>2
<1>4. found = Heads(log, 1..(s - 1) \cap Kept(r))
  <2>1. 1..(s - 1) \cap Kept(r) \subseteq 1..(s - 1) /\ LogOf(log)
    BY Positions
  <2> QED
    BY <1>2, <1>3, <2>1, LocalHeadsExact
<1>5. /\ h \in 1..(s - 1) /\ h \in Nat /\ h \in 1..Len(log)
      /\ AdvancesHead(log[h].type, DOMAIN CustomTypes)
  BY <1>1 DEF Heads
<1>6. h < r.first
  <2> SUFFICES ASSUME ~ (h < r.first) PROVE FALSE
    OBVIOUS
  <2>1. h \in 1..(s - 1) \cap Kept(r)
    BY <1>2, <1>5 DEF Kept
  <2>2. h \in found
    BY <1>4, <1>5, <2>1 DEF Heads
  <2>3. found \in SUBSET (0..s)
    BY <1>4 DEF Heads
  <2>4. HeadBefore(r, s, call.previous) = Max(found)
    BY <2>2 DEF HeadBefore
  <2> HIDE DEF found, p
  <2>5. Max(found) >= h
    BY <2>2, <2>3, MaxOfBounded
  <2> QED
    BY <1>1, <1>5, <2>4, <2>5 DEF p
<1> QED
  BY <1>2, <1>5, <1>6 DEF Heads, Forgotten

(* The write that is done: presented if nothing unread precedes it.        *)
LEMMA SentKeepsRead ==
  ASSUME ConnectorSound, ConnectorSound', ReadSound, LogKept,
         call.step \in {"submit", "sync"},
         NEW r, RoomOf(log', r), r.known, r.presented_seq = room.presented_seq,
         NEW s \in Nat \ {0}, s - 1 \in 0..Len(log), s <= r.synced_seq,
         Sent(r, s), start' = start
  PROVE  ReadSound'
<1>1. /\ LogOf(log') /\ ViewSound /\ Len(log) \in Nat /\ start \in Nat
      /\ room.presented_seq \in Nat /\ room.presented_seq \in 0..Len(log)
      /\ r.presented_seq \in 0..r.head_seq /\ r.head_seq \in Nat
  BY Positions, RoomPositions DEF ConnectorSound, ReadSound, ViewSound
<1>2. /\ shown' = shown \cup Heads(log', {s}) /\ call' = IdleCall /\ drafts' \subseteq drafts
  BY Zenon DEF Sent
<1>3. CASE room' = r /\ UNCHANGED passed
  <2>1. Seen \subseteq Seen'
    BY <1>2, <1>3 DEF Seen
  <2> QED
    BY <1>1, <1>2, <1>3, <2>1, QuietStep, EndedCall DEF ReadSound
<1>4. CASE /\ call.tool = "write" /\ ExtendsPresented(r, s)
           /\ room' = [r EXCEPT !.presented_seq = s] /\ PassOver(call.presented, Forgotten(r))
  <2>1. call.presented = room.presented_seq /\ s = r.head_seq
    BY <1>4 DEF ReadSound, WriteSound, Writing, ExtendsPresented
  <2>2. room'.presented_seq = s /\ room.presented_seq <= s
    <3>1. s \in 0..r.head_seq
      BY <2>1
    <3> QED
      BY <1>1, <1>4, <2>1, <3>1, PresentedRoom
  <2>3. passed' = passed \cup {h \in Heads(log, Forgotten(r) \cap 1..Len(log)) :
                                  h > room.presented_seq}
    BY <1>4, <2>1 DEF PassOver
  <2>4. ASSUME NEW h \in Heads(log', 1..s) PROVE h <= start \/ h \in Seen'
    <3>1. h \in 1..s /\ h \in Nat
      BY DEF Heads
    <3>2. CASE h = s
      <4>1. h \in Heads(log', {s})
        BY <3>2 DEF Heads
      <4> QED
        BY <1>2, <4>1 DEF Seen
    <3>3. CASE h # s
      <4>1. h \in Heads(log', 1..(s - 1))
        BY <3>1, <3>3 DEF Heads
      <4>2. h \in Heads(log, 1..(s - 1))
        BY <4>1 DEF LogKept
      <4>3. CASE h <= room.presented_seq
        <5>1. h \in Heads(log, 1..room.presented_seq)
          BY <1>1, <3>1, <4>2, <4>3 DEF Heads
        <5>2. h <= start \/ h \in Seen
          BY <1>1, <5>1 DEF ViewSound, IsRead
        <5> QED
          BY <1>2, <2>3, <5>2 DEF Seen
      <4>4. CASE h > room.presented_seq
        <5>1. h \in Heads(log, Forgotten(r) \cap 1..Len(log))
          BY <1>1, <1>4, <2>1, <4>2, <4>4, ExtendsRead
        <5> QED
          BY <2>3, <4>4, <5>1 DEF Seen
      <4> QED
        BY <1>1, <3>1, <4>3, <4>4
    <3> QED
      BY <3>2, <3>3
  <2>5. IsRead(log', start', Seen', room'.presented_seq)
    BY <2>2, <2>4 DEF IsRead
  <2>6. ViewSound'
    BY <1>1, <1>2, <2>2, <2>5, ViewStep
  <2> QED
    BY <1>2, <2>6, EndedCall DEF ReadSound
<1> QED
  BY <1>3, <1>4 DEF Sent

(* A write that is about to be synced is still what it was. *)
LEMMA SyncedWrite ==
  ASSUME ReadSound, call.step = "submit", SameWrite(call, call'), call'.base = call.base,
         room'.head_seq = room.head_seq, room'.presented_seq = room.presented_seq
  PROVE  WriteSound'
BY DEF ReadSound, WriteSound, Writing, SameWrite

(* The agent's own records. *)
LEMMA HostAcceptsKeepsRead ==
  ASSUME ConnectorSound, ConnectorSound', ReadSound,
         NEW answered \in BOOLEAN, HostAccepts(answered)
  PROVE  ReadSound'
<1> DEFINE s == Len(log) + 1
           record == [type |-> call.type, base |-> call.base]
<1>1. /\ call.step = "submit" /\ Len(log) < MaxSeq /\ log' = Append(log, record)
      /\ TypeAccepted(log, call.type) /\ BaseAccepted(log, call.type, call.base)
      /\ start' = start
  BY DEF HostAccepts
<1>2. /\ record \in RoomRecord /\ room.known /\ Len(log) \in Nat \ {0}
      /\ LogOf(log') /\ \A r : RoomOf(log, r) => RoomOf(log', r)
      /\ Len(log') = s /\ log'[s] = record
  BY <1>1, OwnRecord
<1>3. /\ LogOf(log) /\ RoomOf(log, room) /\ RoomOf(log', room)
      /\ call \in CallRecord(call.draft) /\ room.synced_seq \in 0..Len(log)
  BY <1>2, Positions DEF CallTyped
<1>4. LogKept /\ s \in Nat \ {0}
  BY <1>1, <1>2, <1>3, LongerLog
<1>5. CASE call' = IdleCall /\ UNCHANGED <<room, drafts, shown, passed>>
  <2>1. Seen \subseteq Seen'
    BY <1>5 DEF Seen
  <2> QED
    BY <1>1, <1>4, <1>5, <2>1, QuietStep, EndedCall DEF ReadSound
<1>6. CASE StartSync([call EXCEPT !.own = s], s) /\ UNCHANGED <<drafts, shown, passed>>
  <2> DEFINE c == [call EXCEPT !.own = s]
  <2>0. s \in Nat /\ s \in 1..Len(log') /\ Seen \subseteq Seen'
    BY <1>2, <1>4, <1>6 DEF Seen
  <2>1. /\ c \in CallRecord(call.draft) /\ c.own = s /\ SameWrite(call, c)
        /\ c.base = call.base
    BY <1>3, <2>0, UpdatedCall, ZenonT(60)
  <2>2. StartSync(c, s)
    BY <1>6
  <2> HIDE DEF c, s
  <2>3. c.draft = call.draft
    BY <2>1 DEF SameWrite
  <2>4. /\ room'.head_seq = room.head_seq /\ room'.presented_seq = room.presented_seq
        /\ call'.step = "sync" /\ call'.until = s
        /\ SameWrite(c, call') /\ call'.base = c.base /\ call'.own = c.own
    BY <1>3, <2>0, <2>1, <2>2, <2>3, SyncStarts
  <2>5. SameWrite(call, call') /\ call'.own = s /\ call'.base = call.base
    BY <2>1, <2>4 DEF SameWrite
  <2>6. ViewSound'
    BY <1>1, <1>4, <1>6, <2>0, <2>4, QuietStep DEF ReadSound
  <2>7. WriteSound'
    BY <1>1, <2>4, <2>5, SyncedWrite
  <2>8. OwnSound'
    BY <2>0, <2>4, <2>5 DEF OwnSound
  <2> QED
    BY <2>6, <2>7, <2>8 DEF ReadSound
<1>7. CASE ~ (s > room.synced_seq + 1) /\ Sent(Applied(room, s, record), s)
  <2> DEFINE r == Applied(room, s, record)
  <2>1. s = room.synced_seq + 1 /\ s <= Len(log')
    BY <1>2, <1>3, <1>7
  <2>2. r = Applied(room, s, log'[s])
    BY <1>2
  <2>3. /\ RoomOf(log', r) /\ r.known /\ r.synced_seq = s
        /\ r.presented_seq = room.presented_seq
    BY <1>2, <1>3, <2>1, <2>2, AppliedRoom
  <2>4. Sent(r, s) /\ s - 1 \in 0..Len(log) /\ s <= s
    BY <1>2, <1>4, <1>7
  <2> HIDE DEF r, s
  <2> QED
    BY <1>1, <1>4, <2>3, <2>4, SentKeepsRead
<1> QED
  BY <1>5, <1>6, <1>7 DEF HostAccepts

(* A write begins on the presented head, one named by the agent, or the    *)
(* head itself when none has been presented.                               *)
LEMMA WriteStartsRead ==
  ASSUME ConnectorSound, ReadSound, UNCHANGED <<log, room, drafts, start, shown, passed>>,
         NEW t \in Types, NEW policy \in Policies, NEW id,
         NEW base \in {0} \cup (shown \cap 1..room.presented_seq),
         WriteBase(room, base) > 0, call' = Write(t, policy, id, base, room)
  PROVE  ReadSound'
<1>1. /\ room \in LocalRoom /\ LogKept /\ Seen \subseteq Seen' /\ room.head_seq \in Nat
      /\ room.presented_seq \in 0..room.head_seq /\ room.presented_seq \in Nat /\ base \in Nat
  BY Positions, SameLog DEF Seen
<1>2. ViewSound'
  BY <1>1, QuietStep DEF ReadSound
<1> DEFINE b == WriteBase(room, base)
<1>3. b \in 1..room.head_seq /\ (room.presented_seq > 0 => b <= room.presented_seq)
  BY <1>1 DEF WriteBase
<1>4. /\ call'.step = "check" /\ call'.own = 0 /\ call'.base = b /\ call'.origin = b
  BY <1>1, WriteRecord
<1> HIDE DEF b
<1>5. WriteSound' /\ OwnSound'
  BY <1>3, <1>4 DEF WriteSound, Writing, OwnSound
<1> QED
  BY <1>2, <1>5 DEF ReadSound

(* An attempt: on the base it had, or on the head. *)
LEMMA AttemptKeepsRead ==
  ASSUME ConnectorSound, ReadSound, Attempt
  PROVE  ReadSound'
<1>1. /\ call.step = "check" /\ UNCHANGED <<log, room, drafts, start, shown, passed>>
      /\ room \in LocalRoom /\ LogKept /\ Seen \subseteq Seen' /\ room.head_seq \in Nat
  <2>1. call.step = "check" /\ UNCHANGED <<log, room, drafts, start, shown, passed>>
    BY DEF Attempt
  <2> QED
    BY <2>1, Positions, SameLog DEF Seen
<1>2. ViewSound'
  BY <1>1, QuietStep DEF ReadSound
<1>3. call \in CallRecord(call.draft) /\ Writing /\ call.own = 0
  BY <1>1 DEF ConnectorSound, CallTyped, Writing, ReadSound, OwnSound
<1>4. /\ call.base \in 1..room.head_seq
      /\ room.presented_seq > 0 => call.origin <= room.presented_seq
      /\ room.presented_seq > 0 /\ call.policy # "send_anyway" => call.base <= room.presented_seq
  BY <1>3 DEF ReadSound, WriteSound
<1>5. /\ call'.base \in 1..room.head_seq /\ call'.origin = call.origin
      /\ room.presented_seq > 0 /\ call'.policy # "send_anyway" =>
            call'.base <= room.presented_seq
      /\ call'.step = "submit" /\ call'.own = 0 /\ call'.presented = room.presented_seq
  <2>1. CASE call' = Attempted(call)
    <3> DEFINE e == Attempted(call)
    <3>1. /\ e.step = "submit" /\ e.policy = call.policy /\ e.origin = call.origin
          /\ e.presented = room.presented_seq /\ e.base = call.base /\ e.own = call.own
      BY <1>1, <1>3, AttemptedRecord
    <3> HIDE DEF e
    <3>2. call' = e
      BY <2>1 DEF e
    <3> QED
      BY <1>3, <1>4, <3>1, <3>2
  <2>2. CASE MayRebase /\ call' = Attempted([call EXCEPT !.base = room.head_seq])
    <3> DEFINE c == [call EXCEPT !.base = room.head_seq]
               e == Attempted(c)
    <3>1. c \in CallRecord(call.draft) /\ SameWrite(call, c) /\ c.base = room.head_seq
          /\ c.own = call.own
      BY <1>1, <1>3, UpdatedCall, ZenonT(60)
    <3> HIDE DEF c
    <3>2. c.draft = call.draft
      BY <3>1 DEF SameWrite
    <3>3. /\ e.step = "submit" /\ e.policy = c.policy /\ e.origin = c.origin
          /\ e.presented = room.presented_seq /\ e.base = c.base /\ e.own = c.own
      BY <1>1, <3>1, <3>2, AttemptedRecord
    <3> HIDE DEF e
    <3>4. call' = e
      BY <2>2 DEF e, c
    <3>5. e.policy = "send_anyway" /\ e.origin = call.origin /\ e.own = 0
      BY <1>3, <2>2, <3>1, <3>3 DEF MayRebase, SameWrite
    <3>6. room.head_seq \in 1..room.head_seq
      BY <1>1, <1>4
    <3> QED
      BY <3>1, <3>3, <3>4, <3>5, <3>6
  <2> QED
    BY <2>1, <2>2 DEF Attempt
<1>6. WriteSound' /\ OwnSound'
  BY <1>1, <1>4, <1>5 DEF WriteSound, OwnSound
<1> QED
  BY <1>2, <1>6 DEF ReadSound

(* A write that is given up: rejected, or held as a draft. *)
LEMMA GivenUpKeepsRead ==
  ASSUME ConnectorSound, ConnectorSound', ReadSound, RejectedHeadMismatch \/ HoldDraft
  PROVE  ReadSound'
<1>1. /\ call.step = "check" /\ log' = log /\ ShowChanges(ChangesSince(room, call.base))
      /\ \A d \in drafts' : d \in drafts \/ d.base = call.base
  BY DEF RejectedHeadMismatch, HoldDraft
<1>2. /\ Show(ChangesSince(room, call.base)) /\ room' = PresentHead(room) /\ call' = IdleCall
      /\ PassOver(call.origin, 1..call.base \cup Forgotten(room))
      /\ start' = IF room.presented_seq = 0 THEN call.origin ELSE start
  BY <1>1 DEF ShowChanges
<1>3. Writing /\ call.origin \in Nat /\ call.base \in Nat
  BY <1>1 DEF ConnectorSound, CallTyped, Writing, CallRecord
<1>4. /\ call.base \in 1..room.head_seq
      /\ room.presented_seq > 0 => call.origin <= room.presented_seq
  BY <1>3 DEF ReadSound, WriteSound
<1>5. room.presented_seq \in Nat /\ start \in Nat
      /\ IsRead(log, start, Seen, room.presented_seq)
  BY Positions DEF ReadSound, ViewSound
<1>6. start' \in Nat /\ IsRead(log, start', Seen, call.origin)
  <2>1. CASE room.presented_seq = 0
    BY <1>2, <1>3, <2>1 DEF IsRead, Heads
  <2>2. CASE room.presented_seq # 0
    <3>1. start' = start /\ call.origin <= room.presented_seq
      BY <1>2, <1>4, <1>5, <2>2
    <3>2. Heads(log, 1..call.origin) \subseteq Heads(log, 1..room.presented_seq)
      BY <1>3, <1>5, <3>1 DEF Heads
    <3> QED
      BY <1>5, <3>1, <3>2 DEF IsRead
  <2> QED
    BY <2>1, <2>2
<1>7. \A d \in drafts' : d \in drafts \/ d.base \in 1..room.head_seq
  BY <1>1, <1>4
<1>8. ViewSound'
  BY <1>1, <1>2, <1>3, <1>6, <1>7, ChangesPresented
<1> QED
  BY <1>2, <1>8, EndedCall DEF ReadSound

(* drafts_list shows what changed since the base of a draft. *)
LEMMA DraftsListKeepsRead ==
  ASSUME ConnectorSound, ConnectorSound', ReadSound, NEW d \in drafts, DraftsList(d)
  PROVE  ReadSound'
<1>1. /\ UNCHANGED <<log, drafts, call, start>> /\ call = IdleCall
      /\ room' = PresentHead(room) /\ Show(ChangesSince(room, d.base))
      /\ PassOver(d.base, Forgotten(room))
  BY DEF DraftsList
<1>2. /\ d.base \in 1..room.presented_seq /\ room.presented_seq \in Nat /\ start \in Nat
      /\ IsRead(log, start, Seen, room.presented_seq)
  BY Positions DEF ReadSound, ViewSound
<1>3. d.base \in Nat /\ IsRead(log, start, Seen, d.base)
  <2>1. d.base \in Nat /\ Heads(log, 1..d.base) \subseteq Heads(log, 1..room.presented_seq)
    BY <1>2 DEF Heads
  <2> QED
    BY <1>2, <2>1 DEF IsRead
<1>4. ViewSound'
  BY <1>1, <1>2, <1>3, ChangesPresented
<1> QED
  BY <1>1, <1>4, EndedCall DEF ReadSound

(* The first view of a room one joins, or creates. *)
LEMMA FirstViewKeepsRead ==
  ASSUME ConnectorSound, ConnectorSound', ReadSound, room.head_seq = 0, drafts' = drafts,
         start' \in Nat,
         room'.presented_seq = 0 \/ start' = room'.presented_seq
  PROVE  ViewSound'
<1>1. room.presented_seq = 0 /\ room'.presented_seq \in Nat
  <2>1. RoomOf(log', room') /\ LogOf(log')
    BY DEF ConnectorSound
  <2> QED
    BY <2>1, Positions, RoomPositions
<1>2. IsRead(log', start', Seen', room'.presented_seq)
  BY <1>1 DEF IsRead, Heads
<1> QED
  BY <1>1, <1>2, ViewStep DEF ReadSound

(* Every step of a write keeps ReadSound.                                  *)
LEMMA WritesKeepRead ==
  ASSUME ConnectorSound, ConnectorSound', ReadSound, Writes
  PROVE  ReadSound'
<1>0. /\ LogOf(log) /\ RoomOf(log, room) /\ Len(log) \in Nat /\ CallTyped
      /\ room.synced_seq \in Nat /\ room.presented_seq \in Nat /\ room \in LocalRoom
      /\ room.presented_seq \in 0..room.head_seq /\ start \in Nat
  BY Positions DEF ReadSound, ViewSound
<1>1. ASSUME UNCHANGED <<log, start, shown, passed>>
      PROVE  LogKept /\ Seen \subseteq Seen'
  BY <1>0, <1>1, SameLog DEF Seen
<1>2. ASSUME NEW t \in OwnTypes, NEW policy \in Policies,
             NEW base \in {0} \cup (shown \cap 1..room.presented_seq),
             SubmitRoomWrite(t, policy, base)
      PROVE  ReadSound'
  <2>1. /\ UNCHANGED <<log, room, drafts, start, shown, passed>> /\ t \in Types
        /\ WriteBase(room, base) > 0 /\ call' = Write(t, policy, 0, base, room)
    BY <1>2, ConnectorAssumption DEF SubmitRoomWrite
  <2> QED
    BY <2>1, WriteStartsRead
<1>3. ASSUME NEW d \in drafts, NEW policy \in Policies, DraftCommit(d, policy)
      PROVE  ReadSound'
  <2>1. /\ UNCHANGED <<log, room, drafts, start, shown, passed>> /\ d.type \in Types
        /\ call' = Write(d.type, policy, d.id, 0, room)
    BY <1>0, <1>3 DEF DraftCommit, CallTyped
  <2>2. room.presented_seq > 0
    BY <1>0 DEF ReadSound, ViewSound
  <2>3. WriteBase(room, 0) > 0 /\ 0 \in {0} \cup (shown \cap 1..room.presented_seq)
    BY <2>2 DEF WriteBase
  <2> QED
    BY <2>1, <2>3, WriteStartsRead
<1>4. ASSUME NEW d \in drafts, DraftDrop(d) PROVE ReadSound'
  <2>1. /\ UNCHANGED <<log, room, call, start, shown, passed>> /\ drafts' \subseteq drafts
        /\ call = IdleCall
    BY <1>4 DEF DraftDrop
  <2> QED
    BY <1>1, <2>1, QuietStep, EndedCall DEF ReadSound
<1>5. ASSUME NEW d \in drafts, DraftsList(d) PROVE ReadSound'
  BY <1>5, DraftsListKeepsRead
<1>6. CASE RoomJoin
  <2> DEFINE n == Len(log)
             q == AcceptRoomResponse(room, TypesAt(log, n), HeadAt(log, n), n)
             r == IF room.head_seq = 0 THEN q ELSE room
             b == WriteBase(r, 0)
  <2>1. /\ UNCHANGED <<log, drafts, start, shown, passed>> /\ room' = r
        /\ call' = [IdleCall EXCEPT !.step = "submit", !.tool = "room_join",
                                    !.type = "join", !.base = b]
    BY <1>6 DEF RoomJoin
  <2>2. ViewSound'
    <3>1. CASE room.head_seq = 0
      <4>1. room.presented_seq = 0
        BY <1>0, <3>1
      <4>2. TypesAt(log, n) \in SUBSET DOMAIN CustomTypes
        BY <1>0, RegistryGrows
      <4>3. q.presented_seq = 0
        BY <1>0, <4>1, <4>2, AcceptedRoom
      <4>4. room' = q
        BY <2>1, <3>1
      <4> HIDE DEF q
      <4> QED
        BY <1>0, <2>1, <3>1, <4>3, <4>4, FirstViewKeepsRead
    <3>2. CASE room.head_seq # 0
      BY <1>1, <2>1, <3>2, QuietStep DEF ReadSound
    <3> QED
      BY <3>1, <3>2
  <2>3. b \in Nat
    <3>1. r \in LocalRoom
      <4>1. room' \in LocalRoom
        BY DEF ConnectorSound, RoomOf
      <4> QED
        BY <2>1, <4>1
    <3> QED
      BY <3>1 DEF WriteBase, LocalRoom
  <2> HIDE DEF b
  <2>4. call'.step = "submit" /\ call'.tool = "room_join" /\ call'.own = 0
    BY <2>1, <2>3, JoinRecord, ZenonT(60)
  <2> QED
    BY <2>2, <2>4 DEF ReadSound, WriteSound, OwnSound, Writing
<1>7. ASSUME NEW answered \in BOOLEAN, RoomCreate(answered) PROVE ReadSound'
  <2>1. /\ log = <<>> /\ log' = <<[type |-> "create", base |-> 0]>> /\ call = IdleCall
        /\ UNCHANGED <<drafts, call, shown, passed>>
    BY <1>7 DEF RoomCreate
  <2>2. ViewSound'
    <3>1. CASE UNCHANGED <<room, start>>
      <4>1. [type |-> "create", base |-> 0] \in RoomRecord
        BY BuiltinTypes DEF RoomRecord, Types
      <4>2. log' = Append(log, [type |-> "create", base |-> 0])
        BY <2>1
      <4>3. LogKept /\ Seen \subseteq Seen'
        BY <1>0, <2>1, <4>1, <4>2, LongerLog DEF Seen
      <4> QED
        BY <2>1, <3>1, <4>3, QuietStep DEF ReadSound
    <3>2. CASE /\ room' = PresentHead(AcceptRoomResponse(room, Declared, 1, 1))
               /\ start' = 1
      <4>1. room.head_seq = 0
        BY <2>1, Positions
      <4> DEFINE q == AcceptRoomResponse(room, Declared, 1, 1)
      <4>2. q \in LocalRoom /\ q.head_seq = 1
        <5>1. Declared \in SUBSET DOMAIN CustomTypes /\ 1 \in Nat
          BY TypesAssumption
        <5> QED
          BY <1>0, <5>1, AcceptedPositions
      <4> HIDE DEF q
      <4>3. room' = [q EXCEPT !.presented_seq = 1]
        BY <3>2, <4>2 DEF PresentHead, q
      <4>4. room'.presented_seq = 1
        BY <4>2, <4>3 DEF LocalRoom
      <4> QED
        BY <2>1, <3>2, <4>1, <4>4, FirstViewKeepsRead
    <3> QED
      BY <1>7, <3>1, <3>2 DEF RoomCreate
  <2> QED
    BY <2>1, <2>2, EndedCall DEF ReadSound
<1>8. CASE Attempt
  BY <1>8, AttemptKeepsRead
<1>9. CASE RejectedHeadMismatch \/ HoldDraft
  BY <1>9, GivenUpKeepsRead
<1>10. ASSUME NEW answered \in BOOLEAN, HostAccepts(answered) PROVE ReadSound'
  BY <1>10, HostAcceptsKeepsRead
<1>11. CASE HostRefuses
  <2>1. /\ call.step = "submit" /\ UNCHANGED <<log, drafts, start, shown, passed>>
        /\ call \in CallRecord(call.draft)
    BY <1>0, <1>11 DEF HostRefuses, CallTyped
  <2>2. CASE call' = IdleCall /\ UNCHANGED room
    BY <1>1, <2>1, <2>2, QuietStep, EndedCall DEF ReadSound
  <2>3. CASE StartSync(call, Len(log))
    <3>1. /\ room'.head_seq = room.head_seq /\ room'.presented_seq = room.presented_seq
          /\ call'.step = "sync" /\ SameWrite(call, call') /\ call'.base = call.base
          /\ call'.own = call.own
      BY <1>0, <2>1, <2>3, SyncStarts
    <3>2. call.own = 0
      BY <2>1 DEF ReadSound, OwnSound
    <3>3. ViewSound'
      BY <1>1, <2>1, <3>1, QuietStep DEF ReadSound
    <3>4. WriteSound'
      BY <2>1, <3>1, SyncedWrite
    <3>5. OwnSound'
      BY <3>1, <3>2 DEF OwnSound
    <3> QED
      BY <3>3, <3>4, <3>5 DEF ReadSound
  <2> QED
    BY <1>11, <2>2, <2>3 DEF HostRefuses
<1>12. CASE RequestLost
  <2>1. call' = IdleCall /\ UNCHANGED <<log, room, drafts, start, shown, passed>>
    BY <1>12 DEF RequestLost
  <2> QED
    BY <1>1, <2>1, QuietStep, EndedCall DEF ReadSound
<1>13. CASE WriteSynced
  <2>1. /\ call.step = "sync" /\ log' = log /\ start' = start /\ LogKept /\ room.known
        /\ room.synced_seq >= call.until /\ call \in CallRecord(call.draft)
    BY <1>0, <1>13, SameLog DEF WriteSynced, Synced, CallTyped
  <2>2. CASE call.own > 0 /\ Sent(room, call.own)
    <3> DEFINE s == call.own
    <3>1. s = call.until /\ s \in 1..Len(log)
      BY <2>1, <2>2 DEF ReadSound, OwnSound
    <3> HIDE DEF s
    <3>2. s \in Nat \ {0} /\ s - 1 \in 0..Len(log) /\ s <= room.synced_seq
      BY <1>0, <2>1, <3>1
    <3>3. RoomOf(log', room) /\ Sent(room, s) /\ call.step \in {"submit", "sync"}
      BY <1>0, <2>1, <2>2 DEF s
    <3> QED
      BY <2>1, <3>2, <3>3, SentKeepsRead
  <2>3. CASE ~ (call.own > 0) /\ UNCHANGED <<room, drafts, shown, passed>>
    <3>1. ViewSound'
      BY <1>1, <2>1, <2>3, QuietStep DEF ReadSound
    <3>2. CASE call' = IdleCall
      BY <3>1, <3>2, EndedCall DEF ReadSound
    <3>3. CASE call' = [call EXCEPT !.step = "check"]
      <4> DEFINE e == [call EXCEPT !.step = "check"]
      <4>1. e.step = "check" /\ SameWrite(call, e) /\ e.base = call.base /\ e.own = call.own
        BY <2>1, UpdatedCall, ZenonT(60)
      <4>2. call' = e
        BY <3>3
      <4> HIDE DEF e
      <4>3. call.own = 0
        BY <2>1, <2>3 DEF CallRecord
      <4>4. WriteSound'
        BY <2>1, <2>3, <4>1, <4>2 DEF ReadSound, WriteSound, Writing, SameWrite
      <4>5. OwnSound'
        BY <4>1, <4>2, <4>3 DEF OwnSound
      <4> QED
        BY <3>1, <4>4, <4>5 DEF ReadSound
    <3> QED
      BY <1>13, <2>3, <3>2, <3>3 DEF WriteSynced
  <2> QED
    BY <1>13, <2>2, <2>3 DEF WriteSynced
<1> QED
  BY <1>2, <1>3, <1>4, <1>5, <1>6, <1>7, <1>8, <1>9, <1>10, <1>11, <1>12, <1>13 DEF Writes

(* Everything the agent needs to have read stays so in every behaviour.    *)
LEMMA ConnectorReads ==
  ASSUME Typed
  PROVE  Spec => [](ConnectorSound /\ ReadSound)
<1>1. Init => ReadSound
  <2> SUFFICES ASSUME Init PROVE ReadSound
    OBVIOUS
  <2>1. /\ log = <<>> /\ room = NoRoom /\ drafts = {} /\ call = IdleCall
        /\ start = 0 /\ shown = {}
    BY DEF Init
  <2>2. ViewSound
    BY <2>1 DEF ViewSound, NoRoom, IsRead, Heads
  <2>3. WriteSound /\ OwnSound
    BY <2>1, IdleRecord DEF WriteSound, OwnSound, Writing
  <2> QED
    BY <2>2, <2>3 DEF ReadSound
<1>2. ConnectorSound /\ ConnectorSound' /\ ReadSound /\ [Next]_vars => ReadSound'
  <2> SUFFICES ASSUME ConnectorSound, ConnectorSound', ReadSound, [Next]_vars
               PROVE  ReadSound'
    OBVIOUS
  <2>1. CASE UNCHANGED vars
    BY <2>1 DEF vars, ReadSound, ViewSound, WriteSound, OwnSound, Writing, Seen
  <2>2. CASE Next
    BY <2>2, OthersKeepRead, ReadsKeepRead, WritesKeepRead DEF Next
  <2> QED
    BY <2>1, <2>2
<1>3. Spec => []ConnectorSound
  BY ConnectorStays
<1> QED
  BY <1>1, <1>2, <1>3, PTL DEF Spec

(***************************************************************************)
(* The presented head is one the agent may be taken to know, for rooms of  *)
(* any length, any bound of the history kept and any number of attempts:   *)
(* present_through, room_state, hold_draft, drafts_list and the answer to  *)
(* a write move it past no head but those in the agent's starting view, in *)
(* a result it got, or among those that hold_draft had re-based over or    *)
(* trim_history had dropped.                                               *)
(***************************************************************************)
THEOREM PresentedStaysRead ==
  ASSUME Typed
  PROVE  Spec => []PresentedIsRead
<1>1. ReadSound => PresentedIsRead
  BY DEF ReadSound, ViewSound, IsRead, PresentedIsRead, Seen
<1> QED
  BY <1>1, ConnectorReads, PTL

(***************************************************************************)
(* A message or control write of an agent with a presented head, unless it *)
(* is to be sent anyway, enters the room over no head that the agent has   *)
(* not been shown, except those an earlier result left out: the check of   *)
(* the host and the base of the write together leave no other record       *)
(* between the two unread.                                                 *)
(***************************************************************************)
THEOREM WritesSpeakAfterReading ==
  ASSUME Typed
  PROVE  Spec => SpeaksAfterReading
<1> DEFINE A == ( /\ call.step = "submit" /\ log' # log /\ call' # call
                  /\ RequiresHead(call.type, DOMAIN CustomTypes)
                  /\ call.presented > 0 /\ call.policy # "send_anyway" )
                => \A s \in Heads(log, 1..Len(log)) : s <= start \/ s \in shown \cup passed
<1>1. ConnectorSound /\ ReadSound /\ [Next]_vars => [A]_vars
  <2> SUFFICES ASSUME ConnectorSound, ReadSound, Next,
                      call.step = "submit", log' # log, call' # call,
                      RequiresHead(call.type, DOMAIN CustomTypes),
                      call.presented > 0, call.policy # "send_anyway",
                      NEW s \in Heads(log, 1..Len(log))
               PROVE  s <= start \/ s \in shown \cup passed
    OBVIOUS
  <2>1. PICK answered \in BOOLEAN : HostAccepts(answered)
    <3>1. call # IdleCall
      BY IdleRecord
    <3> QED
      BY <3>1 DEF Next, Others, OtherCreates, OtherWrites, Reads, RoomsListed, Deliver,
                  SyncRecord, SyncFails, RoomState, RoomStateSynced, RoomTimeline,
                  TimelineEmpty, TimelineRefresh, Writes, SubmitRoomWrite, DraftCommit,
                  DraftDrop, DraftsList, RoomJoin, RoomCreate, Attempt,
                  RejectedHeadMismatch, HoldDraft, HostRefuses, RequestLost, WriteSynced
  <2>2. /\ BaseAccepted(log, call.type, call.base)
        /\ call.base \in 1..Len(log) /\ call.base >= HeadAt(log, Len(log))
    BY <2>1 DEF HostAccepts, BaseAccepted
  <2>3. ~ RequiresHead("join", DOMAIN CustomTypes)
    BY BuiltinTypes DEF RequiresHead, RecordClass
  <2>4. call.tool = "write"
    BY <2>3 DEF ConnectorSound, CallTyped
  <2>5. call.presented = room.presented_seq /\ call.base <= room.presented_seq
    BY <2>4 DEF ReadSound, WriteSound, Writing
  <2>6. /\ Len(log) \in Nat /\ room.presented_seq \in Nat
        /\ IsRead(log, start, Seen, room.presented_seq)
    BY Positions DEF ReadSound, ViewSound
  <2>7. s <= HeadAt(log, Len(log)) /\ HeadAt(log, Len(log)) \in Nat /\ s \in 1..Len(log)
    BY <2>6, HeadUpTo DEF Heads
  <2>8. s \in 1..room.presented_seq
    BY <2>2, <2>5, <2>6, <2>7
  <2>9. s \in Heads(log, 1..room.presented_seq)
    BY <2>8 DEF Heads
  <2> QED
    BY <2>6, <2>9 DEF IsRead, Seen
<1>2. Spec => []ConnectorSound /\ []ReadSound
  BY ConnectorReads, PTL
<1> QED
  BY <1>1, <1>2, PTL DEF Spec, SpeaksAfterReading
-----------------------------------------------------------------------------
(* A number is the greatest of those up to it.                             *)
LEMMA UpTo ==
  ASSUME NEW k \in Nat, k > 0
  PROVE  Max(1..k) = k /\ 1..k # {} /\ (1..k) \ {k} = 1..(k - 1)
<1>1. 1..k \in SUBSET (0..k) /\ 1..k # {} /\ k \in 1..k
  OBVIOUS
<1>2. Max(1..k) \in 1..k /\ \A y \in 1..k : Max(1..k) >= y
  BY <1>1, MaxOfBounded
<1> QED
  BY <1>1, <1>2

(* A function on the sets of places 1 to n that a fold computes, when G is *)
(* its step at a place and a value.                                        *)
IsFold(it, n, A, base, G) ==
    /\ it \in [SUBSET (1..n) -> A]
    /\ \A s \in SUBSET (1..n) :
          it[s] = IF s = {} THEN base ELSE G[<<Max(s), it[s \ {Max(s)}]>>]

(* The recursion of a fold has a solution.                                 *)
LEMMA FoldExists ==
  ASSUME NEW n \in Nat, NEW A, NEW base \in A, NEW G \in [(1..n) \X A -> A]
  PROVE  \E it : IsFold(it, n, A, base, G)
<1> DEFINE Solves(it, k) ==
             /\ it \in [SUBSET (1..k) -> A]
             /\ \A s \in SUBSET (1..k) :
                   it[s] = IF s = {} THEN base ELSE G[<<Max(s), it[s \ {Max(s)}]>>]
           Bad == {k \in Nat : k <= n /\ ~ \E it : Solves(it, k)}
<1>1. Bad = {}
  <2> SUFFICES ASSUME Bad # {} PROVE FALSE
    OBVIOUS
  <2>1. PICK k \in Bad : \A j \in Bad : k <= j
    BY LeastNumber
  <2>0. k \in Nat /\ k <= n /\ \A it : ~ Solves(it, k)
    BY <2>1
  <2>2. CASE k = 0
    <3>1. 1..k = {}
      BY <2>2
    <3>2. Solves([s \in SUBSET (1..k) |-> base], k)
      BY <3>1
    <3> QED
      <4> HIDE DEF Solves
      <4> QED
        BY <2>0, <3>2
  <2>3. CASE k # 0
    <3>1. k \in Nat /\ k - 1 \in Nat /\ k - 1 <= n /\ k <= n /\ ~(k <= k - 1)
      BY <2>3
    <3>2. k - 1 \notin Bad
      BY <2>1, <3>1
    <3>3. PICK f : Solves(f, k - 1)
      BY <3>1, <3>2
    <3>4. ASSUME NEW s \in SUBSET (1..k), s # {}
          PROVE  /\ Max(s) \in 1..n
                 /\ s \ {Max(s)} \in SUBSET (1..(k - 1)) /\ s \ {Max(s)} \in SUBSET (1..k)
      <4>1. s \in SUBSET (0..k)
        OBVIOUS
      <4>2. Max(s) \in s /\ \A y \in s : Max(s) >= y
        BY <3>1, <3>4, <4>1, MaxOfBounded
      <4>3. ASSUME NEW y \in s \ {Max(s)} PROVE y \in 1..(k - 1)
        <5>1. y \in 1..k /\ Max(s) \in 1..k /\ Max(s) >= y /\ Max(s) # y
          BY <4>2, <4>3
        <5> QED
          BY <3>1, <5>1
      <4>4. Max(s) \in 1..n
        <5>1. Max(s) \in 1..k
          BY <4>2
        <5> QED
          BY <3>1, <5>1
      <4> QED
        BY <4>3, <4>4
    <3> DEFINE g == [s \in SUBSET (1..k) |->
                       IF s = {} THEN base ELSE G[<<Max(s), f[s \ {Max(s)}]>>]]
    <3>5. g \in [SUBSET (1..k) -> A]
      <4>1. ASSUME NEW s \in SUBSET (1..k), s # {}
            PROVE  G[<<Max(s), f[s \ {Max(s)}]>>] \in A
        BY <3>3, <3>4, <4>1
      <4> QED
        BY <4>1
    <3>6. ASSUME NEW t \in SUBSET (1..(k - 1)) PROVE g[t] = f[t]
      <4>1. t \in SUBSET (1..k)
        BY <3>1
      <4> QED
        BY <3>3, <4>1
    <3>7. ASSUME NEW s \in SUBSET (1..k)
          PROVE  g[s] = IF s = {} THEN base ELSE G[<<Max(s), g[s \ {Max(s)}]>>]
      <4>1. CASE s = {}
        BY <4>1
      <4>2. CASE s # {}
        BY <4>2, <3>4, <3>6
      <4> QED
        BY <4>1, <4>2
    <3>8. Solves(g, k)
      <4> HIDE DEF g
      <4> QED
        BY <3>5, <3>7
    <3> QED
      <4> HIDE DEF Solves, g
      <4> QED
        BY <2>0, <3>8
  <2> QED
    BY <2>2, <2>3
<1>2. \E it : Solves(it, n)
  <2>1. n \notin Bad
    <3> HIDE DEF Bad
    <3> QED
      BY <1>1
  <2> HIDE DEF Solves
  <2> QED
    BY <2>1
<1> QED
  BY <1>2 DEF IsFold
-----------------------------------------------------------------------------
USE DelegationAssumption, DelegationBounds, CredentialAssumption

(* What every version of the principal document is: what is not listed has *)
(* no authority, and what is listed is by the time of the update.          *)
SoundDocument(D) ==
    /\ D \in Document
    /\ validate_principal_document(D)
    /\ \A k \in Keys : D.controllers[k].listed = "no" => D.controllers[k].valid_from = Never

(* What the service checked of an event when it accepted it, apart from    *)
(* the document and the credential it had then.                            *)
Admitted(r) ==
    /\ delegation[r.event.actor] # NoAuthority
    /\ r.event.kind = "grant" =>
          /\ validate_delegation_grant_payload(r.event.grant, r.event.created_at)
          /\ r.event.grant.expires_at > r.accepted_at
          /\ within_ceiling(r.event.actor, r.event.grant.permissions)

Record(t) == [event : Event(0..t), accepted_at : 0..t]

(* The history has each event once, each as it was admitted.               *)
HistorySound ==
    /\ records \in Seq(Record(now))
    /\ \A i \in DOMAIN records : Admitted(records[i])
    /\ \A i, j \in DOMAIN records : records[i].event = records[j].event => i = j

(* A credential shows an event of the history, and its latest grant.       *)
ShowsGrant(c, r) ==
    /\ r.event = c.grant_event_id /\ r.event.kind = "grant" /\ r.event.grant = c.grant
    /\ IF c.event_id = c.grant_event_id
       THEN c.accepted_at = r.accepted_at /\ c.controller = r.event.actor /\ c.status # "revoked"
       ELSE c.status = "revoked"

CredentialSound(c) ==
    /\ c \in Credential
    /\ c.accepted_at <= now
    /\ \E i \in DOMAIN records : records[i].event = c.event_id
    /\ \E i \in DOMAIN records : ShowsGrant(c, records[i])

CheckSound ==
    \/ check = NoCheck
    \/ check.step = "query" /\ SoundDocument(check.doc)
    \/ /\ check.step = "events" /\ SoundDocument(check.doc)
       /\ CredentialSound(check.credential)

DelegationSound ==
    /\ now \in 0..MaxTime
    /\ SoundDocument(doc) /\ doc.updated_at <= now
    /\ HistorySound
    /\ credential = NoCredential => records = <<>>
    /\ credential # NoCredential => CredentialSound(credential)
    /\ CheckSound

(* The clock never comes to Never.                                         *)
LEMMA TimesBelowNever ==
  ASSUME NEW t \in 0..MaxTime
  PROVE  t \in Nat /\ t < Never /\ t \in 0..Never
OBVIOUS

(* Events of an earlier time are events of a later one.                    *)
LEMMA RecordsGrow ==
  ASSUME NEW t \in Nat, NEW u \in Nat, t <= u
  PROVE  Event(0..t) \subseteq Event(0..u) /\ Record(t) \subseteq Record(u)
<1>1. 0..t \subseteq 0..u
  OBVIOUS
<1>2. Event(0..t) \subseteq Event(0..u)
  BY <1>1 DEF Event
<1> QED
  BY <1>1, <1>2 DEF Record

(* A key of a sound document that has authority at some time is listed.    *)
LEMMA AuthorizedIsListed ==
  ASSUME NEW D, SoundDocument(D), NEW e, e.actor \in Keys, NEW t \in Nat, t < Never,
         Authorized(D, e, t)
  PROVE  D.controllers[e.actor].listed \in {"current", "retired"}
<1>1. D.controllers[e.actor] \in Controller
  BY DEF SoundDocument, Document
<1>2. D.controllers[e.actor].valid_from <= t
  BY DEF Authorized, InsideInterval
<1>3. ~(Never <= t)
  OBVIOUS
<1>4. D.controllers[e.actor].listed # "no"
  BY <1>2, <1>3 DEF SoundDocument
<1> QED
  BY <1>1, <1>4 DEF Controller

(* For an admitted event of the history, only the intervals of the         *)
(* document and the credential it follows are left to check.               *)
LEMMA HistoricalAuthority ==
  ASSUME NEW D, SoundDocument(D), NEW t \in 0..MaxTime, NEW r \in Record(t), Admitted(r),
         NEW p
  PROVE  check_authority(r.event, D, r.accepted_at, p, TRUE) <=>
            /\ Authorized(D, r.event, r.accepted_at)
            /\ check_previous(r.event, p)
            /\ p # NoCredential => /\ r.accepted_at >= p.accepted_at
                                   /\ within_ceiling(r.event.actor, p.grant.permissions)
<1>1. r.event.actor \in Keys /\ r.accepted_at \in 0..t
  BY DEF Record, Event
<1>2. r.accepted_at \in Nat /\ r.accepted_at < Never
  BY <1>1
<1>3. Authorized(D, r.event, r.accepted_at) =>
         D.controllers[r.event.actor].listed \in {"current", "retired"}
  BY <1>1, <1>2, AuthorizedIsListed
<1>4. validate_principal_document(D)
  BY DEF SoundDocument
<1> QED
  BY <1>3, <1>4 DEF check_authority, Admitted
-----------------------------------------------------------------------------
(* The state stays sound *)

LEMMA DelegationInitSound == DelegationInit => DelegationSound
<1> SUFFICES ASSUME DelegationInit PROVE DelegationSound
  OBVIOUS
<1>1. now = 0 /\ records = <<>> /\ credential = NoCredential /\ check = NoCheck
  BY DEF DelegationInit
<1>2. 0 \in 0..MaxTime /\ 0 \in 0..Never /\ Never \in 0..Never /\ ~(Never <= 0)
  OBVIOUS
<1> DEFINE first == [Unlisted EXCEPT !.listed = "current", !.valid_from = 0]
<1>3. /\ first \in Controller /\ first.listed = "current" /\ first.valid_from = 0
      /\ validate_controller(first)
  BY <1>2 DEF Unlisted, Controller, validate_controller
<1>4. /\ Unlisted \in Controller /\ Unlisted.listed = "no" /\ Unlisted.valid_from = Never
      /\ validate_controller(Unlisted)
  BY <1>2 DEF Unlisted, Controller, validate_controller
<1>5. doc = [controllers |-> [k \in Keys |-> IF k \in InitialKeys THEN first ELSE Unlisted],
             updated_at |-> 0]
  BY DEF DelegationInit
<1> HIDE DEF first
<1>6. doc \in Document /\ doc.updated_at = 0
  BY <1>2, <1>3, <1>4, <1>5 DEF Document
<1>7. \A k \in Keys : doc.controllers[k] \in {first, Unlisted}
  BY <1>5
<1>8. SoundDocument(doc)
  BY <1>2, <1>3, <1>4, <1>6, <1>7 DEF SoundDocument, validate_principal_document
<1>9. HistorySound
  BY <1>1 DEF HistorySound
<1> QED
  BY <1>1, <1>2, <1>6, <1>8, <1>9 DEF DelegationSound, CheckSound

(* An update of one entry keeps the document sound.                        *)
LEMMA PublishSound ==
  ASSUME DelegationSound, NEW k \in Keys, NEW c \in Controller, Publish(k, c),
         validate_controller(c), c.listed # "no", c.valid_from <= now,
         c.listed = "retired" => c.retired_at <= now
  PROVE  DelegationSound'
<1>1. /\ doc' = [controllers |-> [doc.controllers EXCEPT ![k] = c], updated_at |-> now]
      /\ UNCHANGED <<now, records, credential, check>>
  BY DEF Publish
<1>2. /\ doc.controllers \in [Keys -> Controller] /\ doc.updated_at \in 0..Never
      /\ now \in 0..MaxTime /\ doc.updated_at <= now /\ SoundDocument(doc)
  BY DEF DelegationSound, SoundDocument, Document
<1>3. /\ doc'.controllers \in [Keys -> Controller] /\ doc'.updated_at = now
      /\ doc'.controllers[k] = c
      /\ \A l \in Keys \ {k} : doc'.controllers[l] = doc.controllers[l]
  BY <1>1, <1>2
<1>4. doc' \in Document
  BY <1>1, <1>2, <1>3, TimesBelowNever DEF Document
<1>5. ASSUME NEW l \in Keys
      PROVE  LET d == doc'.controllers[l]
             IN  /\ validate_controller(d)
                 /\ d.listed # "no" => d.valid_from <= now
                 /\ d.listed = "retired" => d.retired_at <= now
                 /\ d.listed = "no" => d.valid_from = Never
  <2>1. CASE l = k
    BY <1>3, <2>1
  <2>2. CASE l # k
    <3>1. doc'.controllers[l] = doc.controllers[l] /\ doc.controllers[l] \in Controller
      BY <1>2, <1>3, <2>2
    <3>2. /\ validate_controller(doc.controllers[l])
          /\ doc.controllers[l].listed # "no" => doc.controllers[l].valid_from <= doc.updated_at
          /\ doc.controllers[l].listed = "retired" =>
                doc.controllers[l].retired_at <= doc.updated_at
          /\ doc.controllers[l].listed = "no" => doc.controllers[l].valid_from = Never
      BY <1>2 DEF SoundDocument, validate_principal_document
    <3>3. /\ doc.controllers[l].valid_from \in Nat /\ doc.controllers[l].retired_at \in Nat
          /\ doc.updated_at \in Nat /\ now \in Nat
      BY <1>2, <3>1 DEF Controller
    <3> QED
      BY <1>2, <3>1, <3>2, <3>3
  <2> QED
    BY <2>1, <2>2
<1>6. SoundDocument(doc') /\ doc'.updated_at <= now
  BY <1>2, <1>3, <1>4, <1>5 DEF SoundDocument, validate_principal_document
<1> QED
  BY <1>1, <1>6 DEF DelegationSound, HistorySound, CheckSound, CredentialSound

LEMMA HostSound ==
  ASSUME DelegationSound, NEW k \in Keys,
         \/ Register(k) \/ Retire(k)
         \/ \E t \in 0..MaxTime : Compromise(k, t)
  PROVE  DelegationSound'
<1> DEFINE c == doc.controllers[k]
<1>1. /\ c \in Controller /\ now \in 0..MaxTime /\ now \in Nat /\ now < Never
      /\ now \in 0..Never /\ Never \in 0..Never
  BY TimesBelowNever DEF DelegationSound, SoundDocument, Document
<1>2. /\ validate_controller(c)
      /\ c.listed # "no" => c.valid_from <= now
      /\ c.listed = "retired" => c.retired_at <= now
  <2>1. /\ validate_controller(c)
        /\ c.listed # "no" => c.valid_from <= doc.updated_at
        /\ c.listed = "retired" => c.retired_at <= doc.updated_at
        /\ doc.updated_at \in Nat /\ doc.updated_at <= now
    BY DEF DelegationSound, SoundDocument, Document, validate_principal_document
  <2>2. c.valid_from \in Nat /\ c.retired_at \in Nat
    BY <1>1 DEF Controller
  <2> QED
    BY <1>1, <2>1, <2>2
<1> HIDE DEF c
<1>3. CASE Register(k)
  <2> DEFINE d == [Unlisted EXCEPT !.listed = "current", !.valid_from = now]
  <2>1. /\ d \in Controller /\ d.listed = "current" /\ d.valid_from = now
        /\ validate_controller(d)
    BY <1>1 DEF Unlisted, Controller, validate_controller
  <2>2. Publish(k, d)
    BY <1>3 DEF Register
  <2> HIDE DEF d
  <2> QED
    BY <1>1, <2>1, <2>2, PublishSound
<1>4. CASE Retire(k)
  <2> DEFINE d == [c EXCEPT !.listed = "retired", !.retired_at = now]
  <2>1. Publish(k, d) /\ c.listed = "current"
    BY <1>4 DEF Retire, c
  <2>2. /\ d \in Controller /\ d.listed = "retired" /\ d.valid_from = c.valid_from
        /\ d.retired_at = now /\ d.invalid_from = c.invalid_from
    BY <1>1 DEF Controller
  <2>3. c.valid_from <= now /\ c.invalid_from = Never /\ c.valid_from \in Nat
    BY <1>1, <1>2, <2>1 DEF validate_controller, Controller
  <2>4. validate_controller(d)
    BY <1>1, <2>2, <2>3 DEF validate_controller
  <2> HIDE DEF d
  <2> QED
    BY <1>1, <2>1, <2>2, <2>3, <2>4, PublishSound
<1>5. ASSUME NEW t \in 0..MaxTime, Compromise(k, t) PROVE DelegationSound'
  <2> DEFINE d == [c EXCEPT !.invalid_from = t]
  <2>1. Publish(k, d) /\ c.listed = "retired" /\ t \in c.valid_from..c.retired_at
    BY <1>5 DEF Compromise, c
  <2>2. /\ d \in Controller /\ d.listed = "retired" /\ d.valid_from = c.valid_from
        /\ d.retired_at = c.retired_at /\ d.invalid_from = t
    BY <1>1, <2>1, TimesBelowNever DEF Controller
  <2>3. c.retired_at \in c.valid_from..(Never - 1) /\ c.valid_from <= now /\ c.retired_at <= now
    BY <1>2, <2>1 DEF validate_controller
  <2>4. validate_controller(d)
    BY <2>1, <2>2, <2>3 DEF validate_controller
  <2> HIDE DEF d
  <2> QED
    BY <2>1, <2>2, <2>3, <2>4, PublishSound
<1> QED
  BY <1>3, <1>4, <1>5

(* What becomes of credential p, or of none, with event e at time t.       *)
Outcome == Credential \cup {NoCredential, Refused}

MaterializedFrom(m, e, t, p) ==
    /\ m \in Credential
    /\ m.event_id = e /\ m.controller = e.actor /\ m.accepted_at = t
    /\ IF e.kind = "revoke"
       THEN /\ p \in Credential /\ m.status = "revoked"
            /\ m.grant = p.grant /\ m.grant_event_id = p.grant_event_id
       ELSE m.status = "active" /\ m.grant = e.grant /\ m.grant_event_id = e

LEMMA MaterializedExact ==
  ASSUME NEW e \in Event(0..Never), NEW t \in 0..Never, NEW p \in Outcome, p # Refused,
         check_previous(e, p)
  PROVE  MaterializedFrom(Materialized(e, "active", t, p), e, t, p)
<1> DEFINE m == Materialized(e, "active", t, p)
<1>1. e.actor \in Keys
  BY DEF Event
<1>2. CASE e.kind = "revoke"
  <2>1. p \in Credential
    BY <1>2 DEF check_previous, Outcome
  <2>2. m = [p EXCEPT !.controller = e.actor, !.status = "revoked", !.event_id = e,
                      !.accepted_at = t, !.checked_at = t]
    BY <1>2 DEF Materialized
  <2> HIDE DEF m
  <2>3. /\ m \in Credential /\ m.event_id = e /\ m.controller = e.actor
        /\ m.accepted_at = t /\ m.status = "revoked"
        /\ m.grant = p.grant /\ m.grant_event_id = p.grant_event_id
    BY <1>1, <2>1, <2>2 DEF Credential
  <2> QED
    BY <1>2, <2>1, <2>3 DEF MaterializedFrom, m
<1>3. CASE e.kind # "revoke"
  <2>1. e.grant \in Grants
    BY <1>3 DEF Event
  <2>2. m = [grant |-> e.grant, status |-> "active", controller |-> e.actor,
             grant_event_id |-> e, event_id |-> e, accepted_at |-> t, checked_at |-> t]
    BY <1>3 DEF Materialized
  <2> HIDE DEF m
  <2>3. m \in Credential
    BY <1>1, <2>1, <2>2 DEF Credential
  <2> QED
    BY <1>3, <2>2, <2>3 DEF MaterializedFrom, m
<1> QED
  BY <1>2, <1>3

(* What the service checked when it accepts an event, and what it makes of *)
(* it.                                                                     *)
LEMMA Accepting ==
  ASSUME DelegationSound, NEW e \in Event(0..now), Accept(e)
  PROVE  LET r == [event |-> e, accepted_at |-> now]
         IN  /\ r \in Record(now) /\ Admitted(r) /\ records' = Append(records, r)
             /\ \A i \in DOMAIN records : records[i].event # e
             /\ check_previous(e, credential)
             /\ credential # NoCredential =>
                   /\ now >= credential.accepted_at
                   /\ within_ceiling(e.actor, credential.grant.permissions)
             /\ credential' = Materialized(e, "active", now, credential)
             /\ MaterializedFrom(credential', e, now, credential)
             /\ UNCHANGED <<now, doc, check>>
<1> DEFINE r == [event |-> e, accepted_at |-> now]
<1>1. now \in 0..now /\ now \in 0..Never /\ now \in Nat /\ now <= Never
  BY TimesBelowNever DEF DelegationSound
<1>2. r \in Record(now) /\ r.event = e /\ r.accepted_at = now
  BY <1>1 DEF Record
<1>3. PICK D : check_authority(e, D, now, credential, FALSE)
  BY DEF Accept
<1>4. Admitted(r)
  BY <1>2, <1>3 DEF check_authority, Admitted
<1>5. /\ check_previous(e, credential)
      /\ credential # NoCredential =>
            now >= credential.accepted_at /\ within_ceiling(e.actor, credential.grant.permissions)
  BY <1>3 DEF check_authority
<1>6. credential' = Materialized(e, "active", now, credential)
  BY DEF Accept, materialize_delegation_credential
<1>7. e \in Event(0..Never) /\ e.actor \in Keys
  <2>1. Event(0..now) \subseteq Event(0..Never)
    BY <1>1, RecordsGrow
  <2> QED
    BY <2>1 DEF Event
<1>8. MaterializedFrom(credential', e, now, credential)
  <2>1. credential \in Outcome /\ credential # Refused
    BY DEF Outcome, DelegationSound, CredentialSound
  <2> QED
    BY <1>1, <1>5, <1>6, <1>7, <2>1, MaterializedExact
<1>9. \A i \in DOMAIN records : records[i].event # e
  BY DEF Accept, is_accepted
<1>10. records' = Append(records, r) /\ UNCHANGED <<now, doc, check>>
  BY DEF Accept
<1> HIDE DEF r
<1> QED
  BY <1>2, <1>4, <1>5, <1>6, <1>8, <1>9, <1>10 DEF r

(* What a credential shows stays in a history that grows.                  *)
LEMMA CredentialKept ==
  ASSUME DelegationSound, NEW c, CredentialSound(c), now \in Nat, now' \in Nat, now <= now',
         \/ records' = records
         \/ \E r : records' = Append(records, r)
  PROVE  CredentialSound(c)'
<1>1. \A i \in DOMAIN records : i \in DOMAIN records' /\ records'[i] = records[i]
  <2>1. records \in Seq(Record(now))
    BY DEF DelegationSound, HistorySound
  <2>2. CASE records' = records
    BY <2>2
  <2>3. ASSUME NEW r, records' = Append(records, r)
        PROVE  \A i \in DOMAIN records : i \in DOMAIN records' /\ records'[i] = records[i]
    BY <2>1, <2>3
  <2> QED
    BY <2>2, <2>3
<1>2. c.accepted_at <= now'
  BY DEF CredentialSound, Credential
<1> QED
  BY <1>1, <1>2 DEF CredentialSound

LEMMA AcceptSound ==
  ASSUME DelegationSound, NEW e \in Event(0..now), Accept(e)
  PROVE  DelegationSound'
<1> DEFINE r == [event |-> e, accepted_at |-> now]
<1>1. /\ r \in Record(now) /\ Admitted(r) /\ records' = Append(records, r)
      /\ \A i \in DOMAIN records : records[i].event # e
      /\ MaterializedFrom(credential', e, now, credential)
      /\ UNCHANGED <<now, doc, check>>
  BY Accepting
<1>2. r.event = e /\ r.accepted_at = now
  OBVIOUS
<1> HIDE DEF r
<1> DEFINE n == Len(records)
<1>3. /\ records \in Seq(Record(now)) /\ n \in Nat /\ DOMAIN records = 1..n
      /\ \A i \in DOMAIN records : Admitted(records[i])
      /\ \A i, j \in DOMAIN records : records[i].event = records[j].event => i = j
  BY DEF DelegationSound, HistorySound
<1> HIDE DEF n
<1>4. /\ records' \in Seq(Record(now)) /\ DOMAIN records' = 1..(n + 1)
      /\ records'[n + 1] = r
      /\ \A i \in 1..n : records'[i] = records[i]
  BY <1>1, <1>3 DEF n
<1>5. \A i \in 1..(n + 1) : i \in 1..n \/ i = n + 1
  BY <1>3
<1>6. HistorySound'
  <2>1. \A i \in DOMAIN records' : Admitted(records'[i])
    BY <1>1, <1>3, <1>4, <1>5
  <2>2. ASSUME NEW i \in 1..(n + 1), NEW j \in 1..(n + 1), records'[i].event = records'[j].event
        PROVE  i = j
    BY <1>1, <1>2, <1>3, <1>4, <1>5, <2>2
  <2>3. records' \in Seq(Record(now'))
    BY <1>1, <1>4
  <2> QED
    BY <1>4, <2>1, <2>2, <2>3 DEF HistorySound, Admitted
<1>7. now \in Nat
  BY TimesBelowNever DEF DelegationSound
<1>8. ASSUME NEW c, CredentialSound(c) PROVE CredentialSound(c)'
  BY <1>1, <1>7, <1>8, CredentialKept
<1>9. CredentialSound(credential)'
  <2>1. credential' \in Credential /\ credential'.accepted_at <= now'
    BY <1>1, <1>7 DEF MaterializedFrom
  <2>2. n + 1 \in DOMAIN records' /\ records'[n + 1].event = credential'.event_id
    BY <1>1, <1>2, <1>3, <1>4 DEF MaterializedFrom
  <2>3. CASE e.kind = "revoke"
    <3>1. credential \in Credential
      BY <1>1, <2>3 DEF MaterializedFrom
    <3>2. PICK i \in DOMAIN records : ShowsGrant(credential, records[i])
      BY <3>1 DEF DelegationSound, CredentialSound
    <3>3. records[i].event = credential'.grant_event_id /\ records[i].event # e
      BY <1>1, <2>3, <3>2 DEF MaterializedFrom, ShowsGrant
    <3>4. ShowsGrant(credential', records[i])
      BY <1>1, <2>3, <3>2, <3>3 DEF MaterializedFrom, ShowsGrant
    <3>5. i \in DOMAIN records' /\ records'[i] = records[i]
      BY <1>3, <1>4
    <3> QED
      BY <2>1, <2>2, <3>4, <3>5 DEF CredentialSound
  <2>4. CASE e.kind # "revoke"
    <3>1. e.kind = "grant"
      BY <2>4 DEF Event
    <3>2. ShowsGrant(credential', records'[n + 1])
      BY <1>1, <1>2, <1>4, <2>4, <3>1 DEF MaterializedFrom, ShowsGrant
    <3> QED
      BY <2>1, <2>2, <3>2 DEF CredentialSound
  <2> QED
    BY <2>3, <2>4
<1>10. CheckSound'
  <2>1. CASE check.step = "events" /\ SoundDocument(check.doc) /\ CredentialSound(check.credential)
    <3>1. PICK c : c = check.credential
      OBVIOUS
    <3>2. CredentialSound(c)'
      BY <2>1, <3>1, <1>8
    <3>3. CredentialSound(check.credential)'
      BY <1>1, <3>1, <3>2 DEF CredentialSound
    <3> QED
      BY <1>1, <2>1, <3>3 DEF CheckSound
  <2> QED
    BY <1>1, <2>1 DEF CheckSound, DelegationSound
<1>11. credential' # NoCredential
  BY <1>1 DEF MaterializedFrom
<1> QED
  BY <1>1, <1>6, <1>9, <1>10, <1>11 DEF DelegationSound

(* Another status than revoked, at another time of checking, shows the     *)
(* same grant.                                                             *)
LEMMA StatusChanged ==
  ASSUME NEW c, CredentialSound(c), NEW status \in {"active", "suspended", "expired"},
         NEW t \in 0..Never, c.status # "revoked",
         NEW d, d = [c EXCEPT !.checked_at = t, !.status = status]
  PROVE  CredentialSound(d) /\ d.status = status
<1>1. /\ d \in Credential /\ d.status = status /\ d.status # "revoked"
      /\ d.event_id = c.event_id /\ d.grant_event_id = c.grant_event_id
      /\ d.grant = c.grant /\ d.accepted_at = c.accepted_at /\ d.controller = c.controller
  BY DEF CredentialSound, Credential
<1> QED
  BY <1>1 DEF CredentialSound, ShowsGrant

LEMMA SetStatusSound ==
  ASSUME DelegationSound, NEW from \in {"active", "suspended"},
         NEW to \in {"active", "suspended"}, SetStatus(from, to)
  PROVE  DelegationSound'
<1>1. /\ CredentialSound(credential) /\ credential.status # "revoked"
      /\ credential' = [credential EXCEPT !.status = to]
      /\ UNCHANGED <<now, doc, records, check>>
  BY DEF SetStatus, DelegationSound
<1>2. credential \in Credential
  BY <1>1 DEF CredentialSound
<1>3. /\ credential' = [credential EXCEPT !.checked_at = credential.checked_at, !.status = to]
      /\ credential.checked_at \in 0..Never
  BY <1>1, <1>2 DEF Credential
<1>4. PICK c, d : c = credential /\ d = credential'
  OBVIOUS
<1>5. CredentialSound(d)
  <2>1. CredentialSound(c) /\ c.status # "revoked" /\ c.checked_at \in 0..Never
    BY <1>1, <1>3, <1>4
  <2>2. d = [c EXCEPT !.checked_at = c.checked_at, !.status = to]
    BY <1>3, <1>4
  <2> QED
    BY <2>1, <2>2, StatusChanged
<1>6. CredentialSound(credential)'
  BY <1>1, <1>4, <1>5 DEF CredentialSound
<1>7. credential' # NoCredential
  BY <1>6 DEF CredentialSound
<1> QED
  BY <1>1, <1>6, <1>7 DEF DelegationSound, HistorySound, CheckSound, CredentialSound

(* So does what a read returns.                                            *)
LEMMA CredentialViewSound ==
  ASSUME DelegationSound, credential # NoCredential
  PROVE  CredentialSound(CredentialView)
<1>1. CredentialSound(credential) /\ credential \in Credential
  BY DEF DelegationSound, CredentialSound
<1>2. now \in 0..Never
  BY TimesBelowNever DEF DelegationSound
<1> DEFINE status == IF credential.status # "revoked" /\ credential.grant.expires_at <= now
                     THEN "expired" ELSE credential.status
<1>3. CredentialView = [credential EXCEPT !.checked_at = now, !.status = status]
  BY <1>1 DEF CredentialView, Credential
<1>4. CASE credential.status # "revoked"
  <2>1. status \in {"active", "suspended", "expired"}
    BY <1>1, <1>4 DEF Credential
  <2> HIDE DEF status
  <2> QED
    BY <1>1, <1>2, <1>3, <1>4, <2>1, StatusChanged
<1>5. CASE credential.status = "revoked"
  <2>1. CredentialView = [credential EXCEPT !.checked_at = now, !.status = "revoked"]
    BY <1>3, <1>5
  <2> PICK d : d = CredentialView
    OBVIOUS
  <2>2. /\ d \in Credential /\ d.status = "revoked"
        /\ d.event_id = credential.event_id /\ d.grant_event_id = credential.grant_event_id
        /\ d.grant = credential.grant /\ d.accepted_at = credential.accepted_at
        /\ d.controller = credential.controller
    BY <1>1, <1>2, <2>1 DEF Credential
  <2>3. CredentialSound(d)
    BY <1>1, <1>5, <2>2 DEF CredentialSound, ShowsGrant
  <2> QED
    BY <2>3
<1> QED
  BY <1>4, <1>5

LEMMA DelegationStepSound ==
  DelegationSound /\ [DelegationNext]_delegation_vars => DelegationSound'
<1> SUFFICES ASSUME DelegationSound, [DelegationNext]_delegation_vars PROVE DelegationSound'
  OBVIOUS
<1>1. CASE UNCHANGED delegation_vars
  BY <1>1 DEF delegation_vars, DelegationSound, HistorySound, CheckSound, CredentialSound
<1>2. CASE Tick
  <2>1. /\ now' = now + 1 /\ now < MaxTime /\ now \in 0..MaxTime /\ MaxTime \in Nat
        /\ UNCHANGED <<doc, records, credential, check>>
    BY <1>2 DEF Tick, DelegationSound
  <2>2. now \in Nat /\ now' \in Nat /\ now <= now' /\ now' \in 0..MaxTime
    BY <2>1
  <2>3. Record(now) \subseteq Record(now')
    BY <2>2, RecordsGrow
  <2>4. HistorySound'
    BY <2>1, <2>3 DEF DelegationSound, HistorySound, Admitted
  <2>5. ASSUME NEW c, CredentialSound(c) PROVE CredentialSound(c)'
    BY <2>1, <2>2, <2>5, CredentialKept
  <2>6. credential # NoCredential => CredentialSound(credential)'
    <3>1. PICK c : c = credential
      OBVIOUS
    <3>2. credential # NoCredential => CredentialSound(c)'
      BY <2>5, <3>1 DEF DelegationSound
    <3> QED
      BY <2>1, <3>1, <3>2 DEF CredentialSound
  <2>7. CheckSound'
    <3>1. CASE check.step = "events" /\ SoundDocument(check.doc) /\ CredentialSound(check.credential)
      <4>1. PICK c : c = check.credential
        OBVIOUS
      <4>2. CredentialSound(c)'
        BY <2>5, <3>1, <4>1
      <4>3. CredentialSound(check.credential)'
        BY <2>1, <4>1, <4>2 DEF CredentialSound
      <4> QED
        BY <2>1, <3>1, <4>3 DEF CheckSound
    <3> QED
      BY <2>1, <3>1 DEF CheckSound, DelegationSound
  <2>8. doc.updated_at \in Nat /\ doc.updated_at <= now
    BY DEF DelegationSound, SoundDocument, Document
  <2> QED
    BY <2>1, <2>2, <2>4, <2>6, <2>7, <2>8 DEF DelegationSound
<1>3. CASE \E k \in Keys : Register(k) \/ Retire(k)
  BY <1>3, HostSound
<1>4. CASE \E k \in Keys, t \in 0..MaxTime : Compromise(k, t)
  BY <1>4, HostSound
<1>5. CASE \E e \in Event(0..now) : SubmitSigned(e) \/ OtherSubmits(e)
  <2>1. PICK e \in Event(0..now) : Accept(e)
    BY <1>5 DEF SubmitSigned, OtherSubmits
  <2> QED
    BY <2>1, AcceptSound
<1>6. CASE SetStatus("active", "suspended") \/ SetStatus("suspended", "active")
  BY <1>6, SetStatusSound
<1>7. CASE ResolvePrincipal
  <2>1. /\ check' = [step |-> "query", doc |-> doc]
        /\ UNCHANGED <<now, doc, records, credential>>
    BY <1>7 DEF ResolvePrincipal
  <2>2. CheckSound'
    BY <2>1 DEF CheckSound, DelegationSound
  <2> QED
    BY <2>1, <2>2 DEF DelegationSound, HistorySound, CredentialSound
<1>8. CASE QueryDelegations
  <2>1. /\ check.step = "query" /\ credential # NoCredential
        /\ check' = [step |-> "events", doc |-> check.doc, credential |-> CredentialView]
        /\ UNCHANGED <<now, doc, records, credential>>
    BY <1>8 DEF QueryDelegations
  <2>2. SoundDocument(check.doc)
    BY <2>1 DEF DelegationSound, CheckSound, NoCheck
  <2>3. CredentialSound(CredentialView)
    BY <2>1, CredentialViewSound
  <2>4. CheckSound'
    BY <2>1, <2>2, <2>3 DEF CheckSound, CredentialSound
  <2> QED
    BY <2>1, <2>4 DEF DelegationSound, HistorySound, CredentialSound
<1>9. CASE AllDelegationEvents
  <2>1. check' = NoCheck /\ UNCHANGED <<now, doc, records, credential>>
    BY <1>9 DEF AllDelegationEvents
  <2> QED
    BY <2>1 DEF DelegationSound, HistorySound, CheckSound, CredentialSound
<1> QED
  BY <1>1, <1>2, <1>3, <1>4, <1>5, <1>6, <1>7, <1>8, <1>9 DEF DelegationNext

(* The documents, the history, the credential and the check in progress    *)
(* stay sound: the credential and what a check read of it show events of   *)
(* the history, and their latest grant (delegation.rs,                     *)
(* materialize_delegation_credential).                                     *)
THEOREM DelegationStaysSound == DelegationSpec => []DelegationSound
BY DelegationInitSound, DelegationStepSound, PTL DEF DelegationSpec
-----------------------------------------------------------------------------
(* The verdict of a relying party *)

LEMMA UsableShowsLast ==
  ASSUME DelegationSound, check.step = "events",
         NEW clock \in now..(now + STATUS_CLOCK_SKEW_MS), Verdict(clock).usable
  PROVE  /\ Last(records).event = check.credential.event_id
         /\ validate_delegation_use(check.credential, audience, clock)
<1> DEFINE c == check.credential
           n == Len(records)
<1>1. CredentialSound(c)
  BY DEF DelegationSound, CheckSound, NoCheck
<1>2. /\ validate_status_freshness(c, clock) /\ ~ConflictsWithHistory(c, records)
      /\ c.status = "active" /\ audience \in c.grant.permissions
      /\ c.grant.not_before <= clock /\ clock < c.grant.expires_at
  BY DEF Verdict, verify_delegation_credential
<1>3. c.grant \in Grants
  BY <1>1 DEF CredentialSound, Credential
<1> HIDE DEF c
<1>4. c.grant.not_before \in Nat /\ c.grant.expires_at \in Nat /\ clock \in Nat
  <2>1. now \in Nat
    BY TimesBelowNever DEF DelegationSound
  <2> QED
    BY <1>3, <2>1
<1>5. validate_delegation_use(c, audience, clock)
  BY <1>2, <1>4 DEF validate_delegation_use
<1>6. records \in Seq(Record(now)) /\ n \in Nat /\ DOMAIN records = 1..n
  BY DEF DelegationSound, HistorySound
<1> HIDE DEF n
<1>7. PICK i \in 1..n : records[i].event = c.event_id
  BY <1>1, <1>6 DEF CredentialSound
<1>8. n \in 1..n /\ (i # n => i \in 1..(n - 1))
  BY <1>6, <1>7
<1>9. records[n].event = c.event_id
  BY <1>2, <1>6, <1>7, <1>8 DEF ConflictsWithHistory
<1>10. Last(records) = records[n]
  BY DEF Last, n
<1> QED
  BY <1>5, <1>9, <1>10 DEF c

(* A credential reported usable shows the last event the service accepted, *)
(* however the three reads of a check interleave with other grants and     *)
(* revocations, and a single use is then allowed (local_connector.rs,      *)
(* delegation_check).                                                      *)
THEOREM UsableShowsLatest == DelegationSpec => []UsableIsLatest
<1>1. DelegationSound => UsableIsLatest
  BY UsableShowsLast DEF UsableIsLatest
<1> QED
  BY <1>1, DelegationStaysSound, PTL

LEMMA VerifiedExactly ==
  ASSUME DelegationSound, check.step = "events"
  PROVE  LET g == check.credential.grant_event_id
             i == CHOOSE i \in DOMAIN records : records[i].event = g
         IN  Verdict(now).verified <=> Authorized(check.doc, g, records[i].accepted_at)
<1> DEFINE c == check.credential
           g == c.grant_event_id
           i == CHOOSE i \in DOMAIN records : records[i].event = g
<1>1. CredentialSound(c) /\ SoundDocument(check.doc)
  BY DEF DelegationSound, CheckSound, NoCheck
<1>2. Verdict(now).verified <=> latest_grant_matches(c, records, check.doc)
  BY DEF Verdict, verify_delegation_credential
<1> HIDE DEF c
<1>3. /\ records \in Seq(Record(now))
      /\ \A k \in DOMAIN records : records[k] \in Record(now) /\ Admitted(records[k])
      /\ \A k, j \in DOMAIN records : records[k].event = records[j].event => k = j
  BY DEF DelegationSound, HistorySound
<1>4. PICK k \in DOMAIN records : ShowsGrant(c, records[k])
  BY <1>1 DEF CredentialSound
<1>5. records[k].event = g
  BY <1>4 DEF ShowsGrant
<1>6. i = k
  <2>1. i \in DOMAIN records /\ records[i].event = g
    BY <1>5
  <2> HIDE DEF i
  <2> QED
    BY <1>3, <1>5, <2>1
<1> HIDE DEF i
<1>7. now \in 0..MaxTime
  BY DEF DelegationSound
<1>8. check_authority(g, check.doc, records[k].accepted_at, NoCredential, TRUE)
        <=> Authorized(check.doc, g, records[k].accepted_at)
  <2>1. check_previous(g, NoCredential)
    BY <1>4, <1>5 DEF ShowsGrant, check_previous
  <2> QED
    BY <1>1, <1>3, <1>5, <1>7, <2>1, HistoricalAuthority
<1>9. latest_grant_matches(c, records, check.doc)
        <=> check_authority(g, check.doc, records[k].accepted_at, NoCredential, TRUE)
  <2>1. ASSUME latest_grant_matches(c, records, check.doc)
        PROVE  check_authority(g, check.doc, records[k].accepted_at, NoCredential, TRUE)
    <3>1. PICK j \in DOMAIN records :
             /\ records[j].event = g
             /\ check_authority(records[j].event, check.doc, records[j].accepted_at,
                                NoCredential, TRUE)
      BY <2>1 DEF latest_grant_matches
    <3>2. j = k
      BY <1>3, <1>5, <3>1
    <3> QED
      BY <3>1, <3>2
  <2>2. ASSUME check_authority(g, check.doc, records[k].accepted_at, NoCredential, TRUE)
        PROVE  latest_grant_matches(c, records, check.doc)
    BY <1>4, <1>5, <2>2 DEF latest_grant_matches, ShowsGrant
  <2> QED
    BY <2>1, <2>2
<1> QED
  BY <1>2, <1>6, <1>8, <1>9 DEF c, i

(* The signatures of a credential verify exactly when its latest grant is  *)
(* inside the interval of its key, by creation and acceptance, in the      *)
(* document that was read (delegation.rs, latest_grant_matches).           *)
THEOREM VerdictStaysExact == DelegationSpec => []VerdictExact
<1>1. DelegationSound => VerdictExact
  BY VerifiedExactly DEF VerdictExact
<1> QED
  BY <1>1, DelegationStaysSound, PTL
-----------------------------------------------------------------------------
(* The replay of an auditor *)

(* Replay takes one record at a time.                                      *)
ReplayStep(p, r, D) ==
    IF p # Refused /\ check_authority(r.event, D, r.accepted_at, p, TRUE)
    THEN materialize_delegation_credential(r.event, "active", r.accepted_at, p)
    ELSE Refused

ReplayFold(rs, D) ==
    CHOOSE it : it = [s \in SUBSET DOMAIN rs |->
        IF s = {} THEN NoCredential ELSE ReplayStep(it[s \ {Max(s)}], rs[Max(s)], D)]

LEMMA ReplayedDef ==
  ASSUME NEW rs, NEW D
  PROVE  Replayed(rs, D) = ReplayFold(rs, D)[DOMAIN rs]
BY Zenon DEF Replayed, FoldLeft, MapThenFoldSet, ReplayFold, ReplayStep

(* A step of it ends in a credential, or in none.                          *)
LEMMA StepOutcome ==
  ASSUME NEW p \in Outcome, NEW r \in Record(Never), NEW D
  PROVE  ReplayStep(p, r, D) \in Outcome
<1>1. r.event \in Event(0..Never) /\ r.accepted_at \in 0..Never
  BY DEF Record
<1>2. CASE ReplayStep(p, r, D) = Refused
  BY <1>2 DEF Outcome
<1>3. CASE ReplayStep(p, r, D) # Refused
  <2>1. /\ ReplayStep(p, r, D) = Materialized(r.event, "active", r.accepted_at, p)
        /\ p # Refused /\ check_previous(r.event, p)
    BY <1>3 DEF ReplayStep, materialize_delegation_credential
  <2> QED
    BY <1>1, <2>1, MaterializedExact DEF MaterializedFrom, Outcome
<1> QED
  BY <1>2, <1>3

LEMMA ReplayFoldSolves ==
  ASSUME NEW rs \in Seq(Record(Never)), NEW D
  PROVE  LET it == ReplayFold(rs, D)
         IN  \A s \in SUBSET (1..Len(rs)) :
                it[s] = IF s = {} THEN NoCredential
                        ELSE ReplayStep(it[s \ {Max(s)}], rs[Max(s)], D)
<1> DEFINE n == Len(rs)
           G == [x \in (1..n) \X Outcome |-> ReplayStep(x[2], rs[x[1]], D)]
           Is(it) == it = [s \in SUBSET DOMAIN rs |->
                       IF s = {} THEN NoCredential
                       ELSE ReplayStep(it[s \ {Max(s)}], rs[Max(s)], D)]
<1>1. n \in Nat /\ DOMAIN rs = 1..n /\ \A k \in 1..n : rs[k] \in Record(Never)
  OBVIOUS
<1>2. G \in [(1..n) \X Outcome -> Outcome]
  <2>1. ASSUME NEW k \in 1..n, NEW p \in Outcome PROVE ReplayStep(p, rs[k], D) \in Outcome
    BY <1>1, StepOutcome
  <2> HIDE DEF n
  <2> QED
    BY <2>1
<1>3. PICK it : IsFold(it, n, Outcome, NoCredential, G)
  <2>1. n \in Nat /\ NoCredential \in Outcome
    BY <1>1 DEF Outcome
  <2> HIDE DEF G, n
  <2> QED
    BY <1>2, <2>1, FoldExists
<1>4. ASSUME NEW s \in SUBSET (1..n), s # {}
      PROVE  Max(s) \in 1..n /\ s \ {Max(s)} \in SUBSET (1..n)
  <2>1. s \in SUBSET (0..n)
    BY <1>1
  <2>2. Max(s) \in s
    BY <1>1, <1>4, <2>1, MaxOfBounded
  <2> QED
    BY <2>2
<1>5. ASSUME NEW s \in SUBSET (1..n), s # {}
      PROVE  G[<<Max(s), it[s \ {Max(s)}]>>] = ReplayStep(it[s \ {Max(s)}], rs[Max(s)], D)
  BY <1>3, <1>4, <1>5 DEF IsFold
<1>6. Is(it)
  <2> HIDE DEF G
  <2> QED
    BY <1>1, <1>3, <1>5 DEF IsFold
<1>7. Is(ReplayFold(rs, D))
  <2>1. \E f : Is(f)
    BY <1>6
  <2> QED
    BY <2>1 DEF ReplayFold
<1> QED
  BY <1>1, <1>7

(* A replay of one more record is one more step.                           *)
LEMMA ReplayAppend ==
  ASSUME NEW rs \in Seq(Record(Never)), NEW r \in Record(Never), NEW D
  PROVE  Replayed(Append(rs, r), D) = ReplayStep(Replayed(rs, D), r, D)
<1> DEFINE n == Len(rs)
           ss == Append(rs, r)
           f == ReplayFold(rs, D)
           g == ReplayFold(ss, D)
           Bad == {k \in Nat : k <= n /\ g[1..k] # f[1..k]}
<1>1. /\ n \in Nat /\ DOMAIN rs = 1..n /\ Len(ss) = n + 1 /\ DOMAIN ss = 1..(n + 1)
      /\ ss \in Seq(Record(Never)) /\ ss[n + 1] = r
      /\ \A k \in 1..n : ss[k] = rs[k]
  OBVIOUS
<1>2. /\ f[{}] = NoCredential
      /\ \A k \in 1..n : f[1..k] = ReplayStep(f[1..(k - 1)], rs[k], D)
  <2>1. \A s \in SUBSET (1..n) :
           f[s] = IF s = {} THEN NoCredential ELSE ReplayStep(f[s \ {Max(s)}], rs[Max(s)], D)
    BY ReplayFoldSolves
  <2>2. ASSUME NEW k \in 1..n
        PROVE  1..k \in SUBSET (1..n) /\ Max(1..k) = k /\ 1..k # {} /\ (1..k) \ {k} = 1..(k - 1)
    <3>1. k \in Nat /\ k > 0 /\ 1..k \in SUBSET (1..n)
      BY <1>1
    <3> QED
      BY <3>1, UpTo
  <2> HIDE DEF f
  <2> QED
    BY <2>1, <2>2
<1>3. /\ g[{}] = NoCredential
      /\ \A k \in 1..(n + 1) : g[1..k] = ReplayStep(g[1..(k - 1)], ss[k], D)
  <2> HIDE DEF ss, n
  <2>1. \A s \in SUBSET (1..(n + 1)) :
           g[s] = IF s = {} THEN NoCredential ELSE ReplayStep(g[s \ {Max(s)}], ss[Max(s)], D)
    BY <1>1, ReplayFoldSolves
  <2>2. ASSUME NEW k \in 1..(n + 1)
        PROVE  /\ 1..k \in SUBSET (1..(n + 1)) /\ Max(1..k) = k
               /\ 1..k # {} /\ (1..k) \ {k} = 1..(k - 1)
    <3>1. k \in Nat /\ k > 0 /\ 1..k \in SUBSET (1..(n + 1))
      BY <1>1
    <3> QED
      BY <3>1, UpTo
  <2> HIDE DEF g
  <2> QED
    BY <2>1, <2>2
<1> HIDE DEF f, g, ss, n
<1>4. Bad = {}
  <2> SUFFICES ASSUME Bad # {} PROVE FALSE
    OBVIOUS
  <2>1. PICK k \in Bad : \A j \in Bad : k <= j
    BY LeastNumber
  <2>2. k \in Nat /\ k <= n /\ g[1..k] # f[1..k]
    OBVIOUS
  <2>3. k # 0
    BY <1>2, <1>3, <2>2
  <2>4. k \in 1..n /\ k \in 1..(n + 1) /\ k - 1 \in Nat /\ k - 1 <= n /\ ~(k <= k - 1)
    BY <1>1, <2>2, <2>3
  <2>5. g[1..(k - 1)] = f[1..(k - 1)]
    BY <2>1, <2>4
  <2> QED
    BY <1>1, <1>2, <1>3, <2>2, <2>4, <2>5
<1>5. g[1..n] = f[1..n]
  BY <1>1, <1>4
<1>6. n + 1 \in 1..(n + 1) /\ (n + 1) - 1 = n
  BY <1>1
<1>7. g[1..(n + 1)] = ReplayStep(f[1..n], r, D)
  BY <1>1, <1>3, <1>5, <1>6
<1>8. Replayed(rs, D) = f[1..n] /\ Replayed(ss, D) = g[1..(n + 1)]
  BY <1>1, ReplayedDef DEF f, g
<1> QED
  BY <1>7, <1>8 DEF ss

LEMMA ReplayNothing ==
  ASSUME NEW D
  PROVE  Replayed(<<>>, D) = NoCredential
<1>1. <<>> \in Seq(Record(Never)) /\ Len(<<>>) = 0 /\ DOMAIN <<>> = {} /\ {} \in SUBSET (1..0)
  OBVIOUS
<1>2. ReplayFold(<<>>, D)[{}] = NoCredential
  BY <1>1, ReplayFoldSolves
<1> QED
  BY <1>1, <1>2, ReplayedDef

AllAuthorized(D) ==
    \A i \in DOMAIN records : Authorized(D, records[i].event, records[i].accepted_at)

(* The replayed credential is the actual one, up to a suspension.          *)
Agrees(p, c) ==
    IF c = NoCredential THEN p = NoCredential
    ELSE /\ p \in Credential
         /\ p.grant = c.grant /\ p.accepted_at = c.accepted_at
         /\ p.event_id = c.event_id /\ p.grant_event_id = c.grant_event_id
         /\ p.controller = c.controller
         /\ (p.status = "revoked") = (c.status = "revoked")

(* Whatever document the history is replayed with, today's or a later one. *)
ReplayAgrees ==
    \A D : SoundDocument(D) =>
        IF AllAuthorized(D) THEN Agrees(Replayed(records, D), credential)
        ELSE Replayed(records, D) = Refused

LEMMA HistoryTyped ==
  ASSUME DelegationSound
  PROVE  records \in Seq(Record(Never)) /\ Record(now) \subseteq Record(Never)
<1>1. records \in Seq(Record(now)) /\ now \in Nat /\ Never \in Nat /\ now <= Never
  BY TimesBelowNever DEF DelegationSound, HistorySound
<1>2. Record(now) \subseteq Record(Never)
  BY <1>1, RecordsGrow
<1> QED
  BY <1>1, <1>2

(* An accepted event is replayed as it was accepted, if its key has        *)
(* authority in the document of the replay.                                *)
LEMMA AcceptReplays ==
  ASSUME DelegationSound, ReplayAgrees, NEW e \in Event(0..now), Accept(e)
  PROVE  ReplayAgrees'
<1> DEFINE r == [event |-> e, accepted_at |-> now]
<1>1. /\ r \in Record(now) /\ Admitted(r) /\ records' = Append(records, r)
      /\ check_previous(e, credential)
      /\ credential # NoCredential =>
            now >= credential.accepted_at /\ within_ceiling(e.actor, credential.grant.permissions)
      /\ MaterializedFrom(credential', e, now, credential)
  BY Accepting
<1>2. r.event = e /\ r.accepted_at = now /\ e.kind \in {"grant", "revoke"}
  BY DEF Event
<1> HIDE DEF r
<1>3. records \in Seq(Record(Never)) /\ r \in Record(Never)
  BY <1>1, HistoryTyped
<1> SUFFICES ASSUME NEW D, SoundDocument(D)
             PROVE  IF AllAuthorized(D)' THEN Agrees(Replayed(records', D), credential')
                    ELSE Replayed(records', D) = Refused
  BY DEF ReplayAgrees
<1> PICK p : p = Replayed(records, D)
  OBVIOUS
<1>4. Replayed(records', D) = ReplayStep(p, r, D)
  BY <1>1, <1>3, ReplayAppend
<1>5. AllAuthorized(D)' <=> AllAuthorized(D) /\ Authorized(D, e, now)
  <2>1. Len(records) \in Nat /\ DOMAIN records = 1..Len(records)
    BY <1>3
  <2>2. /\ DOMAIN records' = 1..(Len(records) + 1) /\ records'[Len(records) + 1] = r
        /\ \A i \in 1..Len(records) : records'[i] = records[i]
    BY <1>1, <1>3
  <2>3. 1..(Len(records) + 1) = (1..Len(records)) \cup {Len(records) + 1}
    BY <2>1
  <2> QED
    BY <1>2, <2>1, <2>2, <2>3 DEF AllAuthorized
<1>6. CASE ~AllAuthorized(D)
  <2>1. p = Refused
    BY <1>6 DEF ReplayAgrees
  <2> QED
    BY <1>4, <1>5, <1>6, <2>1 DEF ReplayStep
<1>7. CASE AllAuthorized(D)
  <2>1. Agrees(p, credential)
    BY <1>7 DEF ReplayAgrees
  <2>2. p # Refused
    BY <2>1 DEF Agrees
  <2>3. /\ p = NoCredential <=> credential = NoCredential
        /\ credential # NoCredential =>
              p.grant = credential.grant /\ p.accepted_at = credential.accepted_at
    BY <2>1 DEF Agrees
  <2>4. check_previous(e, p)
    BY <1>1, <2>3 DEF check_previous
  <2>5. p # NoCredential => now >= p.accepted_at /\ within_ceiling(e.actor, p.grant.permissions)
    BY <1>1, <2>3
  <2>6. now \in 0..MaxTime
    BY DEF DelegationSound
  <2>7. check_authority(e, D, now, p, TRUE) <=> Authorized(D, e, now)
    <3>1. check_authority(r.event, D, r.accepted_at, p, TRUE) <=>
            /\ Authorized(D, r.event, r.accepted_at)
            /\ check_previous(r.event, p)
            /\ p # NoCredential => /\ r.accepted_at >= p.accepted_at
                                   /\ within_ceiling(r.event.actor, p.grant.permissions)
      BY <1>1, <2>6, HistoricalAuthority
    <3> QED
      BY <1>2, <2>4, <2>5, <3>1
  <2>8. CASE ~Authorized(D, e, now)
    BY <1>2, <1>4, <1>5, <2>7, <2>8 DEF ReplayStep
  <2>9. CASE Authorized(D, e, now)
    <3>1. e.kind = "grant" => e.grant.expires_at > now
      BY <1>1, <1>2 DEF Admitted
    <3>2. Replayed(records', D) = Materialized(e, "active", now, p)
      BY <1>2, <1>4, <2>2, <2>4, <2>5, <2>7, <2>9, <3>1
         DEF ReplayStep, materialize_delegation_credential
    <3>3. e \in Event(0..Never) /\ now \in 0..Never
      BY <1>2, <1>3 DEF Record
    <3>4. p \in Outcome
      BY <2>1 DEF Agrees, Outcome
    <3> PICK c, m : c = credential' /\ m = Materialized(e, "active", now, p)
      OBVIOUS
    <3>5. MaterializedFrom(m, e, now, p)
      BY <2>2, <2>4, <3>3, <3>4, MaterializedExact
    <3>6. MaterializedFrom(c, e, now, credential)
      BY <1>1
    <3>7. c # NoCredential
      BY <3>6 DEF MaterializedFrom
    <3>8. /\ m \in Credential /\ m.event_id = c.event_id /\ m.controller = c.controller
          /\ m.accepted_at = c.accepted_at
      BY <3>5, <3>6 DEF MaterializedFrom
    <3>9. /\ m.grant = c.grant /\ m.grant_event_id = c.grant_event_id
          /\ (m.status = "revoked") = (c.status = "revoked")
      <4>1. CASE e.kind = "revoke"
        <5>1. credential \in Credential /\ credential # NoCredential
          BY <3>6, <4>1 DEF MaterializedFrom
        <5>2. p.grant = credential.grant /\ p.grant_event_id = credential.grant_event_id
          BY <2>1, <5>1 DEF Agrees
        <5> QED
          BY <3>5, <3>6, <4>1, <5>2 DEF MaterializedFrom
      <4>2. CASE e.kind # "revoke"
        BY <3>5, <3>6, <4>2 DEF MaterializedFrom
      <4> QED
        BY <4>1, <4>2
    <3>10. Agrees(m, c)
      BY <3>7, <3>8, <3>9 DEF Agrees
    <3> QED
      BY <1>5, <1>7, <2>9, <3>2, <3>10
  <2> QED
    BY <2>8, <2>9
<1> QED
  BY <1>6, <1>7

LEMMA DelegationStepReplays ==
  DelegationSound /\ ReplayAgrees /\ [DelegationNext]_delegation_vars => ReplayAgrees'
<1> SUFFICES ASSUME DelegationSound, ReplayAgrees, [DelegationNext]_delegation_vars
             PROVE  ReplayAgrees'
  OBVIOUS
<1>1. CASE UNCHANGED <<records, credential>>
  BY <1>1 DEF ReplayAgrees, AllAuthorized
<1>2. CASE \E e \in Event(0..now) : SubmitSigned(e) \/ OtherSubmits(e)
  <2>1. PICK e \in Event(0..now) : Accept(e)
    BY <1>2 DEF SubmitSigned, OtherSubmits
  <2> QED
    BY <2>1, AcceptReplays
<1>3. CASE SetStatus("active", "suspended") \/ SetStatus("suspended", "active")
  <2>1. PICK to \in {"active", "suspended"} :
           /\ credential # NoCredential /\ credential.status # "revoked"
           /\ credential' = [credential EXCEPT !.status = to] /\ records' = records
    BY <1>3 DEF SetStatus
  <2>2. credential \in Credential
    BY <2>1 DEF DelegationSound, CredentialSound
  <2> PICK c, d : c = credential /\ d = credential'
    OBVIOUS
  <2>3. c \in Credential /\ c # NoCredential /\ c.status # "revoked" /\ d = [c EXCEPT !.status = to]
    BY <2>1, <2>2
  <2>4. /\ d \in Credential /\ d.status # "revoked" /\ d.grant = c.grant
        /\ d.accepted_at = c.accepted_at /\ d.event_id = c.event_id
        /\ d.grant_event_id = c.grant_event_id /\ d.controller = c.controller
    BY <2>3 DEF Credential
  <2>5. d # NoCredential
    BY <2>4
  <2>6. ASSUME NEW p, Agrees(p, c) PROVE Agrees(p, d)
    BY <2>3, <2>4, <2>5, <2>6 DEF Agrees
  <2> QED
    BY <2>1, <2>6 DEF ReplayAgrees, AllAuthorized
<1>4. CASE Tick \/ ResolvePrincipal \/ QueryDelegations \/ AllDelegationEvents
  BY <1>1, <1>4 DEF Tick, ResolvePrincipal, QueryDelegations, AllDelegationEvents
<1>5. CASE \/ \E k \in Keys : Register(k) \/ Retire(k)
           \/ \E k \in Keys, t \in 0..MaxTime : Compromise(k, t)
  BY <1>1, <1>5 DEF Register, Retire, Compromise, Publish
<1> QED
  BY <1>1, <1>2, <1>3, <1>4, <1>5 DEF DelegationNext, delegation_vars

(* Whoever replays the whole history with the document of the day finds    *)
(* the credential the service has, unless a key has lost its authority at  *)
(* the time of one of its events; then the audit fails (delegation.rs,     *)
(* audit_delegation_history).                                              *)
THEOREM AuditStaysExact == DelegationSpec => []AuditExact
<1>1. DelegationInit => ReplayAgrees
  <2> SUFFICES ASSUME DelegationInit PROVE ReplayAgrees
    OBVIOUS
  <2>1. records = <<>> /\ credential = NoCredential /\ DOMAIN records = {}
    BY DEF DelegationInit
  <2>2. \A D : Replayed(records, D) = NoCredential
    BY <2>1, ReplayNothing
  <2> QED
    BY <2>1, <2>2 DEF ReplayAgrees, AllAuthorized, Agrees
<1>2. DelegationSound /\ ReplayAgrees /\ [DelegationNext]_delegation_vars => ReplayAgrees'
  BY DelegationStepReplays
<1>3. DelegationSound /\ ReplayAgrees => AuditExact
  <2> SUFFICES ASSUME DelegationSound, ReplayAgrees, credential # NoCredential
               PROVE  audit_delegation_history(credential, records, doc) <=> AllAuthorized(doc)
    BY DEF AuditExact, AllAuthorized
  <2>1. SoundDocument(doc) /\ records # <<>>
    <3>1. \E i \in DOMAIN records : records[i].event = credential.event_id
      BY DEF DelegationSound, CredentialSound
    <3> QED
      BY <3>1 DEF DelegationSound
  <2> PICK p : p = Replayed(records, doc)
    OBVIOUS
  <2>2. IF AllAuthorized(doc) THEN Agrees(p, credential) ELSE p = Refused
    BY <2>1 DEF ReplayAgrees
  <2>3. CASE AllAuthorized(doc)
    <3>1. Agrees(p, credential) /\ p # Refused
      BY <2>2, <2>3 DEF Agrees
    <3> QED
      BY <2>1, <2>3, <3>1 DEF audit_delegation_history, Agrees
  <2>4. CASE ~AllAuthorized(doc)
    BY <2>2, <2>4 DEF audit_delegation_history
  <2> QED
    BY <2>3, <2>4
<1> QED
  BY <1>1, <1>2, <1>3, DelegationStaysSound, PTL DEF DelegationSpec
=============================================================================
