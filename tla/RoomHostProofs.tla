----------------------------- MODULE RoomHostProofs -----------------------------
(***************************************************************************)
(* A room at its host, for every set of agents, contracts, updates, types  *)
(* and packs, and every clock: it never goes back, its registry is what    *)
(* the records declare, each record shows the authority behind it, the     *)
(* records replay to the host's state, and their archive is exact.         *)
(***************************************************************************)
EXTENDS RoomHost, FiniteSetTheorems, TLAPS

(* A set of natural numbers has a least element.                           *)
LEMMA LeastNumber ==
  ASSUME NEW T \in SUBSET Nat, T # {}
  PROVE  \E x \in T : \A y \in T : x <= y
<1> DEFINE R == {ss \in Nat \X Nat : ss[1] < ss[2]}
<1>1. IsWellFoundedOn(R, Nat)
  BY NatLessThanWellFounded DEF OpToRel
<1>2. \A x, y \in Nat : <<y, x>> \in R <=> y < x
  OBVIOUS
<1> HIDE DEF R
<1>3. PICK x \in T : \A y \in T : ~ (<<y, x>> \in R)
  BY <1>1, WFMin
<1>4. ASSUME NEW y \in T PROVE x <= y
  <2>1. x \in Nat /\ y \in Nat
    OBVIOUS
  <2>2. ~ (y < x)
    BY <1>2, <1>3, <2>1
  <2> QED
    BY <2>1, <2>2
<1> QED
  BY <1>4
(* A bounded set of natural numbers has a maximum, and Max is it.          *)
LEMMA MaxOfBounded ==
  ASSUME NEW b \in Nat, NEW T \in SUBSET (0..b), T # {}
  PROVE  /\ Max(T) \in T
         /\ \A y \in T : Max(T) >= y
<1> DEFINE U == {n \in Nat : b - n \in T}
<1>1. U \in SUBSET Nat /\ U # {}
  <2>1. PICK x \in T : TRUE
    OBVIOUS
  <2>2. b - x \in Nat /\ b - (b - x) = x
    BY <2>1
  <2> QED
    BY <2>1, <2>2
<1>2. PICK u \in U : \A v \in U : u <= v
  BY <1>1, LeastNumber
<1>3. b - u \in T /\ u \in Nat
  OBVIOUS
<1>4. ASSUME NEW y \in T PROVE b - u >= y
  <2>1. b - y \in Nat /\ b - (b - y) = y
    OBVIOUS
  <2>2. b - y \in U
    BY <2>1
  <2>3. u <= b - y
    BY <1>2, <2>2
  <2> QED
    BY <2>1, <2>3, <1>3
<1> QED
  BY <1>3, <1>4 DEF Max
(* A number is the greatest of those up to it.                             *)
LEMMA UpTo ==
  ASSUME NEW k \in Nat, k > 0
  PROVE  Max(1..k) = k /\ 1..k # {} /\ (1..k) \ {k} = 1..(k - 1)
<1>1. 1..k \in SUBSET (0..k) /\ 1..k # {} /\ k \in 1..k
  OBVIOUS
<1>2. Max(1..k) \in 1..k /\ \A y \in 1..k : Max(1..k) >= y
  BY <1>1, MaxOfBounded
<1> QED
  BY <1>1, <1>2

(* A function on the sets of places 1 to n that a fold computes, when G is *)
(* its step at a place and a value.                                        *)
IsFold(it, n, A, base, G) ==
    /\ it \in [SUBSET (1..n) -> A]
    /\ \A s \in SUBSET (1..n) :
          it[s] = IF s = {} THEN base ELSE G[<<Max(s), it[s \ {Max(s)}]>>]

(* The recursion of a fold has a solution.                                 *)
LEMMA FoldExists ==
  ASSUME NEW n \in Nat, NEW A, NEW base \in A, NEW G \in [(1..n) \X A -> A]
  PROVE  \E it : IsFold(it, n, A, base, G)
<1> DEFINE Solves(it, k) ==
             /\ it \in [SUBSET (1..k) -> A]
             /\ \A s \in SUBSET (1..k) :
                   it[s] = IF s = {} THEN base ELSE G[<<Max(s), it[s \ {Max(s)}]>>]
           Bad == {k \in Nat : k <= n /\ ~ \E it : Solves(it, k)}
<1>1. Bad = {}
  <2> SUFFICES ASSUME Bad # {} PROVE FALSE
    OBVIOUS
  <2>1. PICK k \in Bad : \A j \in Bad : k <= j
    BY LeastNumber
  <2>0. k \in Nat /\ k <= n /\ \A it : ~ Solves(it, k)
    BY <2>1
  <2>2. CASE k = 0
    <3>1. 1..k = {}
      BY <2>2
    <3>2. Solves([s \in SUBSET (1..k) |-> base], k)
      BY <3>1
    <3> QED
      <4> HIDE DEF Solves
      <4> QED
        BY <2>0, <3>2
  <2>3. CASE k # 0
    <3>1. k \in Nat /\ k - 1 \in Nat /\ k - 1 <= n /\ k <= n /\ ~(k <= k - 1)
      BY <2>3
    <3>2. k - 1 \notin Bad
      BY <2>1, <3>1
    <3>3. PICK f : Solves(f, k - 1)
      BY <3>1, <3>2
    <3>4. ASSUME NEW s \in SUBSET (1..k), s # {}
          PROVE  /\ Max(s) \in 1..n
                 /\ s \ {Max(s)} \in SUBSET (1..(k - 1)) /\ s \ {Max(s)} \in SUBSET (1..k)
      <4>1. s \in SUBSET (0..k)
        OBVIOUS
      <4>2. Max(s) \in s /\ \A y \in s : Max(s) >= y
        BY <3>1, <3>4, <4>1, MaxOfBounded
      <4>3. ASSUME NEW y \in s \ {Max(s)} PROVE y \in 1..(k - 1)
        <5>1. y \in 1..k /\ Max(s) \in 1..k /\ Max(s) >= y /\ Max(s) # y
          BY <4>2, <4>3
        <5> QED
          BY <3>1, <5>1
      <4>4. Max(s) \in 1..n
        <5>1. Max(s) \in 1..k
          BY <4>2
        <5> QED
          BY <3>1, <5>1
      <4> QED
        BY <4>3, <4>4
    <3> DEFINE g == [s \in SUBSET (1..k) |->
                       IF s = {} THEN base ELSE G[<<Max(s), f[s \ {Max(s)}]>>]]
    <3>5. g \in [SUBSET (1..k) -> A]
      <4>1. ASSUME NEW s \in SUBSET (1..k), s # {}
            PROVE  G[<<Max(s), f[s \ {Max(s)}]>>] \in A
        BY <3>3, <3>4, <4>1
      <4> QED
        BY <4>1
    <3>6. ASSUME NEW t \in SUBSET (1..(k - 1)) PROVE g[t] = f[t]
      <4>1. t \in SUBSET (1..k)
        BY <3>1
      <4> QED
        BY <3>3, <4>1
    <3>7. ASSUME NEW s \in SUBSET (1..k)
          PROVE  g[s] = IF s = {} THEN base ELSE G[<<Max(s), g[s \ {Max(s)}]>>]
      <4>1. CASE s = {}
        BY <4>1
      <4>2. CASE s # {}
        BY <4>2, <3>4, <3>6
      <4> QED
        BY <4>1, <4>2
    <3>8. Solves(g, k)
      <4> HIDE DEF g
      <4> QED
        BY <3>5, <3>7
    <3> QED
      <4> HIDE DEF Solves, g
      <4> QED
        BY <2>0, <3>8
  <2> QED
    BY <2>2, <2>3
<1>2. \E it : Solves(it, n)
  <2>1. n \notin Bad
    <3> HIDE DEF Bad
    <3> QED
      BY <1>1
  <2> HIDE DEF Solves
  <2> QED
    BY <2>1
<1> QED
  BY <1>2 DEF IsFold
-----------------------------------------------------------------------------
USE RoomAssumption, PacksAssumption, CreationsAssumption, UpdatesAssumption,
    DeclarationsAssumption

Contract ==
    [visibility : Visibilities, policy : RoomPolicy, start_time : Nat, end_time : Nat,
     finished : {"no", "ended", "cancelled"}]

(* What the state of a room is computed from. *)
Timed == now \in Nat /\ contract \in Contract

(* The state of a room is one of four, and by the clock alone it only      *)
(* moves on.                                                               *)
LEMMA States ==
  ASSUME NEW c \in Contract, NEW t \in Nat
  PROVE  /\ StateAt(c, t) \in {"scheduled", "active", "ended", "cancelled"}
         /\ Order(StateAt(c, t + 1)) >= Order(StateAt(c, t))
         /\ Order(StateAt(c, t)) = 2 => StateAt(c, t + 1) = StateAt(c, t)
         /\ StateAt(c, t + 1) = "cancelled" => StateAt(c, t) = "cancelled"
<1>1. CASE c.finished # "no"
  BY <1>1 DEF Contract, StateAt, Order
<1>2. CASE c.finished = "no" /\ t < c.start_time
  BY <1>2 DEF Contract, StateAt, Order
<1>3. CASE c.finished = "no" /\ ~(t < c.start_time)
  <2>1. ~(t + 1 < c.start_time)
    BY <1>3 DEF Contract
  <2>2. CASE t < c.end_time
    BY <1>3, <2>1, <2>2 DEF Contract, StateAt, Order
  <2>3. CASE ~(t < c.end_time)
    <3>1. ~(t + 1 < c.end_time)
      BY <2>3 DEF Contract
    <3> QED
      BY <1>3, <2>1, <2>3, <3>1 DEF Contract, StateAt, Order
  <2> QED
    BY <2>2, <2>3
<1> QED
  BY <1>1, <1>2, <1>3

(* Nothing is written to a room that is over. *)
LEMMA WritesToOpenRooms ==
  ASSUME NEW type, NEW actor, NEW payload, NEW direct,
         Write(type, actor, payload, direct)
  PROVE  /\ now' = now
         /\ RoomState \in {"scheduled", "active"}
         /\ can_write_in_state(type, RoomState)
BY DEF Write, validate_room_write, can_write_in_state

(* What StateNeverGoesBack says of one step. *)
GoesOn ==
    /\ Order(RoomState') >= Order(RoomState)
    /\ Order(RoomState) = 2 => RoomState' = RoomState /\ log' = log
    /\ RoomState' = "cancelled" => RoomState \in {"scheduled", "cancelled"}

(* A step that leaves contract and clock alone and writes, if at all, to a *)
(* room that is open.                                                      *)
LEMMA StaysAsItIs ==
  ASSUME Timed, UNCHANGED <<now, contract>>,
         log' = log \/ RoomState \in {"scheduled", "active"}
  PROVE  Timed' /\ GoesOn
<1>1. RoomState' = RoomState
  BY DEF RoomState
<1>2. RoomState \in {"scheduled", "active", "ended", "cancelled"}
  BY States DEF RoomState, Timed
<1> QED
  BY <1>1, <1>2 DEF Timed, GoesOn, Order

(* An update of the contract, in a room not yet over, may move its start   *)
(* and its end; once active the room keeps its start and an end to come.   *)
LEMMA UpdateGoesOn ==
  ASSUME Timed, NEW a \in Agents, NEW u \in Updates, Update(a, u)
  PROVE  Timed' /\ GoesOn
<1> DEFINE c == [contract EXCEPT !.policy = Effective(u.policy, @),
                                 !.start_time = Effective(u.start_time, @),
                                 !.end_time = Effective(u.end_time, @)]
<1>1. now' = now /\ RoomState \in {"scheduled", "active"} /\ contract' = c
  BY WritesToOpenRooms DEF Update
<1>2. c \in Contract
  BY DEF Timed, Contract, Effective
<1>3. c.finished = contract.finished
  BY DEF Timed, Contract
<1>4. contract.finished = "no"
  BY <1>1 DEF Timed, Contract, RoomState, StateAt
<1>5. RoomState' = StateAt(c, now)
  BY <1>1 DEF RoomState
<1>6. RoomState' \in {"scheduled", "active", "ended"}
  BY <1>2, <1>3, <1>4, <1>5 DEF Timed, StateAt
<1>7. RoomState = "active" => RoomState' = "active"
  <2> SUFFICES ASSUME RoomState = "active" PROVE RoomState' = "active"
    OBVIOUS
  <2>1. u.start_time = Absent /\ now < c.end_time
    BY DEF Update
  <2>2. c.start_time = contract.start_time
    BY <2>1 DEF Timed, Contract, Effective
  <2>3. ~(now < contract.start_time)
    BY <1>4 DEF RoomState, StateAt
  <2> QED
    BY <1>3, <1>4, <1>5, <2>1, <2>2, <2>3 DEF StateAt
<1> QED
  BY <1>1, <1>2, <1>6, <1>7 DEF Timed, GoesOn, Order

(* Closing and cancelling; only a room that has not started is cancelled.  *)
LEMMA FinishGoesOn ==
  ASSUME Timed, NEW a \in Agents, NEW t \in {"room.close", "room.cancel"}, Finish(t, a)
  PROVE  Timed' /\ GoesOn
<1> DEFINE f == IF t = "room.cancel" THEN "cancelled" ELSE "ended"
<1>1. /\ now' = now /\ RoomState \in {"scheduled", "active"}
      /\ contract' = [contract EXCEPT !.finished = f]
      /\ can_write_in_state(t, RoomState)
  BY WritesToOpenRooms DEF Finish
<1>2. contract' \in Contract /\ contract'.finished = f
  BY <1>1 DEF Timed, Contract
<1>3. RoomState' = f
  BY <1>2 DEF RoomState, StateAt
<1>4. f = "cancelled" => RoomState = "scheduled"
  BY <1>1 DEF can_write_in_state
<1> QED
  BY <1>1, <1>2, <1>3, <1>4 DEF Timed, GoesOn, Order

(* Every step of the host keeps the room's times typed and moves the state *)
(* of the room forward, if at all.                                         *)
LEMMA EveryStepGoesOn ==
  ASSUME Timed, [Next]_vars
  PROVE  Timed' /\ (GoesOn \/ UNCHANGED vars)
<1>1. CASE Tick
  <2>1. now' = now + 1 /\ contract' = contract /\ log' = log
    BY <1>1 DEF Tick
  <2>2. RoomState' = StateAt(contract, now + 1)
    BY <2>1 DEF RoomState
  <2> QED
    BY <2>1, <2>2, States DEF Timed, GoesOn, RoomState
<1>2. ASSUME NEW d \in Declarations, NEW a \in Agents, TypeDefine(a, d)
      PROVE  Timed' /\ GoesOn
  <2>1. UNCHANGED <<now, contract>> /\ RoomState \in {"scheduled", "active"}
    BY <1>2 DEF TypeDefine, Write, validate_room_write, can_write_in_state
  <2> QED
    BY <2>1, StaysAsItIs
<1>3. ASSUME NEW a \in Agents, NEW u \in Updates, Update(a, u) PROVE Timed' /\ GoesOn
  BY <1>3, UpdateGoesOn
<1>4. ASSUME NEW a \in Agents, NEW t \in {"room.close", "room.cancel"}, Finish(t, a)
      PROVE  Timed' /\ GoesOn
  BY <1>4, FinishGoesOn
<1>5. ASSUME NEW a \in Agents, Leave(a) PROVE Timed' /\ GoesOn
  BY <1>5, WritesToOpenRooms, StaysAsItIs DEF Leave
<1>6. ASSUME NEW a \in Agents, NEW t, Post(a, t) PROVE Timed' /\ GoesOn
  BY <1>6, WritesToOpenRooms, StaysAsItIs DEF Post
<1>7. ASSUME NEW a \in Agents, NEW r, Join(a, r) PROVE Timed' /\ GoesOn
  BY <1>7, WritesToOpenRooms, StaysAsItIs DEF Join
<1>8. ASSUME NEW a \in Agents, NEW r, JoinRequest(a, r) PROVE Timed' /\ GoesOn
  BY <1>8, StaysAsItIs DEF JoinRequest
<1>9. ASSUME NEW a \in Agents, NEW b \in Agents, NEW r, RoleUpdate(a, b, r)
      PROVE  Timed' /\ GoesOn
  BY <1>9, WritesToOpenRooms, StaysAsItIs DEF RoleUpdate
<1>10. ASSUME NEW a \in Agents, NEW b \in Agents, NEW ban \in BOOLEAN, RemoveMember(a, b, ban)
       PROVE  Timed' /\ GoesOn
  BY <1>10, WritesToOpenRooms, StaysAsItIs DEF RemoveMember
<1>11. ASSUME NEW a \in Agents, NEW q \in requests, NEW d, NEW r, Review(a, q, d, r)
       PROVE  Timed' /\ GoesOn
  BY <1>11, WritesToOpenRooms, StaysAsItIs DEF Review
<1>12. CASE UNCHANGED vars
  BY <1>12 DEF vars, Timed
<1> QED
  BY <1>1, <1>2, <1>3, <1>4, <1>5, <1>6, <1>7, <1>8, <1>9, <1>10, <1>11, <1>12 DEF Next

(* A room moves from scheduled to active to ended, or is cancelled before  *)
(* it starts; neither clock nor updates take it back, and what is over     *)
(* takes no record (can_write_in_state, and the updates a host accepts).   *)
THEOREM NeverGoesBack == Spec => StateNeverGoesBack
<1>1. Init => Timed
  BY DEF Init, Timed, Contract
<1>2. Timed /\ [Next]_vars => Timed'
  BY EveryStepGoesOn
<1>3. Timed /\ [Next]_vars => [GoesOn]_vars
  BY EveryStepGoesOn
<1> QED
  BY <1>1, <1>2, <1>3, PTL DEF Spec, StateNeverGoesBack, GoesOn
-----------------------------------------------------------------------------
(* The registry *)

(* The registry of a host, and the result of a change of it.               *)
Registries == [TypeNames -> TypeDef \cup {Absent}]
Results == [ok : BOOLEAN, names : Seq(TypeNames), registry : Registries]

(* What define, and so each step of an import, does to a result.           *)
LEMMA DefineExact ==
  ASSUME NEW r \in Results, NEW def \in TypeDef
  PROVE  /\ define(r, def) \in Results
         /\ define(r, def).ok =>
               /\ r.ok
               /\ r.registry[def.name] # Absent => r.registry[def.name].kind = def.kind
               /\ define(r, def).registry = [r.registry EXCEPT ![def.name] = def]
<1> DEFINE defined == [ok |-> TRUE, names |-> Append(r.names, def.name),
                       registry |-> [r.registry EXCEPT ![def.name] = def]]
           refused == [r EXCEPT !.ok = FALSE]
           fits == /\ r.ok /\ validate_type_def(def)
                   /\ r.registry[def.name] # Absent => r.registry[def.name].kind = def.kind
<1>1. define(r, def) = IF fits THEN defined ELSE refused
  BY DEF define
<1>2. def.name \in TypeNames /\ r.registry \in Registries /\ r.names \in Seq(TypeNames)
  BY DEF TypeDef, Results
<1>3. [r.registry EXCEPT ![def.name] = def] \in Registries
  BY <1>2 DEF Registries
<1>4. defined \in Results
  <2>1. Append(r.names, def.name) \in Seq(TypeNames)
    BY <1>2
  <2> QED
    BY <1>3, <2>1 DEF Results
<1>5. refused \in Results /\ ~refused.ok
  BY DEF Results
<1> QED
  BY <1>1, <1>4, <1>5

(* An override keeps the name and the kind of a type.                      *)
LEMMA OverriddenExact ==
  ASSUME NEW def \in TypeDef, NEW over \in TypeOverride \cup {Absent}
  PROVE  /\ Overridden(def, over) \in TypeDef
         /\ Overridden(def, over).name = def.name /\ Overridden(def, over).kind = def.kind
<1>1. CASE over = Absent
  BY <1>1 DEF Overridden
<1>2. CASE over # Absent
  <2> DEFINE new == [f \in DOMAIN def |->
                       IF f \in DOMAIN over /\ over[f] # Absent THEN over[f] ELSE def[f]]
  <2>1. Overridden(def, over) = new
    BY <1>2 DEF Overridden
  <2>2. /\ DOMAIN def = {"name", "kind", "roles", "status"}
        /\ DOMAIN over = {"roles", "status"}
        /\ def = [name |-> def.name, kind |-> def.kind, roles |-> def.roles, status |-> def.status]
    BY <1>2 DEF TypeDef, TypeOverride
  <2>3. new = [name |-> def.name, kind |-> def.kind, roles |-> new.roles, status |-> new.status]
    BY <2>2
  <2>4. new.roles \in {over.roles, def.roles} /\ new.status \in {over.status, def.status}
        /\ (new.roles = over.roles \/ new.roles = def.roles)
    BY <2>2
  <2>5. new.roles \in (SUBSET Roles) \cup {Absent}
    BY <1>2, <2>4 DEF TypeDef, TypeOverride
  <2>6. new.status \in {"active", "deprecated", "disabled"}
    <3>1. over.status # Absent => over.status \in {"active", "deprecated", "disabled"}
      BY <1>2 DEF TypeOverride
    <3>2. def.status \in {"active", "deprecated", "disabled"}
      BY DEF TypeDef
    <3>3. new.status = IF over.status # Absent THEN over.status ELSE def.status
      BY <2>2
    <3> QED
      BY <3>1, <3>2, <3>3
  <2>7. def.name \in TypeNames /\ def.kind \in Kinds
    BY DEF TypeDef
  <2> HIDE DEF new
  <2>8. new \in TypeDef /\ new.name = def.name /\ new.kind = def.kind
    BY <2>3, <2>5, <2>6, <2>7 DEF TypeDef
  <2> QED
    BY <2>1, <2>8
<1> QED
  BY <1>1, <1>2
-----------------------------------------------------------------------------
(* An import is a fold over the types of its pack.                         *)
ImportStep(d, r, def) ==
    IF def.name \in Imported(d) THEN define(r, Overridden(def, d.overrides[def.name])) ELSE r

ImportFold(staged, d) ==
    CHOOSE it : it = [s \in SUBSET DOMAIN Packs[d.pack] |->
        IF s = {} THEN staged ELSE ImportStep(d, it[s \ {Max(s)}], Packs[d.pack][Max(s)])]

LEMMA ImportDef ==
  ASSUME NEW staged, NEW d
  PROVE  import(staged, d) =
            IF ~(validate_pack_import(d) /\ PackResolves(d)) THEN [staged EXCEPT !.ok = FALSE]
            ELSE ImportFold(staged, d)[DOMAIN Packs[d.pack]]
BY Zenon DEF import, FoldLeft, MapThenFoldSet, ImportFold, ImportStep

LEMMA ImportStepTyped ==
  ASSUME NEW d \in PackImport, NEW r \in Results, NEW def \in TypeDef
  PROVE  ImportStep(d, r, def) \in Results
<1>1. d.overrides[def.name] \in TypeOverride \cup {Absent}
  BY DEF PackImport, TypeDef
<1>2. Overridden(def, d.overrides[def.name]) \in TypeDef
  BY <1>1, OverriddenExact
<1> QED
  BY <1>2, DefineExact DEF ImportStep

(* The value the fold has at the first k types: one step after another.    *)
LEMMA ImportFoldSteps ==
  ASSUME NEW d \in PackImport, d.pack \in DOMAIN Packs, NEW staged \in Results
  PROVE  LET it == ImportFold(staged, d)
             pack == Packs[d.pack]
         IN  /\ it[{}] = staged
             /\ \A k \in 1..Len(pack) : it[1..k] = ImportStep(d, it[1..(k - 1)], pack[k])
<1> DEFINE pack == Packs[d.pack]
           n == Len(pack)
           G == [x \in (1..n) \X Results |-> ImportStep(d, x[2], pack[x[1]])]
           Is(it) == it = [s \in SUBSET DOMAIN pack |->
                       IF s = {} THEN staged ELSE ImportStep(d, it[s \ {Max(s)}], pack[Max(s)])]
<1>0. pack \in Seq(TypeDef)
  OBVIOUS
<1>1. n \in Nat /\ DOMAIN pack = 1..n /\ \A k \in 1..n : pack[k] \in TypeDef
  BY <1>0
<1> HIDE DEF pack
<1>2. G \in [(1..n) \X Results -> Results]
  <2>1. ASSUME NEW k \in 1..n, NEW p \in Results PROVE ImportStep(d, p, pack[k]) \in Results
    BY <1>1, ImportStepTyped
  <2> HIDE DEF n
  <2> QED
    BY <2>1
<1>3. PICK it : IsFold(it, n, Results, staged, G)
  <2> HIDE DEF G, n
  <2> QED
    BY <1>1, <1>2, FoldExists
<1>4. ASSUME NEW s \in SUBSET (1..n), s # {}
      PROVE  Max(s) \in 1..n /\ s \ {Max(s)} \in SUBSET (1..n)
  <2>1. s \in SUBSET (0..n)
    BY <1>1
  <2>2. Max(s) \in s
    BY <1>1, <1>4, <2>1, MaxOfBounded
  <2> QED
    BY <2>2
<1>5. ASSUME NEW s \in SUBSET (1..n), s # {}
      PROVE  G[<<Max(s), it[s \ {Max(s)}]>>] = ImportStep(d, it[s \ {Max(s)}], pack[Max(s)])
  BY <1>3, <1>4, <1>5 DEF IsFold
<1>6. Is(it)
  <2> HIDE DEF G
  <2> QED
    BY <1>1, <1>3, <1>5 DEF IsFold
<1> DEFINE f == ImportFold(staged, d)
<1>7. Is(f)
  <2>1. \E g : Is(g)
    BY <1>6
  <2> QED
    BY <2>1 DEF ImportFold, pack
<1>8. ASSUME NEW k \in 1..n
      PROVE  1..k \in SUBSET (1..n) /\ Max(1..k) = k /\ 1..k # {} /\ (1..k) \ {k} = 1..(k - 1)
  <2>1. k \in Nat /\ k > 0 /\ 1..k \in SUBSET (1..n)
    BY <1>1
  <2> QED
    BY <2>1, UpTo
<1> HIDE DEF f, n
<1>9. f[{}] = staged /\ \A k \in 1..n : f[1..k] = ImportStep(d, f[1..(k - 1)], pack[k])
  <2>1. \A s \in SUBSET (1..n) :
           f[s] = IF s = {} THEN staged ELSE ImportStep(d, f[s \ {Max(s)}], pack[Max(s)])
    BY <1>1, <1>7
  <2> QED
    BY <1>8, <2>1
<1> QED
  BY <1>9 DEF f, n, pack

(* A pack that resolves has no two types of one name.                      *)
LEMMA PackNamesUnique ==
  ASSUME NEW p \in DOMAIN Packs, Cardinality(PackNames(p)) = Len(Packs[p]),
         NEW i \in 1..Len(Packs[p]), NEW j \in 1..Len(Packs[p]),
         Packs[p][i].name = Packs[p][j].name
  PROVE  i = j
<1> DEFINE pack == Packs[p]
           n == Len(pack)
           Rest == (1..n) \ {j}
           Names == {pack[k].name : k \in Rest}
<1> SUFFICES ASSUME i # j PROVE FALSE
  OBVIOUS
<1>0. pack \in Seq(TypeDef)
  OBVIOUS
<1>1. n \in Nat /\ DOMAIN pack = 1..n
  BY <1>0
<1>2. IsFiniteSet(1..n) /\ Cardinality(1..n) = n
  <2>1. Cardinality(1..n) = (n - 1) + 1
    BY <1>1, FS_Interval
  <2> QED
    BY <1>1, <2>1, FS_Interval
<1>3. IsFiniteSet(Rest) /\ Cardinality(Rest) = n - 1
  <2>1. j \in 1..n
    OBVIOUS
  <2> HIDE DEF n, pack
  <2> QED
    <3> DEFINE S == 1..n
    <3>1. IsFiniteSet(S) /\ Cardinality(S) = n /\ j \in S /\ Rest = S \ {j}
      BY <1>2, <2>1
    <3> HIDE DEF S, Rest
    <3>2. IsFiniteSet(S \ {j}) /\ Cardinality(S \ {j}) = Cardinality(S) - 1
      BY <3>1, FS_RemoveElement
    <3> QED
      BY <3>1, <3>2
<1>4. PackNames(p) = Names
  <2>1. ASSUME NEW k \in 1..n PROVE pack[k].name \in Names
    <3>1. CASE k = j
      BY <3>1
    <3>2. CASE k # j
      BY <3>2
    <3> QED
      BY <3>1, <3>2
  <2> QED
    BY <1>1, <2>1 DEF PackNames
<1>5. Cardinality(Names) <= n - 1
  <2> DEFINE g == [k \in Rest |-> pack[k].name]
  <2>1. g \in Surjection(Rest, Names)
    BY DEF Surjection
  <2> HIDE DEF g, Rest, Names
  <2> QED
    BY <1>3, <2>1, FS_Surjection
<1>6. Cardinality(Names) = n
  BY <1>4
<1> HIDE DEF n, Names
<1> QED
  <2>1. n <= n - 1
    BY <1>5, <1>6
  <2> QED
    BY <1>1, <2>1

(* What an import says of a type is what the pack says, overridden.        *)
LEMMA SaysOfImport ==
  ASSUME NEW d \in PackImport, PackResolves(d), NEW j \in 1..Len(Packs[d.pack])
  PROVE  LET def == Packs[d.pack][j]
             over == d.overrides[def.name]
         IN  /\ Says(d, def.name) = Overridden(def, over)
             /\ Overridden(def, over) \in TypeDef
             /\ Overridden(def, over).name = def.name
<1> DEFINE pack == Packs[d.pack]
           def == pack[j]
<1>1. d.pack \in DOMAIN Packs /\ Cardinality(PackNames(d.pack)) = Len(pack)
  BY DEF PackResolves
<1>2. pack \in Seq(TypeDef)
  BY <1>1
<1>3. DOMAIN pack = 1..Len(pack) /\ def \in TypeDef
  BY <1>2
<1>4. (CHOOSE x \in ToSet(pack) : x.name = def.name) = def
  <2>1. def \in ToSet(pack) /\ def.name = def.name
    BY <1>3 DEF ToSet
  <2>2. ASSUME NEW x \in ToSet(pack), x.name = def.name PROVE x = def
    <3>1. PICK i \in 1..Len(pack) : x = pack[i]
      BY <1>3 DEF ToSet
    <3>2. i = j
      BY <1>1, <2>2, <3>1, PackNamesUnique
    <3> QED
      BY <3>1, <3>2
  <2> HIDE DEF def, pack
  <2> QED
    BY <2>1, <2>2
<1>5. IsImport(d)
  BY DEF IsImport, PackImport
<1>6. d.overrides[def.name] \in TypeOverride \cup {Absent}
  BY <1>3 DEF PackImport, TypeDef
<1> QED
  BY <1>3, <1>4, <1>5, <1>6, OverriddenExact DEF Says

(* What an accepted declaration makes of the registry: of the types it     *)
(* covers, what it says, and no type changes its kind.                     *)
Applies(d, old, new) ==
    \A t \in TypeNames :
        IF Covers(d, t)
        THEN /\ new[t] = Says(d, t) /\ Says(d, t) \in TypeDef
             /\ old[t] # Absent => old[t].kind = Says(d, t).kind
        ELSE new[t] = old[t]

LEMMA ImportExact ==
  ASSUME NEW d \in PackImport, NEW staged \in Results
  PROVE  /\ import(staged, d) \in Results
         /\ import(staged, d).ok => Applies(d, staged.registry, import(staged, d).registry)
<1>1. CASE ~(validate_pack_import(d) /\ PackResolves(d))
  <2>1. import(staged, d) = [staged EXCEPT !.ok = FALSE]
    BY <1>1, ImportDef
  <2> QED
    BY <2>1 DEF Results
<1>2. CASE validate_pack_import(d) /\ PackResolves(d)
  <2> DEFINE pack == Packs[d.pack]
             n == Len(pack)
             f == ImportFold(staged, d)
             Took(k, t) == t \in Imported(d) /\ \E j \in 1..k : pack[j].name = t
             Right(k) ==
                /\ f[1..k] \in Results
                /\ f[1..k].ok => \A t \in TypeNames :
                      IF Took(k, t)
                      THEN /\ f[1..k].registry[t] = Says(d, t) /\ Says(d, t) \in TypeDef
                           /\ staged.registry[t] # Absent =>
                                 staged.registry[t].kind = Says(d, t).kind
                      ELSE f[1..k].registry[t] = staged.registry[t]
  <2>1. /\ d.pack \in DOMAIN Packs /\ Cardinality(PackNames(d.pack)) = n
        /\ Imported(d) \subseteq PackNames(d.pack)
    BY <1>2 DEF PackResolves
  <2>2. pack \in Seq(TypeDef)
    BY <2>1
  <2>3. n \in Nat /\ DOMAIN pack = 1..n /\ \A k \in 1..n : pack[k] \in TypeDef
    BY <2>2
  <2>4. f[{}] = staged /\ \A k \in 1..n : f[1..k] = ImportStep(d, f[1..(k - 1)], pack[k])
    BY <2>1, ImportFoldSteps
  <2>5. \A j \in 1..n : LET def == pack[j]
                            over == d.overrides[def.name]
                        IN  /\ Says(d, def.name) = Overridden(def, over)
                            /\ Overridden(def, over) \in TypeDef
                            /\ Overridden(def, over).name = def.name
    BY <1>2, SaysOfImport
  <2>6. \A i, j \in 1..n : pack[i].name = pack[j].name => i = j
    BY <2>1, PackNamesUnique
  <2> HIDE DEF f, n, pack
  <2>7. Right(0)
    <3>1. 1..0 = {}
      OBVIOUS
    <3> QED
      BY <2>4, <3>1
  <2>8. ASSUME NEW k \in 1..n, Right(k - 1) PROVE Right(k)
    <3> DEFINE def == pack[k]
               new == Overridden(def, d.overrides[def.name])
               r == f[1..(k - 1)]
               g == f[1..k]
    <3>1. /\ k \in Nat /\ k - 1 \in Nat /\ k \notin 1..(k - 1)
          /\ 1..(k - 1) \subseteq 1..n
          /\ \A j \in 1..k : j = k \/ j \in 1..(k - 1)
          /\ \A j \in 1..(k - 1) : j \in 1..k
      BY <2>3
    <3>2. def \in TypeDef /\ def.name \in TypeNames
      BY <2>3 DEF TypeDef
    <3>3. g = ImportStep(d, r, def) /\ r \in Results
      BY <2>4, <2>8
    <3>4. g \in Results
      BY <3>2, <3>3, ImportStepTyped
    <3>5. CASE def.name \notin Imported(d)
      <4>1. g = r
        BY <3>3, <3>5 DEF ImportStep
      <4>2. ASSUME NEW t \in TypeNames PROVE Took(k, t) <=> Took(k - 1, t)
        BY <3>1, <3>5
      <4> HIDE DEF Took
      <4> QED
        BY <2>8, <4>1, <4>2
    <3>6. CASE def.name \in Imported(d)
      <4>1. g = define(r, new)
        BY <3>3, <3>6 DEF ImportStep
      <4>2. Says(d, def.name) = new /\ new \in TypeDef /\ new.name = def.name
        BY <2>5
      <4> HIDE DEF r, g, new
      <4>3. ASSUME g.ok, NEW t \in TypeNames
            PROVE  IF Took(k, t)
                   THEN /\ g.registry[t] = Says(d, t) /\ Says(d, t) \in TypeDef
                        /\ staged.registry[t] # Absent => staged.registry[t].kind = Says(d, t).kind
                   ELSE g.registry[t] = staged.registry[t]
        <5>1. /\ r.ok /\ g.registry = [r.registry EXCEPT ![def.name] = new]
              /\ r.registry[def.name] # Absent => r.registry[def.name].kind = new.kind
          BY <3>3, <4>1, <4>2, <4>3, DefineExact
        <5>2. r.registry \in Registries
          BY <3>3 DEF Results
        <5>3. CASE t = def.name
          <6>1. Took(k, t)
            BY <3>1, <3>6, <5>3
          <6>2. ~Took(k - 1, t)
            BY <2>6, <3>1, <5>3
          <6>3. r.registry[t] = staged.registry[t]
            BY <2>8, <5>1, <6>2 DEF r
          <6>4. g.registry[t] = new
            BY <3>2, <5>1, <5>2, <5>3 DEF Registries
          <6> HIDE DEF Took
          <6> QED
            BY <4>2, <5>1, <5>3, <6>1, <6>3, <6>4
        <5>4. CASE t # def.name
          <6>1. Took(k, t) <=> Took(k - 1, t)
            BY <3>1, <5>4
          <6>2. g.registry[t] = r.registry[t]
            BY <5>1, <5>2, <5>4 DEF Registries
          <6> HIDE DEF Took
          <6> QED
            BY <2>8, <5>1, <6>1, <6>2 DEF r
        <5> QED
          BY <5>3, <5>4
      <4> QED
        BY <3>4, <4>3 DEF g
    <3> QED
      BY <3>5, <3>6
  <2>9. \A k \in 0..n : Right(k)
    <3> DEFINE Bad == {k \in 0..n : ~Right(k)}
    <3> HIDE DEF Right
    <3>1. SUFFICES ASSUME Bad # {} PROVE FALSE
      OBVIOUS
    <3>2. PICK k \in Bad : \A j \in Bad : k <= j
      <4>1. Bad \in SUBSET Nat
        OBVIOUS
      <4> HIDE DEF Bad
      <4> QED
        BY <3>1, <4>1, LeastNumber
    <3>3. k \in 0..n /\ ~Right(k) /\ k # 0
      BY <2>7
    <3>4. k \in 1..n /\ k - 1 \in 0..n /\ ~(k <= k - 1)
      BY <2>3, <3>3
    <3>5. Right(k - 1)
      BY <3>2, <3>4
    <3> QED
      BY <2>8, <3>3, <3>4, <3>5
  <2>10. n \in 0..n
    BY <2>3
  <2>11. Right(n)
    BY <2>9, <2>10
  <2>12. import(staged, d) = f[1..n]
    BY <1>2, <2>3, ImportDef DEF f, pack
  <2>13. ASSUME NEW t \in TypeNames PROVE Took(n, t) <=> Covers(d, t)
    <3>1. IsImport(d)
      BY DEF IsImport, PackImport
    <3>2. t \in Imported(d) => \E j \in 1..n : pack[j].name = t
      BY <2>1, <2>3 DEF PackNames, pack
    <3> QED
      BY <3>1, <3>2 DEF Covers
  <2> HIDE DEF Took
  <2> QED
    BY <2>11, <2>12, <2>13 DEF Applies
<1> QED
  BY <1>1, <1>2

LEMMA ApplyExact ==
  ASSUME NEW registry_ \in Registries, NEW d \in TypeDeclaration
  PROVE  LET r == apply(registry_, d)
         IN  /\ r \in Results
             /\ IF r.ok THEN Applies(d, registry_, r.registry) ELSE r.registry = registry_
<1> DEFINE start == Unchanged(registry_)
           done == IF IsImport(d) THEN import(start, d) ELSE define(start, d)
<1>1. apply(registry_, d) = IF done.ok THEN done ELSE [done EXCEPT !.registry = registry_]
  BY DEF apply
<1>2. start \in Results /\ start.registry = registry_
  <2>1. <<>> \in Seq(TypeNames)
    OBVIOUS
  <2> QED
    BY <2>1 DEF Unchanged, Results
<1>3. done \in Results /\ (done.ok => Applies(d, registry_, done.registry))
  <2>1. CASE d \in PackImport
    <3>1. IsImport(d)
      BY <2>1 DEF PackImport, IsImport
    <3> HIDE DEF start
    <3> QED
      BY <1>2, <2>1, <3>1, ImportExact
  <2>2. CASE d \in TypeDef
    <3>1. ~IsImport(d) /\ d.name \in TypeNames
      BY <2>2 DEF TypeDef, IsImport
    <3>2. done = define(start, d)
      BY <3>1
    <3> HIDE DEF start, done
    <3>3. done \in Results
      BY <1>2, <2>2, <3>2, DefineExact
    <3>4. ASSUME done.ok PROVE Applies(d, registry_, done.registry)
      <4>1. /\ registry_[d.name] # Absent => registry_[d.name].kind = d.kind
            /\ done.registry = [registry_ EXCEPT ![d.name] = d]
        BY <1>2, <2>2, <3>2, <3>4, DefineExact
      <4> QED
        BY <2>2, <3>1, <4>1 DEF Applies, Covers, Says, Registries
    <3> QED
      BY <3>3, <3>4
  <2> QED
    BY <2>1, <2>2 DEF TypeDeclaration
<1> HIDE DEF done
<1>4. CASE done.ok
  BY <1>1, <1>3, <1>4
<1>5. CASE ~done.ok
  <2>1. [done EXCEPT !.registry = registry_] \in Results
    BY <1>3 DEF Results
  <2>2. [done EXCEPT !.registry = registry_].ok = done.ok
        /\ [done EXCEPT !.registry = registry_].registry = registry_
    BY <1>3 DEF Results
  <2> QED
    BY <1>1, <1>5, <2>1, <2>2
<1> QED
  BY <1>4, <1>5
-----------------------------------------------------------------------------
(* What comes last is the greatest.                                        *)
LEMMA MaxOfNext ==
  ASSUME NEW n \in Nat, NEW S \in SUBSET (1..n)
  PROVE  Max(S \cup {n + 1}) = n + 1
<1> DEFINE T == S \cup {n + 1}
<1>1. T \in SUBSET (0..(n + 1)) /\ T # {} /\ n + 1 \in Nat /\ n + 1 \in T
  OBVIOUS
<1>2. \A y \in T : y \in Nat /\ n + 1 >= y
  OBVIOUS
<1> HIDE DEF T
<1>3. Max(T) \in T /\ Max(T) >= n + 1
  BY <1>1, MaxOfBounded
<1>4. Max(T) = n + 1
  <2>1. Max(T) \in Nat /\ n + 1 >= Max(T)
    BY <1>2, <1>3
  <2> QED
    BY <1>3, <2>1
<1> QED
  BY <1>4 DEF T

(* The declarations of room.create, one after another.                     *)
DeclareStep(r, d) ==
    LET a == apply(r.registry, d)
    IN  [ok |-> r.ok /\ a.ok /\ IsInjective(r.names \o a.names),
         names |-> r.names \o a.names, registry |-> a.registry]

Nothing == Unchanged([t \in TypeNames |-> Absent])

DeclareFold(ds) ==
    CHOOSE it : it = [s \in SUBSET DOMAIN ds |->
        IF s = {} THEN Nothing ELSE DeclareStep(it[s \ {Max(s)}], ds[Max(s)])]

LEMMA DeclareDef ==
  ASSUME NEW ds
  PROVE  from_declarations(ds) = DeclareFold(ds)[DOMAIN ds]
BY Zenon DEF from_declarations, FoldLeft, MapThenFoldSet, DeclareFold, DeclareStep, Nothing

LEMMA DeclareStepTyped ==
  ASSUME NEW r \in Results, NEW d \in TypeDeclaration
  PROVE  DeclareStep(r, d) \in Results
<1> DEFINE a == apply(r.registry, d)
<1>1. r.registry \in Registries /\ r.names \in Seq(TypeNames)
  BY DEF Results
<1>2. a \in Results
  BY <1>1, ApplyExact
<1> HIDE DEF a
<1>3. r.names \o a.names \in Seq(TypeNames) /\ a.registry \in Registries
  BY <1>1, <1>2 DEF Results
<1>4. DeclareStep(r, d) = [ok |-> r.ok /\ a.ok /\ IsInjective(r.names \o a.names),
                           names |-> r.names \o a.names, registry |-> a.registry]
  BY DEF DeclareStep, a
<1>5. (r.ok /\ a.ok /\ IsInjective(r.names \o a.names)) \in BOOLEAN
  OBVIOUS
<1> QED
  BY <1>3, <1>4, <1>5 DEF Results

LEMMA NothingTyped == Nothing \in Results /\ Nothing.registry = [t \in TypeNames |-> Absent]
<1>1. <<>> \in Seq(TypeNames)
  OBVIOUS
<1> QED
  BY <1>1 DEF Nothing, Unchanged, Results, Registries

LEMMA DeclareFoldSteps ==
  ASSUME NEW ds \in Seq(TypeDeclaration)
  PROVE  LET it == DeclareFold(ds)
         IN  /\ it[{}] = Nothing
             /\ \A k \in 1..Len(ds) : it[1..k] = DeclareStep(it[1..(k - 1)], ds[k])
<1> DEFINE n == Len(ds)
           G == [x \in (1..n) \X Results |-> DeclareStep(x[2], ds[x[1]])]
           Is(it) == it = [s \in SUBSET DOMAIN ds |->
                       IF s = {} THEN Nothing ELSE DeclareStep(it[s \ {Max(s)}], ds[Max(s)])]
<1>1. n \in Nat /\ DOMAIN ds = 1..n /\ \A k \in 1..n : ds[k] \in TypeDeclaration
  OBVIOUS
<1>2. G \in [(1..n) \X Results -> Results]
  <2>1. ASSUME NEW k \in 1..n, NEW p \in Results PROVE DeclareStep(p, ds[k]) \in Results
    BY <1>1, DeclareStepTyped
  <2> HIDE DEF n
  <2> QED
    BY <2>1
<1>3. PICK it : IsFold(it, n, Results, Nothing, G)
  <2> HIDE DEF G, n
  <2> QED
    BY <1>1, <1>2, FoldExists, NothingTyped
<1>4. ASSUME NEW s \in SUBSET (1..n), s # {}
      PROVE  Max(s) \in 1..n /\ s \ {Max(s)} \in SUBSET (1..n)
  <2>1. s \in SUBSET (0..n)
    BY <1>1
  <2>2. Max(s) \in s
    BY <1>1, <1>4, <2>1, MaxOfBounded
  <2> QED
    BY <2>2
<1>5. ASSUME NEW s \in SUBSET (1..n), s # {}
      PROVE  G[<<Max(s), it[s \ {Max(s)}]>>] = DeclareStep(it[s \ {Max(s)}], ds[Max(s)])
  BY <1>3, <1>4, <1>5 DEF IsFold
<1>6. Is(it)
  <2> HIDE DEF G
  <2> QED
    BY <1>1, <1>3, <1>5 DEF IsFold
<1> DEFINE f == DeclareFold(ds)
<1>7. Is(f)
  <2>1. \E g : Is(g)
    BY <1>6
  <2> QED
    BY <2>1 DEF DeclareFold
<1>8. ASSUME NEW k \in 1..n
      PROVE  1..k \in SUBSET (1..n) /\ Max(1..k) = k /\ 1..k # {} /\ (1..k) \ {k} = 1..(k - 1)
  <2>1. k \in Nat /\ k > 0 /\ 1..k \in SUBSET (1..n)
    BY <1>1
  <2> QED
    BY <2>1, UpTo
<1> HIDE DEF f, n
<1>9. f[{}] = Nothing /\ \A k \in 1..n : f[1..k] = DeclareStep(f[1..(k - 1)], ds[k])
  <2>1. \A s \in SUBSET (1..n) :
           f[s] = IF s = {} THEN Nothing ELSE DeclareStep(f[s \ {Max(s)}], ds[Max(s)])
    BY <1>1, <1>7
  <2>2. f[{}] = Nothing
    BY <2>1
  <2>3. ASSUME NEW k \in 1..n
        PROVE  f[1..k] = DeclareStep(f[1..(k - 1)], ds[k])
    <3>1. 1..k \in SUBSET (1..n) /\ Max(1..k) = k /\ 1..k # {} /\ (1..k) \ {k} = 1..(k - 1)
      BY <1>8
    <3>2. f[1..k] = IF 1..k = {} THEN Nothing
                    ELSE DeclareStep(f[(1..k) \ {Max(1..k)}], ds[Max(1..k)])
      BY <2>1, <3>1
    <3> QED
      BY <3>1, <3>2
  <2> QED
    BY <2>2, <2>3
<1> QED
  BY <1>9 DEF f, n

(* The registry after the first k declarations: of each type what the last *)
(* of them says, and of one kind whichever says it.                        *)
Covering(ds, k, t) == {i \in 1..k : Covers(ds[i], t)}

Declared(ds, k, new) ==
    \A t \in TypeNames :
        /\ new[t] = IF Covering(ds, k, t) = {} THEN Absent ELSE Says(ds[Max(Covering(ds, k, t))], t)
        /\ \A i \in Covering(ds, k, t) :
              Says(ds[i], t) \in TypeDef /\ Says(ds[i], t).kind = new[t].kind

LEMMA DeclaredNext ==
  ASSUME NEW ds, NEW k \in Nat, k > 0, NEW old, NEW new,
         Declared(ds, k - 1, old), Applies(ds[k], old, new)
  PROVE  Declared(ds, k, new)
<1> SUFFICES ASSUME NEW t \in TypeNames
             PROVE  /\ new[t] = IF Covering(ds, k, t) = {} THEN Absent
                                ELSE Says(ds[Max(Covering(ds, k, t))], t)
                    /\ \A i \in Covering(ds, k, t) :
                          Says(ds[i], t) \in TypeDef /\ Says(ds[i], t).kind = new[t].kind
  BY DEF Declared
<1> DEFINE C == Covering(ds, k - 1, t)
           D == Covering(ds, k, t)
<1>1. /\ k - 1 \in Nat /\ (k - 1) + 1 = k /\ C \in SUBSET (1..(k - 1)) /\ C \in SUBSET (0..(k - 1))
      /\ D = IF Covers(ds[k], t) THEN C \cup {k} ELSE C
  <2>1. 1..k = (1..(k - 1)) \cup {k}
    OBVIOUS
  <2> QED
    BY <2>1 DEF Covering
<1>2. /\ old[t] = IF C = {} THEN Absent ELSE Says(ds[Max(C)], t)
      /\ \A i \in C : Says(ds[i], t) \in TypeDef /\ Says(ds[i], t).kind = old[t].kind
  BY DEF Declared
<1>3. CASE ~Covers(ds[k], t)
  <2>1. D = C /\ new[t] = old[t]
    BY <1>1, <1>3 DEF Applies
  <2> QED
    BY <1>2, <2>1
<1>4. CASE Covers(ds[k], t)
  <2>1. /\ new[t] = Says(ds[k], t) /\ Says(ds[k], t) \in TypeDef
        /\ old[t] # Absent => old[t].kind = Says(ds[k], t).kind
    BY <1>4 DEF Applies
  <2> HIDE DEF C, D
  <2>2. D = C \cup {k} /\ Max(D) = k
    BY <1>1, <1>4, MaxOfNext
  <2>3. ASSUME NEW i \in D
        PROVE  Says(ds[i], t) \in TypeDef /\ Says(ds[i], t).kind = new[t].kind
    <3>1. CASE i = k
      BY <2>1, <3>1
    <3>2. CASE i \in C
      <4>1. Max(C) \in C
        BY <1>1, <3>2, MaxOfBounded
      <4>2. old[t] \in TypeDef
        BY <1>2, <3>2, <4>1
      <4> QED
        BY <1>2, <2>1, <3>2, <4>2
    <3> QED
      BY <2>2, <3>1, <3>2
  <2> QED
    BY <2>1, <2>2, <2>3 DEF D
<1> QED
  BY <1>3, <1>4

LEMMA FromDeclarationsExact ==
  ASSUME NEW ds \in Seq(TypeDeclaration), from_declarations(ds).ok
  PROVE  /\ from_declarations(ds).registry \in Registries
         /\ Declared(ds, Len(ds), from_declarations(ds).registry)
<1> DEFINE n == Len(ds)
           f == DeclareFold(ds)
           Right(k) == f[1..k] \in Results /\ (f[1..k].ok => Declared(ds, k, f[1..k].registry))
<1>1. n \in Nat /\ DOMAIN ds = 1..n /\ \A k \in 1..n : ds[k] \in TypeDeclaration
  OBVIOUS
<1>2. f[{}] = Nothing /\ \A k \in 1..n : f[1..k] = DeclareStep(f[1..(k - 1)], ds[k])
  BY DeclareFoldSteps
<1> HIDE DEF f, n
<1>3. Right(0)
  <2>1. 1..0 = {}
    OBVIOUS
  <2>2. Declared(ds, 0, Nothing.registry)
    BY <2>1, NothingTyped DEF Declared, Covering
  <2> QED
    BY <1>2, <2>1, <2>2, NothingTyped
<1>4. ASSUME NEW k \in 1..n, Right(k - 1) PROVE Right(k)
  <2> DEFINE r == f[1..(k - 1)]
             a == apply(r.registry, ds[k])
             g == f[1..k]
  <2>1. g = DeclareStep(r, ds[k]) /\ r \in Results
    BY <1>2, <1>4
  <2>2. g \in Results
    BY <1>1, <2>1, DeclareStepTyped
  <2>3. ASSUME g.ok PROVE Declared(ds, k, g.registry)
    <3>1. r.ok /\ a.ok /\ g.registry = a.registry
      <4> HIDE DEF r, g
      <4> QED
        BY <2>1, <2>3 DEF DeclareStep
    <3>2. r.registry \in Registries
      BY <2>1 DEF Results
    <3>3. Applies(ds[k], r.registry, a.registry)
      BY <1>1, <3>1, <3>2, ApplyExact
    <3>4. Declared(ds, k - 1, r.registry) /\ k \in Nat /\ k > 0
      BY <1>1, <1>4, <3>1
    <3> HIDE DEF r, a, g
    <3> QED
      BY <3>1, <3>3, <3>4, DeclaredNext
  <2> QED
    BY <2>2, <2>3
<1>5. \A k \in 0..n : Right(k)
  <2> DEFINE Bad == {k \in 0..n : ~Right(k)}
  <2> HIDE DEF Right
  <2>1. SUFFICES ASSUME Bad # {} PROVE FALSE
    OBVIOUS
  <2>2. PICK k \in Bad : \A j \in Bad : k <= j
    <3>1. Bad \in SUBSET Nat
      OBVIOUS
    <3> HIDE DEF Bad
    <3> QED
      BY <2>1, <3>1, LeastNumber
  <2>3. k \in 0..n /\ ~Right(k) /\ k # 0
    BY <1>3
  <2>4. k \in 1..n /\ k - 1 \in 0..n /\ ~(k <= k - 1)
    BY <1>1, <2>3
  <2>5. Right(k - 1)
    BY <2>2, <2>4
  <2> QED
    BY <1>4, <2>3, <2>4, <2>5
<1>6. n \in 0..n
  BY <1>1
<1>7. Right(n)
  BY <1>5, <1>6
<1>8. from_declarations(ds) = f[1..n]
  BY <1>1, DeclareDef DEF f
<1> QED
  BY <1>7, <1>8 DEF Results, n
-----------------------------------------------------------------------------
(* The log begins with the creation of the room.                           *)
LogSound ==
    /\ \E S : log \in Seq(S)
    /\ Len(log) > 0
    /\ \E p \in Creations : validate_room_create_payload(p) /\ Event(1) = room_create_event(p)

TypeSound(t) ==
    /\ registry[t] = TypeAt(t, Latest + 1)
    /\ \A d \in DeclarationsOf(t, Latest + 1) :
          Says(d, t) \in TypeDef /\ Says(d, t).kind = registry[t].kind

RegistrySound == LogSound /\ registry \in Registries /\ \A t \in TypeNames : TypeSound(t)

(* A record more leaves the earlier ones alone.                            *)
LEMMA LogGrows ==
  ASSUME LogSound, NEW entry, log' = Append(log, entry), NEW n, n = Len(log)
  PROVE  /\ n \in Nat /\ n > 0 /\ DOMAIN log = 1..n
         /\ Len(log') = n + 1 /\ DOMAIN log' = 1..(n + 1)
         /\ \A i \in 1..n : log'[i] = log[i]
         /\ log'[n + 1] = entry
         /\ LogSound'
<1>1. PICK S : log \in Seq(S)
  BY DEF LogSound
<1>2. log' \in Seq(S \cup {entry})
  <2>1. log \in Seq(S \cup {entry})
    <3>1. log \in [1..n -> S] /\ n \in Nat
      BY <1>1
    <3>2. log \in [1..n -> S \cup {entry}]
      BY <3>1
    <3> QED
      BY <3>1, <3>2
  <2>2. entry \in S \cup {entry}
    OBVIOUS
  <2> QED
    BY <2>1, <2>2
<1>3. /\ n \in Nat /\ n > 0 /\ DOMAIN log = 1..n
      /\ Len(log') = n + 1 /\ DOMAIN log' = 1..(n + 1)
      /\ \A i \in 1..n : log'[i] = log[i]
      /\ log'[n + 1] = entry
  BY <1>1 DEF LogSound
<1>4. log'[1] = log[1]
  BY <1>3
<1>5. LogSound'
  BY <1>2, <1>3, <1>4 DEF LogSound, Event
<1> QED
  BY <1>3, <1>5

(* The places of declarations are places of the log and of room.create.    *)
LEMMA DeclarationPlaces ==
  ASSUME LogSound, NEW t \in TypeNames, NEW n, n = Len(log)
  PROVE  /\ n \in Nat /\ Defines(t, Latest + 1) \in SUBSET (1..n)
         /\ Defines(t, Latest + 1) \in SUBSET (0..n)
         /\ Event(1).payload.types \in Seq(TypeDeclaration)
         /\ CreatedWith(t) = Covering(Event(1).payload.types, Len(Event(1).payload.types), t)
         /\ CreatedWith(t) \in SUBSET (0..Len(Event(1).payload.types))
<1>1. n \in Nat
  BY DEF LogSound
<1>2. Defines(t, Latest + 1) \in SUBSET (1..n)
  BY <1>1 DEF Defines, Before, Latest
<1>3. Event(1).payload.types \in Seq(TypeDeclaration)
  <2>1. PICK p \in Creations : Event(1) = room_create_event(p)
    BY DEF LogSound
  <2>2. p.types \in Seq(TypeDeclaration)
    OBVIOUS
  <2> QED
    BY <2>1, <2>2 DEF room_create_event, discourse_event
<1>4. /\ DOMAIN Event(1).payload.types = 1..Len(Event(1).payload.types)
      /\ Len(Event(1).payload.types) \in Nat
  BY <1>3
<1>5. CreatedWith(t) = Covering(Event(1).payload.types, Len(Event(1).payload.types), t)
  BY <1>4 DEF CreatedWith, Covering
<1>6. CreatedWith(t) \in SUBSET (0..Len(Event(1).payload.types))
  BY <1>4, <1>5 DEF Covering
<1>7. Defines(t, Latest + 1) \in SUBSET (0..n)
  BY <1>1, <1>2
<1> QED
  BY <1>1, <1>2, <1>3, <1>5, <1>6, <1>7

(* A type that was declared is in the registry.                            *)
LEMMA DeclaredIsKnown ==
  ASSUME LogSound, NEW t \in TypeNames, TypeSound(t), DeclarationsOf(t, Latest + 1) # {}
  PROVE  registry[t] # Absent
<1>1. /\ Len(log) \in Nat /\ Defines(t, Latest + 1) \in SUBSET (0..Len(log))
      /\ Event(1).payload.types \in Seq(TypeDeclaration)
      /\ CreatedWith(t) \in SUBSET (0..Len(Event(1).payload.types))
  BY DeclarationPlaces
<1>2. Len(Event(1).payload.types) \in Nat
  BY <1>1
<1>3. \E d \in DeclarationsOf(t, Latest + 1) : registry[t] = Says(d, t)
  <2>1. CASE Defines(t, Latest + 1) # {}
    <3>1. Max(Defines(t, Latest + 1)) \in Defines(t, Latest + 1)
      BY <1>1, <2>1, MaxOfBounded
    <3> QED
      BY <2>1, <3>1 DEF TypeSound, TypeAt, DeclarationsOf
  <2>2. CASE Defines(t, Latest + 1) = {}
    <3>1. CreatedWith(t) # {}
      BY <2>2 DEF DeclarationsOf
    <3>2. Max(CreatedWith(t)) \in CreatedWith(t)
      BY <1>1, <1>2, <3>1, MaxOfBounded
    <3> QED
      BY <2>2, <3>1, <3>2 DEF TypeSound, TypeAt, DeclarationsOf
  <2> QED
    BY <2>1, <2>2
<1> QED
  BY <1>3 DEF TypeSound

(* What a further record means for the declarations of a type.             *)
LEMMA DefinesGrow ==
  ASSUME LogSound, NEW entry, log' = Append(log, entry), NEW n, n = Len(log),
         NEW t \in TypeNames
  PROVE  /\ Defines(t, Latest + 1)' =
               IF entry.event.type = "type.define" /\ Covers(entry.event.payload, t)
               THEN Defines(t, Latest + 1) \cup {n + 1} ELSE Defines(t, Latest + 1)
         /\ CreatedWith(t)' = CreatedWith(t)
         /\ DeclarationsOf(t, Latest + 1)' =
               IF entry.event.type = "type.define" /\ Covers(entry.event.payload, t)
               THEN DeclarationsOf(t, Latest + 1) \cup {entry.event.payload}
               ELSE DeclarationsOf(t, Latest + 1)
<1> DEFINE yes == entry.event.type = "type.define" /\ Covers(entry.event.payload, t)
<1>1. /\ n \in Nat /\ n > 0 /\ Len(log') = n + 1
      /\ \A i \in 1..n : log'[i] = log[i]
      /\ log'[n + 1] = entry
  BY LogGrows
<1>2. 1..(n + 1) = (1..n) \cup {n + 1} /\ n + 1 \notin 1..n /\ 1 \in 1..n
      /\ (n + 1) - 1 = n /\ ((n + 1) + 1) - 1 = n + 1
  BY <1>1
<1>3. Defines(t, Latest + 1) = {i \in 1..n : log[i].event.type = "type.define"
                                              /\ Covers(log[i].event.payload, t)}
  BY <1>2 DEF Defines, Before, Latest, Event
<1>4. Defines(t, Latest + 1)' = {i \in 1..(n + 1) : log'[i].event.type = "type.define"
                                              /\ Covers(log'[i].event.payload, t)}
  BY <1>1, <1>2 DEF Defines, Before, Latest, Event
<1>5. Defines(t, Latest + 1)' =
         IF yes THEN Defines(t, Latest + 1) \cup {n + 1} ELSE Defines(t, Latest + 1)
  <2> DEFINE Of(e) == e.event.type = "type.define" /\ Covers(e.event.payload, t)
  <2>1. Defines(t, Latest + 1) = {i \in 1..n : Of(log[i])}
    BY <1>3
  <2>2. Defines(t, Latest + 1)' = {i \in 1..(n + 1) : Of(log'[i])}
    BY <1>4
  <2>3. Of(log'[n + 1]) <=> yes
    BY <1>1
  <2> HIDE DEF Of, yes
  <2>4. {i \in 1..(n + 1) : Of(log'[i])} =
           {i \in 1..n : Of(log[i])} \cup (IF yes THEN {n + 1} ELSE {})
    BY <1>1, <1>2, <2>3
  <2> QED
    BY <2>1, <2>2, <2>4
<1>6. log'[1] = log[1] /\ CreatedWith(t)' = CreatedWith(t)
  BY <1>1, <1>2 DEF CreatedWith, Event
<1>7. Defines(t, Latest + 1) \in SUBSET (1..n)
  BY <1>3
<1> DEFINE D == Defines(t, Latest + 1)
           D1 == Defines(t, Latest + 1)'
<1>8. DeclarationsOf(t, Latest + 1)' =
         {log[1].event.payload.types[i] : i \in CreatedWith(t)} \cup {log'[i].event.payload : i \in D1}
  BY <1>6 DEF DeclarationsOf, Event
<1>9. DeclarationsOf(t, Latest + 1) =
         {log[1].event.payload.types[i] : i \in CreatedWith(t)} \cup {log[i].event.payload : i \in D}
  BY DEF DeclarationsOf, Event
<1> HIDE DEF yes
<1>10. {log'[i].event.payload : i \in D1} =
          IF yes THEN {log[i].event.payload : i \in D} \cup {entry.event.payload}
          ELSE {log[i].event.payload : i \in D}
  <2>1. \A i \in D : log'[i] = log[i]
    BY <1>1, <1>7
  <2>2. D1 = IF yes THEN D \cup {n + 1} ELSE D
    BY <1>5
  <2>3. log'[n + 1] = entry
    BY <1>1
  <2> HIDE DEF D, D1
  <2>4. CASE yes
    <3>1. D1 = D \cup {n + 1}
      BY <2>2, <2>4
    <3>2. ASSUME NEW x PROVE (\E i \in D1 : x = log'[i].event.payload)
             <=> (\E i \in D : x = log[i].event.payload) \/ x = entry.event.payload
      BY <2>1, <2>3, <3>1
    <3> DEFINE A == {log[i].event.payload : i \in D}
               A1 == {log'[i].event.payload : i \in D1}
    <3>3. ASSUME NEW x PROVE x \in A1 <=> x \in A \/ x = entry.event.payload
      <4>1. x \in A1 <=> \E i \in D1 : x = log'[i].event.payload
        OBVIOUS
      <4>2. x \in A <=> \E i \in D : x = log[i].event.payload
        OBVIOUS
      <4> HIDE DEF A, A1
      <4> QED
        BY <3>2, <4>1, <4>2
    <3> HIDE DEF A, A1
    <3>4. A1 = A \cup {entry.event.payload}
      BY <3>3
    <3> QED
      BY <2>4, <3>4 DEF A, A1
  <2>5. CASE ~yes
    BY <2>1, <2>2, <2>5
  <2> QED
    BY <2>4, <2>5
<1> QED
  BY <1>5, <1>6, <1>8, <1>9, <1>10 DEF yes

(* Without a declaration of it a type stays what it was.                   *)
LEMMA TypeAtKept ==
  ASSUME LogSound, NEW entry, log' = Append(log, entry), NEW t \in TypeNames,
         Defines(t, Latest + 1)' = Defines(t, Latest + 1), CreatedWith(t)' = CreatedWith(t)
  PROVE  TypeAt(t, Latest + 1)' = TypeAt(t, Latest + 1)
<1>0. PICK n : n = Len(log)
  OBVIOUS
<1>1. /\ n \in Nat /\ n > 0 /\ \A i \in 1..n : log'[i] = log[i]
      /\ Defines(t, Latest + 1) \in SUBSET (0..n) /\ Defines(t, Latest + 1) \in SUBSET (1..n)
  BY <1>0, LogGrows, DeclarationPlaces
<1>2. log'[1] = log[1]
  BY <1>1
<1>3. CASE Defines(t, Latest + 1) # {}
  <2>1. Max(Defines(t, Latest + 1)) \in Defines(t, Latest + 1)
    BY <1>1, <1>3, MaxOfBounded
  <2>2. log'[Max(Defines(t, Latest + 1))] = log[Max(Defines(t, Latest + 1))]
    BY <1>1, <2>1
  <2> QED
    BY <1>3, <2>2 DEF TypeAt, Event
<1>4. CASE Defines(t, Latest + 1) = {}
  BY <1>2, <1>4 DEF TypeAt, Event
<1> QED
  BY <1>3, <1>4

(* A record that declares no type leaves the registry alone.               *)
LEMMA RegistryUntouched ==
  ASSUME RegistrySound, NEW entry, log' = Append(log, entry), registry' = registry,
         entry.event.type # "type.define"
  PROVE  RegistrySound'
<1>1. LogSound'
  <2>1. PICK n : n = Len(log)
    OBVIOUS
  <2> QED
    BY <2>1, LogGrows DEF RegistrySound
<1>2. ASSUME NEW t \in TypeNames PROVE TypeSound(t)'
  <2>0. PICK n : n = Len(log)
    OBVIOUS
  <2>1. /\ Defines(t, Latest + 1)' = Defines(t, Latest + 1)
        /\ CreatedWith(t)' = CreatedWith(t)
        /\ DeclarationsOf(t, Latest + 1)' = DeclarationsOf(t, Latest + 1)
    BY <2>0, DefinesGrow DEF RegistrySound
  <2>3. TypeAt(t, Latest + 1)' = TypeAt(t, Latest + 1)
    BY <2>1, TypeAtKept DEF RegistrySound
  <2>4. TypeSound(t)
    BY DEF RegistrySound
  <2> QED
    BY <2>1, <2>3, <2>4 DEF TypeSound
<1> QED
  BY <1>1, <1>2 DEF RegistrySound

(* An accepted declaration is the last of what it covers.                  *)
LEMMA RegistryDeclared ==
  ASSUME RegistrySound, NEW d \in Declarations, NEW entry, log' = Append(log, entry),
         entry.event.type = "type.define", entry.event.payload = d,
         registry' \in Registries, Applies(d, registry, registry')
  PROVE  RegistrySound'
<1>0. PICK n : n = Len(log)
  OBVIOUS
<1>1. /\ LogSound' /\ n \in Nat /\ n > 0 /\ \A i \in 1..n : log'[i] = log[i]
      /\ log'[n + 1] = entry
  BY <1>0, LogGrows DEF RegistrySound
<1>2. ASSUME NEW t \in TypeNames PROVE TypeSound(t)'
  <2>1. TypeSound(t) /\ LogSound
    BY DEF RegistrySound
  <2>2. /\ Defines(t, Latest + 1) \in SUBSET (0..n) /\ Defines(t, Latest + 1) \in SUBSET (1..n)
    BY <1>0, <2>1, DeclarationPlaces
  <2>3. CASE Covers(d, t)
    <3>1. /\ Defines(t, Latest + 1)' = Defines(t, Latest + 1) \cup {n + 1}
          /\ DeclarationsOf(t, Latest + 1)' = DeclarationsOf(t, Latest + 1) \cup {d}
      BY <1>0, <2>1, <2>3, DefinesGrow
    <3>2. Max(Defines(t, Latest + 1) \cup {n + 1}) = n + 1
      BY <1>1, <2>2, MaxOfNext
    <3>3. /\ registry'[t] = Says(d, t) /\ Says(d, t) \in TypeDef
          /\ registry[t] # Absent => registry[t].kind = Says(d, t).kind
      BY <2>3 DEF Applies
    <3>4. TypeAt(t, Latest + 1)' = Says(d, t)
      <4>1. Defines(t, Latest + 1)' # {} /\ Max(Defines(t, Latest + 1)') = n + 1
        BY <3>1, <3>2
      <4>2. TypeAt(t, Latest + 1)' = Says(log'[Max(Defines(t, Latest + 1)')].event.payload, t)
        BY <4>1 DEF TypeAt, Event
      <4> QED
        BY <1>1, <4>1, <4>2
    <3>5. ASSUME NEW c \in DeclarationsOf(t, Latest + 1)'
          PROVE  Says(c, t) \in TypeDef /\ Says(c, t).kind = registry'[t].kind
      <4>1. CASE c = d
        BY <3>3, <4>1
      <4>2. CASE c \in DeclarationsOf(t, Latest + 1)
        <5>1. registry[t] # Absent
          BY <2>1, <4>2, DeclaredIsKnown
        <5> QED
          BY <2>1, <3>3, <4>2, <5>1 DEF TypeSound
      <4> QED
        BY <3>1, <4>1, <4>2
    <3> QED
      BY <3>3, <3>4, <3>5 DEF TypeSound
  <2>4. CASE ~Covers(d, t)
    <3>1. /\ Defines(t, Latest + 1)' = Defines(t, Latest + 1)
          /\ CreatedWith(t)' = CreatedWith(t)
          /\ DeclarationsOf(t, Latest + 1)' = DeclarationsOf(t, Latest + 1)
      BY <1>0, <2>1, <2>4, DefinesGrow
    <3>2. registry'[t] = registry[t]
      BY <2>4 DEF Applies
    <3>3. TypeAt(t, Latest + 1)' = TypeAt(t, Latest + 1)
      BY <2>1, <3>1, TypeAtKept
    <3> QED
      BY <2>1, <3>1, <3>2, <3>3 DEF TypeSound
  <2> QED
    BY <2>3, <2>4
<1> QED
  BY <1>1, <1>2 DEF RegistrySound

(* What a write appends.                                                   *)
Appended(type, actor, payload, entry) ==
    /\ log' = Append(log, entry)
    /\ entry.event.type = type /\ entry.event.actor = actor /\ entry.event.payload = payload

LEMMA WriteAppends ==
  ASSUME NEW type, NEW actor, NEW payload, NEW direct, Write(type, actor, payload, direct)
  PROVE  \E entry : Appended(type, actor, payload, entry)
<1>1. Appended(type, actor, payload,
               [event |-> discourse_event(type, actor, room, Len(log), payload), accepted_at |-> now])
  BY DEF Write, Appended, discourse_event
<1> QED
  BY <1>1

LEMMA WriteKeepsRegistry ==
  ASSUME RegistrySound, registry' = registry,
         NEW type, NEW actor, NEW payload, NEW direct, Write(type, actor, payload, direct),
         type # "type.define"
  PROVE  RegistrySound'
<1>1. PICK entry : Appended(type, actor, payload, entry)
  BY WriteAppends
<1> QED
  BY <1>1, RegistryUntouched DEF Appended

LEMMA RegistryAtFirst == Init => RegistrySound
<1> SUFFICES ASSUME Init PROVE RegistrySound
  OBVIOUS
<1>1. PICK p \in Creations :
         /\ validate_room_create_payload(p)
         /\ registry = from_declarations(p.types).registry
         /\ log = <<[event |-> room_create_event(p), accepted_at |-> 0]>>
  BY DEF Init
<1>2. /\ Len(log) = 1 /\ log[1].event = room_create_event(p)
      /\ log \in Seq({[event |-> room_create_event(p), accepted_at |-> 0]})
  BY <1>1
<1>3. LogSound
  <2>1. \E S : log \in Seq(S)
    BY <1>2
  <2>2. Len(log) > 0 /\ Event(1) = room_create_event(p)
    BY <1>2 DEF Event
  <2> QED
    BY <1>1, <2>1, <2>2 DEF LogSound
<1>4. p.types \in Seq(TypeDeclaration) /\ from_declarations(p.types).ok
  BY <1>1 DEF validate_room_create_payload
<1>5. registry \in Registries /\ Declared(p.types, Len(p.types), registry)
  BY <1>1, <1>4, FromDeclarationsExact
<1>6. ASSUME NEW t \in TypeNames PROVE TypeSound(t)
  <2>1. Event(1).payload.types = p.types /\ Event(1).type = "room.create"
    BY <1>2 DEF Event, room_create_event, discourse_event
  <2>2. CreatedWith(t) = Covering(p.types, Len(p.types), t)
    BY <1>3, <2>1, DeclarationPlaces
  <2>3. Defines(t, Latest + 1) = {}
    <3>1. 1..((Latest + 1) - 1) = {1}
      BY <1>2 DEF Latest
    <3>2. Defines(t, Latest + 1) \subseteq 1..((Latest + 1) - 1)
      BY DEF Defines, Before
    <3>3. 1 \notin Defines(t, Latest + 1)
      BY <2>1 DEF Defines, Before
    <3> QED
      BY <3>1, <3>2, <3>3
  <2>4. TypeAt(t, Latest + 1) = registry[t]
    BY <1>5, <2>1, <2>2, <2>3 DEF TypeAt, Declared
  <2>5. DeclarationsOf(t, Latest + 1) = {p.types[i] : i \in CreatedWith(t)}
    BY <2>1, <2>3 DEF DeclarationsOf
  <2>6. ASSUME NEW d \in DeclarationsOf(t, Latest + 1)
        PROVE  Says(d, t) \in TypeDef /\ Says(d, t).kind = registry[t].kind
    BY <1>5, <2>2, <2>5 DEF Declared
  <2> QED
    BY <2>4, <2>6 DEF TypeSound
<1> QED
  BY <1>3, <1>5, <1>6 DEF RegistrySound

LEMMA RegistryNext ==
  ASSUME RegistrySound, [Next]_vars
  PROVE  RegistrySound'
<1>1. CASE log' = log /\ registry' = registry
  <2>1. LogSound'
    BY <1>1 DEF RegistrySound, LogSound, Event
  <2>2. ASSUME NEW t \in TypeNames PROVE TypeSound(t)'
    <3>1. Defines(t, Latest + 1)' = Defines(t, Latest + 1) /\ CreatedWith(t)' = CreatedWith(t)
      BY <1>1 DEF Defines, CreatedWith, Before, Event, Latest
    <3>2. TypeAt(t, Latest + 1)' = TypeAt(t, Latest + 1)
      BY <1>1, <3>1 DEF TypeAt, Event
    <3>3. DeclarationsOf(t, Latest + 1)' = DeclarationsOf(t, Latest + 1)
      BY <1>1, <3>1 DEF DeclarationsOf, Event
    <3> QED
      BY <1>1, <3>2, <3>3 DEF RegistrySound, TypeSound
  <2> QED
    BY <1>1, <2>1, <2>2 DEF RegistrySound
<1>2. ASSUME NEW d \in Declarations, NEW a \in Agents, TypeDefine(a, d) PROVE RegistrySound'
  <2> DEFINE r == apply(registry, d)
  <2>0. PICK old \in Registries : old = registry
    BY DEF RegistrySound
  <2>1. /\ r \in Results
        /\ IF r.ok THEN Applies(d, registry, r.registry) ELSE r.registry = registry
    <3>1. d \in TypeDeclaration
      OBVIOUS
    <3> QED
      BY <2>0, <3>1, ApplyExact
  <2>2. /\ registry' = r.registry
        /\ IF r.ok THEN Write("type.define", a, d, FALSE) ELSE UNCHANGED <<now, log>>
    BY <1>2 DEF TypeDefine
  <2> HIDE DEF r
  <2>3. CASE r.ok
    <3>1. PICK entry : Appended("type.define", a, d, entry)
      BY <2>2, <2>3, WriteAppends
    <3>2. registry' \in Registries /\ Applies(d, registry, registry')
      BY <2>1, <2>2, <2>3 DEF Results
    <3> QED
      BY <3>1, <3>2, RegistryDeclared DEF Appended
  <2>4. CASE ~r.ok
    BY <1>1, <2>1, <2>2, <2>4
  <2> QED
    BY <2>3, <2>4
<1>3. ASSUME NEW a \in Agents, NEW u \in Updates, Update(a, u) PROVE RegistrySound'
  BY <1>3, WriteKeepsRegistry DEF Update
<1>4. ASSUME NEW a \in Agents, NEW t \in {"room.close", "room.cancel"}, Finish(t, a)
      PROVE  RegistrySound'
  BY <1>4, WriteKeepsRegistry DEF Finish
<1>5. ASSUME NEW a \in Agents, Leave(a) PROVE RegistrySound'
  BY <1>5, WriteKeepsRegistry DEF Leave
<1>6. ASSUME NEW a \in Agents, NEW t \in TypeNames \cup {"message.create"}, Post(a, t)
      PROVE  RegistrySound'
  <2>1. t # "type.define"
    BY DEF Builtins
  <2> QED
    BY <1>6, <2>1, WriteKeepsRegistry DEF Post
<1>7. ASSUME NEW a \in Agents, NEW r \in Roles, Join(a, r) PROVE RegistrySound'
  <2>1. PICK direct : direct = can_join_directly(contract.visibility, contract.policy, a, r)
    OBVIOUS
  <2> QED
    BY <1>7, <2>1, WriteKeepsRegistry DEF Join
<1>8. ASSUME NEW a \in Agents, NEW r \in AskedRoles, JoinRequest(a, r) PROVE RegistrySound'
  BY <1>1, <1>8 DEF JoinRequest
<1>9. ASSUME NEW a \in Agents, NEW b \in Agents, NEW r \in GivenRoles, RoleUpdate(a, b, r)
      PROVE  RegistrySound'
  BY <1>9, WriteKeepsRegistry DEF RoleUpdate
<1>10. ASSUME NEW a \in Agents, NEW b \in Agents, NEW ban \in BOOLEAN, RemoveMember(a, b, ban)
       PROVE  RegistrySound'
  BY <1>10, WriteKeepsRegistry DEF RemoveMember
<1>11. ASSUME NEW a \in Agents, NEW q \in requests, NEW d \in {"approve", "reject"},
              NEW r \in GivenRoles \cup {Absent}, Review(a, q, d, r)
       PROVE  RegistrySound'
  BY <1>11, WriteKeepsRegistry DEF Review
<1>12. CASE Tick
  BY <1>1, <1>12 DEF Tick
<1>13. CASE UNCHANGED vars
  BY <1>1, <1>13 DEF vars
<1> QED
  BY <1>2, <1>3, <1>4, <1>5, <1>6, <1>7, <1>8, <1>9, <1>10, <1>11, <1>12, <1>13 DEF Next

LEMMA RegistryInvariant == Spec => []RegistrySound
  BY RegistryAtFirst, RegistryNext, PTL DEF Spec

(* Of each type the registry has what the last accepted declaration says,  *)
(* and no accepted declaration changes its kind, however declarations,     *)
(* imports of packs and refusals half way follow each other                *)
(* (discourse.rs, TypeRegistry::apply and import).                         *)
THEOREM RegistryStaysExact == Spec => []RegistryReplays
<1>1. RegistrySound => RegistryReplays
  <2> SUFFICES ASSUME RegistrySound, NEW t \in TypeNames
               PROVE  /\ registry[t] = TypeAt(t, Latest + 1)
                      /\ \A d1, d2 \in DeclarationsOf(t, Latest + 1) :
                            Says(d1, t).kind = Says(d2, t).kind
    BY DEF RegistryReplays
  <2> QED
    BY DEF RegistrySound, TypeSound
<1> QED
  BY <1>1, RegistryInvariant, PTL
-----------------------------------------------------------------------------
(* The authority of the records *)

(* The last of some places of the log, and of those with one more.         *)
LEMMA LastPlace ==
  ASSUME LogSound, NEW entry, log' = Append(log, entry), NEW n, n = Len(log),
         NEW S \in SUBSET (1..n)
  PROVE  /\ S # {} => Max(S) \in 1..n /\ log'[Max(S)] = log[Max(S)]
         /\ Max(S \cup {n + 1}) = n + 1 /\ log'[n + 1] = entry
         /\ S \cup {n + 1} # {}
<1>1. n \in Nat /\ (\A i \in 1..n : log'[i] = log[i]) /\ log'[n + 1] = entry
  BY LogGrows
<1>2. S # {} => Max(S) \in S
  <2>1. S \in SUBSET (0..n)
    BY <1>1
  <2> QED
    BY <1>1, <2>1, MaxOfBounded
<1> QED
  BY <1>1, <1>2, MaxOfNext

(* A record that sets the role of an agent is the last to do so.           *)
LEMMA RoleAtGrows ==
  ASSUME LogSound, NEW entry, log' = Append(log, entry), NEW a
  PROVE  /\ RoleAt(a, Latest)' = RoleAt(a, Latest + 1)
         /\ RoleAt(a, Latest + 1)' =
               IF SetsRole(entry.event, a) THEN RoleSet(entry.event) ELSE RoleAt(a, Latest + 1)
<1>0. PICK n : n = Len(log)
  OBVIOUS
<1> DEFINE S == {i \in 1..n : SetsRole(log[i].event, a)}
           S1 == {i \in 1..(n + 1) : SetsRole(log'[i].event, a)}
           Of(i) == RoleSet(log[i].event)
           Of1(i) == RoleSet(log'[i].event)
<1>1. /\ n \in Nat /\ Len(log') = n + 1 /\ \A i \in 1..n : log'[i] = log[i]
      /\ log'[n + 1] = entry
  BY <1>0, LogGrows
<1>2. 1..(n + 1) = (1..n) \cup {n + 1} /\ n + 1 \notin 1..n
      /\ (n + 1) - 1 = n /\ ((n + 1) + 1) - 1 = n + 1
  BY <1>1
<1>3. S \in SUBSET (1..n)
  OBVIOUS
<1>4. /\ S # {} => Max(S) \in 1..n /\ log'[Max(S)] = log[Max(S)]
      /\ Max(S \cup {n + 1}) = n + 1 /\ S \cup {n + 1} # {}
  BY <1>0, <1>3, LastPlace
<1>5. S1 = IF SetsRole(entry.event, a) THEN S \cup {n + 1} ELSE S
  BY <1>1, <1>2
<1>6. RoleAt(a, Latest + 1) = IF S = {} THEN Absent ELSE Of(Max(S))
  BY <1>0, <1>2 DEF RoleAt, LastOr, Before, Event, Latest
<1>7. RoleAt(a, Latest + 1)' = IF S1 = {} THEN Absent ELSE Of1(Max(S1))
  BY <1>1, <1>2 DEF RoleAt, LastOr, Before, Event, Latest
<1>8. RoleAt(a, Latest)' = IF S = {} THEN Absent ELSE Of1(Max(S))
  <2>1. S = {i \in 1..n : SetsRole(log'[i].event, a)}
    BY <1>1
  <2> QED
    BY <1>1, <1>2, <2>1 DEF RoleAt, LastOr, Before, Event, Latest
<1>9. /\ S # {} => Of1(Max(S)) = Of(Max(S))
      /\ Of1(n + 1) = RoleSet(entry.event)
  BY <1>1, <1>4
<1> HIDE DEF Of, Of1, S, S1
<1>10. CASE SetsRole(entry.event, a)
  <2>1. S1 # {} /\ Max(S1) = n + 1
    BY <1>4, <1>5, <1>10
  <2> QED
    BY <1>6, <1>7, <1>8, <1>9, <1>10, <2>1
<1>11. CASE ~SetsRole(entry.event, a)
  <2>1. S1 = S
    BY <1>5, <1>11
  <2> QED
    BY <1>6, <1>7, <1>8, <1>9, <1>11, <2>1
<1> QED
  BY <1>10, <1>11

LEMMA BannedAtGrows ==
  ASSUME LogSound, NEW entry, log' = Append(log, entry), NEW a
  PROVE  /\ BannedAt(a, Latest)' = BannedAt(a, Latest + 1)
         /\ BannedAt(a, Latest + 1)' =
               IF Bans(entry.event, a) \/ Approves(entry.event, a) THEN Bans(entry.event, a)
               ELSE BannedAt(a, Latest + 1)
<1>0. PICK n : n = Len(log)
  OBVIOUS
<1> DEFINE Sets(e) == Bans(e, a) \/ Approves(e, a)
           S == {i \in 1..n : Sets(log[i].event)}
           S1 == {i \in 1..(n + 1) : Sets(log'[i].event)}
           Of(i) == Bans(log[i].event, a)
           Of1(i) == Bans(log'[i].event, a)
<1>1. /\ n \in Nat /\ Len(log') = n + 1 /\ \A i \in 1..n : log'[i] = log[i]
      /\ log'[n + 1] = entry
  BY <1>0, LogGrows
<1>2. 1..(n + 1) = (1..n) \cup {n + 1} /\ n + 1 \notin 1..n
      /\ (n + 1) - 1 = n /\ ((n + 1) + 1) - 1 = n + 1
  BY <1>1
<1>3. S \in SUBSET (1..n)
  OBVIOUS
<1>4. /\ S # {} => Max(S) \in 1..n /\ log'[Max(S)] = log[Max(S)]
      /\ Max(S \cup {n + 1}) = n + 1 /\ S \cup {n + 1} # {}
  BY <1>0, <1>3, LastPlace
<1>5. S1 = IF Sets(entry.event) THEN S \cup {n + 1} ELSE S
  <2> HIDE DEF Sets
  <2> QED
    BY <1>1, <1>2
<1>6. BannedAt(a, Latest + 1) = IF S = {} THEN FALSE ELSE Of(Max(S))
  BY <1>0, <1>2 DEF BannedAt, LastOr, Before, Event, Latest
<1>7. BannedAt(a, Latest + 1)' = IF S1 = {} THEN FALSE ELSE Of1(Max(S1))
  BY <1>1, <1>2 DEF BannedAt, LastOr, Before, Event, Latest
<1>8. BannedAt(a, Latest)' = IF S = {} THEN FALSE ELSE Of1(Max(S))
  <2>1. S = {i \in 1..n : Sets(log'[i].event)}
    BY <1>1
  <2> QED
    BY <1>1, <1>2, <2>1 DEF BannedAt, LastOr, Before, Event, Latest
<1>9. /\ S # {} => Of1(Max(S)) = Of(Max(S))
      /\ Of1(n + 1) = Bans(entry.event, a)
  BY <1>1, <1>4
<1> HIDE DEF Of, Of1, S, S1, Sets
<1>10. BannedAt(a, Latest)' = BannedAt(a, Latest + 1)
  <2>1. CASE S = {}
    BY <1>6, <1>8, <2>1
  <2>2. CASE S # {}
    BY <1>6, <1>8, <1>9, <2>2
  <2> QED
    BY <2>1, <2>2
<1>11. CASE Sets(entry.event)
  <2>1. S1 # {} /\ Max(S1) = n + 1
    BY <1>4, <1>5, <1>11
  <2>2. BannedAt(a, Latest + 1)' = Bans(entry.event, a)
    BY <1>7, <1>9, <2>1
  <2> QED
    BY <1>10, <1>11, <2>2 DEF Sets
<1>12. CASE ~Sets(entry.event)
  <2>1. S1 = S
    BY <1>5, <1>12
  <2>2. BannedAt(a, Latest + 1)' = BannedAt(a, Latest)'
    <3>1. CASE S = {}
      BY <1>7, <1>8, <2>1, <3>1
    <3>2. CASE S # {}
      BY <1>7, <1>8, <2>1, <3>2
    <3> QED
      BY <3>1, <3>2
  <2> QED
    BY <1>10, <1>12, <2>2 DEF Sets
<1> QED
  BY <1>11, <1>12

LEMMA PolicyAtGrows ==
  ASSUME LogSound, NEW entry, log' = Append(log, entry)
  PROVE  /\ PolicyAt(Latest)' = PolicyAt(Latest + 1)
         /\ PolicyAt(Latest + 1)' =
               IF entry.event.type = "room.update" /\ entry.event.payload.policy # Absent
               THEN entry.event.payload.policy ELSE PolicyAt(Latest + 1)
<1>0. PICK n : n = Len(log)
  OBVIOUS
<1> DEFINE Sets(e) == e.type = "room.update" /\ e.payload.policy # Absent
           S == {i \in 1..n : Sets(log[i].event)}
           S1 == {i \in 1..(n + 1) : Sets(log'[i].event)}
           Of(i) == log[i].event.payload.policy
           Of1(i) == log'[i].event.payload.policy
<1>1. /\ n \in Nat /\ Len(log') = n + 1 /\ \A i \in 1..n : log'[i] = log[i]
      /\ log'[n + 1] = entry /\ log'[1] = log[1]
  <2>1. n > 0 /\ n \in Nat
    BY <1>0, LogGrows
  <2>2. 1 \in 1..n
    BY <2>1
  <2> QED
    BY <1>0, <2>2, LogGrows
<1>2. 1..(n + 1) = (1..n) \cup {n + 1} /\ n + 1 \notin 1..n
      /\ (n + 1) - 1 = n /\ ((n + 1) + 1) - 1 = n + 1
  BY <1>1
<1>3. S \in SUBSET (1..n)
  OBVIOUS
<1>4. /\ S # {} => Max(S) \in 1..n /\ log'[Max(S)] = log[Max(S)]
      /\ Max(S \cup {n + 1}) = n + 1 /\ S \cup {n + 1} # {}
  BY <1>0, <1>3, LastPlace
<1>5. S1 = IF Sets(entry.event) THEN S \cup {n + 1} ELSE S
  <2> HIDE DEF Sets
  <2> QED
    BY <1>1, <1>2
<1>6. PolicyAt(Latest + 1) = IF S = {} THEN Of(1) ELSE Of(Max(S))
  BY <1>0, <1>2 DEF PolicyAt, LastOr, Before, Event, Latest
<1>7. PolicyAt(Latest + 1)' = IF S1 = {} THEN Of1(1) ELSE Of1(Max(S1))
  BY <1>1, <1>2 DEF PolicyAt, LastOr, Before, Event, Latest
<1>8. PolicyAt(Latest)' = IF S = {} THEN Of1(1) ELSE Of1(Max(S))
  <2>1. S = {i \in 1..n : Sets(log'[i].event)}
    BY <1>1
  <2> QED
    BY <1>1, <1>2, <2>1 DEF PolicyAt, LastOr, Before, Event, Latest
<1>9. /\ S # {} => Of1(Max(S)) = Of(Max(S))
      /\ Of1(n + 1) = entry.event.payload.policy
      /\ Of1(1) = Of(1)
  BY <1>1, <1>4
<1> HIDE DEF Of, Of1, S, S1, Sets
<1>10. CASE Sets(entry.event)
  <2>1. S1 # {} /\ Max(S1) = n + 1
    BY <1>4, <1>5, <1>10
  <2> QED
    BY <1>6, <1>7, <1>8, <1>9, <1>10, <2>1 DEF Sets
<1>11. CASE ~Sets(entry.event)
  <2>1. S1 = S
    BY <1>5, <1>11
  <2> QED
    BY <1>6, <1>7, <1>8, <1>9, <1>11, <2>1 DEF Sets
<1> QED
  BY <1>10, <1>11

(* What was declared of a type before the new record.                      *)
LEMMA TypeAtGrows ==
  ASSUME LogSound, NEW entry, log' = Append(log, entry), NEW t \in TypeNames
  PROVE  TypeAt(t, Latest)' = TypeAt(t, Latest + 1)
<1>0. PICK n : n = Len(log)
  OBVIOUS
<1>1. /\ n \in Nat /\ Len(log') = n + 1 /\ \A i \in 1..n : log'[i] = log[i]
      /\ log'[1] = log[1]
  <2>1. n > 0 /\ n \in Nat
    BY <1>0, LogGrows
  <2>2. 1 \in 1..n
    BY <2>1
  <2> QED
    BY <1>0, <2>2, LogGrows
<1>2. (n + 1) - 1 = n
  BY <1>1
<1>3. Defines(t, Latest)' = Defines(t, Latest + 1)
  BY <1>0, <1>1, <1>2 DEF Defines, Before, Event, Latest
<1>4. Defines(t, Latest + 1) \in SUBSET (1..n)
  BY <1>0, DeclarationPlaces
<1>5. CreatedWith(t)' = CreatedWith(t)
  BY <1>1 DEF CreatedWith, Event
<1>6. CASE Defines(t, Latest + 1) # {}
  <2>1. log'[Max(Defines(t, Latest + 1))] = log[Max(Defines(t, Latest + 1))]
    BY <1>0, <1>4, <1>6, LastPlace
  <2> QED
    BY <1>3, <1>6, <2>1 DEF TypeAt, Event
<1>7. CASE Defines(t, Latest + 1) = {}
  BY <1>1, <1>3, <1>5, <1>7 DEF TypeAt, Event
<1> QED
  BY <1>6, <1>7
-----------------------------------------------------------------------------
(* The state a host keeps is what the records say: who is a member and in  *)
(* which role, who is banned, which policy is in force.                    *)
MembersSound ==
    /\ members \in [Agents -> Roles \cup AskedRoles \cup GivenRoles \cup {Absent}]
    /\ \A a \in Agents : members[a] = RoleAt(a, Latest + 1)

BansSound == \A a \in Agents : a \in banned <=> BannedAt(a, Latest + 1)

ContractSound ==
    /\ contract \in Contract
    /\ contract.policy = PolicyAt(Latest + 1)
    /\ contract.visibility = Event(1).payload.visibility
    /\ validate_room_policy(contract.policy)
    /\ validate_room_visibility_policy(contract.visibility, contract.policy)

(* A request is known by who made it and when, and one that a record       *)
(* reviews has been decided.                                               *)
Asked == [actor : Agents, role : AskedRoles, created_at : Nat,
          status : {"pending", "approved", "rejected", "expired"}]
Signed(q) == room_join_request_event(q.actor, [role |-> q.role, created_at |-> q.created_at])
Decides(e, q) == q.status \in {"approved", "rejected"} /\ e.payload.request = Signed(q)

RequestsSound ==
    /\ requests \subseteq Asked
    /\ \A p, q \in requests : p.actor = q.actor /\ p.created_at = q.created_at => p = q
    /\ \A i \in DOMAIN log :
          Event(i).type = "room.join.review" => \E q \in requests : Decides(Event(i), q)

AuthoritySound ==
    /\ now \in Nat
    /\ MembersSound /\ BansSound /\ ContractSound /\ RequestsSound
    /\ ReviewedOnce /\ LastIsAuthorized

(* What the host demands of an event, in its own state.                    *)
Invited(e) ==
    \/ contract.policy.invites[e.actor] = e.payload
    \/ /\ contract.visibility # "private"
       /\ IF contract.policy.open_roles = Absent
          THEN contract.visibility = "public" /\ e.payload = "observer"
          ELSE e.payload \in contract.policy.open_roles \ {"moderator"}

Allowed(e) ==
    LET role == members[e.actor]
    IN  CASE e.type = "room.create" -> e.actor = creator
          [] e.type = "room.join" -> role = Absent /\ e.actor \notin banned /\ Invited(e)
          [] e.type = "room.leave" -> role # Absent /\ e.actor # creator
          [] OTHER -> e.actor = creator \/
                IF e.type = "message.create" THEN role \in {"moderator", "speaker"}
                ELSE IF e.type \in TypeNames THEN MayPost(role, registry[e.type])
                ELSE role = "moderator"

LEMMA AllowedIsShown ==
  ASSUME RegistrySound, MembersSound, BansSound, ContractSound,
         NEW entry, log' = Append(log, entry), entry.event.actor \in Agents, Allowed(entry.event)
  PROVE  LastIsAuthorized'
<1>0. PICK n : n = Len(log)
  OBVIOUS
<1> DEFINE e == entry.event
<1>1. LogSound /\ \A t \in TypeNames : registry[t] = TypeAt(t, Latest + 1)
  BY DEF RegistrySound, TypeSound
<1>2. /\ n \in Nat /\ Len(log') = n + 1 /\ log'[n + 1] = entry /\ log'[1] = log[1]
  <2>1. n \in Nat /\ n > 0 /\ Len(log') = n + 1 /\ log'[n + 1] = entry
        /\ \A i \in 1..n : log'[i] = log[i]
    BY <1>0, <1>1, LogGrows
  <2> QED
    BY <2>1
<1>3. Event(Latest)' = e
  BY <1>2 DEF Event, Latest
<1> DEFINE a == e.actor
<1>4. PICK a0 : a0 = a
  OBVIOUS
<1>5. RoleAt(a0, Latest)' = members[a]
  BY <1>1, <1>4, RoleAtGrows DEF MembersSound
<1>6. BannedAt(a0, Latest)' <=> a \in banned
  <2>1. BannedAt(a0, Latest)' = BannedAt(a0, Latest + 1)
    BY <1>1, RoleAtGrows, BannedAtGrows
  <2>2. a0 \in banned <=> BannedAt(a0, Latest + 1)
    BY <1>4 DEF BansSound
  <2> QED
    BY <1>4, <2>1, <2>2
<1>7. PolicyAt(Latest)' = contract.policy /\ Event(1)'.payload.visibility = contract.visibility
  BY <1>1, <1>2, PolicyAtGrows DEF ContractSound, Event
<1>8. \A t \in TypeNames : TypeAt(t, Latest)' = registry[t]
  BY <1>1, TypeAtGrows
<1>9. Invited(e) => InvitedOrOpen(e, Latest)'
  BY <1>7 DEF Invited, InvitedOrOpen
<1>10. RoleAt(a, Latest)' = members[a] /\ (BannedAt(a, Latest)' <=> a \in banned)
  BY <1>4, <1>5, <1>6
<1> QED
  BY <1>3, <1>8, <1>9, <1>10 DEF Allowed, LastIsAuthorized

(* A record that is no change of members, bans, policy or reviews.         *)
Changing == {"room.create", "room.join", "room.leave", "room.join.review", "room.update",
             "room.member.role.update", "room.member.remove"}

LEMMA ChangesNothing ==
  ASSUME NEW e, e.type \notin Changing, NEW a
  PROVE  ~SetsRole(e, a) /\ ~Bans(e, a) /\ ~Approves(e, a)
BY DEF Changing, SetsRole, Bans, Approves

(* The host's state after a write is what the records then say, if it      *)
(* made of the state what the new record says.                             *)
LEMMA WriteSound ==
  ASSUME RegistrySound, AuthoritySound, NEW entry, log' = Append(log, entry), now' = now,
         entry.event.actor \in Agents, Allowed(entry.event),
         members' \in [Agents -> Roles \cup AskedRoles \cup GivenRoles \cup {Absent}],
         \A a \in Agents :
            members'[a] = IF SetsRole(entry.event, a) THEN RoleSet(entry.event) ELSE members[a],
         \A a \in Agents :
            a \in banned' <=> IF Bans(entry.event, a) \/ Approves(entry.event, a)
                              THEN Bans(entry.event, a) ELSE a \in banned,
         contract' \in Contract, contract'.visibility = contract.visibility,
         contract'.policy = IF entry.event.type = "room.update"
                               /\ entry.event.payload.policy # Absent
                            THEN entry.event.payload.policy ELSE contract.policy,
         validate_room_policy(contract'.policy),
         validate_room_visibility_policy(contract'.visibility, contract'.policy),
         RequestsSound', ReviewedOnce'
  PROVE  AuthoritySound'
<1>0. LogSound
  BY DEF RegistrySound
<1>1. MembersSound'
  <2>1. ASSUME NEW a \in Agents PROVE members'[a] = RoleAt(a, Latest + 1)'
    BY <1>0, <2>1, RoleAtGrows DEF AuthoritySound, MembersSound
  <2> QED
    BY <2>1 DEF MembersSound
<1>2. BansSound'
  <2>1. ASSUME NEW a \in Agents PROVE a \in banned' <=> BannedAt(a, Latest + 1)'
    <3>1. a \in banned <=> BannedAt(a, Latest + 1)
      BY DEF AuthoritySound, BansSound
    <3>2. CASE Bans(entry.event, a) \/ Approves(entry.event, a)
      <4>1. BannedAt(a, Latest + 1)' = Bans(entry.event, a)
        BY <1>0, <3>2, BannedAtGrows
      <4> QED
        BY <3>2, <4>1
    <3>3. CASE ~(Bans(entry.event, a) \/ Approves(entry.event, a))
      <4>1. BannedAt(a, Latest + 1)' = BannedAt(a, Latest + 1)
        BY <1>0, <3>3, BannedAtGrows
      <4> QED
        BY <3>1, <3>3, <4>1
    <3> QED
      BY <3>2, <3>3
  <2> QED
    BY <2>1 DEF BansSound
<1>3. ContractSound'
  <2>1. contract'.policy = PolicyAt(Latest + 1)'
    BY <1>0, PolicyAtGrows DEF AuthoritySound, ContractSound
  <2>2. log'[1] = log[1]
    <3>1. PICK n : n = Len(log)
      OBVIOUS
    <3>2. n \in Nat /\ n > 0 /\ \A i \in 1..n : log'[i] = log[i]
      BY <1>0, <3>1, LogGrows
    <3> QED
      BY <3>2
  <2>3. contract'.visibility = Event(1)'.payload.visibility
    BY <2>2 DEF AuthoritySound, ContractSound, Event
  <2> QED
    BY <2>1, <2>3 DEF ContractSound
<1>4. LastIsAuthorized'
  BY AllowedIsShown DEF AuthoritySound
<1> QED
  BY <1>1, <1>2, <1>3, <1>4 DEF AuthoritySound

(* A write that is no review leaves the requests and their reviews alone.  *)
LEMMA NoReview ==
  ASSUME LogSound, RequestsSound, ReviewedOnce, NEW entry, log' = Append(log, entry),
         entry.event.type # "room.join.review", requests' = requests
  PROVE  RequestsSound' /\ ReviewedOnce'
<1>0. PICK n : n = Len(log)
  OBVIOUS
<1>1. /\ n \in Nat /\ DOMAIN log = 1..n /\ DOMAIN log' = 1..(n + 1) /\ log'[n + 1] = entry
      /\ \A i \in 1..n : log'[i] = log[i]
  BY <1>0, LogGrows
<1>2. ASSUME NEW i \in 1..(n + 1), log'[i].event.type = "room.join.review"
      PROVE  i \in 1..n /\ log'[i] = log[i]
  <2>1. i # n + 1
    BY <1>1, <1>2
  <2> QED
    BY <1>1, <2>1
<1>3. RequestsSound'
  <2>1. ASSUME NEW i \in 1..(n + 1), log'[i].event.type = "room.join.review"
        PROVE  \E q \in requests : Decides(log'[i].event, q)
    BY <1>1, <1>2, <2>1 DEF RequestsSound, Event
  <2> QED
    BY <1>1, <2>1 DEF RequestsSound, Event
<1>4. ReviewedOnce'
  BY <1>1, <1>2 DEF ReviewedOnce, Event
<1> QED
  BY <1>3, <1>4

(* A write that changes neither members nor the rest.                      *)
LEMMA PlainWrite ==
  ASSUME RegistrySound, AuthoritySound, NEW entry, log' = Append(log, entry),
         entry.event.actor \in Agents, Allowed(entry.event), entry.event.type \notin Changing,
         UNCHANGED <<now, members, banned, requests>>,
         contract' \in Contract, contract'.visibility = contract.visibility,
         contract'.policy = contract.policy
  PROVE  AuthoritySound'
<1>1. RequestsSound' /\ ReviewedOnce'
  BY NoReview DEF RegistrySound, AuthoritySound, Changing
<1>2. /\ validate_room_policy(contract'.policy)
      /\ validate_room_visibility_policy(contract'.visibility, contract'.policy)
  BY DEF AuthoritySound, ContractSound
<1>3. \A a \in Agents : ~SetsRole(entry.event, a) /\ ~Bans(entry.event, a) /\ ~Approves(entry.event, a)
  BY ChangesNothing
<1>4. entry.event.type # "room.update"
  BY DEF Changing
<1>5. members' \in [Agents -> Roles \cup AskedRoles \cup GivenRoles \cup {Absent}]
  BY DEF AuthoritySound, MembersSound
<1> QED
  BY <1>1, <1>2, <1>3, <1>4, <1>5, WriteSound

(* Without a record nothing the records say changes.                       *)
LEMMA NoWrite ==
  ASSUME AuthoritySound, UNCHANGED <<contract, members, banned, log>>, now' \in Nat,
         RequestsSound'
  PROVE  AuthoritySound'
<1>1. \A a : RoleAt(a, Latest + 1)' = RoleAt(a, Latest + 1)
  BY DEF RoleAt, LastOr, Before, Event, Latest
<1>2. \A a : BannedAt(a, Latest + 1)' = BannedAt(a, Latest + 1)
  BY DEF BannedAt, LastOr, Before, Event, Latest
<1>3. PolicyAt(Latest + 1)' = PolicyAt(Latest + 1)
  BY DEF PolicyAt, LastOr, Before, Event, Latest
<1>4. MembersSound' /\ BansSound' /\ ContractSound'
  BY <1>1, <1>2, <1>3 DEF AuthoritySound, MembersSound, BansSound, ContractSound, Event
<1>5. ReviewedOnce'
  BY DEF AuthoritySound, ReviewedOnce, Event
<1>6. LastIsAuthorized'
  BY DEF AuthoritySound, LastIsAuthorized, RoleAt, BannedAt, InvitedOrOpen, PolicyAt, TypeAt,
         Defines, CreatedWith, LastOr, Before, Event, Latest
<1> QED
  BY <1>4, <1>5, <1>6 DEF AuthoritySound

(* What a write appends, and that its author was allowed to.               *)
LEMMA WriteAllowed ==
  ASSUME NEW type, NEW actor, NEW payload, NEW direct, Write(type, actor, payload, direct)
  PROVE  /\ \E entry : Appended(type, actor, payload, entry)
         /\ now' = now
         /\ can_submit_event(type, Context(actor, direct), registry)
BY WriteAppends DEF Write, validate_room_write

Managing == {"room.join.review", "room.update", "room.member.role.update", "room.member.remove",
             "room.close", "room.cancel", "type.define"}

LEMMA ManagerAllowed ==
  ASSUME NEW type \in Managing, NEW actor, NEW payload, NEW direct, NEW entry,
         can_submit_event(type, Context(actor, direct), registry),
         Appended(type, actor, payload, entry)
  PROVE  Allowed(entry.event)
<1>1. type \notin TypeNames
  BY DEF Managing, Builtins
<1>2. actor = creator \/ members[actor] = "moderator"
  BY <1>1 DEF Managing, can_submit_event, Context
<1> QED
  BY <1>1, <1>2 DEF Managing, Allowed, Appended

LEMMA PostAllowed ==
  ASSUME RegistrySound, NEW type \in TypeNames \cup {"message.create"}, NEW actor, NEW payload,
         NEW direct, NEW entry, can_submit_event(type, Context(actor, direct), registry),
         Appended(type, actor, payload, entry)
  PROVE  Allowed(entry.event)
<1> DEFINE e == entry.event
<1>1. e.type = type /\ e.actor = actor
  BY DEF Appended
<1>2. CASE type = "message.create"
  <2>1. type \notin TypeNames
    BY <1>2 DEF Builtins
  <2>2. actor = creator \/ members[actor] \in {"moderator", "speaker"}
    BY <1>2, <2>1 DEF can_submit_event, Context
  <2> QED
    BY <1>1, <1>2, <2>2 DEF Allowed
<1>3. CASE type \in TypeNames
  <2>1. type \notin Builtins
    BY <1>3
  <2>2. CustomAllowed(registry[type], Context(actor, direct))
    BY <1>3, <2>1 DEF can_submit_event, Builtins
  <2>3. actor = creator \/ MayPost(members[actor], registry[type])
    <3>1. registry[type] # Absent => registry[type].kind \in Kinds
      BY <1>3 DEF RegistrySound, Registries, TypeDef
    <3> QED
      BY <2>2, <3>1 DEF CustomAllowed, Context, MayPost, default_kind_roles, Kinds
  <2> QED
    BY <1>1, <1>3, <2>1, <2>3 DEF Allowed, Builtins
<1> QED
  BY <1>2, <1>3

LEMMA FinishSound ==
  ASSUME RegistrySound, AuthoritySound, NEW a \in Agents, NEW t \in {"room.close", "room.cancel"},
         Finish(t, a)
  PROVE  AuthoritySound'
<1>1. PICK entry : Appended(t, a, Absent, entry)
  BY WriteAllowed DEF Finish
<1>2. Allowed(entry.event) /\ now' = now
  <2>1. now' = now /\ can_submit_event(t, Context(a, FALSE), registry) /\ t \in Managing
    BY WriteAllowed DEF Finish, Managing
  <2> QED
    BY <1>1, <2>1, ManagerAllowed
<1>3. /\ contract' \in Contract /\ contract'.visibility = contract.visibility
      /\ contract'.policy = contract.policy
  BY DEF Finish, AuthoritySound, ContractSound, Contract
<1> QED
  BY <1>1, <1>2, <1>3, PlainWrite DEF Appended, Changing, Finish

LEMMA PostSound ==
  ASSUME RegistrySound, AuthoritySound, NEW a \in Agents,
         NEW t \in TypeNames \cup {"message.create"}, Post(a, t)
  PROVE  AuthoritySound'
<1>1. PICK entry : Appended(t, a, Absent, entry)
  BY WriteAllowed DEF Post
<1>2. Allowed(entry.event) /\ now' = now
  <2>1. now' = now /\ can_submit_event(t, Context(a, FALSE), registry)
    BY WriteAllowed DEF Post
  <2> QED
    BY <1>1, <2>1, PostAllowed
<1>3. t \notin Changing
  BY DEF Changing, Builtins
<1>4. contract' \in Contract
  BY DEF Post, AuthoritySound, ContractSound
<1> QED
  BY <1>1, <1>2, <1>3, <1>4, PlainWrite DEF Appended, Post

LEMMA TypeDefineSound ==
  ASSUME RegistrySound, AuthoritySound, NEW a \in Agents, NEW d \in Declarations, TypeDefine(a, d)
  PROVE  AuthoritySound'
<1>1. UNCHANGED <<contract, members, banned, requests>>
      /\ (UNCHANGED <<now, log>> \/ Write("type.define", a, d, FALSE))
  BY DEF TypeDefine
<1>2. CASE UNCHANGED <<now, log>>
  <2>1. RequestsSound' /\ now' \in Nat
    BY <1>1, <1>2 DEF AuthoritySound, RequestsSound, Event
  <2> QED
    BY <1>1, <1>2, <2>1, NoWrite
<1>3. CASE Write("type.define", a, d, FALSE)
  <2>1. PICK entry : Appended("type.define", a, d, entry)
    BY <1>3, WriteAllowed
  <2>2. Allowed(entry.event) /\ now' = now
    <3>1. /\ now' = now /\ can_submit_event("type.define", Context(a, FALSE), registry)
          /\ "type.define" \in Managing
      BY <1>3, WriteAllowed DEF Managing
    <3> QED
      BY <2>1, <3>1, ManagerAllowed
  <2>3. contract' \in Contract
    BY <1>1 DEF AuthoritySound, ContractSound
  <2> QED
    BY <1>1, <2>1, <2>2, <2>3, PlainWrite DEF Appended, Changing
<1> QED
  BY <1>1, <1>2, <1>3

LEMMA UpdateSound ==
  ASSUME RegistrySound, AuthoritySound, NEW a \in Agents, NEW u \in Updates, Update(a, u)
  PROVE  AuthoritySound'
<1> DEFINE c == [contract EXCEPT !.policy = Effective(u.policy, @),
                                 !.start_time = Effective(u.start_time, @),
                                 !.end_time = Effective(u.end_time, @)]
<1>1. PICK entry : Appended("room.update", a, u, entry)
  BY WriteAllowed DEF Update
<1>2. Allowed(entry.event) /\ now' = now
  <2>1. /\ now' = now /\ can_submit_event("room.update", Context(a, FALSE), registry)
        /\ "room.update" \in Managing
    BY WriteAllowed DEF Update, Managing
  <2> QED
    BY <1>1, <2>1, ManagerAllowed
<1>3. /\ contract' = c /\ validate_room_visibility_policy(c.visibility, c.policy)
      /\ u.policy # Absent => validate_room_policy(u.policy)
      /\ UNCHANGED <<members, banned, requests, registry>>
  BY DEF Update, validate_room_update_payload
<1>4. contract \in Contract /\ validate_room_policy(contract.policy)
  BY DEF AuthoritySound, ContractSound
<1>5. /\ c \in Contract /\ c.visibility = contract.visibility
      /\ c.policy = IF u.policy # Absent THEN u.policy ELSE contract.policy
  <2>1. /\ Effective(u.policy, contract.policy) \in RoomPolicy
        /\ Effective(u.start_time, contract.start_time) \in Nat
        /\ Effective(u.end_time, contract.end_time) \in Nat
    BY <1>4 DEF Contract, Effective
  <2> QED
    BY <1>4, <2>1 DEF Contract, Effective
<1>6. validate_room_policy(c.policy)
  BY <1>3, <1>4, <1>5
<1> HIDE DEF c
<1>7. /\ entry.event.type = "room.update" /\ entry.event.payload = u /\ entry.event.actor = a
      /\ log' = Append(log, entry)
  BY <1>1 DEF Appended
<1>8. RequestsSound' /\ ReviewedOnce'
  BY <1>3, <1>7, NoReview DEF RegistrySound, AuthoritySound
<1>9. \A b : ~SetsRole(entry.event, b) /\ ~Bans(entry.event, b) /\ ~Approves(entry.event, b)
  BY <1>7 DEF SetsRole, Bans, Approves
<1>10. members' \in [Agents -> Roles \cup AskedRoles \cup GivenRoles \cup {Absent}]
  BY <1>3 DEF AuthoritySound, MembersSound
<1>11. contract'.policy = IF entry.event.type = "room.update" /\ entry.event.payload.policy # Absent
                          THEN entry.event.payload.policy ELSE contract.policy
  BY <1>3, <1>5, <1>7
<1>12. /\ contract' \in Contract /\ contract'.visibility = contract.visibility
       /\ validate_room_policy(contract'.policy)
       /\ validate_room_visibility_policy(contract'.visibility, contract'.policy)
  BY <1>3, <1>5, <1>6
<1>13. \A b \in Agents : members'[b] = IF SetsRole(entry.event, b) THEN RoleSet(entry.event) ELSE members[b]
  BY <1>3, <1>9
<1>14. \A b \in Agents : b \in banned' <=> IF Bans(entry.event, b) \/ Approves(entry.event, b)
                                          THEN Bans(entry.event, b) ELSE b \in banned
  BY <1>3, <1>9
<1> QED
  BY <1>2, <1>7, <1>8, <1>10, <1>11, <1>12, <1>13, <1>14, WriteSound
-----------------------------------------------------------------------------
(* A write that changes members or bans, and neither contract nor requests. *)
LEMMA MemberWrite ==
  ASSUME RegistrySound, AuthoritySound, NEW entry, log' = Append(log, entry), now' = now,
         entry.event.actor \in Agents, Allowed(entry.event),
         entry.event.type \notin {"room.update", "room.join.review"},
         UNCHANGED <<contract, requests>>,
         NEW m \in Agents, NEW role \in Roles \cup AskedRoles \cup GivenRoles \cup {Absent},
         members' = [members EXCEPT ![m] = role],
         \A a \in Agents : SetsRole(entry.event, a) <=> a = m,
         RoleSet(entry.event) = role,
         \A a \in Agents :
            a \in banned' <=> IF Bans(entry.event, a) \/ Approves(entry.event, a)
                              THEN Bans(entry.event, a) ELSE a \in banned
  PROVE  AuthoritySound'
<1>1. RequestsSound' /\ ReviewedOnce'
  BY NoReview DEF RegistrySound, AuthoritySound
<1>2. members \in [Agents -> Roles \cup AskedRoles \cup GivenRoles \cup {Absent}]
  BY DEF AuthoritySound, MembersSound
<1>3. members' \in [Agents -> Roles \cup AskedRoles \cup GivenRoles \cup {Absent}]
  BY <1>2
<1>4. \A a \in Agents :
         members'[a] = IF SetsRole(entry.event, a) THEN RoleSet(entry.event) ELSE members[a]
  BY <1>2
<1>5. /\ contract' \in Contract /\ contract'.visibility = contract.visibility
      /\ contract'.policy = contract.policy
      /\ validate_room_policy(contract'.policy)
      /\ validate_room_visibility_policy(contract'.visibility, contract'.policy)
  BY DEF AuthoritySound, ContractSound
<1> QED
  BY <1>1, <1>3, <1>4, <1>5, WriteSound

LEMMA BuiltinJoins == "room.join" \notin TypeNames /\ "room.leave" \notin TypeNames
  BY DEF Builtins

LEMMA LeaveSound ==
  ASSUME RegistrySound, AuthoritySound, NEW a \in Agents, Leave(a)
  PROVE  AuthoritySound'
<1>1. PICK entry : Appended("room.leave", a, Absent, entry)
  BY WriteAllowed DEF Leave
<1>2. now' = now /\ can_submit_event("room.leave", Context(a, FALSE), registry)
  BY WriteAllowed DEF Leave
<1>3. /\ entry.event.type = "room.leave" /\ entry.event.actor = a /\ log' = Append(log, entry)
  BY <1>1 DEF Appended
<1>4. Allowed(entry.event)
  <2>1. members[a] # Absent /\ a # creator
    BY <1>2, BuiltinJoins DEF can_submit_event, Context
  <2> QED
    BY <1>3, <2>1 DEF Allowed
<1>5. /\ \A b \in Agents : SetsRole(entry.event, b) <=> b = a
      /\ \A b \in Agents : ~Bans(entry.event, b) /\ ~Approves(entry.event, b)
      /\ RoleSet(entry.event) = Absent
  BY <1>3 DEF SetsRole, Bans, Approves, RoleSet
<1> QED
  BY <1>2, <1>3, <1>4, <1>5, MemberWrite DEF Leave

(* An invitation and the open roles are those of the policy in force.      *)
LEMMA DirectIsInvited ==
  ASSUME ContractSound, NEW a \in Agents, NEW role \in Roles,
         can_join_directly(contract.visibility, contract.policy, a, role),
         NEW e, e.actor = a, e.payload = role
  PROVE  Invited(e)
<1>1. CASE contract.policy.invites[a] = role
  BY <1>1 DEF Invited
<1>2. CASE role \in effective_open_roles(contract.visibility, contract.policy)
  <2>1. CASE contract.policy.open_roles = Absent
    BY <1>2, <2>1 DEF effective_open_roles, Invited
  <2>2. CASE contract.policy.open_roles # Absent
    <3>1. role \in contract.policy.open_roles /\ role # "moderator"
      BY <1>2, <2>2 DEF effective_open_roles, ContractSound, validate_room_policy
    <3>2. contract.visibility # "private"
      BY <2>2, <3>1 DEF ContractSound, validate_room_visibility_policy
    <3> QED
      BY <2>2, <3>1, <3>2 DEF Invited
  <2> QED
    BY <2>1, <2>2
<1> QED
  BY <1>1, <1>2 DEF can_join_directly

LEMMA JoinSound ==
  ASSUME RegistrySound, AuthoritySound, NEW a \in Agents, NEW r \in Roles, Join(a, r)
  PROVE  AuthoritySound'
<1>0. PICK direct : direct = can_join_directly(contract.visibility, contract.policy, a, r)
  OBVIOUS
<1>1. Write("room.join", a, r, direct)
  BY <1>0 DEF Join
<1>2. PICK entry : Appended("room.join", a, r, entry)
  BY <1>1, WriteAllowed
<1>3. now' = now /\ can_submit_event("room.join", Context(a, direct), registry)
  BY <1>1, WriteAllowed
<1>4. /\ entry.event.type = "room.join" /\ entry.event.actor = a /\ entry.event.payload = r
      /\ log' = Append(log, entry)
  BY <1>2 DEF Appended
<1>5. direct /\ members[a] = Absent
  BY <1>3, BuiltinJoins DEF can_submit_event, Context
<1>6. can_join_directly(contract.visibility, contract.policy, a, r)
  BY <1>0, <1>5
<1>7. /\ a \notin banned /\ members' = [members EXCEPT ![a] = r]
      /\ UNCHANGED <<contract, banned, requests, registry>>
  BY DEF Join, SetRole
<1>8. Allowed(entry.event)
  <2>1. Invited(entry.event)
    BY <1>4, <1>6, DirectIsInvited DEF AuthoritySound
  <2> QED
    BY <1>4, <1>5, <1>7, <2>1 DEF Allowed
<1>9. /\ \A b \in Agents : SetsRole(entry.event, b) <=> b = a
      /\ \A b \in Agents : ~Bans(entry.event, b) /\ ~Approves(entry.event, b)
      /\ RoleSet(entry.event) = r
  BY <1>4 DEF SetsRole, Bans, Approves, RoleSet
<1> QED
  BY <1>3, <1>4, <1>7, <1>8, <1>9, MemberWrite

LEMMA RoleUpdateSound ==
  ASSUME RegistrySound, AuthoritySound, NEW a \in Agents, NEW b \in Agents, NEW r \in GivenRoles,
         RoleUpdate(a, b, r)
  PROVE  AuthoritySound'
<1> DEFINE payload == [member |-> b, role |-> r]
<1>1. PICK entry : Appended("room.member.role.update", a, payload, entry)
  BY WriteAllowed DEF RoleUpdate
<1>2. Allowed(entry.event) /\ now' = now
  <2>1. /\ now' = now /\ can_submit_event("room.member.role.update", Context(a, FALSE), registry)
        /\ "room.member.role.update" \in Managing
    BY WriteAllowed DEF RoleUpdate, Managing
  <2> HIDE DEF payload
  <2> QED
    BY <1>1, <2>1, ManagerAllowed
<1>3. /\ entry.event.type = "room.member.role.update" /\ entry.event.actor = a
      /\ entry.event.payload = payload /\ log' = Append(log, entry)
  BY <1>1 DEF Appended
<1>4. /\ \A c \in Agents : SetsRole(entry.event, c) <=> c = b
      /\ \A c \in Agents : ~Bans(entry.event, c) /\ ~Approves(entry.event, c)
      /\ RoleSet(entry.event) = r
  BY <1>3 DEF SetsRole, Bans, Approves, RoleSet
<1> QED
  BY <1>2, <1>3, <1>4, MemberWrite DEF RoleUpdate, SetRole

LEMMA RemoveMemberSound ==
  ASSUME RegistrySound, AuthoritySound, NEW a \in Agents, NEW b \in Agents, NEW ban \in BOOLEAN,
         RemoveMember(a, b, ban)
  PROVE  AuthoritySound'
<1> DEFINE payload == [member |-> b, ban |-> ban]
<1>1. PICK entry : Appended("room.member.remove", a, payload, entry)
  BY WriteAllowed DEF RemoveMember
<1>2. Allowed(entry.event) /\ now' = now
  <2>1. /\ now' = now /\ can_submit_event("room.member.remove", Context(a, FALSE), registry)
        /\ "room.member.remove" \in Managing
    BY WriteAllowed DEF RemoveMember, Managing
  <2> HIDE DEF payload
  <2> QED
    BY <1>1, <2>1, ManagerAllowed
<1>3. /\ entry.event.type = "room.member.remove" /\ entry.event.actor = a
      /\ entry.event.payload = payload /\ log' = Append(log, entry)
  BY <1>1 DEF Appended
<1>4. /\ \A c \in Agents : SetsRole(entry.event, c) <=> c = b
      /\ \A c \in Agents : ~Approves(entry.event, c)
      /\ RoleSet(entry.event) = Absent
  BY <1>3 DEF SetsRole, Approves, RoleSet
<1>5. \A c \in Agents : Bans(entry.event, c) <=> (ban /\ c = b)
  <2>1. \A c : payload = [member |-> c, ban |-> TRUE] <=> (ban /\ c = b)
    <3>1. ASSUME NEW c PROVE payload = [member |-> c, ban |-> TRUE] <=> (ban = TRUE /\ c = b)
      <4>1. payload.member = b /\ payload.ban = ban
        OBVIOUS
      <4>2. [member |-> c, ban |-> TRUE].member = c /\ [member |-> c, ban |-> TRUE].ban = TRUE
        OBVIOUS
      <4> QED
        BY <4>1, <4>2
    <3> QED
      BY <3>1
  <2> QED
    <3> HIDE DEF payload
    <3>1. ASSUME NEW c \in Agents PROVE Bans(entry.event, c) <=> payload = [member |-> c, ban |-> TRUE]
      BY <1>3 DEF Bans
    <3> QED
      BY <2>1, <3>1
<1>6. banned' = IF ban THEN banned \cup {b} ELSE banned
  BY DEF RemoveMember
<1>7. \A c \in Agents :
         c \in banned' <=> IF Bans(entry.event, c) \/ Approves(entry.event, c)
                           THEN Bans(entry.event, c) ELSE c \in banned
  BY <1>4, <1>5, <1>6
<1> QED
  BY <1>2, <1>3, <1>4, <1>7, MemberWrite DEF RemoveMember

LEMMA SignedParts ==
  ASSUME NEW q
  PROVE  /\ Signed(q).actor = q.actor
         /\ Signed(q).payload = [role |-> q.role, created_at |-> q.created_at]
BY DEF Signed, room_join_request_event, discourse_event

(* A review decides a pending request, which no record has decided before. *)
LEMMA ReviewDecides ==
  ASSUME LogSound, RequestsSound, ReviewedOnce, NEW entry, log' = Append(log, entry),
         entry.event.type = "room.join.review",
         NEW q \in requests, q.status = "pending", entry.event.payload.request = Signed(q),
         NEW d \in {"approve", "reject"}, requests' = Reviewed(q, d)
  PROVE  RequestsSound' /\ ReviewedOnce'
<1> DEFINE new == [q EXCEPT !.status = IF d = "approve" THEN "approved" ELSE "rejected"]
<1>0. PICK n : n = Len(log)
  OBVIOUS
<1>1. /\ n \in Nat /\ DOMAIN log = 1..n /\ DOMAIN log' = 1..(n + 1) /\ log'[n + 1] = entry
      /\ \A i \in 1..n : log'[i] = log[i]
      /\ 1..(n + 1) = (1..n) \cup {n + 1}
  BY <1>0, LogGrows
<1>2. /\ q \in Asked /\ new \in Asked /\ new.actor = q.actor /\ new.role = q.role
      /\ new.created_at = q.created_at /\ new.status \in {"approved", "rejected"}
  BY DEF RequestsSound, Asked
<1>3. requests' = (requests \ {q}) \cup {new}
  BY DEF Reviewed
<1>4. Signed(new) = Signed(q)
  BY <1>2 DEF Signed
<1> HIDE DEF new
<1>5. requests' \subseteq Asked
  BY <1>2, <1>3 DEF RequestsSound
<1>6. ASSUME NEW x \in requests', NEW y \in requests', x.actor = y.actor, x.created_at = y.created_at
      PROVE  x = y
  <2>1. \A z \in requests : z.actor = q.actor /\ z.created_at = q.created_at => z = q
    BY DEF RequestsSound
  <2>2. CASE x = new /\ y = new
    BY <2>2
  <2>3. CASE x # new /\ y # new
    BY <1>3, <1>6, <2>3 DEF RequestsSound
  <2>4. CASE x = new /\ y # new
    BY <1>2, <1>3, <1>6, <2>1, <2>4
  <2>5. CASE x # new /\ y = new
    BY <1>2, <1>3, <1>6, <2>1, <2>5
  <2> QED
    BY <2>2, <2>3, <2>4, <2>5
<1>7. ASSUME NEW i \in 1..n, log[i].event.type = "room.join.review"
      PROVE  \E p \in requests \ {q} : Decides(log[i].event, p)
  <2>1. PICK p \in requests : Decides(log[i].event, p)
    BY <1>1, <1>7 DEF RequestsSound, Event
  <2>2. p # q
    BY <2>1 DEF Decides
  <2> QED
    BY <2>1, <2>2
<1>8. ASSUME NEW i \in 1..(n + 1), log'[i].event.type = "room.join.review"
      PROVE  \E p \in requests' : Decides(log'[i].event, p)
  <2>1. CASE i = n + 1
    BY <1>1, <1>2, <1>3, <1>4, <2>1 DEF Decides
  <2>2. CASE i \in 1..n
    BY <1>1, <1>3, <1>7, <1>8, <2>2
  <2> QED
    BY <1>1, <2>1, <2>2
<1>9. RequestsSound'
  BY <1>1, <1>5, <1>6, <1>8 DEF RequestsSound, Event
<1>10. ASSUME NEW i \in 1..n, log[i].event.type = "room.join.review"
       PROVE  log[i].event.payload.request # entry.event.payload.request
  <2>1. PICK p \in requests \ {q} : Decides(log[i].event, p)
    BY <1>7, <1>10
  <2> SUFFICES ASSUME Signed(p) = Signed(q) PROVE FALSE
    BY <2>1 DEF Decides
  <2>2. /\ Signed(p).actor = p.actor
        /\ Signed(p).payload = [role |-> p.role, created_at |-> p.created_at]
    BY SignedParts
  <2>3. /\ Signed(q).actor = q.actor
        /\ Signed(q).payload = [role |-> q.role, created_at |-> q.created_at]
    BY SignedParts
  <2>4. p.actor = q.actor /\ p.created_at = q.created_at
    <3>1. [role |-> p.role, created_at |-> p.created_at] = [role |-> q.role, created_at |-> q.created_at]
      BY <2>2, <2>3
    <3>2. [role |-> p.role, created_at |-> p.created_at].created_at
          = [role |-> q.role, created_at |-> q.created_at].created_at
      BY <3>1
    <3> QED
      BY <2>2, <2>3, <3>2
  <2> QED
    BY <2>1, <2>4 DEF RequestsSound
<1>11. ReviewedOnce'
  <2> SUFFICES ASSUME NEW i \in 1..(n + 1), NEW j \in 1..(n + 1),
                      log'[i].event.type = "room.join.review",
                      log'[j].event.type = "room.join.review",
                      log'[i].event.payload.request = log'[j].event.payload.request
               PROVE  i = j
    BY <1>1 DEF ReviewedOnce, Event
  <2>1. CASE i \in 1..n /\ j \in 1..n
    BY <1>1, <2>1 DEF ReviewedOnce, Event
  <2>2. CASE i = n + 1 /\ j \in 1..n
    BY <1>1, <1>10, <2>2
  <2>3. CASE i \in 1..n /\ j = n + 1
    BY <1>1, <1>10, <2>3
  <2> QED
    BY <1>1, <2>1, <2>2, <2>3
<1> QED
  BY <1>9, <1>11

LEMMA ReviewSound ==
  ASSUME RegistrySound, AuthoritySound, NEW a \in Agents, NEW q \in requests,
         NEW d \in {"approve", "reject"}, NEW r \in GivenRoles \cup {Absent}, Review(a, q, d, r)
  PROVE  AuthoritySound'
<1> DEFINE payload == [request |-> Signed(q), decision |-> d, role |-> r]
<1>1. Write("room.join.review", a, payload, FALSE)
  BY DEF Review, Signed
<1>2. PICK entry : Appended("room.join.review", a, payload, entry)
  BY <1>1, WriteAllowed
<1>3. Allowed(entry.event) /\ now' = now
  <2>1. /\ now' = now /\ can_submit_event("room.join.review", Context(a, FALSE), registry)
        /\ "room.join.review" \in Managing
    BY <1>1, WriteAllowed DEF Managing
  <2> HIDE DEF payload
  <2> QED
    BY <1>2, <2>1, ManagerAllowed
<1>4. /\ entry.event.type = "room.join.review" /\ entry.event.actor = a
      /\ entry.event.payload = payload /\ log' = Append(log, entry)
  BY <1>2 DEF Appended
<1>5. q.status = "pending" /\ requests' = Reviewed(q, d) /\ UNCHANGED <<contract, registry>>
  BY DEF Review, IsPending
<1>6. RequestsSound' /\ ReviewedOnce'
  BY <1>4, <1>5, ReviewDecides DEF RegistrySound, AuthoritySound
<1>7. /\ \A b \in Agents : ~Bans(entry.event, b)
      /\ \A b \in Agents : Approves(entry.event, b) <=> (d = "approve" /\ b = q.actor)
      /\ \A b \in Agents : SetsRole(entry.event, b) <=> (d = "approve" /\ b = q.actor)
      /\ RoleSet(entry.event) = r
  <2>1. payload.decision = d /\ payload.role = r /\ payload.request = Signed(q)
    OBVIOUS
  <2> HIDE DEF payload
  <2> QED
    BY <1>4, <2>1, SignedParts DEF Bans, Approves, SetsRole, RoleSet
<1>8. q.actor \in Agents /\ members \in [Agents -> Roles \cup AskedRoles \cup GivenRoles \cup {Absent}]
  BY DEF AuthoritySound, RequestsSound, Asked, MembersSound
<1>9. IF d = "approve"
      THEN members' = [members EXCEPT ![q.actor] = r] /\ banned' = banned \ {q.actor}
      ELSE members' = members /\ banned' = banned
  BY DEF Review, SetRole
<1>10. members' \in [Agents -> Roles \cup AskedRoles \cup GivenRoles \cup {Absent}]
  BY <1>8, <1>9
<1>11. \A b \in Agents :
          members'[b] = IF SetsRole(entry.event, b) THEN RoleSet(entry.event) ELSE members[b]
  BY <1>7, <1>8, <1>9
<1>12. \A b \in Agents :
          b \in banned' <=> IF Bans(entry.event, b) \/ Approves(entry.event, b)
                            THEN Bans(entry.event, b) ELSE b \in banned
  BY <1>7, <1>9
<1>13. /\ contract' \in Contract /\ contract'.visibility = contract.visibility
       /\ contract'.policy = contract.policy
       /\ validate_room_policy(contract'.policy)
       /\ validate_room_visibility_policy(contract'.visibility, contract'.policy)
  BY <1>5 DEF AuthoritySound, ContractSound
<1> QED
  BY <1>3, <1>4, <1>6, <1>10, <1>11, <1>12, <1>13, WriteSound

(* A new request supersedes pending ones and leaves decided ones alone.    *)
LEMMA JoinRequestSound ==
  ASSUME RegistrySound, AuthoritySound, NEW a \in Agents, NEW r \in AskedRoles, JoinRequest(a, r)
  PROVE  AuthoritySound'
<1> DEFINE new == [actor |-> a, role |-> r, created_at |-> now, status |-> "pending"]
           Kept(q) == [q EXCEPT !.status =
                          IF q.actor = a /\ q.status = "pending" THEN "expired" ELSE @]
<1>1. /\ ~\E q \in requests : q.actor = a /\ q.created_at = now
      /\ requests' = {Kept(q) : q \in requests} \cup {new}
      /\ UNCHANGED <<now, contract, members, banned, registry, log>>
  BY DEF JoinRequest
<1>2. new \in Asked /\ now \in Nat /\ new.actor = a /\ new.created_at = now
  BY DEF AuthoritySound, Asked
<1>3. ASSUME NEW q \in requests
      PROVE  /\ Kept(q) \in Asked /\ Kept(q).actor = q.actor
             /\ Kept(q).created_at = q.created_at
             /\ q.status \in {"approved", "rejected"} => Kept(q) = q
  <2>1. q \in Asked
    BY DEF AuthoritySound, RequestsSound
  <2> QED
    BY <2>1 DEF Asked
<1> HIDE DEF new, Kept
<1>4. RequestsSound'
  <2>1. requests' \subseteq Asked
    BY <1>1, <1>2, <1>3
  <2>2. ASSUME NEW x \in requests', NEW y \in requests', x.actor = y.actor,
               x.created_at = y.created_at
        PROVE  x = y
    <3>1. CASE x = new /\ y = new
      BY <3>1
    <3>2. CASE x = new /\ \E q \in requests : y = Kept(q)
      BY <1>1, <1>2, <1>3, <2>2, <3>2
    <3>3. CASE y = new /\ \E q \in requests : x = Kept(q)
      BY <1>1, <1>2, <1>3, <2>2, <3>3
    <3>4. CASE (\E q \in requests : x = Kept(q)) /\ (\E q \in requests : y = Kept(q))
      <4>1. PICK p \in requests : x = Kept(p)
        BY <3>4
      <4>2. PICK q \in requests : y = Kept(q)
        BY <3>4
      <4>3. p = q
        BY <1>3, <2>2, <4>1, <4>2 DEF AuthoritySound, RequestsSound
      <4> QED
        BY <4>1, <4>2, <4>3
    <3> QED
      BY <1>1, <3>1, <3>2, <3>3, <3>4
  <2>3. ASSUME NEW i \in DOMAIN log, Event(i).type = "room.join.review"
        PROVE  \E q \in requests' : Decides(Event(i), q)
    <3>1. PICK q \in requests : Decides(Event(i), q)
      BY <2>3 DEF AuthoritySound, RequestsSound
    <3>2. Kept(q) = q
      BY <1>3, <3>1 DEF Decides
    <3> QED
      BY <1>1, <3>1, <3>2
  <2> QED
    BY <1>1, <2>1, <2>2, <2>3 DEF RequestsSound, Event
<1> QED
  BY <1>1, <1>2, <1>4, NoWrite

LEMMA AuthorityNext ==
  ASSUME RegistrySound, AuthoritySound, [Next]_vars
  PROVE  AuthoritySound'
<1>1. ASSUME UNCHANGED <<contract, members, banned, requests, log>>, now' \in Nat
      PROVE  AuthoritySound'
  <2>1. RequestsSound'
    BY <1>1 DEF AuthoritySound, RequestsSound, Event
  <2> QED
    BY <1>1, <2>1, NoWrite
<1>2. CASE Tick
  <2>1. now' \in Nat
    BY <1>2 DEF Tick, AuthoritySound
  <2> QED
    BY <1>1, <1>2, <2>1 DEF Tick
<1>3. CASE UNCHANGED vars
  BY <1>1, <1>3 DEF vars, AuthoritySound
<1> QED
  BY <1>2, <1>3, TypeDefineSound, UpdateSound, LeaveSound, FinishSound, PostSound, JoinSound,
     JoinRequestSound, RoleUpdateSound, RemoveMemberSound, ReviewSound DEF Next

LEMMA AuthorityAtFirst == Init => AuthoritySound
<1> SUFFICES ASSUME Init PROVE AuthoritySound
  OBVIOUS
<1>1. PICK p \in Creations :
         /\ validate_room_create_payload(p)
         /\ contract = [visibility |-> p.visibility, policy |-> p.policy,
                        start_time |-> p.start_time, end_time |-> p.end_time,
                        finished |-> "no"]
         /\ log = <<[event |-> room_create_event(p), accepted_at |-> 0]>>
  BY DEF Init
<1>2. /\ Len(log) = 1 /\ DOMAIN log = {1} /\ log[1].event = room_create_event(p)
      /\ Event(1).type = "room.create" /\ Event(1).actor = creator /\ Event(1).payload = p
  BY <1>1 DEF Event, room_create_event, discourse_event
<1>3. /\ Latest + 1 = 2 /\ 1..(2 - 1) = {1} /\ Latest = 1
  BY <1>2 DEF Latest
<1>4. MembersSound
  <2>1. members = [a \in Agents |-> IF a = creator THEN "moderator" ELSE Absent]
    BY DEF Init
  <2>2. ASSUME NEW a \in Agents PROVE members[a] = RoleAt(a, 2)
    <3>1. Before(2, LAMBDA e : SetsRole(e, a)) = IF a = creator THEN {1} ELSE {}
      BY <1>2, <1>3 DEF Before, SetsRole, Approves
    <3>2. Max({1}) = 1
      BY DEF Max
    <3> QED
      BY <1>2, <2>1, <3>1, <3>2 DEF RoleAt, LastOr, RoleSet
  <2> QED
    BY <1>3, <2>1, <2>2 DEF MembersSound, Roles
<1>5. BansSound
  <2>1. ASSUME NEW a \in Agents PROVE ~BannedAt(a, 2)
    <3>1. Before(2, LAMBDA e : Bans(e, a) \/ Approves(e, a)) = {}
      BY <1>2, <1>3 DEF Before, Bans, Approves
    <3> QED
      BY <3>1 DEF BannedAt, LastOr
  <2> QED
    BY <1>3, <2>1 DEF BansSound, Init
<1>6. ContractSound
  <2>1. PolicyAt(2) = p.policy
    <3>1. Before(2, LAMBDA e : e.type = "room.update" /\ e.payload.policy # Absent) = {}
      BY <1>2, <1>3 DEF Before
    <3> QED
      BY <1>2, <3>1 DEF PolicyAt, LastOr
  <2>2. contract \in Contract
    BY <1>1 DEF Contract
  <2> QED
    BY <1>1, <1>2, <1>3, <2>1, <2>2 DEF ContractSound, validate_room_create_payload
<1>7. RequestsSound /\ ReviewedOnce
  BY <1>2 DEF RequestsSound, ReviewedOnce, Init
<1>8. LastIsAuthorized
  BY <1>2, <1>3 DEF LastIsAuthorized
<1> QED
  BY <1>4, <1>5, <1>6, <1>7, <1>8 DEF AuthoritySound, Init

(* The authority behind every record can be read from the records before   *)
(* it, a request is reviewed once, and the members are those the records   *)
(* make members (discourse.rs, can_submit_event and can_join_directly).    *)
THEOREM RecordsStayAuthorized == Spec => []RecordsAreAuthorized
<1>1. AuthoritySound => RecordsAreAuthorized
  BY DEF AuthoritySound, MembersSound, RecordsAreAuthorized
<1>2. Spec => []AuthoritySound
  BY RegistryInvariant, AuthorityAtFirst, AuthorityNext, PTL DEF Spec
<1> QED
  BY <1>1, <1>2, PTL
-----------------------------------------------------------------------------
(* From here on the assumptions are named where they are used.             *)
HIDE RoomAssumption
HIDE PacksAssumption
HIDE CreationsAssumption
HIDE UpdatesAssumption
HIDE DeclarationsAssumption
-----------------------------------------------------------------------------
(* Two folds over records                                                  *)

(* One step of the chain of records, and one of a replay.                  *)
Step(what, x, e) ==
    IF what = "records"
    THEN Append(x, build_server_record(room, Len(x) + 1, IF x = <<>> THEN Absent ELSE Last(x).hash,
                                       e.accepted_at, Sign(e.event)))
    ELSE replay_record(x, e)

(* The values of such a fold over a sequence, for every set of its places. *)
Folds(it, what, base, seq) ==
    it = [s \in SUBSET DOMAIN seq |->
             IF s = {} THEN base ELSE Step(what, it[s \ {Max(s)}], seq[Max(s)])]

LEMMA FoldsExist ==
  ASSUME NEW what, NEW base, NEW seq, NEW n \in Nat, DOMAIN seq = 1..n
  PROVE  \E it : Folds(it, what, base, seq)
<1> DEFINE Solves(it, k) ==
             it = [s \in SUBSET (1..k) |->
                     IF s = {} THEN base ELSE Step(what, it[s \ {Max(s)}], seq[Max(s)])]
           Bad == {k \in Nat : k <= n /\ ~ \E it : Solves(it, k)}
<1>1. Bad = {}
  <2> SUFFICES ASSUME Bad # {} PROVE FALSE
    OBVIOUS
  <2>1. PICK k \in Bad : \A j \in Bad : k <= j
    BY LeastNumber
  <2>2. k \in Nat /\ k <= n /\ \A it : ~ Solves(it, k)
    BY <2>1
  <2>3. CASE k = 0
    <3> DEFINE g == [s \in SUBSET (1..k) |-> base]
    <3>1. \A s \in SUBSET (1..k) : s = {}
      BY <2>3
    <3>2. g = [s \in SUBSET (1..k) |->
                 IF s = {} THEN base ELSE Step(what, g[s \ {Max(s)}], seq[Max(s)])]
      BY <3>1
    <3> QED
      <4> HIDE DEF g
      <4> QED
        BY <2>2, <3>2
  <2>4. CASE k # 0
    <3>1. k \in Nat /\ k - 1 \in Nat /\ k - 1 <= n /\ k <= n /\ ~(k <= k - 1)
      BY <2>2, <2>4
    <3>2. k - 1 \notin Bad
      BY <2>1, <3>1
    <3>3. PICK f : Solves(f, k - 1)
      <4> HIDE DEF Solves
      <4> QED
        BY <3>1, <3>2
    <3>4. ASSUME NEW s \in SUBSET (1..k), s # {}
          PROVE  s \ {Max(s)} \in SUBSET (1..(k - 1)) /\ s \ {Max(s)} \in SUBSET (1..k)
      <4>1. s \in SUBSET (0..k)
        BY <3>1
      <4>2. Max(s) \in s /\ \A y \in s : Max(s) >= y
        BY <3>1, <3>4, <4>1, MaxOfBounded
      <4>3. ASSUME NEW y \in s \ {Max(s)} PROVE y \in 1..(k - 1)
        <5>1. y \in 1..k /\ Max(s) \in 1..k /\ Max(s) >= y /\ Max(s) # y
          BY <4>2, <4>3
        <5> QED
          BY <3>1, <5>1
      <4> QED
        BY <4>3
    <3> DEFINE g == [s \in SUBSET (1..k) |->
                       IF s = {} THEN base ELSE Step(what, f[s \ {Max(s)}], seq[Max(s)])]
    <3>5. ASSUME NEW t \in SUBSET (1..(k - 1)) PROVE g[t] = f[t]
      <4>1. t \in SUBSET (1..k)
        BY <3>1
      <4>2. f[t] = IF t = {} THEN base ELSE Step(what, f[t \ {Max(t)}], seq[Max(t)])
        BY <3>3
      <4> QED
        BY <4>1, <4>2
    <3>6. ASSUME NEW s \in SUBSET (1..k)
          PROVE  g[s] = IF s = {} THEN base ELSE Step(what, g[s \ {Max(s)}], seq[Max(s)])
      <4>1. CASE s = {}
        BY <4>1
      <4>2. CASE s # {}
        <5>1. g[s \ {Max(s)}] = f[s \ {Max(s)}]
          BY <4>2, <3>4, <3>5
        <5>2. g[s] = Step(what, f[s \ {Max(s)}], seq[Max(s)])
          BY <4>2
        <5> QED
          BY <4>2, <5>1, <5>2
      <4> QED
        BY <4>1, <4>2
    <3> DEFINE h == [s \in SUBSET (1..k) |->
                       IF s = {} THEN base ELSE Step(what, g[s \ {Max(s)}], seq[Max(s)])]
    <3>7. g = h
      <4>1. \A s \in SUBSET (1..k) : h[s] = IF s = {} THEN base ELSE Step(what, g[s \ {Max(s)}], seq[Max(s)])
        OBVIOUS
      <4>2. \A s \in SUBSET (1..k) : g[s] = h[s]
        <5> HIDE DEF g, h
        <5> QED
          BY <3>6, <4>1
      <4>3. g = [s \in SUBSET (1..k) |-> g[s]] /\ h = [s \in SUBSET (1..k) |-> h[s]]
        OBVIOUS
      <4> HIDE DEF g, h
      <4> QED
        BY <4>2, <4>3
    <3>8. Solves(g, k)
      <4> HIDE DEF g
      <4> QED
        BY <3>7
    <3> QED
      <4> HIDE DEF Solves, g
      <4> QED
        BY <2>2, <3>8
  <2> QED
    BY <2>3, <2>4
<1>2. \E it : Solves(it, n)
  <2>1. n \notin Bad
    <3> HIDE DEF Bad
    <3> QED
      BY <1>1
  <2> HIDE DEF Solves
  <2> QED
    BY <2>1
<1> QED
  BY <1>2 DEF Folds

(* Place after place. *)
Stepwise(it, what, base, seq, n) ==
    /\ it[1..0] = base
    /\ \A k \in 1..n : it[1..k] = Step(what, it[1..(k - 1)], seq[k])

LEMMA FoldSteps ==
  ASSUME NEW n \in Nat, NEW what, NEW base, NEW seq, DOMAIN seq = 1..n,
         NEW it, Folds(it, what, base, seq)
  PROVE  Stepwise(it, what, base, seq, n)
<1>1. \A s \in SUBSET (1..n) :
         it[s] = IF s = {} THEN base ELSE Step(what, it[s \ {Max(s)}], seq[Max(s)])
  BY DEF Folds
<1>2. it[1..0] = base
  <2>1. 1..0 = {}
    OBVIOUS
  <2> QED
    BY <1>1, <2>1
<1>3. ASSUME NEW k \in 1..n PROVE it[1..k] = Step(what, it[1..(k - 1)], seq[k])
  <2>1. k \in Nat /\ k > 0 /\ 1..k \in SUBSET (1..n)
    OBVIOUS
  <2>2. Max(1..k) = k /\ 1..k # {} /\ (1..k) \ {k} = 1..(k - 1)
    BY <2>1, UpTo
  <2>3. it[1..k] = IF 1..k = {} THEN base
                   ELSE Step(what, it[(1..k) \ {Max(1..k)}], seq[Max(1..k)])
    BY <1>1, <2>1
  <2> QED
    BY <2>2, <2>3
<1> QED
  BY <1>2, <1>3 DEF Stepwise

(* One place more is one step more. *)
LEMMA FoldGrows ==
  ASSUME NEW what, NEW base, NEW n \in Nat, NEW old, DOMAIN old = 1..n,
         NEW new, DOMAIN new = 1..(n + 1), \A i \in 1..n : new[i] = old[i],
         NEW f, Folds(f, what, base, old), NEW g, Folds(g, what, base, new)
  PROVE  g[1..(n + 1)] = Step(what, f[1..n], new[n + 1])
<1>1. f[1..0] = base /\ \A k \in 1..n : f[1..k] = Step(what, f[1..(k - 1)], old[k])
  <2>1. Stepwise(f, what, base, old, n)
    BY FoldSteps
  <2> QED
    BY <2>1 DEF Stepwise
<1>2. g[1..0] = base /\ \A k \in 1..(n + 1) : g[1..k] = Step(what, g[1..(k - 1)], new[k])
  <2>1. PICK m \in Nat : m = n + 1
    OBVIOUS
  <2>2. DOMAIN new = 1..m
    BY <2>1
  <2>3. Stepwise(g, what, base, new, m)
    BY <2>2, FoldSteps
  <2> QED
    BY <2>1, <2>3 DEF Stepwise
<1> DEFINE Bad == {k \in Nat : k <= n /\ f[1..k] # g[1..k]}
<1>3. Bad = {}
  <2> SUFFICES ASSUME Bad # {} PROVE FALSE
    OBVIOUS
  <2>1. PICK k \in Bad : \A j \in Bad : k <= j
    BY LeastNumber
  <2>2. k \in Nat /\ k <= n /\ f[1..k] # g[1..k]
    BY <2>1
  <2>3. k # 0
    BY <1>1, <1>2, <2>2
  <2>4. k - 1 \in Nat /\ k - 1 <= n /\ ~(k <= k - 1) /\ k \in 1..n /\ k \in 1..(n + 1)
    BY <2>2, <2>3
  <2>5. f[1..(k - 1)] = g[1..(k - 1)]
    BY <2>1, <2>4
  <2>6. new[k] = old[k]
    BY <2>4
  <2> QED
    BY <1>1, <1>2, <2>2, <2>4, <2>5, <2>6
<1>4. f[1..n] = g[1..n]
  <2>1. n \notin Bad
    <3> HIDE DEF Bad
    <3> QED
      BY <1>3
  <2> QED
    BY <2>1
<1>5. n + 1 \in 1..(n + 1) /\ (n + 1) - 1 = n
  OBVIOUS
<1> QED
  BY <1>2, <1>4, <1>5

RecordsFold(l) ==
    CHOOSE it : it = [s \in SUBSET DOMAIN l |->
        IF s = {} THEN <<>>
        ELSE Append(it[s \ {Max(s)}],
                    build_server_record(room, Len(it[s \ {Max(s)}]) + 1,
                        IF it[s \ {Max(s)}] = <<>> THEN Absent ELSE Last(it[s \ {Max(s)}]).hash,
                        l[Max(s)].accepted_at, Sign(l[Max(s)].event)))]

LEMMA RecordsDef == ASSUME NEW l PROVE Records(l) = RecordsFold(l)[DOMAIN l]
BY Zenon DEF Records, FoldLeft, MapThenFoldSet, RecordsFold

LEMMA RecordsFolds ==
  ASSUME NEW l, NEW n \in Nat, DOMAIN l = 1..n
  PROVE  Folds(RecordsFold(l), "records", <<>>, l)
<1> DEFINE Is(it) == it = [s \in SUBSET DOMAIN l |->
        IF s = {} THEN <<>>
        ELSE Append(it[s \ {Max(s)}],
                    build_server_record(room, Len(it[s \ {Max(s)}]) + 1,
                        IF it[s \ {Max(s)}] = <<>> THEN Absent ELSE Last(it[s \ {Max(s)}]).hash,
                        l[Max(s)].accepted_at, Sign(l[Max(s)].event)))]
<1>1. ASSUME NEW it PROVE Folds(it, "records", <<>>, l) <=> Is(it)
  <2>1. \A x, e : Step("records", x, e)
           = Append(x, build_server_record(room, Len(x) + 1, IF x = <<>> THEN Absent ELSE Last(x).hash,
                                       e.accepted_at, Sign(e.event)))
    BY DEF Step
  <2> DEFINE A == [s \in SUBSET DOMAIN l |->
                     IF s = {} THEN <<>> ELSE Step("records", it[s \ {Max(s)}], l[Max(s)])]
             B == [s \in SUBSET DOMAIN l |->
        IF s = {} THEN <<>>
        ELSE Append(it[s \ {Max(s)}],
                    build_server_record(room, Len(it[s \ {Max(s)}]) + 1,
                        IF it[s \ {Max(s)}] = <<>> THEN Absent ELSE Last(it[s \ {Max(s)}]).hash,
                        l[Max(s)].accepted_at, Sign(l[Max(s)].event)))]
  <2>2. ASSUME NEW s \in SUBSET DOMAIN l PROVE A[s] = B[s]
    <3>1. A[s] = IF s = {} THEN <<>> ELSE Step("records", it[s \ {Max(s)}], l[Max(s)])
      OBVIOUS
    <3> HIDE DEF A
    <3> QED
      BY <2>1, <3>1
  <2>3. A = [s \in SUBSET DOMAIN l |-> A[s]] /\ B = [s \in SUBSET DOMAIN l |-> B[s]]
    OBVIOUS
  <2>4. A = B
    <3> HIDE DEF A, B
    <3> QED
      BY <2>2, <2>3
  <2>5. (Folds(it, "records", <<>>, l) <=> it = A) /\ (Is(it) <=> it = B)
    BY Zenon DEF Folds
  <2> HIDE DEF A, B, Is
  <2> QED
    BY <2>4, <2>5
<1>2. \E it : Is(it)
  BY <1>1, FoldsExist
<1>3. Is(RecordsFold(l))
  BY <1>2 DEF RecordsFold
<1> HIDE DEF Is
<1> QED
  BY <1>1, <1>3

Replayed(base, records) == FoldLeft(replay_record, base, records)

ReplayFold(base, records) ==
    CHOOSE it : it = [s \in SUBSET DOMAIN records |->
        IF s = {} THEN base ELSE replay_record(it[s \ {Max(s)}], records[Max(s)])]

LEMMA ReplayDef ==
  ASSUME NEW base, NEW records
  PROVE  Replayed(base, records) = ReplayFold(base, records)[DOMAIN records]
BY Zenon DEF Replayed, FoldLeft, MapThenFoldSet, ReplayFold

LEMMA ReplayFolds ==
  ASSUME NEW base, NEW records, NEW n \in Nat, DOMAIN records = 1..n
  PROVE  Folds(ReplayFold(base, records), "replay", base, records)
<1> DEFINE Is(it) == it = [s \in SUBSET DOMAIN records |->
        IF s = {} THEN base ELSE replay_record(it[s \ {Max(s)}], records[Max(s)])]
<1>1. ASSUME NEW it PROVE Folds(it, "replay", base, records) <=> Is(it)
  <2>1. \A x, e : Step("replay", x, e) = replay_record(x, e)
    BY DEF Step
  <2> DEFINE A == [s \in SUBSET DOMAIN records |->
                     IF s = {} THEN base ELSE Step("replay", it[s \ {Max(s)}], records[Max(s)])]
             B == [s \in SUBSET DOMAIN records |->
                     IF s = {} THEN base ELSE replay_record(it[s \ {Max(s)}], records[Max(s)])]
  <2>2. ASSUME NEW s \in SUBSET DOMAIN records PROVE A[s] = B[s]
    BY <2>1
  <2>3. A = [s \in SUBSET DOMAIN records |-> A[s]] /\ B = [s \in SUBSET DOMAIN records |-> B[s]]
    OBVIOUS
  <2>4. A = B
    <3> HIDE DEF A, B
    <3> QED
      BY <2>2, <2>3
  <2>5. (Folds(it, "replay", base, records) <=> it = A) /\ (Is(it) <=> it = B)
    BY Zenon DEF Folds
  <2> HIDE DEF A, B, Is
  <2> QED
    BY <2>4, <2>5
<1>2. \E it : Is(it)
  BY <1>1, FoldsExist
<1>3. Is(ReplayFold(base, records))
  BY <1>2 DEF ReplayFold
<1> HIDE DEF Is
<1> QED
  BY <1>1, <1>3
-----------------------------------------------------------------------------
(* Sequences known by their values *)

Listed(rs, n) == n \in Nat /\ rs = [i \in 1..n |-> rs[i]]

LEMMA ListedParts ==
  ASSUME NEW rs, NEW n, Listed(rs, n)
  PROVE  /\ DOMAIN rs = 1..n /\ Len(rs) = n
         /\ \E T : rs \in Seq(T)
         /\ rs = <<>> <=> n = 0
         /\ n > 0 => Last(rs) = rs[n]
<1> DEFINE T == {rs[i] : i \in 1..n}
<1>1. n \in Nat /\ DOMAIN rs = 1..n /\ rs = [i \in 1..n |-> rs[i]]
  BY DEF Listed
<1>2. rs \in [1..n -> T]
  <2>1. \A i \in 1..n : rs[i] \in T
    OBVIOUS
  <2> HIDE DEF T
  <2> QED
    BY <1>1, <2>1
<1> HIDE DEF T
<1>3. rs \in Seq(T) /\ Len(rs) = n
  BY <1>1, <1>2
<1>4. rs = <<>> <=> n = 0
  BY <1>1, <1>3
<1>5. Last(rs) = rs[n]
  BY <1>3 DEF Last
<1> QED
  BY <1>1, <1>3, <1>4, <1>5

LEMMA SequencesListed ==
  ASSUME NEW T, NEW y \in Seq(T), NEW m \in Nat, Len(y) = m
  PROVE  Listed(y, m)
BY DEF Listed

Grown(y, rs, n, x) ==
    /\ y = Append(rs, x)
    /\ Listed(y, n + 1) /\ y[n + 1] = x
    /\ \A i \in 1..n : y[i] = rs[i]

LEMMA ListedAppend ==
  ASSUME NEW n \in Nat, NEW rs, Listed(rs, n), NEW x
  PROVE  Grown(Append(rs, x), rs, n, x)
<1>1. n \in Nat /\ Len(rs) = n /\ DOMAIN rs = 1..n
  BY ListedParts DEF Listed
<1>2. PICK T : rs \in Seq(T)
  BY ListedParts
<1>3. rs \in Seq(T \cup {x})
  <2>1. rs \in [1..n -> T]
    BY <1>1, <1>2
  <2>2. rs \in [1..n -> T \cup {x}]
    BY <2>1
  <2> QED
    BY <1>1, <2>2
<1>4. PICK y : y = Append(rs, x)
  OBVIOUS
<1>5. y \in Seq(T \cup {x}) /\ Len(y) = n + 1
  BY <1>1, <1>3, <1>4
<1>6. Listed(y, n + 1)
  <2>1. PICK m \in Nat : m = n + 1
    OBVIOUS
  <2> QED
    BY <1>5, <2>1, SequencesListed
<1>7. (\A i \in 1..n : y[i] = rs[i]) /\ y[n + 1] = x
  BY <1>1, <1>3, <1>4
<1> QED
  BY <1>4, <1>6, <1>7 DEF Grown

LEMMA ListedEqual ==
  ASSUME NEW rs, NEW n, Listed(rs, n), NEW ss, Listed(ss, n), \A i \in 1..n : rs[i] = ss[i]
  PROVE  rs = ss
BY DEF Listed
-----------------------------------------------------------------------------
(* The records of a log *)

(* The record a host makes of an entry, in a place, after another record.  *)
RecordOf(i, pre, entry) == build_server_record(room, i, pre, entry.accepted_at, Sign(entry.event))
PreHash(rs, i) == IF i = 1 THEN Absent ELSE rs[i - 1].hash

Chained(rs, l, n) ==
    /\ Listed(rs, n)
    /\ \A i \in 1..n : rs[i] = RecordOf(i, PreHash(rs, i), l[i])

LEMMA StepChains ==
  ASSUME NEW rs, NEW n, Listed(rs, n), NEW e
  PROVE  Step("records", rs, e) = Append(rs, RecordOf(n + 1, PreHash(rs, n + 1), e))
<1>1. Len(rs) = n /\ n \in Nat /\ (rs = <<>> <=> n = 0) /\ (n > 0 => Last(rs) = rs[n])
  BY ListedParts DEF Listed
<1>2. Step("records", rs, e)
         = Append(rs, build_server_record(room, Len(rs) + 1, IF rs = <<>> THEN Absent ELSE Last(rs).hash,
                                          e.accepted_at, Sign(e.event)))
  BY DEF Step
<1>3. (IF rs = <<>> THEN Absent ELSE Last(rs).hash) = PreHash(rs, n + 1)
  <2>1. CASE n = 0
    BY <1>1, <2>1 DEF PreHash
  <2>2. CASE n # 0
    <3>1. n + 1 # 1 /\ (n + 1) - 1 = n /\ rs # <<>> /\ Last(rs) = rs[n]
      BY <1>1, <2>2
    <3> QED
      BY <3>1 DEF PreHash
  <2> QED
    BY <2>1, <2>2
<1> QED
  BY <1>1, <1>2, <1>3 DEF RecordOf

LEMMA ChainedNext ==
  ASSUME NEW n \in Nat, NEW rs, NEW l, Chained(rs, l, n)
  PROVE  Chained(Step("records", rs, l[n + 1]), l, n + 1)
<1>1. PICK x : x = RecordOf(n + 1, PreHash(rs, n + 1), l[n + 1])
  OBVIOUS
<1>2. PICK y : y = Append(rs, x)
  OBVIOUS
<1>0. Listed(rs, n)
  BY DEF Chained
<1>3. y = Step("records", rs, l[n + 1]) /\ Listed(rs, n) /\ n \in Nat
  BY <1>0, <1>1, <1>2, StepChains
<1>4. Listed(y, n + 1) /\ (\A i \in 1..n : y[i] = rs[i]) /\ y[n + 1] = x
  <2>1. Grown(Append(rs, x), rs, n, x)
    BY <1>0, ListedAppend
  <2> QED
    BY <1>2, <2>1 DEF Grown
<1>5. ASSUME NEW i \in 1..(n + 1) PROVE PreHash(y, i) = PreHash(rs, i)
  <2>1. i # 1 => i - 1 \in 1..n
    BY <1>3
  <2> QED
    BY <1>4, <2>1 DEF PreHash
<1>6. ASSUME NEW i \in 1..(n + 1) PROVE y[i] = RecordOf(i, PreHash(y, i), l[i])
  <2>1. CASE i \in 1..n
    BY <1>4, <1>5, <2>1 DEF Chained
  <2>2. CASE i = n + 1
    BY <1>1, <1>4, <1>5, <2>2
  <2> QED
    BY <1>3, <2>1, <2>2
<1> QED
  BY <1>3, <1>4, <1>6 DEF Chained

(* The records of any log are a chain.                                     *)
LEMMA RecordsExact ==
  ASSUME NEW l, NEW n \in Nat, DOMAIN l = 1..n
  PROVE  Chained(Records(l), l, n)
<1>1. PICK f : f = RecordsFold(l)
  OBVIOUS
<1>2. f[1..0] = <<>> /\ \A k \in 1..n : f[1..k] = Step("records", f[1..(k - 1)], l[k])
  <2>1. Folds(f, "records", <<>>, l)
    BY <1>1, RecordsFolds
  <2>2. Stepwise(f, "records", <<>>, l, n)
    BY <2>1, FoldSteps
  <2> QED
    BY <2>2 DEF Stepwise
<1> DEFINE Bad == {k \in Nat : k <= n /\ ~ Chained(f[1..k], l, k)}
<1>3. Bad = {}
  <2> SUFFICES ASSUME Bad # {} PROVE FALSE
    OBVIOUS
  <2>1. PICK k \in Bad : \A j \in Bad : k <= j
    BY LeastNumber
  <2>2. k \in Nat /\ k <= n /\ ~ Chained(f[1..k], l, k)
    BY <2>1
  <2>3. Chained(<<>>, l, 0)
    BY DEF Chained, Listed
  <2>4. k # 0
    BY <1>2, <2>2, <2>3
  <2>5. k - 1 \in Nat /\ k - 1 <= n /\ ~(k <= k - 1) /\ k \in 1..n /\ (k - 1) + 1 = k
    BY <2>2, <2>4
  <2>6. Chained(f[1..(k - 1)], l, k - 1)
    BY <2>1, <2>5
  <2>7. Chained(Step("records", f[1..(k - 1)], l[k]), l, k)
    <3>1. PICK j \in Nat : j = k - 1
      BY <2>5
    <3>2. Chained(Step("records", f[1..j], l[j + 1]), l, j + 1)
      BY <2>6, <3>1, ChainedNext
    <3> QED
      BY <2>5, <3>1, <3>2
  <2> QED
    BY <1>2, <2>2, <2>5, <2>7
<1>4. Chained(f[1..n], l, n)
  <2>1. n \notin Bad
    <3> HIDE DEF Bad
    <3> QED
      BY <1>3
  <2> QED
    BY <2>1
<1> QED
  BY <1>1, <1>4, RecordsDef

(* One more entry is one more record. *)
LEMMA RecordsGrow ==
  ASSUME NEW l, NEW n \in Nat, DOMAIN l = 1..n, NEW m, DOMAIN m = 1..(n + 1),
         \A i \in 1..n : m[i] = l[i]
  PROVE  Records(m) = Append(Records(l), RecordOf(n + 1, PreHash(Records(l), n + 1), m[n + 1]))
<1>1. PICK k \in Nat : k = n + 1
  OBVIOUS
<1>2. Folds(RecordsFold(l), "records", <<>>, l) /\ Folds(RecordsFold(m), "records", <<>>, m)
  BY <1>1, RecordsFolds
<1>3. RecordsFold(m)[1..(n + 1)] = Step("records", RecordsFold(l)[1..n], m[n + 1])
  BY <1>2, FoldGrows
<1>4. Records(m) = RecordsFold(m)[1..(n + 1)] /\ Records(l) = RecordsFold(l)[1..n]
  BY RecordsDef
<1>5. Listed(Records(l), n)
  BY RecordsExact DEF Chained
<1> QED
  BY <1>3, <1>4, <1>5, StepChains

LEMMA ReplayGrows ==
  ASSUME NEW base, NEW rs, NEW n \in Nat, DOMAIN rs = 1..n, NEW ss, DOMAIN ss = 1..(n + 1),
         \A i \in 1..n : ss[i] = rs[i]
  PROVE  Replayed(base, ss) = replay_record(Replayed(base, rs), ss[n + 1])
<1>1. PICK k \in Nat : k = n + 1
  OBVIOUS
<1>2. Folds(ReplayFold(base, rs), "replay", base, rs) /\ Folds(ReplayFold(base, ss), "replay", base, ss)
  BY <1>1, ReplayFolds
<1>3. ReplayFold(base, ss)[1..(n + 1)] = Step("replay", ReplayFold(base, rs)[1..n], ss[n + 1])
  BY <1>2, FoldGrows
<1>4. Replayed(base, ss) = ReplayFold(base, ss)[1..(n + 1)] /\ Replayed(base, rs) = ReplayFold(base, rs)[1..n]
  BY ReplayDef
<1> QED
  BY <1>3, <1>4 DEF Step

LEMMA ReplayStarts ==
  ASSUME NEW base, NEW rs, DOMAIN rs = 1..1
  PROVE  Replayed(base, rs) = replay_record(base, rs[1])
<1>1. Folds(ReplayFold(base, rs), "replay", base, rs)
  <2>1. PICK k \in Nat : k = 1
    OBVIOUS
  <2> QED
    BY <2>1, ReplayFolds
<1>2. /\ ReplayFold(base, rs)[1..0] = base
      /\ \A k \in 1..1 : ReplayFold(base, rs)[1..k] = Step("replay", ReplayFold(base, rs)[1..(k - 1)], rs[k])
  <2>1. PICK k \in Nat : k = 1
    OBVIOUS
  <2>0. DOMAIN rs = 1..k
    BY <2>1
  <2>2. Stepwise(ReplayFold(base, rs), "replay", base, rs, k)
    BY <1>1, <2>0, FoldSteps
  <2> QED
    BY <2>1, <2>2 DEF Stepwise
<1>3. 1 \in 1..1 /\ 1 - 1 = 0
  OBVIOUS
<1> QED
  BY <1>2, <1>3, ReplayDef DEF Step
-----------------------------------------------------------------------------
(* What the host has accepted: signed events of this room, at their times. *)
EntrySound(entry) ==
    /\ entry = [event |-> entry.event, accepted_at |-> entry.accepted_at]
    /\ entry.accepted_at \in Nat
    /\ entry.event.type \in Builtins \cup TypeNames
    /\ validate_room_path(entry.event, room)

LogListed(n) == n > 0 /\ Listed(log, n) /\ \A i \in 1..n : EntrySound(log[i])

(* The records that may be redacted. *)
Redactables == {i \in DOMAIN log : Redactable(log[i].event.type)}

Hidden(entry) == [hash |-> entry.event, redacted |-> TRUE, kind |-> entry.event.type]

RecordHash(i, pre, entry) == server_record_hash(room, i, pre, entry.event, entry.accepted_at)

(* The record of an entry, or its redacted copy.                           *)
CopyOf(x, i, pre, entry, hidden) ==
    /\ x.room_id = room /\ x.seq = i /\ x.pre_hash = pre /\ x.accepted_at = entry.accepted_at
    /\ x.hash = RecordHash(i, pre, entry) /\ x.envelope.hash = entry.event
    /\ IF hidden
       THEN is_redacted(x) /\ x.envelope = Hidden(entry) /\ x.envelope.redacted
              /\ x.envelope.kind = entry.event.type /\ Redactable(entry.event.type)
       ELSE ~is_redacted(x) /\ x.envelope = [hash |-> entry.event, event |-> entry.event]
              /\ x.envelope.event = entry.event

LEMMA RecordParts ==
  ASSUME NEW i, NEW pre, NEW entry
  PROVE  CopyOf(RecordOf(i, pre, entry), i, pre, entry, FALSE)
BY DEF CopyOf, RecordOf, build_server_record, Sign, RecordHash, is_redacted

LEMMA RedactedParts ==
  ASSUME NEW i, NEW pre, NEW entry, Redactable(entry.event.type)
  PROVE  CopyOf(redact_server_record(RecordOf(i, pre, entry)).record, i, pre, entry, TRUE)
<1>1. PICK r : r = RecordOf(i, pre, entry)
  OBVIOUS
<1>2. PICK x : x = redact_server_record(r).record
  OBVIOUS
<1>3. CopyOf(r, i, pre, entry, FALSE)
  BY <1>1, RecordParts
<1>4. x = [r EXCEPT !.envelope = Hidden(entry)]
  BY <1>2, <1>3 DEF redact_server_record, Hidden, CopyOf
<1>5. x.envelope = Hidden(entry)
  BY <1>1, <1>4 DEF RecordOf, build_server_record
<1>6. x.envelope.hash = entry.event /\ x.envelope.redacted /\ x.envelope.kind = entry.event.type
      /\ is_redacted(x)
  BY <1>5 DEF Hidden, is_redacted
<1>7. x.room_id = r.room_id /\ x.seq = r.seq /\ x.pre_hash = r.pre_hash /\ x.hash = r.hash
      /\ x.accepted_at = r.accepted_at
  BY <1>1, <1>4 DEF RecordOf, build_server_record
<1>8. CopyOf(x, i, pre, entry, TRUE)
  BY <1>3, <1>5, <1>6, <1>7 DEF CopyOf
<1> QED
  BY <1>1, <1>2, <1>8

LEMMA RedactableParts ==
  ASSUME NEW i, NEW pre, NEW entry
  PROVE  redact_server_record(RecordOf(i, pre, entry)).ok <=> Redactable(entry.event.type)
<1>0. PICK r : r = RecordOf(i, pre, entry)
  OBVIOUS
<1>1. r.envelope.event = entry.event
  <2>1. CopyOf(r, i, pre, entry, FALSE)
    BY <1>0, RecordParts
  <2> QED
    BY <2>1 DEF CopyOf
<1>2. CASE Redactable(entry.event.type)
  BY <1>0, <1>1, <1>2 DEF redact_server_record
<1>3. CASE ~Redactable(entry.event.type)
  BY <1>0, <1>1, <1>3 DEF redact_server_record, Refused
<1> QED
  BY <1>2, <1>3

-----------------------------------------------------------------------------
(* An archive is verified when it is a chain to the manifest's end.        *)
Verifies(manifest, records) ==
    /\ verify_archive_chain(records)
    /\ records # <<>>
    /\ Last(records).seq = manifest.last_seq /\ Last(records).hash = manifest.last_hash
    /\ \A r \in ToSet(records) : r.room_id = manifest.room_id
    /\ \A r \in ToSet(records) : ~is_redacted(r) => validate_discourse_envelope(r.envelope)

LEMMA Verdict ==
  ASSUME NEW manifest, NEW records
  PROVE  verify_archive_records(manifest, records) =
            IF Verifies(manifest, records) THEN [ok |-> TRUE, redacted |-> RedactedSeqs(records)]
            ELSE Refused
BY DEF verify_archive_records, Verifies

LEMMA ManifestParts ==
  ASSUME NEW n \in Nat, LogListed(n)
  PROVE  /\ Chained(Records(log), log, n)
         /\ Manifest(log).room_id = room /\ Manifest(log).last_seq = n
         /\ Manifest(log).last_hash = Records(log)[n].hash
<1>1. DOMAIN log = 1..n /\ Len(log) = n
  BY ListedParts DEF LogListed
<1>2. Chained(Records(log), log, n)
  BY <1>1, RecordsExact
<1>3. Listed(Records(log), n) /\ n > 0
  BY <1>2 DEF Chained, LogListed
<1>4. Last(Records(log)) = Records(log)[n]
  BY <1>3, ListedParts
<1> QED
  BY <1>1, <1>2, <1>4 DEF Manifest

(* The copy of the records with some of them redacted. *)
LEMMA CopyParts ==
  ASSUME NEW n \in Nat, LogListed(n), NEW S \in SUBSET Redactables,
         NEW rs, rs = Records(log), NEW copy, copy = RedactedCopy(rs, S)
  PROVE  /\ Listed(copy, n) /\ Chained(rs, log, n)
         /\ \A i \in 1..n : copy[i] = IF i \in S THEN redact_server_record(rs[i]).record ELSE rs[i]
<1>1. Chained(rs, log, n)
  BY ManifestParts
<1>2. DOMAIN rs = 1..n
  BY <1>1, ListedParts DEF Chained
<1>3. copy = [i \in 1..n |-> IF i \in S THEN redact_server_record(rs[i]).record ELSE rs[i]]
  BY <1>2 DEF RedactedCopy
<1> QED
  BY <1>1, <1>3 DEF Listed

LEMMA CopyExact ==
  ASSUME NEW n \in Nat, LogListed(n), NEW S \in SUBSET Redactables,
         NEW rs, rs = Records(log), NEW copy, copy = RedactedCopy(rs, S), NEW i \in 1..n
  PROVE  CopyOf(copy[i], i, PreHash(copy, i), log[i], i \in S) /\ copy[i].hash = rs[i].hash
<1>1. /\ Listed(copy, n) /\ Chained(rs, log, n)
      /\ \A j \in 1..n : copy[j] = IF j \in S THEN redact_server_record(rs[j]).record ELSE rs[j]
  BY CopyParts
<1>2. DOMAIN log = 1..n
  BY ListedParts DEF LogListed
<1>3. ASSUME NEW j \in 1..n PROVE CopyOf(copy[j], j, PreHash(rs, j), log[j], j \in S)
  <2>1. PICK r : r = rs[j] /\ r = RecordOf(j, PreHash(rs, j), log[j])
    BY <1>1 DEF Chained
  <2>2. CASE j \in S
    <3>1. Redactable(log[j].event.type)
      BY <2>2 DEF Redactables
    <3>2. PICK x : x = copy[j] /\ x = redact_server_record(r).record
      BY <1>1, <2>1, <2>2
    <3>3. CopyOf(x, j, PreHash(rs, j), log[j], TRUE)
      BY <2>1, <3>1, <3>2, RedactedParts
    <3> QED
      BY <2>2, <3>2, <3>3 DEF CopyOf
  <2>3. CASE j \notin S
    <3>1. copy[j] = r
      BY <1>1, <2>1, <2>3
    <3>2. CopyOf(r, j, PreHash(rs, j), log[j], FALSE)
      BY <2>1, RecordParts
    <3> QED
      BY <2>3, <3>1, <3>2 DEF CopyOf
  <2> QED
    BY <2>2, <2>3
<1>4. ASSUME NEW j \in 1..n PROVE copy[j].hash = rs[j].hash
  <2>1. PICK r : r = rs[j] /\ r = RecordOf(j, PreHash(rs, j), log[j])
    BY <1>1 DEF Chained
  <2>2. r.hash = RecordHash(j, PreHash(rs, j), log[j])
    <3>1. CopyOf(r, j, PreHash(rs, j), log[j], FALSE)
      BY <2>1, RecordParts
    <3> QED
      BY <3>1 DEF CopyOf
  <2>3. copy[j].hash = RecordHash(j, PreHash(rs, j), log[j])
    BY <1>3 DEF CopyOf
  <2> QED
    BY <2>1, <2>2, <2>3
<1>5. PreHash(copy, i) = PreHash(rs, i)
  <2>1. i # 1 => i - 1 \in 1..n
    OBVIOUS
  <2> QED
    BY <1>4, <2>1 DEF PreHash
<1> QED
  BY <1>3, <1>4, <1>5
-----------------------------------------------------------------------------
(* Whichever records are redacted, the archive verifies, and the verifier  *)
(* reports those.                                                          *)
LEMMA CopyVerifies ==
  ASSUME NEW n \in Nat, LogListed(n), NEW S \in SUBSET Redactables
  PROVE  verify_archive_records(Manifest(log), RedactedCopy(Records(log), S))
            = [ok |-> TRUE, redacted |-> S]
<1>0. PICK rs : rs = Records(log)
  OBVIOUS
<1>1. PICK copy : copy = RedactedCopy(rs, S)
  OBVIOUS
<1>2. /\ Listed(copy, n) /\ Chained(rs, log, n) /\ n > 0
  BY <1>0, <1>1, CopyParts DEF LogListed
<1>3. DOMAIN copy = 1..n /\ copy # <<>> /\ Last(copy) = copy[n] /\ ToSet(copy) = {copy[i] : i \in 1..n}
  BY <1>2, ListedParts DEF ToSet
<1>4. DOMAIN log = 1..n /\ S \subseteq 1..n
  BY ListedParts DEF LogListed, Redactables
<1>5. ASSUME NEW i \in 1..n PROVE CopyOf(copy[i], i, PreHash(copy, i), log[i], i \in S)
  BY <1>0, <1>1, CopyExact
<1>6. ASSUME NEW i \in 1..n
      PROVE  verify_archive_record(copy[i]) /\ check_link(copy, i)
  <2>1. CopyOf(copy[i], i, PreHash(copy, i), log[i], i \in S)
    BY <1>5
  <2>2. verify_record_hash(copy[i])
    BY <2>1 DEF CopyOf, verify_record_hash, RecordHash
  <2>3. verify_archive_record(copy[i])
    BY <2>1, <2>2 DEF verify_archive_record, CopyOf
  <2>4. check_link(copy, i)
    <3>1. CASE i = 1
      BY <2>1, <3>1 DEF check_link, CopyOf, PreHash
    <3>2. CASE i # 1
      <4>1. PICK j \in 1..n : j = i - 1 /\ i = j + 1
        BY <3>2
      <4>2. copy[j].seq = j
        BY <1>5 DEF CopyOf
      <4> QED
        BY <2>1, <3>2, <4>1, <4>2 DEF check_link, CopyOf, PreHash
    <3> QED
      BY <3>1, <3>2
  <2> QED
    BY <2>3, <2>4
<1>7. verify_archive_chain(copy)
  BY <1>3, <1>6 DEF verify_archive_chain
<1>8. Last(copy).seq = Manifest(log).last_seq /\ Last(copy).hash = Manifest(log).last_hash
  <2>1. Manifest(log).last_seq = n /\ Manifest(log).last_hash = rs[n].hash
    BY <1>0, ManifestParts
  <2>2. CopyOf(copy[n], n, PreHash(copy, n), log[n], n \in S)
    BY <1>2, <1>5
  <2>3. n \in 1..n
    BY <1>2
  <2>4. copy[n].hash = rs[n].hash
    BY <1>0, <1>1, <2>3, CopyExact
  <2> QED
    BY <1>3, <2>1, <2>2, <2>4 DEF CopyOf
<1>9. ASSUME NEW r \in ToSet(copy)
      PROVE  r.room_id = Manifest(log).room_id
             /\ (~is_redacted(r) => validate_discourse_envelope(r.envelope))
  <2>1. PICK i \in 1..n : r = copy[i]
    BY <1>3
  <2>2. CopyOf(copy[i], i, PreHash(copy, i), log[i], i \in S)
    BY <1>5
  <2>3. validate_discourse_event_fields(log[i].event)
    BY DEF LogListed, EntrySound, validate_room_path
  <2>4. Manifest(log).room_id = room
    BY ManifestParts
  <2> QED
    BY <2>1, <2>2, <2>3, <2>4 DEF CopyOf, validate_discourse_envelope
<1>10. Verifies(Manifest(log), copy)
  BY <1>3, <1>7, <1>8, <1>9 DEF Verifies
<1>11. RedactedSeqs(copy) = S
  <2>1. ASSUME NEW i \in 1..n PROVE copy[i].seq = i /\ (is_redacted(copy[i]) <=> i \in S)
    <3>1. CopyOf(copy[i], i, PreHash(copy, i), log[i], i \in S)
      BY <1>5
    <3> QED
      BY <3>1 DEF CopyOf
  <2>2. ASSUME NEW k PROVE k \in RedactedSeqs(copy) <=> k \in S
    <3>1. k \in RedactedSeqs(copy) <=> \E r \in ToSet(copy) : is_redacted(r) /\ k = r.seq
      BY DEF RedactedSeqs
    <3>2. (\E r \in ToSet(copy) : is_redacted(r) /\ k = r.seq)
             <=> \E i \in 1..n : is_redacted(copy[i]) /\ k = copy[i].seq
      BY <1>3
    <3> QED
      BY <1>4, <2>1, <3>1, <3>2
  <2> QED
    BY <2>2
<1> QED
  BY <1>0, <1>1, <1>10, <1>11, Verdict
-----------------------------------------------------------------------------
(* Nothing but the records of the room, or copies of them, is a chain to   *)
(* the end the manifest names.                                             *)
SameHashes(ss, n) == \A i \in 1..n : ss[i].hash = Records(log)[i].hash

LEMMA OnlyTheRoom ==
  ASSUME NEW n \in Nat, LogListed(n), NEW m \in Nat, NEW ss, Listed(ss, m),
         Verifies(Manifest(log), ss)
  PROVE  m = n /\ SameHashes(ss, n)
<1>0. PICK rs : rs = Records(log)
  OBVIOUS
<1>1. /\ Chained(rs, log, n) /\ n > 0
      /\ Manifest(log).room_id = room /\ Manifest(log).last_seq = n
      /\ Manifest(log).last_hash = rs[n].hash
  BY <1>0, ManifestParts DEF LogListed
<1>2. /\ DOMAIN ss = 1..m /\ m > 0 /\ Last(ss) = ss[m]
  BY ListedParts DEF Verifies
<1>3. ASSUME NEW i \in 1..m PROVE verify_record_hash(ss[i]) /\ check_link(ss, i)
  BY <1>2 DEF Verifies, verify_archive_chain, verify_archive_record
<1>4. ss[m].seq = n /\ ss[m].hash = rs[n].hash
  BY <1>1, <1>2 DEF Verifies
<1>5. \A i \in 1..m : ss[i].seq = i
  <2> DEFINE Bad == {k \in Nat : k \in 1..m /\ ss[k].seq # k}
  <2>1. Bad = {}
    <3> SUFFICES ASSUME Bad # {} PROVE FALSE
      OBVIOUS
    <3>1. PICK k \in Bad : \A j \in Bad : k <= j
      BY LeastNumber
    <3>2. k \in 1..m /\ ss[k].seq # k /\ check_link(ss, k)
      BY <1>3, <3>1
    <3>3. k # 1
      BY <3>2 DEF check_link
    <3>4. PICK j \in 1..m : j = k - 1 /\ k = j + 1
      BY <3>2, <3>3
    <3>5. j \notin Bad
      BY <3>1, <3>4
    <3>6. ss[j].seq = j
      BY <3>4, <3>5
    <3>7. ss[k].seq = ss[j].seq + 1
      BY <3>2, <3>3, <3>4 DEF check_link
    <3> QED
      BY <3>2, <3>4, <3>6, <3>7
  <2> QED
    BY <2>1
<1>6. m = n
  BY <1>2, <1>4, <1>5
<1> DEFINE Bad == {k \in Nat : k < n /\ ss[n - k].hash # rs[n - k].hash}
<1>7. Bad = {}
  <2> SUFFICES ASSUME Bad # {} PROVE FALSE
    OBVIOUS
  <2>1. PICK k \in Bad : \A j \in Bad : k <= j
    BY LeastNumber
  <2>2. k \in Nat /\ k < n /\ ss[n - k].hash # rs[n - k].hash
    BY <2>1
  <2>3. k # 0
    BY <1>4, <1>6, <2>2
  <2>4. PICK i \in 2..n : i = n - (k - 1)
    BY <2>2, <2>3
  <2>5. k - 1 \in Nat /\ k - 1 < n /\ ~(k <= k - 1) /\ i - 1 = n - k /\ i # 1 /\ i \in 1..m
    BY <1>6, <2>2, <2>3, <2>4
  <2>6. ss[i].hash = rs[i].hash
    <3>1. k - 1 \notin Bad
      BY <2>1, <2>5
    <3> QED
      BY <2>4, <2>5, <3>1
  <2>7. ss[i].hash = server_record_hash(ss[i].room_id, ss[i].seq, ss[i].pre_hash,
                                        ss[i].envelope.hash, ss[i].accepted_at)
    BY <1>3, <2>5 DEF verify_record_hash
  <2>8. rs[i].hash = server_record_hash(room, i, PreHash(rs, i), log[i].event, log[i].accepted_at)
    <3>1. CopyOf(RecordOf(i, PreHash(rs, i), log[i]), i, PreHash(rs, i), log[i], FALSE)
      BY RecordParts
    <3>2. rs[i] = RecordOf(i, PreHash(rs, i), log[i])
      BY <1>1, <1>6, <2>5 DEF Chained
    <3> QED
      BY <3>1, <3>2 DEF CopyOf, RecordHash
  <2>9. ss[i].pre_hash = PreHash(rs, i)
    <3> DEFINE a == <<ss[i].room_id, ss[i].seq, ss[i].pre_hash, ss[i].envelope.hash, ss[i].accepted_at>>
               b == <<room, i, PreHash(rs, i), log[i].event, log[i].accepted_at>>
    <3>1. a = b
      BY <2>6, <2>7, <2>8 DEF server_record_hash
    <3>2. a[3] = ss[i].pre_hash /\ b[3] = PreHash(rs, i)
      OBVIOUS
    <3> HIDE DEF a, b
    <3> QED
      BY <3>1, <3>2
  <2>10. PreHash(rs, i) = rs[n - k].hash
    BY <2>5 DEF PreHash
  <2>11. ss[i].pre_hash = ss[n - k].hash
    BY <1>3, <2>5 DEF check_link
  <2> QED
    BY <2>2, <2>9, <2>10, <2>11
<1>8. ASSUME NEW i \in 1..n PROVE ss[i].hash = rs[i].hash
  <2>1. PICK k \in Nat : k = n - i /\ k < n /\ i = n - k
    OBVIOUS
  <2>2. k \notin Bad
    <3> HIDE DEF Bad
    <3> QED
      BY <1>7
  <2> QED
    BY <2>1, <2>2
<1> QED
  BY <1>0, <1>6, <1>8 DEF SameHashes
-----------------------------------------------------------------------------
(* The parts of a record of the room. *)
LEMMA TheRecord ==
  ASSUME NEW n \in Nat, LogListed(n), NEW i \in 1..n
  PROVE  LET rs == Records(log)
         IN  rs[i] = RecordOf(i, PreHash(rs, i), log[i])
             /\ CopyOf(rs[i], i, PreHash(rs, i), log[i], FALSE)
<1>0. PICK rs : rs = Records(log)
  OBVIOUS
<1>1. rs[i] = RecordOf(i, PreHash(rs, i), log[i])
  BY <1>0, ManifestParts DEF Chained
<1>2. CopyOf(RecordOf(i, PreHash(rs, i), log[i]), i, PreHash(rs, i), log[i], FALSE)
  BY RecordParts
<1> QED
  BY <1>0, <1>1, <1>2

(* What a chain to the manifest's end shares with the room at a place.     *)
Shares(x, i) ==
    /\ x.seq = i /\ x.envelope.hash = log[i].event
    /\ x.accepted_at = log[i].accepted_at
    /\ ~is_redacted(x) => x.envelope.event = log[i].event

LEMMA AtPlace ==
  ASSUME NEW n \in Nat, LogListed(n), NEW ss, Listed(ss, n), Verifies(Manifest(log), ss),
         NEW i \in 1..n
  PROVE  Shares(ss[i], i)
<1>1. ss[i].hash = Records(log)[i].hash
  BY OnlyTheRoom DEF SameHashes
<1>2. DOMAIN ss = 1..n /\ ToSet(ss) = {ss[j] : j \in 1..n}
  BY ListedParts DEF ToSet
<1>3. ss[i].hash = server_record_hash(ss[i].room_id, ss[i].seq, ss[i].pre_hash,
                                      ss[i].envelope.hash, ss[i].accepted_at)
  BY <1>2 DEF Verifies, verify_archive_chain, verify_archive_record, verify_record_hash
<1>4. PICK pre : pre = PreHash(Records(log), i)
  OBVIOUS
<1>5. CopyOf(Records(log)[i], i, pre, log[i], FALSE)
  BY <1>4, TheRecord
<1>6. Records(log)[i].hash = server_record_hash(room, i, pre, log[i].event, log[i].accepted_at)
  BY <1>5 DEF CopyOf, RecordHash
<1>7. ss[i].seq = i /\ ss[i].envelope.hash = log[i].event /\ ss[i].accepted_at = log[i].accepted_at
  <2> DEFINE a == <<ss[i].room_id, ss[i].seq, ss[i].pre_hash, ss[i].envelope.hash, ss[i].accepted_at>>
             b == <<room, i, pre, log[i].event, log[i].accepted_at>>
  <2>1. a = b
    BY <1>1, <1>3, <1>6 DEF server_record_hash
  <2>2. a[2] = ss[i].seq /\ a[4] = ss[i].envelope.hash /\ a[5] = ss[i].accepted_at
        /\ b[2] = i /\ b[4] = log[i].event /\ b[5] = log[i].accepted_at
    OBVIOUS
  <2> HIDE DEF a, b
  <2> QED
    BY <2>1, <2>2
<1>8. ~is_redacted(ss[i]) => ss[i].envelope.event = ss[i].envelope.hash
  <2>1. ss[i] \in ToSet(ss)
    BY <1>2
  <2> QED
    BY <2>1 DEF Verifies, validate_discourse_envelope
<1> QED
  BY <1>7, <1>8 DEF Shares

LEMMA ShorterFails ==
  ASSUME NEW n \in Nat, LogListed(n), NEW i \in 1..n
  PROVE  ~Verifies(Manifest(log), RemoveAt(Records(log), i))
<1>0. PICK rs : rs = Records(log)
  OBVIOUS
<1>1. PICK ss : ss = RemoveAt(rs, i)
  OBVIOUS
<1>2. Listed(rs, n)
  BY <1>0, ManifestParts DEF Chained
<1>3. PICK T : rs \in Seq(T)
  BY <1>2, ListedParts
<1>4. Len(rs) = n
  BY <1>2, ListedParts
<1>5. /\ SubSeq(rs, 1, i - 1) \in Seq(T) /\ Len(SubSeq(rs, 1, i - 1)) = i - 1
      /\ SubSeq(rs, i + 1, n) \in Seq(T) /\ Len(SubSeq(rs, i + 1, n)) = n - i
  BY <1>3, <1>4
<1>6. ss = SubSeq(rs, 1, i - 1) \o SubSeq(rs, i + 1, n)
  BY <1>1, <1>4 DEF RemoveAt
<1>7. PICK m \in Nat : m = n - 1
  OBVIOUS
<1>8. ss \in Seq(T) /\ Len(ss) = m
  BY <1>5, <1>6, <1>7
<1>9. Listed(ss, m)
  BY <1>8, SequencesListed
<1>10. m # n
  BY <1>7
<1> QED
  BY <1>0, <1>1, <1>9, <1>10, OnlyTheRoom

LEMMA SwappedFails ==
  ASSUME NEW n \in Nat, LogListed(n), NEW i \in 1..n, NEW j \in 1..n, i # j,
         NEW rs, rs = Records(log)
  PROVE  ~Verifies(Manifest(log), [rs EXCEPT ![i] = rs[j], ![j] = rs[i]])
<1>1. PICK ss : ss = [rs EXCEPT ![i] = rs[j], ![j] = rs[i]]
  OBVIOUS
<1>2. rs = [k \in 1..n |-> rs[k]]
  BY ManifestParts DEF Chained, Listed
<1>3. Listed(ss, n) /\ ss[i] = rs[j]
  BY <1>1, <1>2 DEF Listed
<1>4. CopyOf(rs[j], j, PreHash(rs, j), log[j], FALSE)
  BY TheRecord
<1>5. rs[j].seq = j
  BY <1>4 DEF CopyOf
<1> SUFFICES ASSUME Verifies(Manifest(log), ss) PROVE FALSE
  BY <1>1
<1>6. ss[i].seq = i
  <2>1. Shares(ss[i], i)
    BY <1>3, AtPlace
  <2> QED
    BY <2>1 DEF Shares
<1> QED
  BY <1>3, <1>5, <1>6

LEMMA MovedFails ==
  ASSUME NEW n \in Nat, LogListed(n), NEW i \in 1..n, NEW rs, rs = Records(log)
  PROVE  ~Verifies(Manifest(log), [rs EXCEPT ![i].accepted_at = @ + 1])
<1>1. PICK ss : ss = [rs EXCEPT ![i].accepted_at = @ + 1]
  OBVIOUS
<1>2. rs = [k \in 1..n |-> rs[k]]
  BY ManifestParts DEF Chained, Listed
<1>3. /\ rs[i] = RecordOf(i, PreHash(rs, i), log[i])
      /\ CopyOf(rs[i], i, PreHash(rs, i), log[i], FALSE)
  BY TheRecord
<1>4. rs[i].accepted_at = log[i].accepted_at /\ log[i].accepted_at \in Nat
  BY <1>3 DEF CopyOf, LogListed, EntrySound
<1>5. ss = [rs EXCEPT ![i] = [rs[i] EXCEPT !.accepted_at = rs[i].accepted_at + 1]]
  BY <1>1
<1>6. Listed(ss, n) /\ ss[i] = [rs[i] EXCEPT !.accepted_at = rs[i].accepted_at + 1]
  BY <1>2, <1>5 DEF Listed
<1>7. ss[i].accepted_at = rs[i].accepted_at + 1
  BY <1>3, <1>6 DEF RecordOf, build_server_record
<1> SUFFICES ASSUME Verifies(Manifest(log), ss) PROVE FALSE
  BY <1>1
<1>8. ss[i].accepted_at = log[i].accepted_at
  <2>1. Shares(ss[i], i)
    BY <1>6, AtPlace
  <2> QED
    BY <2>1 DEF Shares
<1> QED
  BY <1>4, <1>7, <1>8

(* Another event under the old hash. *)
AlteredAt(rs, i, e) == [rs EXCEPT ![i].envelope.event = e]

LEMMA AlteredFails ==
  ASSUME NEW n \in Nat, LogListed(n), NEW i \in 1..n, NEW rs, rs = Records(log), NEW e,
         AlteredAt(rs, i, e) # rs
  PROVE  ~Verifies(Manifest(log), AlteredAt(rs, i, e))
<1>1. PICK ss : ss = AlteredAt(rs, i, e)
  OBVIOUS
<1>2. rs = [k \in 1..n |-> rs[k]]
  BY ManifestParts DEF Chained, Listed
<1>3. /\ rs[i] = RecordOf(i, PreHash(rs, i), log[i])
      /\ CopyOf(rs[i], i, PreHash(rs, i), log[i], FALSE)
  BY TheRecord
<1>4. rs[i].envelope = [hash |-> log[i].event, event |-> log[i].event]
  BY <1>3 DEF CopyOf
<1>5. PICK r : r = rs[i] /\ r = RecordOf(i, PreHash(rs, i), log[i])
  BY <1>3
<1>6. PICK x : x = [r EXCEPT !.envelope = [hash |-> log[i].event, event |-> e]]
  OBVIOUS
<1>7. ss = [rs EXCEPT ![i] = x]
  <2>1. [r EXCEPT !.envelope.event = e] = [r EXCEPT !.envelope = [r.envelope EXCEPT !.event = e]]
    OBVIOUS
  <2>2. [r.envelope EXCEPT !.event = e] = [hash |-> log[i].event, event |-> e]
    BY <1>4, <1>5
  <2> QED
    BY <1>1, <1>5, <1>6, <2>1, <2>2 DEF AlteredAt
<1>8. Listed(ss, n) /\ ss[i] = x
  BY <1>2, <1>7 DEF Listed
<1>9. x.envelope = [hash |-> log[i].event, event |-> e]
  BY <1>5, <1>6 DEF RecordOf, build_server_record
<1>10. e # log[i].event
  <2> SUFFICES ASSUME e = log[i].event PROVE FALSE
    OBVIOUS
  <2>1. x = r
    <3>1. r.envelope = [hash |-> log[i].event, event |-> e]
      BY <1>4, <1>5
    <3> QED
      BY <1>5, <1>6, <3>1 DEF RecordOf, build_server_record
  <2>2. ss = rs
    <3>1. [rs EXCEPT ![i] = rs[i]] = rs
      BY <1>2
    <3> QED
      BY <1>5, <1>7, <2>1, <3>1
  <2> QED
    BY <1>1, <2>2
<1> SUFFICES ASSUME Verifies(Manifest(log), ss) PROVE FALSE
  BY <1>1
<1>11. ~is_redacted(ss[i])
  BY <1>8, <1>9 DEF is_redacted
<1>12. ss[i].envelope.event = log[i].event
  <2>1. Shares(ss[i], i)
    BY <1>8, AtPlace
  <2> QED
    BY <1>11, <2>1 DEF Shares
<1> QED
  BY <1>8, <1>9, <1>10, <1>12

(* A chain made anew over another entry. *)
LEMMA RebuiltFails ==
  ASSUME NEW n \in Nat, LogListed(n), NEW i \in 1..n, NEW e, NEW t,
         Records([log EXCEPT ![i] = [event |-> e, accepted_at |-> t]]) # Records(log)
  PROVE  ~Verifies(Manifest(log), Records([log EXCEPT ![i] = [event |-> e, accepted_at |-> t]]))
<1>1. PICK other : other = [event |-> e, accepted_at |-> t]
  OBVIOUS
<1>2. PICK l : l = [log EXCEPT ![i] = other]
  OBVIOUS
<1>3. log = [k \in 1..n |-> log[k]]
  BY DEF LogListed, Listed
<1>4. DOMAIN l = 1..n /\ l[i] = other
  BY <1>2, <1>3
<1>5. PICK ss : ss = Records(l)
  OBVIOUS
<1>6. Chained(ss, l, n)
  BY <1>4, <1>5, RecordsExact
<1>7. Listed(ss, n) /\ ss[i] = RecordOf(i, PreHash(ss, i), other)
  BY <1>4, <1>6 DEF Chained
<1>8. CopyOf(ss[i], i, PreHash(ss, i), other, FALSE)
  BY <1>7, RecordParts
<1> SUFFICES ASSUME Verifies(Manifest(log), ss) PROVE FALSE
  BY <1>1, <1>2, <1>5
<1>9. ss[i].envelope.hash = log[i].event /\ ss[i].accepted_at = log[i].accepted_at
  <2>1. Shares(ss[i], i)
    BY <1>7, AtPlace
  <2> QED
    BY <2>1 DEF Shares
<1>10. other.event = log[i].event /\ other.accepted_at = log[i].accepted_at
  BY <1>8, <1>9 DEF CopyOf
<1>11. other = log[i]
  BY <1>1, <1>10 DEF LogListed, EntrySound
<1>12. l = log
  BY <1>2, <1>3, <1>11
<1> QED
  BY <1>1, <1>2, <1>5, <1>12

(* No archive of another record, another order or another end verifies.    *)
LEMMA ForgedFails ==
  ASSUME NEW n \in Nat, LogListed(n), NEW i \in 1..n,
         NEW how \in {"missing", "swapped", "moved", "altered", "rebuilt"},
         NEW rs, rs = Records(log), Forged(rs, how, i) # rs
  PROVE  verify_archive_records(Manifest(log), Forged(rs, how, i)) = Refused
<1>1. PICK ss : ss = Forged(rs, how, i)
  OBVIOUS
<1>2. Listed(rs, n) /\ rs = [k \in 1..n |-> rs[k]]
  BY ManifestParts DEF Chained, Listed
<1>3. Len(rs) = n
  BY <1>2, ListedParts
<1>4. ~Verifies(Manifest(log), ss)
  <2>1. CASE how = "missing"
    BY <1>1, <2>1, ShorterFails DEF Forged
  <2>2. CASE how = "swapped"
    <3>1. PICK j \in 1..n : j = IF i = 1 THEN Len(rs) ELSE i - 1
      BY <1>3
    <3>2. ss = [rs EXCEPT ![i] = rs[j], ![j] = rs[i]]
      BY <1>1, <2>2, <3>1 DEF Forged
    <3>3. i # j
      <4> SUFFICES ASSUME i = j PROVE FALSE
        OBVIOUS
      <4>1. ss = rs
        BY <1>2, <3>2
      <4> QED
        BY <1>1, <4>1
    <3> QED
      BY <3>2, <3>3, SwappedFails
  <2>3. CASE how = "moved"
    <3>1. ss = [rs EXCEPT ![i].accepted_at = @ + 1]
      BY <1>1, <2>3 DEF Forged
    <3> QED
      BY <3>1, MovedFails
  <2>4. CASE how = "altered"
    <3>1. PICK e : e = [Event(i) EXCEPT !.payload = room]
      OBVIOUS
    <3>2. ss = AlteredAt(rs, i, e)
      BY <1>1, <2>4, <3>1 DEF Forged, AlteredAt
    <3> QED
      BY <1>1, <3>2, AlteredFails
  <2>5. CASE how = "rebuilt"
    <3>1. PICK e : e = [Event(i) EXCEPT !.payload = room]
      OBVIOUS
    <3>2. ss = Records([log EXCEPT ![i] = [event |-> e, accepted_at |-> now]])
      BY <1>1, <2>5, <3>1 DEF Forged
    <3> QED
      BY <1>1, <3>2, RebuiltFails
  <2> QED
    BY <2>1, <2>2, <2>3, <2>4, <2>5
<1> QED
  BY <1>1, <1>4, Verdict
-----------------------------------------------------------------------------
(* A reader's room *)

States_ == {"scheduled", "active", "ended", "cancelled"}
Memberships == [Agents -> RoomMember \cup {Absent}]
LocalRoom ==
    [visibility : Visibilities, policy : RoomPolicy, start_time : Nat, end_time : Nat,
     status : States_, types : Registries, head_seq : Nat, members : Memberships]
Histories == [ok : BOOLEAN, verified : BOOLEAN, registry : Registries, local : LocalRoom]

Barred == {Member(r, "banned") : r \in Roles}

(* The reader's room follows the host's: its members and bans, the         *)
(* contract, and whether it was finished.                                  *)
FollowsMembers(ms) ==
    /\ ms \in Memberships
    /\ \A a \in Agents : RoleOf(ms[a]) = members[a] /\ (a \in banned <=> ms[a] \in Barred)
FollowsContract(local) ==
    /\ local.visibility = contract.visibility /\ local.policy = contract.policy
    /\ local.start_time = contract.start_time /\ local.end_time = contract.end_time
FollowsStatus(status) ==
    IF contract.finished = "no" THEN status \notin {"ended", "cancelled"}
    ELSE status = contract.finished
Follows(local) ==
    /\ local \in LocalRoom
    /\ FollowsMembers(local.members) /\ FollowsContract(local) /\ FollowsStatus(local.status)

LEMMA MemberFacts ==
  ASSUME NEW role \in Roles, NEW status \in MemberStatuses
  PROVE  /\ Member(role, status) \in RoomMember /\ Member(role, status) # Absent
         /\ Member(role, status).role = role /\ Member(role, status).status = status
         /\ RoleOf(Member(role, status)) = IF status = "active" THEN role ELSE Absent
         /\ Member(role, status) \in Barred <=> status = "banned"
<1>1. Member(role, status) \in RoomMember /\ Member(role, status) # Absent
  BY MembersAssumption DEF Member, RoomMember
<1>2. Member(role, status).role = role /\ Member(role, status).status = status
  BY DEF Member
<1>3. Member(role, status) \in Barred <=> status = "banned"
  <2>1. ASSUME status = "banned" PROVE Member(role, status) \in Barred
    BY <2>1 DEF Barred
  <2>2. ASSUME Member(role, status) \in Barred PROVE status = "banned"
    <3>1. PICK r \in Roles : Member(role, status) = Member(r, "banned")
      BY <2>2 DEF Barred
    <3>2. Member(r, "banned").status = "banned"
      BY DEF Member
    <3> QED
      BY <1>2, <3>1, <3>2
  <2> QED
    BY <2>1, <2>2
<1> QED
  BY <1>1, <1>2, <1>3 DEF RoleOf

LEMMA MembershipFacts ==
  ASSUME NEW m \in RoomMember \cup {Absent}
  PROVE  /\ m # Absent => /\ m = Member(m.role, m.status)
                          /\ m.role \in Roles /\ m.status \in MemberStatuses
         /\ RoleOf(m) \in Roles \cup {Absent}
         /\ RoleOf(m) # Absent => m # Absent /\ m.status = "active" /\ RoleOf(m) = m.role
         /\ m = Absent => RoleOf(m) = Absent /\ m \notin Barred
         /\ m \notin Barred <=> m = Absent \/ m.status # "banned"
<1>1. CASE m = Absent
  <2>1. Absent \notin Barred
    BY MemberFacts, "banned" \in MemberStatuses DEF Barred, MemberStatuses
  <2> QED
    BY <1>1, <2>1 DEF RoleOf
<1>2. CASE m # Absent
  <2>1. m \in RoomMember
    BY <1>2
  <2>2. m = Member(m.role, m.status) /\ m.role \in Roles /\ m.status \in MemberStatuses
    BY <2>1 DEF RoomMember, Member
  <2>3. m \in Barred <=> m.status = "banned"
    BY <2>2, MemberFacts
  <2> QED
    BY <1>2, <2>2, <2>3, MembersAssumption DEF RoleOf
<1> QED
  BY <1>1, <1>2

(* The membership of one agent changes as its role and bans at the host.   *)
LEMMA MembersFollow ==
  ASSUME NEW ms, FollowsMembers(ms), NEW x \in Agents, NEW m \in RoomMember \cup {Absent},
         NEW ss, ss = [ms EXCEPT ![x] = m],
         \A a \in Agents : a # x => members'[a] = members[a] /\ (a \in banned' <=> a \in banned),
         members'[x] = RoleOf(m), x \in banned' <=> m \in Barred
  PROVE  FollowsMembers(ss)'
<1>1. ss \in Memberships
  BY DEF FollowsMembers, Memberships
<1>2. ASSUME NEW a \in Agents PROVE RoleOf(ss[a]) = members'[a] /\ (a \in banned' <=> ss[a] \in Barred)
  <2>1. CASE a = x
    BY <2>1 DEF FollowsMembers, Memberships
  <2>2. CASE a # x
    BY <2>2 DEF FollowsMembers, Memberships
  <2> QED
    BY <2>1, <2>2
<1> QED
  BY <1>1, <1>2 DEF FollowsMembers

LEMMA MembersStay ==
  ASSUME NEW ms, FollowsMembers(ms), UNCHANGED <<members, banned>>
  PROVE  FollowsMembers(ms)'
BY DEF FollowsMembers

(* A plain record and what it projects. *)
Carries(r, e) == ~is_redacted(r) /\ r.envelope.event = e /\ r.accepted_at = now

(* Only the members are changed. *)
LEMMA MembersProjected ==
  ASSUME NEW local, Follows(local), NEW r, NEW e, Carries(r, e),
         e.type \notin {"room.update", "room.close", "room.cancel", "type.define"},
         UNCHANGED contract, FollowsMembers(MembersAfter(local.members, e))'
  PROVE  Follows(apply_record_projection(local, r))'
<1>1. PICK ms : ms = MembersAfter(local.members, e)
  OBVIOUS
<1>2. PICK after : after = [local EXCEPT !.members = ms]
  OBVIOUS
<1>3. apply_record_projection(local, r) = after
  BY <1>1, <1>2 DEF apply_record_projection, Carries
<1>4. ms \in Memberships
  BY <1>1 DEF FollowsMembers
<1>5. after \in LocalRoom /\ after.members = ms /\ after.status = local.status
      /\ after.visibility = local.visibility /\ after.policy = local.policy
      /\ after.start_time = local.start_time /\ after.end_time = local.end_time
  BY <1>2, <1>4 DEF Follows, LocalRoom
<1>6. Follows(after)'
  <2>1. FollowsContract(local) /\ FollowsStatus(local.status)
    BY DEF Follows
  <2>2. FollowsContract(after)' /\ FollowsStatus(after.status)'
    BY <1>5, <2>1 DEF FollowsContract, FollowsStatus
  <2>3. FollowsMembers(after.members)'
    BY <1>1, <1>5
  <2> QED
    BY <1>5, <2>2, <2>3 DEF Follows
<1>7. PICK x : x = apply_record_projection(local, r)
  OBVIOUS
<1> QED
  BY <1>3, <1>6, <1>7
-----------------------------------------------------------------------------
(* What an accepted event makes of a reader's room follows the host.       *)
Goes(e) ==
    \A local, r : Follows(local) /\ Carries(r, e) => Follows(apply_record_projection(local, r))'

(* It makes of the membership of x what the host makes of it.              *)
Turns(e, x) ==
    \A ms : FollowsMembers(ms) =>
        \E m \in RoomMember \cup {Absent} :
            /\ MembersAfter(ms, e) = [ms EXCEPT ![x] = m]
            /\ members'[x] = RoleOf(m) /\ (x \in banned' <=> m \in Barred)

Others(x) ==
    \A a \in Agents : a # x => members'[a] = members[a] /\ (a \in banned' <=> a \in banned)

LEMMA MemberGoes ==
  ASSUME NEW e, NEW x \in Agents, UNCHANGED contract, Turns(e, x), Others(x),
         e.type \notin {"room.update", "room.close", "room.cancel", "type.define"}
  PROVE  Goes(e)
<1> SUFFICES ASSUME NEW local, NEW r, Follows(local), Carries(r, e)
             PROVE  Follows(apply_record_projection(local, r))'
  BY DEF Goes
<1>1. PICK ms : ms = local.members
  OBVIOUS
<1>2. FollowsMembers(ms)
  BY <1>1 DEF Follows
<1>3. PICK m \in RoomMember \cup {Absent} :
         /\ MembersAfter(ms, e) = [ms EXCEPT ![x] = m]
         /\ members'[x] = RoleOf(m) /\ (x \in banned' <=> m \in Barred)
  BY <1>2 DEF Turns
<1>4. PICK ss : ss = [ms EXCEPT ![x] = m]
  OBVIOUS
<1>5. FollowsMembers(ss)'
  BY <1>2, <1>3, <1>4, MembersFollow DEF Others
<1>6. FollowsMembers(MembersAfter(local.members, e))'
  <2>1. MembersAfter(local.members, e) = ss
    BY <1>1, <1>3, <1>4
  <2>2. PICK y : y = MembersAfter(local.members, e)
    OBVIOUS
  <2> QED
    BY <1>5, <2>1, <2>2
<1> QED
  BY <1>6, MembersProjected

(* Neither members nor contract are changed.                               *)
LEMMA PlainGoes ==
  ASSUME NEW e, UNCHANGED <<contract, members, banned>>,
         e.type \in TypeNames \cup {"message.create"}
            \/ (e.type = "room.join.review" /\ e.payload.decision # "approve")
  PROVE  Goes(e)
<1> SUFFICES ASSUME NEW local, NEW r, Follows(local), Carries(r, e)
             PROVE  Follows(apply_record_projection(local, r))'
  BY DEF Goes
<1>1. PICK ms : ms = local.members
  OBVIOUS
<1>2. FollowsMembers(ms)'
  <2>1. FollowsMembers(ms)
    BY <1>1 DEF Follows
  <2> QED
    BY <2>1, MembersStay
<1>3. e.type \in TypeNames => e.type \notin Builtins
  BY RoomAssumption
<1>4. MembersAfter(ms, e) = ms
  BY <1>3 DEF MembersAfter, Builtins
<1>5. FollowsMembers(MembersAfter(local.members, e))'
  <2>1. PICK y : y = MembersAfter(local.members, e)
    OBVIOUS
  <2> QED
    BY <1>1, <1>2, <1>4, <2>1
<1>6. e.type \notin {"room.update", "room.close", "room.cancel", "type.define"}
  BY <1>3 DEF Builtins
<1> QED
  BY <1>5, <1>6, MembersProjected

LEMMA JoinGoes ==
  ASSUME members \in [Agents -> Roles \cup {Absent}], NEW a \in Agents, NEW r \in Roles,
         NEW e, e.type = "room.join", e.actor = a, e.payload = r,
         a \notin banned, members' = [members EXCEPT ![a] = r], UNCHANGED <<contract, banned>>
  PROVE  Goes(e)
<1>1. Others(a)
  BY DEF Others
<1>2. ASSUME NEW ms, FollowsMembers(ms)
      PROVE  \E m \in RoomMember \cup {Absent} :
                /\ MembersAfter(ms, e) = [ms EXCEPT ![a] = m]
                /\ members'[a] = RoleOf(m) /\ (a \in banned' <=> m \in Barred)
  <2>1. PICK m : m = Member(r, "active")
    OBVIOUS
  <2>2. m \in RoomMember /\ RoleOf(m) = r /\ m \notin Barred
    BY <2>1, MemberFacts DEF MemberStatuses
  <2>3. MembersAfter(ms, e) = [ms EXCEPT ![a] = m]
    BY <2>1 DEF MembersAfter
  <2> QED
    BY <2>2, <2>3
<1>3. Turns(e, a)
  BY <1>2 DEF Turns
<1> QED
  BY <1>1, <1>3, MemberGoes

(* Who has a role at the host is an active member, and not banned.         *)
LEMMA ActiveMember ==
  ASSUME NEW ms, FollowsMembers(ms), NEW a \in Agents, members[a] # Absent
  PROVE  ms[a] # Absent /\ ms[a].status = "active" /\ ms[a].role = members[a]
         /\ ms[a] \in RoomMember /\ members[a] \in Roles /\ a \notin banned
<1>1. PICK m \in RoomMember \cup {Absent} : m = ms[a]
  BY DEF FollowsMembers, Memberships
<1>2. RoleOf(m) = members[a] /\ (a \in banned <=> m \in Barred)
  BY <1>1 DEF FollowsMembers
<1>3. m # Absent /\ m.status = "active" /\ RoleOf(m) = m.role /\ m.role \in Roles
  BY <1>2, MembershipFacts
<1>4. m \notin Barred
  BY <1>3, MembershipFacts
<1> QED
  BY <1>1, <1>2, <1>3, <1>4

LEMMA LeaveGoes ==
  ASSUME members \in [Agents -> Roles \cup {Absent}], NEW a \in Agents,
         NEW e, e.type = "room.leave", e.actor = a,
         members[a] # Absent, members' = [members EXCEPT ![a] = Absent],
         UNCHANGED <<contract, banned>>
  PROVE  Goes(e)
<1>1. Others(a)
  BY DEF Others
<1>2. ASSUME NEW ms, FollowsMembers(ms)
      PROVE  \E m \in RoomMember \cup {Absent} :
                /\ MembersAfter(ms, e) = [ms EXCEPT ![a] = m]
                /\ members'[a] = RoleOf(m) /\ (a \in banned' <=> m \in Barred)
  <2>1. ms[a] # Absent /\ ms[a].role \in Roles /\ a \notin banned
    BY <1>2, ActiveMember
  <2>2. PICK m : m = Member(ms[a].role, "left")
    OBVIOUS
  <2>3. m \in RoomMember /\ RoleOf(m) = Absent /\ m \notin Barred
    BY <2>1, <2>2, MemberFacts DEF MemberStatuses
  <2>4. MembersAfter(ms, e) = [ms EXCEPT ![a] = m]
    BY <2>1, <2>2 DEF MembersAfter, Known
  <2> QED
    BY <2>1, <2>3, <2>4
<1>3. Turns(e, a)
  BY <1>2 DEF Turns
<1> QED
  BY <1>1, <1>3, MemberGoes

LEMMA RoleUpdateGoes ==
  ASSUME members \in [Agents -> Roles \cup {Absent}], NEW b \in Agents, NEW role \in Roles,
         NEW e, e.type = "room.member.role.update", e.payload.member = b, e.payload.role = role,
         members[b] # Absent, members' = [members EXCEPT ![b] = role],
         UNCHANGED <<contract, banned>>
  PROVE  Goes(e)
<1>1. Others(b)
  BY DEF Others
<1>2. ASSUME NEW ms, FollowsMembers(ms)
      PROVE  \E m \in RoomMember \cup {Absent} :
                /\ MembersAfter(ms, e) = [ms EXCEPT ![b] = m]
                /\ members'[b] = RoleOf(m) /\ (b \in banned' <=> m \in Barred)
  <2>1. ms[b] # Absent /\ ms[b].status = "active" /\ b \notin banned
    BY <1>2, ActiveMember
  <2>2. PICK m : m = Member(role, ms[b].status)
    OBVIOUS
  <2>3. m \in RoomMember /\ RoleOf(m) = role /\ m \notin Barred
    BY <2>1, <2>2, MemberFacts DEF MemberStatuses
  <2>4. MembersAfter(ms, e) = [ms EXCEPT ![b] = m]
    BY <2>1, <2>2 DEF MembersAfter, Known
  <2> QED
    BY <2>1, <2>3, <2>4
<1>3. Turns(e, b)
  BY <1>2 DEF Turns
<1> QED
  BY <1>1, <1>3, MemberGoes

LEMMA RemoveGoes ==
  ASSUME members \in [Agents -> Roles \cup {Absent}], NEW b \in Agents, NEW ban \in BOOLEAN,
         NEW e, e.type = "room.member.remove", e.payload.member = b, e.payload.ban = ban,
         members[b] # Absent \/ ban, members' = [members EXCEPT ![b] = Absent],
         banned' = IF ban THEN banned \cup {b} ELSE banned, UNCHANGED contract
  PROVE  Goes(e)
<1>1. Others(b)
  BY DEF Others
<1>2. ASSUME NEW ms, FollowsMembers(ms)
      PROVE  \E m \in RoomMember \cup {Absent} :
                /\ MembersAfter(ms, e) = [ms EXCEPT ![b] = m]
                /\ members'[b] = RoleOf(m) /\ (b \in banned' <=> m \in Barred)
  <2>1. PICK role \in Roles : role = IF ms[b] = Absent THEN "observer" ELSE ms[b].role
    <3>1. PICK old \in RoomMember \cup {Absent} : old = ms[b]
      BY <1>2 DEF FollowsMembers, Memberships
    <3>2. old # Absent => old.role \in Roles
      BY MembershipFacts
    <3> QED
      BY <3>1, <3>2 DEF Roles
  <2>2. PICK status \in MemberStatuses : status = IF ban THEN "banned" ELSE "removed"
    BY DEF MemberStatuses
  <2>3. PICK m : m = Member(role, status)
    OBVIOUS
  <2>4. m \in RoomMember /\ RoleOf(m) = Absent /\ (m \in Barred <=> ban)
    BY <2>2, <2>3, MemberFacts
  <2>5. MembersAfter(ms, e) = [ms EXCEPT ![b] = m]
    <3>1. m = Removed(ms[b], ban)
      BY <2>1, <2>2, <2>3 DEF Removed
    <3> QED
      BY <3>1 DEF MembersAfter
  <2>6. ~ban => b \notin banned
    BY <1>2, ActiveMember
  <2> QED
    BY <2>4, <2>5, <2>6
<1>3. Turns(e, b)
  BY <1>2 DEF Turns
<1> QED
  BY <1>1, <1>3, MemberGoes

LEMMA ApproveGoes ==
  ASSUME members \in [Agents -> Roles \cup {Absent}], NEW b \in Agents, NEW role \in Roles,
         NEW e, e.type = "room.join.review", e.payload.decision = "approve",
         e.payload.request.actor = b, e.payload.role = role,
         members' = [members EXCEPT ![b] = role], banned' = banned \ {b}, UNCHANGED contract
  PROVE  Goes(e)
<1>1. Others(b)
  BY DEF Others
<1>2. ASSUME NEW ms, FollowsMembers(ms)
      PROVE  \E m \in RoomMember \cup {Absent} :
                /\ MembersAfter(ms, e) = [ms EXCEPT ![b] = m]
                /\ members'[b] = RoleOf(m) /\ (b \in banned' <=> m \in Barred)
  <2>1. PICK m : m = Member(role, "active")
    OBVIOUS
  <2>2. m \in RoomMember /\ RoleOf(m) = role /\ m \notin Barred
    BY <2>1, MemberFacts DEF MemberStatuses
  <2>3. MembersAfter(ms, e) = [ms EXCEPT ![b] = m]
    BY <2>1 DEF MembersAfter
  <2> QED
    BY <2>2, <2>3
<1>3. Turns(e, b)
  BY <1>2 DEF Turns
<1> QED
  BY <1>1, <1>3, MemberGoes
-----------------------------------------------------------------------------
LEMMA SameMembers ==
  ASSUME NEW local, local \in LocalRoom, NEW e,
         e.type \in {"room.update", "room.close", "room.cancel", "type.define"}
  PROVE  [local EXCEPT !.members = MembersAfter(@, e)] = local
<1>1. MembersAfter(local.members, e) = local.members
  BY DEF MembersAfter
<1> QED
  BY <1>1 DEF LocalRoom

LEMMA UpdateGoes ==
  ASSUME UNCHANGED <<members, banned>>, contract \in Contract, contract.finished = "no",
         NEW e, NEW u \in Updates, e.type = "room.update", e.payload = u,
         contract' = [contract EXCEPT !.policy = Effective(u.policy, @),
                                      !.start_time = Effective(u.start_time, @),
                                      !.end_time = Effective(u.end_time, @)]
  PROVE  Goes(e)
<1> SUFFICES ASSUME NEW local, NEW r, Follows(local), Carries(r, e)
             PROVE  Follows(apply_record_projection(local, r))'
  BY DEF Goes
<1>1. local \in LocalRoom
  BY DEF Follows
<1>2. [local EXCEPT !.members = MembersAfter(@, e)] = local
  BY <1>1, SameMembers
<1>3. PICK new : new = apply_room_update(local, u, r.accepted_at)
  OBVIOUS
<1>4. apply_record_projection(local, r) = new
  BY <1>2, <1>3 DEF apply_record_projection, Carries
<1>5. /\ u.policy \in RoomPolicy \cup {Absent} /\ u.start_time \in Nat \cup {Absent}
      /\ u.end_time \in Nat \cup {Absent}
  BY UpdatesAssumption
<1>6. PICK status \in States_ :
         /\ status = IF local.status = "scheduled" /\ u.start_time # Absent
                           /\ u.start_time <= r.accepted_at
                     THEN "active" ELSE local.status
         /\ status = local.status \/ status = "active"
  BY <1>1 DEF LocalRoom, States_
<1>7. new = [local EXCEPT !.policy = Present(u.policy, local.policy),
                          !.start_time = Present(u.start_time, local.start_time),
                          !.end_time = Present(u.end_time, local.end_time),
                          !.status = status]
  BY <1>1, <1>3, <1>6 DEF apply_room_update
<1>8. /\ Present(u.policy, local.policy) \in RoomPolicy
      /\ Present(u.start_time, local.start_time) \in Nat
      /\ Present(u.end_time, local.end_time) \in Nat
  BY <1>1, <1>5 DEF LocalRoom, Present
<1>9. /\ new \in LocalRoom /\ new.members = local.members /\ new.status = status
      /\ new.visibility = local.visibility /\ new.policy = Present(u.policy, local.policy)
      /\ new.start_time = Present(u.start_time, local.start_time)
      /\ new.end_time = Present(u.end_time, local.end_time)
  BY <1>1, <1>7, <1>8 DEF LocalRoom
<1>10. FollowsContract(new)'
  <2>1. /\ contract'.visibility = contract.visibility
        /\ contract'.policy = Effective(u.policy, contract.policy)
        /\ contract'.start_time = Effective(u.start_time, contract.start_time)
        /\ contract'.end_time = Effective(u.end_time, contract.end_time)
    BY DEF Contract
  <2>2. FollowsContract(local)
    BY DEF Follows
  <2> QED
    BY <1>9, <2>1, <2>2 DEF FollowsContract, Effective, Present
<1>11. FollowsStatus(new.status)'
  <2>1. contract'.finished = "no"
    BY DEF Contract
  <2>2. local.status \notin {"ended", "cancelled"}
    BY DEF Follows, FollowsStatus
  <2> QED
    BY <1>6, <1>9, <2>1, <2>2 DEF FollowsStatus
<1>12. FollowsMembers(new.members)'
  <2>1. PICK ms : ms = local.members
    OBVIOUS
  <2>2. FollowsMembers(ms)
    BY <2>1 DEF Follows
  <2>3. FollowsMembers(ms)'
    BY <2>2, MembersStay
  <2> QED
    BY <1>9, <2>1, <2>3
<1>13. Follows(new)'
  BY <1>9, <1>10, <1>11, <1>12 DEF Follows
<1>14. PICK y : y = apply_record_projection(local, r)
  OBVIOUS
<1> QED
  BY <1>4, <1>13, <1>14

LEMMA FinishGoes ==
  ASSUME UNCHANGED <<members, banned>>, contract \in Contract, contract.finished = "no",
         NEW e, e.type \in {"room.close", "room.cancel"},
         contract' = [contract EXCEPT !.finished =
                         IF e.type = "room.cancel" THEN "cancelled" ELSE "ended"]
  PROVE  Goes(e)
<1> SUFFICES ASSUME NEW local, NEW r, Follows(local), Carries(r, e)
             PROVE  Follows(apply_record_projection(local, r))'
  BY DEF Goes
<1>1. local \in LocalRoom
  BY DEF Follows
<1>2. [local EXCEPT !.members = MembersAfter(@, e)] = local
  BY <1>1, SameMembers
<1>3. PICK status \in States_ : status = IF e.type = "room.cancel" THEN "cancelled" ELSE "ended"
  BY DEF States_
<1>4. PICK new : new = [local EXCEPT !.status = status]
  OBVIOUS
<1>5. apply_record_projection(local, r) = new
  BY <1>2, <1>3, <1>4 DEF apply_record_projection, Carries
<1>6. /\ new \in LocalRoom /\ new.members = local.members /\ new.status = status
      /\ new.visibility = local.visibility /\ new.policy = local.policy
      /\ new.start_time = local.start_time /\ new.end_time = local.end_time
  BY <1>1, <1>4 DEF LocalRoom
<1>7. FollowsContract(new)' /\ FollowsStatus(new.status)'
  <2>1. /\ contract'.visibility = contract.visibility /\ contract'.policy = contract.policy
        /\ contract'.start_time = contract.start_time /\ contract'.end_time = contract.end_time
        /\ contract'.finished = status
    BY <1>3 DEF Contract
  <2>2. FollowsContract(local)
    BY DEF Follows
  <2> QED
    BY <1>3, <1>6, <2>1, <2>2 DEF FollowsContract, FollowsStatus
<1>8. FollowsMembers(new.members)'
  <2>1. PICK ms : ms = local.members
    OBVIOUS
  <2>2. FollowsMembers(ms)
    BY <2>1 DEF Follows
  <2>3. FollowsMembers(ms)'
    BY <2>2, MembersStay
  <2> QED
    BY <1>6, <2>1, <2>3
<1>9. Follows(new)'
  BY <1>6, <1>7, <1>8 DEF Follows
<1>10. PICK y : y = apply_record_projection(local, r)
  OBVIOUS
<1> QED
  BY <1>5, <1>9, <1>10

(* Nothing but what a room lists of types, and its head. *)
LEMMA FollowsAnyTypes ==
  ASSUME NEW local, Follows(local), NEW types \in Registries, NEW head \in Nat,
         NEW status \in States_, FollowsStatus(status),
         NEW new, new = [local EXCEPT !.types = types, !.head_seq = head, !.status = status]
  PROVE  Follows(new)
<1>1. local \in LocalRoom
  BY DEF Follows
<1>2. /\ new \in LocalRoom /\ new.members = local.members /\ new.status = status
      /\ new.visibility = local.visibility /\ new.policy = local.policy
      /\ new.start_time = local.start_time /\ new.end_time = local.end_time
  BY <1>1 DEF LocalRoom
<1> QED
  BY <1>2 DEF Follows, FollowsContract

LEMMA FollowsStays ==
  ASSUME NEW local, Follows(local), UNCHANGED <<contract, members, banned>>
  PROVE  Follows(local)'
<1>1. PICK ms : ms = local.members
  OBVIOUS
<1>2. FollowsMembers(ms)'
  <2>1. FollowsMembers(ms)
    BY <1>1 DEF Follows
  <2> QED
    BY <2>1, MembersStay
<1> QED
  BY <1>1, <1>2 DEF Follows, FollowsContract, FollowsStatus

LEMMA DefineGoes ==
  ASSUME UNCHANGED <<contract, members, banned>>,
         NEW e, NEW d \in TypeDeclaration, e.type = "type.define", e.payload = d
  PROVE  Goes(e)
<1> SUFFICES ASSUME NEW local, NEW r, Follows(local), Carries(r, e)
             PROVE  Follows(apply_record_projection(local, r))'
  BY DEF Goes
<1>1. local \in LocalRoom
  BY DEF Follows
<1>2. [local EXCEPT !.members = MembersAfter(@, e)] = local
  BY <1>1, SameMembers
<1>3. PICK x : x = apply_record_projection(local, r)
  OBVIOUS
<1>4. CASE IsImport(d)
  <2>1. x = local
    BY <1>2, <1>3, <1>4 DEF apply_record_projection, Carries
  <2> QED
    BY <1>3, <2>1, FollowsStays
<1>5. CASE ~IsImport(d)
  <2>1. d \in TypeDef
    BY <1>5 DEF TypeDeclaration, PackImport, IsImport
  <2>2. PICK types : types = [local.types EXCEPT ![d.name] = d]
    OBVIOUS
  <2>3. types \in Registries
    BY <1>1, <2>1, <2>2 DEF LocalRoom, Registries, TypeDef
  <2>4. x = [local EXCEPT !.types[d.name] = d]
    BY <1>2, <1>3, <1>5 DEF apply_record_projection, Carries
  <2>5. x = [local EXCEPT !.types = types]
    BY <2>2, <2>4
  <2>6. x = [local EXCEPT !.types = types, !.head_seq = local.head_seq, !.status = local.status]
    BY <1>1, <2>5 DEF LocalRoom
  <2>7. Follows(x)
    <3>1. PICK status \in States_ : status = local.status /\ FollowsStatus(status)
      BY <1>1 DEF LocalRoom, Follows
    <3>2. PICK head \in Nat : head = local.head_seq
      BY <1>1 DEF LocalRoom
    <3>3. x = [local EXCEPT !.types = types, !.head_seq = head, !.status = status]
      BY <2>6, <3>1, <3>2
    <3> QED
      BY <2>3, <3>1, <3>2, <3>3, FollowsAnyTypes
  <2>8. Follows(x)'
    BY <2>7, FollowsStays
  <2> QED
    BY <1>3, <2>8
<1> QED
  BY <1>4, <1>5
-----------------------------------------------------------------------------
(* A step that writes, by the event it accepts. *)

Wrote(type, actor, payload, direct, e) ==
    /\ log' = Append(log, [event |-> e, accepted_at |-> now]) /\ now' = now
    /\ validate_room_path(e, room) /\ e.base_seq = Len(log)
    /\ e.type = type /\ e.actor = actor /\ e.payload = payload
    /\ RoomState \in {"scheduled", "active"}
    /\ validate_room_write(type, RoomState, Context(actor, direct), registry)

LEMMA WriteWrote ==
  ASSUME NEW type, NEW actor, NEW payload, NEW direct, Write(type, actor, payload, direct)
  PROVE  \E e : Wrote(type, actor, payload, direct, e)
<1>1. PICK e : e = discourse_event(type, actor, room, Len(log), payload)
  OBVIOUS
<1>2. e.base_seq = Len(log) /\ e.type = type /\ e.actor = actor /\ e.payload = payload
  BY <1>1 DEF discourse_event
<1>3. RoomState \in {"scheduled", "active"} /\ now' = now
  BY WritesToOpenRooms
<1>4. /\ log' = Append(log, [event |-> e, accepted_at |-> now])
      /\ validate_room_path(e, room)
      /\ validate_room_write(type, RoomState, Context(actor, direct), registry)
  BY <1>1 DEF Write
<1> QED
  BY <1>2, <1>3, <1>4 DEF Wrote

(* What the host's handlers make sure of in the event they accept.         *)
Declares(e) ==
    IF e.type = "type.define"
    THEN /\ e.payload \in TypeDeclaration /\ apply(registry, e.payload).ok
         /\ registry' = apply(registry, e.payload).registry
    ELSE registry' = registry
Permits(e, direct) ==
    /\ validate_room_write(e.type, RoomState, Context(e.actor, direct), registry)
    /\ e.type = "room.join" =>
          /\ e.payload \in Roles /\ e.actor \notin banned
          /\ direct = can_join_directly(contract.visibility, contract.policy, e.actor, e.payload)

Accepts(e) ==
    /\ log' = Append(log, [event |-> e, accepted_at |-> now]) /\ now' = now
    /\ validate_room_path(e, room) /\ e.base_seq = Len(log) /\ e.actor \in Agents
    /\ e.type \in (Builtins \cup TypeNames) \ {"room.create", "room.join.request"}
    /\ RoomState \in {"scheduled", "active"}
    /\ \E direct : Permits(e, direct)
    /\ e.type = "room.join.review" => validate_room_join_review_payload(e.payload, room)
    /\ Declares(e)
    /\ Redactable(e.type) => UNCHANGED <<contract, members, banned>>

LEMMA WroteAccepts ==
  ASSUME NEW type, NEW actor \in Agents, NEW payload, NEW direct, NEW e,
         Wrote(type, actor, payload, direct, e), registry' = registry,
         type \in Builtins \ {"room.create", "room.join", "room.join.request", "room.join.review",
                              "type.define", "message.create"}
  PROVE  Accepts(e)
<1>1. Permits(e, direct)
  BY DEF Wrote, Permits
<1>2. Declares(e)
  BY DEF Wrote, Declares
<1>3. ~Redactable(e.type)
  BY DEF Wrote, Redactable
<1> QED
  BY <1>1, <1>2, <1>3 DEF Wrote, Accepts

(* The types the lemmas here ask of the state.                             *)
Held == /\ members \in [Agents -> Roles \cup {Absent}] /\ contract \in Contract
        /\ now \in Nat /\ RegistrySound

LEMMA HoldsThen == ASSUME RegistrySound, AuthoritySound PROVE Held
<1>1. Roles \cup AskedRoles \cup GivenRoles \cup {Absent} = Roles \cup {Absent}
  BY RolesAssumption
<1>2. members \in [Agents -> Roles \cup AskedRoles \cup GivenRoles \cup {Absent}]
      /\ now \in Nat /\ contract \in Contract
  BY DEF AuthoritySound, MembersSound, ContractSound
<1> QED
  BY <1>1, <1>2 DEF Held

LEMMA NotFinished ==
  ASSUME contract \in Contract, RoomState \in {"scheduled", "active"}
  PROVE  contract.finished = "no"
BY DEF Contract, RoomState, StateAt

LEMMA JoinAccepts ==
  ASSUME Held, NEW a \in Agents, NEW r \in Roles, Join(a, r)
  PROVE  \E e : Accepts(e) /\ Goes(e)
<1>1. PICK direct : direct = can_join_directly(contract.visibility, contract.policy, a, r)
  OBVIOUS
<1>2. Write("room.join", a, r, direct)
  BY <1>1 DEF Join
<1>3. PICK e : Wrote("room.join", a, r, direct, e)
  BY <1>2, WriteWrote
<1>4. /\ a \notin banned /\ members' = [members EXCEPT ![a] = r]
      /\ UNCHANGED <<contract, banned, registry>>
  BY DEF Join, SetRole
<1>5. Goes(e)
  BY <1>3, <1>4, JoinGoes DEF Wrote, Held
<1>6. Accepts(e)
  <2>1. Permits(e, direct)
    BY <1>1, <1>3, <1>4 DEF Wrote, Permits
  <2>2. Declares(e)
    BY <1>3, <1>4 DEF Wrote, Declares
  <2>3. ~Redactable(e.type)
    BY <1>3 DEF Wrote, Redactable, Builtins
  <2> QED
    BY <1>3, <2>1, <2>2, <2>3 DEF Wrote, Accepts, Builtins
<1> QED
  BY <1>5, <1>6

LEMMA LeaveAccepts ==
  ASSUME Held, NEW a \in Agents, Leave(a)
  PROVE  \E e : Accepts(e) /\ Goes(e)
<1>1. PICK e : Wrote("room.leave", a, Absent, FALSE, e)
  BY WriteWrote DEF Leave
<1>2. members' = [members EXCEPT ![a] = Absent] /\ UNCHANGED <<contract, banned, registry>>
  BY DEF Leave
<1>3. members[a] # Absent
  <2>1. can_submit_event("room.leave", Context(a, FALSE), registry)
    BY <1>1 DEF Wrote, validate_room_write
  <2> QED
    BY <2>1, BuiltinJoins DEF can_submit_event, Context
<1>4. Goes(e)
  BY <1>1, <1>2, <1>3, LeaveGoes DEF Wrote, Held
<1>5. Accepts(e)
  BY <1>1, <1>2, WroteAccepts DEF Builtins
<1> QED
  BY <1>4, <1>5

LEMMA RoleUpdateAccepts ==
  ASSUME Held, NEW a \in Agents, NEW b \in Agents, NEW r \in GivenRoles, RoleUpdate(a, b, r)
  PROVE  \E e : Accepts(e) /\ Goes(e)
<1>1. PICK payload : payload = [member |-> b, role |-> r]
  OBVIOUS
<1>2. PICK e : Wrote("room.member.role.update", a, payload, FALSE, e)
  BY <1>1, WriteWrote DEF RoleUpdate
<1>3. /\ members[b] # Absent /\ members' = [members EXCEPT ![b] = r]
      /\ UNCHANGED <<contract, banned, registry>>
  BY DEF RoleUpdate, SetRole
<1>4. payload.member = b /\ payload.role = r /\ r \in Roles
  BY <1>1, RolesAssumption
<1>5. Goes(e)
  BY <1>2, <1>3, <1>4, RoleUpdateGoes DEF Wrote, Held
<1>6. Accepts(e)
  BY <1>2, <1>3, WroteAccepts DEF Builtins
<1> QED
  BY <1>5, <1>6

LEMMA RemoveAccepts ==
  ASSUME Held, NEW a \in Agents, NEW b \in Agents, NEW ban \in BOOLEAN, RemoveMember(a, b, ban)
  PROVE  \E e : Accepts(e) /\ Goes(e)
<1>1. PICK payload : payload = [member |-> b, ban |-> ban]
  OBVIOUS
<1>2. PICK e : Wrote("room.member.remove", a, payload, FALSE, e)
  BY <1>1, WriteWrote DEF RemoveMember
<1>3. /\ members[b] # Absent \/ ban
      /\ members' = [members EXCEPT ![b] = Absent]
      /\ banned' = IF ban THEN banned \cup {b} ELSE banned
      /\ UNCHANGED <<contract, registry>>
  BY DEF RemoveMember
<1>4. payload.member = b /\ payload.ban = ban
  BY <1>1
<1>5. Goes(e)
  BY <1>2, <1>3, <1>4, RemoveGoes DEF Wrote, Held
<1>6. Accepts(e)
  BY <1>2, <1>3, WroteAccepts DEF Builtins
<1> QED
  BY <1>5, <1>6

LEMMA FinishAccepts ==
  ASSUME Held, NEW a \in Agents, NEW t \in {"room.close", "room.cancel"}, Finish(t, a)
  PROVE  \E e : Accepts(e) /\ Goes(e)
<1>1. PICK e : Wrote(t, a, Absent, FALSE, e)
  BY WriteWrote DEF Finish
<1>2. /\ contract' = [contract EXCEPT !.finished =
                         IF t = "room.cancel" THEN "cancelled" ELSE "ended"]
      /\ UNCHANGED <<members, banned, registry>>
  BY DEF Finish
<1>3. contract.finished = "no"
  BY <1>1, NotFinished DEF Wrote, Held
<1>4. Goes(e)
  BY <1>1, <1>2, <1>3, FinishGoes DEF Wrote, Held
<1>5. Accepts(e)
  BY <1>1, <1>2, WroteAccepts DEF Builtins
<1> QED
  BY <1>4, <1>5

LEMMA UpdateAccepts ==
  ASSUME Held, NEW a \in Agents, NEW u \in Updates, Update(a, u)
  PROVE  \E e : Accepts(e) /\ Goes(e)
<1>1. PICK e : Wrote("room.update", a, u, FALSE, e)
  BY WriteWrote DEF Update
<1>2. /\ contract' = [contract EXCEPT !.policy = Effective(u.policy, @),
                                      !.start_time = Effective(u.start_time, @),
                                      !.end_time = Effective(u.end_time, @)]
      /\ UNCHANGED <<members, banned, registry>>
  BY DEF Update
<1>3. contract.finished = "no"
  BY <1>1, NotFinished DEF Wrote, Held
<1>4. Goes(e)
  BY <1>1, <1>2, <1>3, UpdateGoes DEF Wrote, Held
<1>5. Accepts(e)
  BY <1>1, <1>2, WroteAccepts DEF Builtins
<1> QED
  BY <1>4, <1>5

LEMMA PostAccepts ==
  ASSUME Held, NEW a \in Agents, NEW t \in TypeNames \cup {"message.create"}, Post(a, t)
  PROVE  \E e : Accepts(e) /\ Goes(e)
<1>1. PICK e : Wrote(t, a, Absent, FALSE, e)
  BY WriteWrote DEF Post
<1>2. UNCHANGED <<contract, members, banned, registry>>
  BY DEF Post
<1>3. e.type = t /\ t \notin Builtins \ {"message.create"}
  BY <1>1, RoomAssumption DEF Wrote
<1>4. Goes(e)
  BY <1>2, <1>3, PlainGoes
<1>5. Accepts(e)
  <2>1. Permits(e, FALSE)
    BY <1>1, <1>3 DEF Wrote, Permits, Builtins
  <2>2. Declares(e)
    BY <1>2, <1>3 DEF Declares, Builtins
  <2>3. e.type # "room.join.review" /\ e.type # "room.create" /\ e.type # "room.join.request"
        /\ e.type \in Builtins \cup TypeNames
    BY <1>3 DEF Builtins
  <2> QED
    BY <1>1, <1>2, <2>1, <2>2, <2>3 DEF Wrote, Accepts
<1> QED
  BY <1>4, <1>5

LEMMA DefineAccepts ==
  ASSUME Held, NEW a \in Agents, NEW d \in Declarations, TypeDefine(a, d)
  PROVE  \/ UNCHANGED <<contract, members, banned, registry, log>>
         \/ \E e : Accepts(e) /\ Goes(e)
<1>1. d \in TypeDeclaration
  BY DeclarationsAssumption
<1>2. PICK x : x = apply(registry, d)
  OBVIOUS
<1>3. /\ registry' = x.registry /\ UNCHANGED <<contract, members, banned>>
      /\ IF x.ok THEN Write("type.define", a, d, FALSE) ELSE UNCHANGED <<now, log>>
  BY <1>2 DEF TypeDefine
<1>4. IF x.ok THEN TRUE ELSE x.registry = registry
  <2>1. PICK old \in Registries : old = registry
    BY DEF Held, RegistrySound
  <2> QED
    BY <1>1, <1>2, <2>1, ApplyExact
<1>5. CASE ~x.ok
  BY <1>3, <1>4, <1>5
<1>6. CASE x.ok
  <2>1. PICK e : Wrote("type.define", a, d, FALSE, e)
    BY <1>3, <1>6, WriteWrote
  <2>2. Goes(e)
    BY <1>1, <1>3, <2>1, DefineGoes DEF Wrote
  <2>3. Permits(e, FALSE)
    BY <2>1 DEF Wrote, Permits
  <2>4. Declares(e)
    BY <1>1, <1>2, <1>3, <1>6, <2>1 DEF Wrote, Declares
  <2>5. ~Redactable(e.type)
    BY <2>1 DEF Wrote, Redactable, Builtins
  <2>6. Accepts(e)
    BY <2>1, <2>3, <2>4, <2>5 DEF Wrote, Accepts, Builtins
  <2> QED
    BY <2>2, <2>6
<1> QED
  BY <1>5, <1>6

LEMMA ReviewAccepts ==
  ASSUME Held, NEW a \in Agents, NEW q \in requests, q.actor \in Agents,
         NEW d \in {"approve", "reject"}, NEW r \in GivenRoles \cup {Absent}, Review(a, q, d, r)
  PROVE  \E e : Accepts(e) /\ Goes(e)
<1>1. PICK payload : payload = [request |-> Signed(q), decision |-> d, role |-> r]
  OBVIOUS
<1>2. Write("room.join.review", a, payload, FALSE) /\ validate_room_join_review_payload(payload, room)
  BY <1>1 DEF Review, Signed
<1>3. PICK e : Wrote("room.join.review", a, payload, FALSE, e)
  BY <1>2, WriteWrote
<1>4. payload.decision = d /\ payload.role = r /\ payload.request.actor = q.actor
  BY <1>1, SignedParts
<1>5. UNCHANGED <<contract, registry>>
  BY DEF Review
<1>6. Goes(e)
  <2>1. CASE d = "approve"
    <3>1. r \in Roles
      <4>1. r # Absent
        BY <1>2, <1>4, <2>1 DEF validate_room_join_review_payload
      <4> QED
        BY <4>1, RolesAssumption
    <3>2. members' = [members EXCEPT ![q.actor] = r] /\ banned' = banned \ {q.actor}
      BY <2>1 DEF Review, SetRole
    <3> QED
      BY <1>3, <1>4, <1>5, <2>1, <3>1, <3>2, ApproveGoes DEF Wrote, Held
  <2>2. CASE d # "approve"
    <3>1. UNCHANGED <<members, banned>>
      BY <2>2 DEF Review
    <3> QED
      BY <1>3, <1>4, <1>5, <2>2, <3>1, PlainGoes DEF Wrote
  <2> QED
    BY <2>1, <2>2
<1>7. Accepts(e)
  <2>1. Permits(e, FALSE)
    BY <1>3 DEF Wrote, Permits
  <2>2. Declares(e)
    BY <1>3, <1>5 DEF Wrote, Declares
  <2>3. ~Redactable(e.type)
    BY <1>3 DEF Wrote, Redactable, Builtins
  <2> QED
    BY <1>2, <1>3, <2>1, <2>2, <2>3 DEF Wrote, Accepts, Builtins
<1> QED
  BY <1>6, <1>7

(* A step accepts an event, or changes nothing that records show.          *)
LEMMA StepAccepts ==
  ASSUME RegistrySound, AuthoritySound, [Next]_vars
  PROVE  \/ UNCHANGED <<contract, members, banned, registry, log>>
         \/ \E e : Accepts(e) /\ Goes(e)
<1>1. Held
  BY HoldsThen
<1>2. \A q \in requests : q.actor \in Agents
  BY DEF AuthoritySound, RequestsSound, Asked
<1>3. CASE Tick \/ UNCHANGED vars
  BY <1>3 DEF Tick, vars
<1>4. CASE \E a \in Agents, r \in AskedRoles : JoinRequest(a, r)
  BY <1>4 DEF JoinRequest
<1>5. CASE \E a \in Agents, q \in requests, d \in {"approve", "reject"}, r \in GivenRoles \cup {Absent} :
              Review(a, q, d, r)
  BY <1>1, <1>2, <1>5, ReviewAccepts
<1> QED
  BY <1>1, <1>3, <1>4, <1>5, JoinAccepts, LeaveAccepts, RoleUpdateAccepts, RemoveAccepts,
     FinishAccepts, UpdateAccepts, PostAccepts, DefineAccepts DEF Next
-----------------------------------------------------------------------------
(* The head of a room: its last record of an advancing type. *)
Advancing == {i \in DOMAIN log : event_type_advances_head(Event(i).type, registry)}

LEMMA AlwaysAdvance ==
  ASSUME NEW types
  PROVE  event_type_advances_head("type.define", types) /\ event_type_advances_head("room.create", types)
<1>1. "type.define" \notin TypeNames /\ "room.create" \notin TypeNames
  BY RoomAssumption DEF Builtins
<1> QED
  BY <1>1 DEF event_type_advances_head

LEMMA HeadBounded ==
  ASSUME LogSound, NEW n, n = Len(log)
  PROVE  n \in Nat /\ Max(Advancing) \in Nat /\ Max(Advancing) <= n /\ Max(Advancing) >= 1
<1>1. n \in Nat /\ n > 0 /\ DOMAIN log = 1..n
  BY DEF LogSound
<1>2. Event(1).type = "room.create"
  BY DEF LogSound, room_create_event, discourse_event
<1>3. PICK A : A = Advancing
  OBVIOUS
<1>4. 1 \in A /\ A \in SUBSET (0..n)
  BY <1>1, <1>2, <1>3, AlwaysAdvance DEF Advancing
<1>5. Max(A) \in A /\ \A y \in A : Max(A) >= y
  BY <1>1, <1>4, MaxOfBounded
<1>6. Max(A) \in 0..n
  BY <1>4, <1>5
<1> QED
  BY <1>1, <1>3, <1>4, <1>5, <1>6

LEMMA HeadMoves ==
  ASSUME LogSound, NEW e, log' = Append(log, [event |-> e, accepted_at |-> now]), NEW n, n = Len(log),
         Declares(e)
  PROVE  Max(Advancing)' = IF event_type_advances_head(e.type, registry') THEN n + 1 ELSE Max(Advancing)
<1>1. PICK entry : entry = [event |-> e, accepted_at |-> now]
  OBVIOUS
<1>2. /\ n \in Nat /\ n > 0 /\ DOMAIN log = 1..n /\ DOMAIN log' = 1..(n + 1)
      /\ \A i \in 1..n : log'[i] = log[i]
      /\ log'[n + 1] = entry
  BY <1>1, LogGrows
<1>3. entry.event = e
  BY <1>1
<1>4. PICK types : types = registry'
  OBVIOUS
<1> DEFINE Old == {i \in 1..n : event_type_advances_head(log[i].event.type, types)}
<1>5. Advancing' = {i \in 1..(n + 1) : event_type_advances_head(log'[i].event.type, types)}
  BY <1>2, <1>4 DEF Advancing, Event
<1>6. Advancing' = Old \cup (IF event_type_advances_head(e.type, types) THEN {n + 1} ELSE {})
  BY <1>2, <1>3, <1>5
<1>7. CASE event_type_advances_head(e.type, types)
  <2>1. Advancing' = Old \cup {n + 1}
    BY <1>6, <1>7
  <2>2. Max(Old \cup {n + 1}) = n + 1
    BY <1>2, MaxOfNext
  <2> HIDE DEF Old
  <2>3. PICK A : A = Advancing'
    OBVIOUS
  <2>4. Max(Advancing)' = Max(A)
    BY <2>3
  <2> QED
    BY <1>4, <1>7, <2>1, <2>2, <2>3, <2>4
<1>8. CASE ~event_type_advances_head(e.type, types)
  <2>1. e.type # "type.define"
    BY <1>8, AlwaysAdvance
  <2>2. types = registry
    BY <1>4, <2>1 DEF Declares
  <2>3. Old = Advancing
    BY <1>2, <2>2 DEF Advancing, Event
  <2>4. Advancing' = Advancing
    BY <1>6, <1>8, <2>3
  <2>5. Max(Advancing)' = Max(Advancing)
    BY <2>4
  <2> QED
    BY <1>4, <1>8, <2>5
<1> QED
  BY <1>7, <1>8
-----------------------------------------------------------------------------
(* The reader's clock shows the host's state of the room. *)
LEMMA StatusFollows ==
  ASSUME NEW local, Follows(local), contract \in Contract, now \in Nat
  PROVE  StatusAt(local, now) = RoomState
<1>1. FollowsContract(local) /\ FollowsStatus(local.status)
  BY DEF Follows
<1>2. contract.start_time \in Nat /\ contract.end_time \in Nat
      /\ contract.finished \in {"no", "ended", "cancelled"}
  BY DEF Contract
<1>3. CASE contract.finished = "no"
  BY <1>1, <1>2, <1>3 DEF FollowsContract, FollowsStatus, StatusAt, RoomState, StateAt
<1>4. CASE contract.finished # "no"
  BY <1>1, <1>2, <1>4 DEF FollowsContract, FollowsStatus, StatusAt, RoomState, StateAt
<1> QED
  BY <1>3, <1>4

(* Only joining asks whether it may be direct. *)
LEMMA DirectIrrelevant ==
  ASSUME NEW type, type # "room.join", NEW c, NEW d, c.role = d.role, c.is_creator = d.is_creator,
         NEW types
  PROVE  can_submit_event(type, c, types) => can_submit_event(type, d, types)
<1> SUFFICES ASSUME can_submit_event(type, c, types) PROVE can_submit_event(type, d, types)
  OBVIOUS
<1>1. \A t : CustomAllowed(t, c) => CustomAllowed(t, d)
  BY DEF CustomAllowed
<1>2. CASE type \in TypeNames
  <2>1. type \notin Builtins
    BY <1>2, RoomAssumption
  <2> QED
    BY <1>1, <1>2, <2>1 DEF can_submit_event, Builtins
<1>3. CASE type \notin TypeNames
  BY <1>3 DEF can_submit_event
<1> QED
  BY <1>2, <1>3
-----------------------------------------------------------------------------
(* What a history of the records so far has found. *)
Whole(h) ==
    h.registry = registry /\ h.local.types = registry /\ h.local.head_seq = Max(Advancing)

SoundReplay(h, whole) ==
    /\ h \in Histories /\ h.ok /\ Follows(h.local)
    /\ h.verified = whole
    /\ whole => Whole(h)

(* A projection leaves the head alone. *)
LEMMA HeadKept ==
  ASSUME NEW local, local \in LocalRoom, NEW r
  PROVE  apply_record_projection(local, r).head_seq = local.head_seq
<1>1. CASE is_redacted(r)
  BY <1>1 DEF apply_record_projection
<1>2. CASE ~is_redacted(r)
  <2>1. PICK e : e = r.envelope.event
    OBVIOUS
  <2>2. PICK after : after = [local EXCEPT !.members = MembersAfter(@, e)]
    OBVIOUS
  <2>3. after.head_seq = local.head_seq /\ after = [local EXCEPT !.members = after.members]
    BY <2>2 DEF LocalRoom
  <2>4. apply_record_projection(local, r)
           = CASE e.type = "room.update" -> apply_room_update(after, e.payload, r.accepted_at)
               [] e.type = "room.close" -> [after EXCEPT !.status = "ended"]
               [] e.type = "room.cancel" -> [after EXCEPT !.status = "cancelled"]
               [] e.type = "type.define" /\ ~IsImport(e.payload) ->
                     [after EXCEPT !.types[e.payload.name] = e.payload]
               [] OTHER -> after
    BY <1>2, <2>1, <2>2 DEF apply_record_projection
  <2>5. CASE e.type = "room.update"
    <3>1. apply_record_projection(local, r) = apply_room_update(after, e.payload, r.accepted_at)
      BY <2>4, <2>5
    <3>2. apply_room_update(after, e.payload, r.accepted_at).head_seq = after.head_seq
      BY <2>2 DEF apply_room_update, LocalRoom
    <3> QED
      BY <2>3, <3>1, <3>2
  <2>6. CASE e.type = "room.close"
    BY <2>2, <2>4, <2>6 DEF LocalRoom
  <2>7. CASE e.type = "room.cancel"
    BY <2>2, <2>4, <2>7 DEF LocalRoom
  <2>8. CASE e.type = "type.define" /\ ~IsImport(e.payload)
    <3>1. apply_record_projection(local, r) = [after EXCEPT !.types[e.payload.name] = e.payload]
      BY <2>4, <2>8
    <3>2. PICK types : types = [after.types EXCEPT ![e.payload.name] = e.payload]
      OBVIOUS
    <3>3. apply_record_projection(local, r) = [after EXCEPT !.types = types]
      BY <3>1, <3>2
    <3> QED
      BY <2>2, <3>3 DEF LocalRoom
  <2>9. CASE e.type \notin {"room.update", "room.close", "room.cancel"}
             /\ ~(e.type = "type.define" /\ ~IsImport(e.payload))
    BY <2>3, <2>4, <2>9
  <2> QED
    BY <2>5, <2>6, <2>7, <2>8, <2>9
<1> QED
  BY <1>1, <1>2

(* The reader's room as it is rewritten after the step. *)
Listing(local, types, head) == [local EXCEPT !.types = types, !.head_seq = head]

LEMMA RewrittenFollows ==
  ASSUME NEW local, Follows(local)', NEW types \in Registries, NEW head \in Nat,
         NEW new, new = Listing(local, types, head)
  PROVE  Follows(new)' /\ new.types = types /\ new.head_seq = head
<1>1. local \in LocalRoom
  BY DEF Follows
<1>2. /\ new \in LocalRoom /\ new.members = local.members /\ new.status = local.status
      /\ new.visibility = local.visibility /\ new.policy = local.policy
      /\ new.start_time = local.start_time /\ new.end_time = local.end_time
      /\ new.types = types /\ new.head_seq = head
  BY <1>1 DEF LocalRoom, Listing
<1> QED
  BY <1>2 DEF Follows, FollowsContract

TypeOf(r) == IF is_redacted(r) THEN r.envelope.kind ELSE r.envelope.event.type

(* What a projection makes of a history. *)
Follower(g, h, r) ==
    /\ g \in Histories /\ g.ok = h.ok /\ g.verified = h.verified /\ g.registry = h.registry
    /\ Follows(g.local)'
    /\ h.verified =>
          /\ g.local.types = h.registry
          /\ g.local.head_seq = IF event_type_advances_head(TypeOf(r), h.registry) THEN r.seq
                                ELSE h.local.head_seq

LEMMA ProjectedFollows ==
  ASSUME NEW h \in Histories, NEW r, r.seq \in Nat,
         Follows(apply_record_projection(h.local, r))'
  PROVE  Follower(Projected(h, r), h, r)
<1>1. PICK local : local = apply_record_projection(h.local, r)
  OBVIOUS
<1>2. Follows(local)'
  BY <1>1
<1>3. local \in LocalRoom /\ h.local \in LocalRoom /\ h.registry \in Registries
      /\ h.verified \in BOOLEAN
  BY <1>2 DEF Follows, Histories
<1>4. local.head_seq = h.local.head_seq
  BY <1>1, <1>3, HeadKept
<1>5. PICK types \in Registries : types = IF h.verified THEN h.registry ELSE local.types
  BY <1>3 DEF LocalRoom
<1>6. PICK head \in Nat :
         head = IF event_type_advances_head(TypeOf(r), types) THEN r.seq ELSE local.head_seq
  BY <1>3 DEF LocalRoom
<1>7. PICK new : new = [local EXCEPT !.types = types, !.head_seq = head]
  OBVIOUS
<1>0. new = Listing(local, types, head)
  BY <1>7 DEF Listing
<1>8. Projected(h, r) = [h EXCEPT !.local = new]
  BY <1>1, <1>5, <1>6, <1>7, Zenon DEF Projected, TypeOf
<1>9. Follows(new)' /\ new.types = types /\ new.head_seq = head /\ new \in LocalRoom
  <2>1. Follows(new)' /\ new.types = types /\ new.head_seq = head
    BY <1>0, <1>2, RewrittenFollows
  <2> QED
    BY <2>1 DEF Follows
<1>10. PICK g : g = [h EXCEPT !.local = new]
  OBVIOUS
<1>11. /\ g \in Histories /\ g.ok = h.ok /\ g.verified = h.verified /\ g.registry = h.registry
       /\ g.local = new
  BY <1>9, <1>10 DEF Histories
<1>12. Follows(g.local)'
  BY <1>9, <1>11
<1>13. Follower(g, h, r)
  BY <1>4, <1>5, <1>6, <1>9, <1>11, <1>12 DEF Follower
<1> QED
  BY <1>8, <1>10, <1>13
-----------------------------------------------------------------------------
LEMMA SoundNext ==
  ASSUME NEW h, NEW g, NEW r, Follower(g, h, r), h.ok = TRUE, NEW whole, h.verified = whole,
         whole => (h.registry = registry' /\ Max(Advancing)' =
                      IF event_type_advances_head(TypeOf(r), registry') THEN r.seq
                      ELSE h.local.head_seq)
  PROVE  SoundReplay(g, whole)'
<1>1. g \in Histories /\ g.ok /\ Follows(g.local)' /\ g.verified = whole
  BY DEF Follower
<1>2. ASSUME whole PROVE Whole(g)'
  <2>1. g.registry = registry' /\ g.local.types = registry'
    BY <1>2 DEF Follower
  <2>2. g.local.head_seq = Max(Advancing)'
    BY <1>2 DEF Follower
  <2> QED
    BY <2>1, <2>2 DEF Whole
<1> QED
  BY <1>1, <1>2 DEF SoundReplay

(* A redacted record: the reader goes on unverified. *)
LEMMA RedactedReplay ==
  ASSUME NEW h, NEW whole, SoundReplay(h, whole), NEW x, is_redacted(x), x.seq \in Nat,
         UNCHANGED <<contract, members, banned>>
  PROVE  SoundReplay(replay_record(h, x), FALSE)'
<1>1. PICK h0 : h0 = [h EXCEPT !.verified = FALSE]
  OBVIOUS
<1>2. h \in Histories /\ h.ok = TRUE /\ Follows(h.local)
  BY DEF SoundReplay, Histories
<1>3. h0 \in Histories /\ h0.ok = TRUE /\ h0.local = h.local /\ h0.verified = FALSE
  BY <1>1, <1>2 DEF Histories
<1>4. PICK g : g = Projected(h0, x)
  OBVIOUS
<1>5. replay_record(h, x) = g
  BY <1>1, <1>2, <1>4 DEF replay_record
<1>6. PICK local : local = apply_record_projection(h0.local, x)
  OBVIOUS
<1>7. local = h.local
  BY <1>3, <1>6 DEF apply_record_projection
<1>8. Follows(local)'
  BY <1>2, <1>7, FollowsStays
<1>9. Follower(g, h0, x)
  BY <1>3, <1>4, <1>6, <1>8, ProjectedFollows
<1>10. SoundReplay(g, FALSE)'
  BY <1>3, <1>9, SoundNext
<1>11. PICK y : y = replay_record(h, x)
  OBVIOUS
<1> QED
  BY <1>5, <1>10, <1>11

(* The record of an accepted event. *)
Plain(r, e, n) ==
    /\ Carries(r, e) /\ r.seq = n + 1 /\ r.room_id = room /\ validate_discourse_envelope(r.envelope)

LEMMA UnverifiedReplay ==
  ASSUME NEW n \in Nat, n > 0, NEW h, SoundReplay(h, FALSE), NEW e, NEW r, Plain(r, e, n), Goes(e),
         validate_room_path(e, room)
  PROVE  SoundReplay(replay_record(h, r), FALSE)'
<1>1. h \in Histories /\ h.ok = TRUE /\ Follows(h.local) /\ h.verified = FALSE
  BY DEF SoundReplay, Histories
<1>2. ~is_redacted(r) /\ r.envelope.event = e /\ validate_discourse_envelope(r.envelope)
      /\ r.seq \in Nat /\ r.seq # 1
  BY DEF Plain, Carries
<1>3. PICK g : g = Projected(h, r)
  OBVIOUS
<1>4. replay_record(h, r) = g
  BY <1>1, <1>2, <1>3 DEF replay_record
<1>5. PICK local : local = apply_record_projection(h.local, r)
  OBVIOUS
<1>6. Follows(local)'
  <2>1. Follows(apply_record_projection(h.local, r))'
    BY <1>1 DEF Goes, Plain
  <2> QED
    BY <1>5, <2>1
<1>7. Follower(g, h, r)
  BY <1>1, <1>2, <1>3, <1>5, <1>6, ProjectedFollows
<1>8. SoundReplay(g, FALSE)'
  BY <1>1, <1>7, SoundNext
<1>9. PICK y : y = replay_record(h, r)
  OBVIOUS
<1> QED
  BY <1>4, <1>8, <1>9

(* What the host accepts, a verifier of the whole records accepts. *)
LEMMA AcceptedIsValid ==
  ASSUME Held, NEW n, n = Len(log), NEW h, SoundReplay(h, TRUE), NEW e, Accepts(e),
         NEW r, Plain(r, e, n)
  PROVE  RecordValid(h, r, RoomState)
<1>1. /\ Follows(h.local) /\ h.registry = registry /\ h.local.types = registry
      /\ h.local.head_seq = Max(Advancing)
  BY DEF SoundReplay, Whole
<1>2. /\ e.actor \in Agents /\ e.base_seq = n /\ e.type \notin {"room.create", "room.join.request"}
      /\ r.envelope.event = e /\ r.seq = n + 1 /\ r.room_id = room
  BY DEF Accepts, Plain, Carries
<1>3. PICK direct : Permits(e, direct)
  BY DEF Accepts
<1>4. RoleOf(h.local.members[e.actor]) = members[e.actor]
  BY <1>1, <1>2 DEF Follows, FollowsMembers
<1>5. PICK c : c = [role |-> RoleOf(h.local.members[e.actor]), is_creator |-> e.actor = creator,
                    direct_join_allowed |-> DirectJoin(h.local, e)]
  OBVIOUS
<1>6. validate_room_write(e.type, RoomState, c, h.registry)
  <2>1. /\ can_submit_event(e.type, Context(e.actor, direct), registry)
        /\ can_write_in_state(e.type, RoomState)
    BY <1>3 DEF Permits, validate_room_write
  <2>2. CASE e.type # "room.join"
    <3>1. c.role = Context(e.actor, direct).role /\ c.is_creator = Context(e.actor, direct).is_creator
      BY <1>4, <1>5 DEF Context
    <3>2. can_submit_event(e.type, c, registry)
      BY <2>1, <2>2, <3>1, DirectIrrelevant
    <3> QED
      BY <1>1, <2>1, <3>2 DEF validate_room_write
  <2>3. CASE e.type = "room.join"
    <3>1. direct /\ e.actor # creator /\ members[e.actor] = Absent
      BY <2>1, <2>3, BuiltinJoins DEF can_submit_event, Context
    <3>2. can_join_directly(contract.visibility, contract.policy, e.actor, e.payload)
          /\ e.actor \notin banned
      BY <1>3, <2>3, <3>1 DEF Permits
    <3>3. h.local.members[e.actor] # Absent => h.local.members[e.actor].status # "banned"
      <4>1. PICK m \in RoomMember \cup {Absent} : m = h.local.members[e.actor]
        BY <1>1, <1>2 DEF Follows, FollowsMembers, Memberships
      <4>2. m \notin Barred
        BY <1>1, <1>2, <3>2, <4>1 DEF Follows, FollowsMembers
      <4> QED
        BY <4>1, <4>2, MembershipFacts
    <3>4. DirectJoin(h.local, e)
      BY <1>1, <2>3, <3>2, <3>3 DEF DirectJoin, Follows, FollowsContract
    <3>5. can_submit_event(e.type, c, registry)
      <4>1. PICK allowed : allowed = DirectJoin(h.local, e)
        OBVIOUS
      <4>2. c = [role |-> RoleOf(h.local.members[e.actor]), is_creator |-> e.actor = creator,
                 direct_join_allowed |-> allowed]
        BY <1>5, <4>1
      <4>3. c.role = Absent /\ c.is_creator = FALSE /\ c.direct_join_allowed = allowed
        BY <1>4, <3>1, <4>2
      <4>4. allowed = TRUE
        BY <3>4, <4>1 DEF DirectJoin
      <4>5. c.role = Absent /\ c.is_creator = FALSE /\ c.direct_join_allowed = TRUE
        BY <4>3, <4>4
      <4>6. c.direct_join_allowed /\ ~c.is_creator /\ c.role = Absent
        BY <4>5
      <4> QED
        BY <2>3, <4>6, BuiltinJoins DEF can_submit_event
    <3> QED
      BY <1>1, <2>1, <3>5 DEF validate_room_write
  <2> QED
    BY <2>2, <2>3
<1>7. validate_record_base_precondition(h.local, r)
  <2>1. n \in Nat /\ Max(Advancing) \in Nat /\ Max(Advancing) <= n
    BY HeadBounded DEF Held, RegistrySound
  <2>2. e.base_seq < r.seq /\ e.base_seq >= h.local.head_seq /\ e.type # "room.join.request"
    BY <1>1, <1>2, <2>1
  <2> QED
    BY <1>2, <2>2 DEF validate_record_base_precondition
<1>8. e.type = "room.join.review" => validate_room_join_review_payload(e.payload, r.room_id)
  BY <1>2 DEF Accepts
<1>9. e.type = "type.define" => apply(h.registry, e.payload).ok
  BY <1>1 DEF Accepts, Declares
<1> QED
  BY <1>2, <1>5, <1>6, <1>7, <1>8, <1>9, Zenon DEF RecordValid
-----------------------------------------------------------------------------
Judged(h, r, status) ==
    [h EXCEPT !.local.status = status,
              !.registry = IF r.envelope.event.type = "type.define"
                           THEN apply(@, r.envelope.event.payload).registry ELSE @]

LEMMA JudgedReplay ==
  ASSUME NEW h, h.ok, h.verified = TRUE, NEW r, ~is_redacted(r), r.seq # 1,
         validate_discourse_envelope(r.envelope), validate_room_path(r.envelope.event, room),
         NEW status, status = StatusAt(h.local, r.accepted_at), RecordValid(h, r, status)
  PROVE  replay_record(h, r) = Projected(Judged(h, r, status), r)
<1>1. PICK e : e = r.envelope.event
  OBVIOUS
<1> DEFINE good == [h EXCEPT !.local.status = status,
                             !.registry = IF e.type = "type.define"
                                          THEN apply(@, e.payload).registry ELSE @]
<1>2. replay_record(h, r) =
         IF ~(validate_discourse_envelope(r.envelope) /\ validate_room_path(e, room))
         THEN [h EXCEPT !.ok = FALSE]
         ELSE IF r.seq = 1
         THEN Projected([h EXCEPT !.registry = from_declarations(e.payload.types).registry], r)
         ELSE IF ~h.verified THEN Projected(h, r)
         ELSE IF RecordValid(h, r, status) THEN Projected(good, r)
         ELSE [h EXCEPT !.ok = FALSE]
  BY <1>1, Zenon DEF replay_record
<1>3. good = Judged(h, r, status)
  BY <1>1, Zenon DEF Judged
<1> HIDE DEF good
<1> QED
  BY <1>1, <1>2, <1>3

LEMMA JudgedParts ==
  ASSUME NEW h \in Histories, NEW r, NEW status \in States_, NEW reg \in Registries,
         reg = IF r.envelope.event.type = "type.define"
               THEN apply(h.registry, r.envelope.event.payload).registry ELSE h.registry,
         NEW g, g = Judged(h, r, status)
  PROVE  /\ g \in Histories /\ g.ok = h.ok /\ g.verified = h.verified /\ g.registry = reg
         /\ g.local = [h.local EXCEPT !.status = status]
<1>1. h.local \in LocalRoom
  BY DEF Histories
<1>2. PICK local : local = [h.local EXCEPT !.status = status]
  OBVIOUS
<1>3. local \in LocalRoom
  BY <1>1, <1>2 DEF LocalRoom
<1>4. g = [h EXCEPT !.local.status = status, !.registry = reg]
  BY DEF Judged, Histories
<1>5. g = [h EXCEPT !.local = local, !.registry = reg]
  BY <1>2, <1>4
<1> QED
  BY <1>2, <1>3, <1>5 DEF Histories

LEMMA VerifiedReplay ==
  ASSUME Held, NEW n, n = Len(log), NEW h, SoundReplay(h, TRUE), NEW e, Accepts(e), Goes(e),
         NEW r, Plain(r, e, n), registry' \in Registries
  PROVE  SoundReplay(replay_record(h, r), TRUE)'
<1>1. /\ h \in Histories /\ h.ok = TRUE /\ Follows(h.local) /\ h.verified = TRUE
      /\ h.registry = registry /\ h.local.types = registry /\ h.local.head_seq = Max(Advancing)
  BY DEF SoundReplay, Whole, Histories
<1>2. /\ n \in Nat /\ n > 0 /\ r.seq = n + 1 /\ r.seq \in Nat /\ r.seq # 1 /\ LogSound
  BY DEF Plain, Held, RegistrySound, LogSound
<1>3. /\ ~is_redacted(r) /\ r.envelope.event = e /\ r.accepted_at = now
      /\ validate_discourse_envelope(r.envelope) /\ validate_room_path(e, room)
  BY DEF Plain, Carries, Accepts
<1>4. PICK status \in States_ : status = RoomState /\ status \in {"scheduled", "active"}
  BY DEF Accepts, States_
<1>5. status = StatusAt(h.local, r.accepted_at)
  BY <1>1, <1>3, <1>4, StatusFollows DEF Held
<1>6. RecordValid(h, r, status)
  BY <1>4, AcceptedIsValid
<1>7. PICK h1 : h1 = Judged(h, r, status)
  OBVIOUS
<1>8. replay_record(h, r) = Projected(h1, r)
  BY <1>1, <1>2, <1>3, <1>5, <1>6, <1>7, JudgedReplay
<1>9. PICK reg \in Registries : reg = registry'
  OBVIOUS
<1>10. reg = IF e.type = "type.define" THEN apply(registry, e.payload).registry ELSE registry
  BY <1>9 DEF Accepts, Declares
<1>11. /\ h1 \in Histories /\ h1.ok = TRUE /\ h1.verified = TRUE /\ h1.registry = reg
       /\ h1.local = [h.local EXCEPT !.status = status]
  BY <1>1, <1>3, <1>7, <1>10, JudgedParts
<1>12. Follows(h1.local)
  <2>1. FollowsStatus(status)
    <3>1. contract.finished = "no"
      BY <1>4, NotFinished DEF Held
    <3> QED
      BY <1>4, <3>1 DEF FollowsStatus
  <2>2. h.local \in LocalRoom
    BY <1>1 DEF Histories
  <2>3. PICK types \in Registries : types = h.local.types
    BY <2>2 DEF LocalRoom
  <2>4. PICK head \in Nat : head = h.local.head_seq
    BY <2>2 DEF LocalRoom
  <2>5. PICK l0 : l0 = h.local
    OBVIOUS
  <2>6. PICK l1 : l1 = [l0 EXCEPT !.types = types, !.head_seq = head, !.status = status]
    OBVIOUS
  <2>7. l1 = h1.local
    BY <1>11, <2>2, <2>3, <2>4, <2>5, <2>6 DEF LocalRoom
  <2>8. Follows(l0)
    BY <1>1, <2>5
  <2>9. Follows(l1)
    BY <2>1, <2>6, <2>8, FollowsAnyTypes
  <2> QED
    BY <2>7, <2>9
<1>13. PICK local : local = apply_record_projection(h1.local, r)
  OBVIOUS
<1>14. Follows(local)'
  <2>1. PICK l1 : l1 = h1.local
    OBVIOUS
  <2>2. Follows(l1) /\ Carries(r, e)
    BY <1>12, <2>1 DEF Plain
  <2>3. Follows(apply_record_projection(l1, r))'
    BY <2>2 DEF Goes
  <2>4. local = apply_record_projection(l1, r)
    BY <1>13, <2>1
  <2> QED
    BY <2>3, <2>4
<1>15. PICK g : g = Projected(h1, r)
  OBVIOUS
<1>16. Follower(g, h1, r)
  BY <1>2, <1>11, <1>13, <1>14, <1>15, ProjectedFollows
<1>17. Max(Advancing)' = IF event_type_advances_head(TypeOf(r), registry') THEN r.seq
                         ELSE h1.local.head_seq
  <2>1. TypeOf(r) = e.type
    BY <1>3 DEF TypeOf
  <2>2. h1.local.head_seq = Max(Advancing)
    <3>1. h.local \in LocalRoom
      BY <1>1 DEF Histories
    <3> QED
      BY <1>1, <1>11, <3>1 DEF LocalRoom
  <2>3. Max(Advancing)' = IF event_type_advances_head(e.type, registry') THEN n + 1 ELSE Max(Advancing)
    BY <1>2, HeadMoves DEF Accepts
  <2> QED
    BY <1>2, <2>1, <2>2, <2>3
<1>18. SoundReplay(g, TRUE)'
  BY <1>9, <1>11, <1>16, <1>17, SoundNext
<1>19. PICK y : y = replay_record(h, r)
  OBVIOUS
<1> QED
  BY <1>8, <1>15, <1>18, <1>19
-----------------------------------------------------------------------------
(* Every reader's replay of the records, whichever are redacted. *)
ReplayOf(S) == Replayed(NewHistory(Event(1).payload), RedactedCopy(Records(log), S))

HistorySound ==
    /\ LogListed(Len(log))
    /\ \A S \in SUBSET Redactables : SoundReplay(ReplayOf(S), S = {})

LEMMA PlainRecord ==
  ASSUME NEW n \in Nat, NEW pre, NEW e, validate_room_path(e, room),
         NEW r, r = RecordOf(n + 1, pre, [event |-> e, accepted_at |-> now])
  PROVE  Plain(r, e, n)
<1>1. PICK entry : entry = [event |-> e, accepted_at |-> now]
  OBVIOUS
<1>2. entry.event = e /\ entry.accepted_at = now
  BY <1>1
<1>3. PICK i : i = n + 1
  OBVIOUS
<1>4. CopyOf(r, i, pre, entry, FALSE)
  <2>1. CopyOf(RecordOf(i, pre, entry), i, pre, entry, FALSE)
    BY RecordParts
  <2> QED
    BY <1>1, <1>3, <2>1
<1>5. /\ r.room_id = room /\ r.seq = i /\ r.accepted_at = now /\ r.envelope.hash = e
      /\ ~is_redacted(r) /\ r.envelope.event = e
  BY <1>2, <1>4 DEF CopyOf
<1>6. validate_discourse_envelope(r.envelope)
  BY <1>5 DEF validate_discourse_envelope, validate_room_path
<1> QED
  BY <1>3, <1>5, <1>6 DEF Plain, Carries

LEMMA LogListedGrows ==
  ASSUME Held, NEW n \in Nat, LogListed(n), NEW e, Accepts(e), n = Len(log)
  PROVE  /\ LogListed(n + 1)' /\ DOMAIN log = 1..n /\ DOMAIN log' = 1..(n + 1)
         /\ log'[n + 1] = [event |-> e, accepted_at |-> now]
         /\ \A i \in 1..n : log'[i] = log[i]
<1>1. PICK entry : entry = [event |-> e, accepted_at |-> now]
  OBVIOUS
<1>2. log' = Append(log, entry)
  BY <1>1 DEF Accepts
<1>3. PICK l : l = log'
  OBVIOUS
<1>4. Listed(log, n) /\ n > 0 /\ DOMAIN log = 1..n
  BY ListedParts DEF LogListed
<1>5. Grown(Append(log, entry), log, n, entry)
  BY <1>4, ListedAppend
<1>6. Listed(l, n + 1) /\ l[n + 1] = entry /\ \A i \in 1..n : l[i] = log[i]
  BY <1>2, <1>3, <1>5 DEF Grown
<1>7. DOMAIN l = 1..(n + 1)
  BY <1>6, ListedParts
<1>8. EntrySound(entry)
  <2>1. entry.event = e /\ entry.accepted_at = now
    BY <1>1
  <2> QED
    BY <1>1, <2>1 DEF EntrySound, Accepts, Held
<1>9. \A i \in 1..(n + 1) : EntrySound(l[i])
  <2>1. 1..(n + 1) = (1..n) \cup {n + 1}
    OBVIOUS
  <2> QED
    BY <1>6, <1>8, <2>1 DEF LogListed
<1>10. LogListed(n + 1)'
  BY <1>3, <1>4, <1>6, <1>9 DEF LogListed
<1> QED
  BY <1>1, <1>3, <1>4, <1>6, <1>7, <1>10

(* The copy of the records after a write is the copy before and one more   *)
(* record, redacted or not.                                                *)
CopyGrows(S, T, n, x) ==
    /\ ReplayOf(T)' = replay_record(ReplayOf(S), IF n + 1 \in T THEN redact_server_record(x).record ELSE x)
    /\ T = {} <=> S = {} /\ n + 1 \notin T

(* T hides of the records after the write of e, of which x is the record,  *)
(* what S hides of those before, and maybe x.                              *)
CopyNext(e, n, S, T, x) ==
    /\ n = Len(log) /\ LogListed(n)
    /\ T \in SUBSET Redactables' /\ S = T \ {n + 1}
    /\ x = RecordOf(n + 1, PreHash(Records(log), n + 1), [event |-> e, accepted_at |-> now])

LEMMA ReplayNext ==
  ASSUME Held, NEW n \in Nat, NEW e, Accepts(e), NEW S, NEW T, NEW x, CopyNext(e, n, S, T, x)
  PROVE  S \in SUBSET Redactables /\ CopyGrows(S, T, n, x)
<1> SUFFICES ASSUME n = Len(log), LogListed(n), T \in SUBSET Redactables', S = T \ {n + 1},
                    x = RecordOf(n + 1, PreHash(Records(log), n + 1), [event |-> e, accepted_at |-> now])
             PROVE  S \in SUBSET Redactables /\ CopyGrows(S, T, n, x)
  BY DEF CopyNext
<1>1. PICK l : l = log'
  OBVIOUS
<1>2. /\ DOMAIN log = 1..n /\ DOMAIN l = 1..(n + 1)
      /\ l[n + 1] = [event |-> e, accepted_at |-> now]
      /\ \A i \in 1..n : l[i] = log[i]
  BY <1>1, LogListedGrows
<1>3. n > 0
  BY DEF LogListed
<1>4. S \in SUBSET Redactables
  <2>1. ASSUME NEW i \in S PROVE i \in Redactables
    <3>1. i \in 1..(n + 1) /\ Redactable(l[i].event.type) /\ i # n + 1
      BY <1>1, <1>2 DEF Redactables
    <3>2. i \in 1..n
      BY <3>1
    <3> QED
      BY <1>2, <3>1, <3>2 DEF Redactables
  <2> QED
    BY <2>1
<1>5. PICK rs : rs = Records(log)
  OBVIOUS
<1>6. PICK rt : rt = Records(l)
  OBVIOUS
<1>7. rt = Append(rs, x)
  BY <1>2, <1>5, <1>6, RecordsGrow
<1>8. Listed(rs, n) /\ DOMAIN rs = 1..n
  <2>1. Chained(rs, log, n)
    BY <1>2, <1>5, RecordsExact
  <2> QED
    BY <2>1, ListedParts DEF Chained
<1>9. /\ DOMAIN rt = 1..(n + 1) /\ rt[n + 1] = x /\ \A i \in 1..n : rt[i] = rs[i]
  <2>1. Grown(Append(rs, x), rs, n, x)
    BY <1>8, ListedAppend
  <2>2. Listed(rt, n + 1) /\ rt[n + 1] = x /\ \A i \in 1..n : rt[i] = rs[i]
    BY <1>7, <2>1 DEF Grown
  <2> QED
    BY <2>2, ListedParts
<1>10. PICK cs : cs = RedactedCopy(rs, S)
  OBVIOUS
<1>11. PICK ct : ct = RedactedCopy(rt, T)
  OBVIOUS
<1>12. /\ DOMAIN cs = 1..n
       /\ \A i \in 1..n : cs[i] = IF i \in S THEN redact_server_record(rs[i]).record ELSE rs[i]
  BY <1>8, <1>10 DEF RedactedCopy
<1>13. /\ DOMAIN ct = 1..(n + 1)
       /\ \A i \in 1..(n + 1) : ct[i] = IF i \in T THEN redact_server_record(rt[i]).record ELSE rt[i]
  BY <1>9, <1>11 DEF RedactedCopy
<1>14. ASSUME NEW i \in 1..n PROVE ct[i] = cs[i]
  <2>1. i \in 1..(n + 1) /\ (i \in S <=> i \in T) /\ rt[i] = rs[i]
    BY <1>9
  <2> QED
    BY <1>12, <1>13, <2>1
<1>15. ct[n + 1] = IF n + 1 \in T THEN redact_server_record(x).record ELSE x
  BY <1>9, <1>13
<1>16. PICK base : base = NewHistory(Event(1).payload)
  OBVIOUS
<1>17. Replayed(base, ct) = replay_record(Replayed(base, cs), ct[n + 1])
  BY <1>12, <1>13, <1>14, ReplayGrows
<1>18. ReplayOf(S) = Replayed(base, cs)
  BY <1>5, <1>10, <1>16 DEF ReplayOf
<1>19. ReplayOf(T)' = Replayed(base, ct)
  <2>1. Event(1)' = Event(1)
    BY <1>1, <1>2, <1>3 DEF Event
  <2>2. ReplayOf(T)' = Replayed(NewHistory(Event(1)'.payload), RedactedCopy(Records(log'), T))
    BY DEF ReplayOf
  <2> QED
    BY <1>1, <1>6, <1>11, <1>16, <2>1, <2>2
<1>20. T = {} <=> S = {} /\ n + 1 \notin T
  OBVIOUS
<1> QED
  BY <1>4, <1>15, <1>17, <1>18, <1>19, <1>20 DEF CopyGrows
-----------------------------------------------------------------------------
LEMMA HistoryAccepts ==
  ASSUME Held, HistorySound, NEW e, Accepts(e), Goes(e), registry' \in Registries
  PROVE  HistorySound'
<1>1. PICK n \in Nat : n = Len(log) /\ n > 0 /\ LogListed(n)
  BY DEF HistorySound, LogListed, Listed
<1>2. LogListed(n + 1)' /\ Redactables' = {i \in 1..(n + 1) : Redactable(log'[i].event.type)}
      /\ log'[n + 1] = [event |-> e, accepted_at |-> now]
  BY <1>1, LogListedGrows DEF Redactables
<1>3. LogListed(Len(log))'
  <2>1. PICK l : l = log'
    OBVIOUS
  <2>2. Listed(l, n + 1)
    BY <1>2, <2>1 DEF LogListed
  <2>3. Len(l) = n + 1
    BY <2>2, ListedParts
  <2> QED
    BY <1>2, <2>1, <2>3
<1>4. PICK x : x = RecordOf(n + 1, PreHash(Records(log), n + 1), [event |-> e, accepted_at |-> now])
  OBVIOUS
<1>5. validate_room_path(e, room)
  BY DEF Accepts
<1>6. Plain(x, e, n)
  BY <1>4, <1>5, PlainRecord
<1>7. ASSUME NEW T, T \in SUBSET Redactables' PROVE SoundReplay(ReplayOf(T), T = {})'
  <2>1. PICK S : S = T \ {n + 1}
    OBVIOUS
  <2>2. S \in SUBSET Redactables /\ CopyGrows(S, T, n, x)
    <3>1. CopyNext(e, n, S, T, x)
      BY <1>1, <1>4, <1>7, <2>1 DEF CopyNext
    <3> QED
      BY <3>1, ReplayNext
  <2>3. PICK h : h = ReplayOf(S)
    OBVIOUS
  <2>4. SoundReplay(h, S = {})
    BY <2>2, <2>3 DEF HistorySound
  <2>5. PICK g : g = ReplayOf(T)'
    OBVIOUS
  <2>6. CASE n + 1 \in T
    <3>1. PICK y : y = redact_server_record(x).record
      OBVIOUS
    <3>2. g = replay_record(h, y) /\ T # {}
      BY <2>2, <2>3, <2>5, <2>6, <3>1 DEF CopyGrows
    <3>3. Redactable(e.type)
      <4>1. Redactable(log'[n + 1].event.type)
        BY <1>2, <1>7, <2>6
      <4> QED
        BY <1>2, <4>1
    <3>4. UNCHANGED <<contract, members, banned>>
      BY <3>3 DEF Accepts
    <3>5. is_redacted(y) /\ y.seq \in Nat
      <4>1. PICK entry : entry = [event |-> e, accepted_at |-> now]
        OBVIOUS
      <4>2. PICK pre : pre = PreHash(Records(log), n + 1)
        OBVIOUS
      <4>3. PICK i \in Nat : i = n + 1
        OBVIOUS
      <4>4. Redactable(entry.event.type)
        BY <3>3, <4>1
      <4>5. CopyOf(redact_server_record(RecordOf(i, pre, entry)).record, i, pre, entry, TRUE)
        BY <4>4, RedactedParts
      <4>6. CopyOf(y, i, pre, entry, TRUE)
        BY <1>4, <3>1, <4>1, <4>2, <4>3, <4>5
      <4> QED
        BY <4>3, <4>6 DEF CopyOf
    <3>6. SoundReplay(replay_record(h, y), FALSE)'
      BY <2>4, <3>4, <3>5, RedactedReplay
    <3>7. SoundReplay(g, FALSE)'
      <4>1. PICK z : z = replay_record(h, y)
        OBVIOUS
      <4> QED
        BY <3>2, <3>6, <4>1
    <3>8. (T = {}) = FALSE
      BY <2>6
    <3> QED
      BY <2>5, <3>7, <3>8
  <2>7. CASE n + 1 \notin T
    <3>1. g = replay_record(h, x) /\ (T = {}) = (S = {})
      BY <2>2, <2>3, <2>5, <2>7 DEF CopyGrows
    <3>2. SoundReplay(g, S = {})'
      <4>1. PICK z : z = replay_record(h, x)
        OBVIOUS
      <4>2. CASE S = {}
        <5>1. SoundReplay(h, TRUE)
          BY <2>4, <4>2
        <5>2. SoundReplay(replay_record(h, x), TRUE)'
          BY <1>1, <1>6, <5>1, VerifiedReplay
        <5>3. (S = {}) = TRUE
          BY <4>2
        <5> QED
          BY <3>1, <4>1, <5>2, <5>3
      <4>3. CASE S # {}
        <5>1. SoundReplay(h, FALSE)
          BY <2>4, <4>3
        <5>2. SoundReplay(replay_record(h, x), FALSE)'
          BY <1>1, <1>5, <1>6, <5>1, UnverifiedReplay
        <5>3. (S = {}) = FALSE
          BY <4>3
        <5> QED
          BY <3>1, <4>1, <5>2, <5>3
      <4> QED
        BY <4>2, <4>3
    <3> QED
      BY <2>5, <3>1, <3>2
  <2> QED
    BY <2>6, <2>7
<1> QED
  BY <1>3, <1>7 DEF HistorySound

LEMMA HistoryStays ==
  ASSUME HistorySound, UNCHANGED <<contract, members, banned, registry, log>>
  PROVE  HistorySound'
<1>1. LogListed(Len(log))' /\ Redactables' = Redactables
  BY DEF HistorySound, LogListed, Redactables
<1>2. ASSUME NEW S, S \in SUBSET Redactables PROVE SoundReplay(ReplayOf(S), S = {})'
  <2>1. PICK h : h = ReplayOf(S)
    OBVIOUS
  <2>2. PICK whole : whole = (S = {})
    OBVIOUS
  <2>3. SoundReplay(h, whole)
    BY <1>2, <2>1, <2>2 DEF HistorySound
  <2>4. h = ReplayOf(S)'
    BY <2>1 DEF ReplayOf, Event
  <2>5. Follows(h.local)'
    <3>1. PICK local : local = h.local
      OBVIOUS
    <3>2. Follows(local)
      BY <2>3, <3>1 DEF SoundReplay
    <3> QED
      BY <3>1, <3>2, FollowsStays
  <2>6. whole => Whole(h)'
    <3>1. Advancing' = Advancing
      BY DEF Advancing, Event
    <3> QED
      BY <2>3, <3>1 DEF SoundReplay, Whole
  <2>7. SoundReplay(h, whole)'
    BY <2>3, <2>5, <2>6 DEF SoundReplay
  <2> QED
    BY <2>2, <2>4, <2>7
<1> QED
  BY <1>1, <1>2 DEF HistorySound

LEMMA HistoryNext ==
  ASSUME RegistrySound, AuthoritySound, HistorySound, [Next]_vars
  PROVE  HistorySound'
<1>1. Held
  BY HoldsThen
<1>2. registry' \in Registries
  BY RegistryNext DEF RegistrySound
<1>3. \/ UNCHANGED <<contract, members, banned, registry, log>>
      \/ \E e : Accepts(e) /\ Goes(e)
  BY StepAccepts
<1> QED
  BY <1>1, <1>2, <1>3, HistoryStays, HistoryAccepts

LEMMA HistoryAtFirst == Init => HistorySound
<1> SUFFICES ASSUME Init PROVE HistorySound
  OBVIOUS
<1>1. PICK p \in Creations :
         /\ validate_room_create_payload(p)
         /\ contract = [visibility |-> p.visibility, policy |-> p.policy,
                        start_time |-> p.start_time, end_time |-> p.end_time,
                        finished |-> "no"]
         /\ registry = from_declarations(p.types).registry
         /\ log = <<[event |-> room_create_event(p), accepted_at |-> 0]>>
  BY DEF Init
<1>2. PICK e : e = room_create_event(p)
  OBVIOUS
<1>3. /\ e.type = "room.create" /\ e.payload = p /\ e.room_id = Absent /\ e.base_seq = Absent
      /\ e.actor = creator
  BY <1>2 DEF room_create_event, discourse_event
<1>4. PICK entry : entry = [event |-> e, accepted_at |-> 0]
  OBVIOUS
<1>5. /\ Len(log) = 1 /\ DOMAIN log = 1..1 /\ log[1] = entry /\ Event(1) = e
      /\ log = [i \in 1..1 |-> log[i]] /\ entry.event = e /\ entry.accepted_at = 0
  BY <1>1, <1>2, <1>4 DEF Event
<1>6. LogListed(Len(log))
  <2>1. validate_room_path(e, room)
    BY <1>3 DEF validate_room_path, validate_discourse_event_fields, event_requires_room_id,
                event_requires_base
  <2>2. EntrySound(entry)
    BY <1>3, <1>4, <1>5, <2>1 DEF EntrySound, Builtins
  <2>3. \A i \in 1..1 : i = 1
    OBVIOUS
  <2>4. Listed(log, 1) /\ \A i \in 1..1 : EntrySound(log[i])
    BY <1>5, <2>2, <2>3 DEF Listed
  <2> QED
    BY <1>5, <2>4 DEF LogListed
<1>7. Redactables = {}
  <2>1. ~Redactable(e.type)
    BY <1>3 DEF Redactable, Builtins
  <2> QED
    BY <1>5, <2>1 DEF Redactables
<1>8. PICK rs : rs = Records(log)
  OBVIOUS
<1>9. PICK one \in Nat : one = 1
  OBVIOUS
<1>10. Chained(rs, log, one)
  BY <1>5, <1>8, <1>9, RecordsExact
<1>11. PICK r : r = rs[1]
  OBVIOUS
<1>12. /\ DOMAIN rs = 1..1 /\ rs = [i \in 1..1 |-> rs[i]]
       /\ CopyOf(r, 1, Absent, entry, FALSE)
  <2>1. Listed(rs, one) /\ r = RecordOf(one, PreHash(rs, one), entry)
    BY <1>5, <1>9, <1>10, <1>11 DEF Chained
  <2>2. PreHash(rs, one) = Absent
    BY <1>9 DEF PreHash
  <2>3. DOMAIN rs = 1..one
    BY <2>1, ListedParts
  <2>4. CopyOf(r, one, PreHash(rs, one), entry, FALSE)
    BY <2>1, RecordParts
  <2> QED
    BY <1>9, <2>1, <2>2, <2>3, <2>4 DEF Listed
<1>13. /\ r.seq = 1 /\ ~is_redacted(r) /\ r.envelope.event = e /\ r.accepted_at = 0
       /\ r.envelope.hash = e
  BY <1>5, <1>12 DEF CopyOf
<1>14. PICK h : h = NewHistory(p)
  OBVIOUS
<1>15. ReplayOf({}) = replay_record(h, r)
  <2>1. RedactedCopy(rs, {}) = rs
    BY <1>12 DEF RedactedCopy
  <2>2. ReplayOf({}) = Replayed(h, rs)
    BY <1>3, <1>5, <1>8, <1>14, <2>1 DEF ReplayOf
  <2> QED
    BY <1>11, <1>12, <2>2, ReplayStarts
<1>16. PICK reg \in Registries : reg = registry
  <2>1. p.types \in Seq(TypeDeclaration) /\ from_declarations(p.types).ok
    BY <1>1, CreationsAssumption DEF validate_room_create_payload
  <2>2. from_declarations(p.types).registry \in Registries
    BY <2>1, FromDeclarationsExact
  <2> QED
    BY <1>1, <2>2
<1>17. PICK h1 : h1 = [h EXCEPT !.registry = reg]
  OBVIOUS
<1>18. replay_record(h, r) = Projected(h1, r)
  <2>1. h.ok
    BY <1>1, <1>14 DEF NewHistory
  <2>2. validate_discourse_envelope(r.envelope) /\ validate_room_path(e, room)
    <3>1. EntrySound(log[1]) /\ log[1].event = e
      BY <1>5, <1>6 DEF LogListed
    <3> QED
      BY <1>13, <3>1 DEF EntrySound, validate_discourse_envelope, validate_room_path
  <2>3. reg = from_declarations(e.payload.types).registry
    BY <1>1, <1>3, <1>16
  <2> QED
    BY <1>13, <1>17, <2>1, <2>2, <2>3, Zenon DEF replay_record
<1>19. PICK local : local = NewRoom(p)
  OBVIOUS
<1>20. h1 = [ok |-> TRUE, verified |-> TRUE, registry |-> reg, local |-> local]
  <2>1. validate_room_create_payload(p) = TRUE
    BY <1>1 DEF validate_room_create_payload
  <2> QED
    BY <1>14, <1>17, <1>19, <2>1 DEF NewHistory
<1>21. p.visibility \in Visibilities /\ p.policy \in RoomPolicy /\ p.start_time \in Nat /\ p.end_time \in Nat
  BY CreationsAssumption
<1>22. /\ local.visibility = p.visibility /\ local.policy = p.policy
       /\ local.start_time = p.start_time /\ local.end_time = p.end_time
       /\ local.status = "scheduled" /\ local.types = [t \in TypeNames |-> Absent]
       /\ local.head_seq = 0 /\ local.members = materialize_creator([a \in Agents |-> Absent])
       /\ local \in LocalRoom <=> local.members \in Memberships
  BY <1>19, <1>21 DEF NewRoom, LocalRoom, Registries, States_
<1>23. FollowsMembers(local.members)
  <2>1. PICK m : m = Member("moderator", "active")
    OBVIOUS
  <2>2. m \in RoomMember /\ RoleOf(m) = "moderator" /\ m \notin Barred
    BY <2>1, MemberFacts DEF MemberStatuses, Roles
  <2>3. local.members = [a \in Agents |-> IF a = creator THEN m ELSE Absent]
    BY <1>22, <2>1 DEF materialize_creator
  <2>4. RoleOf(Absent) = Absent /\ Absent \notin Barred
    BY MembershipFacts
  <2>5. members = [a \in Agents |-> IF a = creator THEN "moderator" ELSE Absent] /\ banned = {}
    BY DEF Init
  <2> QED
    BY <2>2, <2>3, <2>4, <2>5 DEF FollowsMembers, Memberships
<1>24. Follows(local)
  BY <1>1, <1>22, <1>23 DEF Follows, FollowsMembers, FollowsContract, FollowsStatus
<1>25. apply_record_projection(local, r) = local
  <2>1. MembersAfter(local.members, e) = local.members
    BY <1>3 DEF MembersAfter
  <2>2. [local EXCEPT !.members = MembersAfter(@, e)] = local
    BY <1>24, <2>1 DEF Follows, LocalRoom
  <2> QED
    BY <1>3, <1>13, <2>2 DEF apply_record_projection
<1>26. event_type_advances_head("room.create", reg)
  BY AlwaysAdvance
<1>27. PICK new : new = [local EXCEPT !.types = reg, !.head_seq = 1]
  OBVIOUS
<1>28. Projected(h1, r) = [ok |-> TRUE, verified |-> TRUE, registry |-> reg, local |-> new]
  <2>1. h1.local = local /\ h1.verified = TRUE /\ h1.registry = reg
    BY <1>20
  <2>2. Projected(h1, r) = [h1 EXCEPT !.local = new]
    <3>1. ~is_redacted(r) /\ r.seq = 1 /\ r.envelope.event.type = "room.create"
      BY <1>3, <1>13
    <3>2. apply_record_projection(h1.local, r) = local
      BY <1>25, <2>1
    <3>3. Projected(h1, r) = [h1 EXCEPT !.local = [local EXCEPT !.types = reg, !.head_seq = 1]]
      BY <1>26, <2>1, <3>1, <3>2, Zenon DEF Projected
    <3> QED
      BY <1>27, <3>3
  <2> QED
    BY <1>20, <2>2
<1>29. Follows(new) /\ new.types = reg /\ new.head_seq = 1 /\ new \in LocalRoom
  <2>1. local \in LocalRoom
    BY <1>24 DEF Follows
  <2>2. /\ new \in LocalRoom /\ new.members = local.members /\ new.status = local.status
        /\ new.visibility = local.visibility /\ new.policy = local.policy
        /\ new.start_time = local.start_time /\ new.end_time = local.end_time
        /\ new.types = reg /\ new.head_seq = 1
    BY <1>27, <2>1 DEF LocalRoom
  <2> QED
    BY <1>24, <2>2 DEF Follows, FollowsContract
<1>30. Max(Advancing) = 1
  <2>1. Advancing = {1}
    BY <1>3, <1>5, AlwaysAdvance DEF Advancing
  <2>2. Max({1}) = 1
    BY DEF Max
  <2> QED
    BY <2>1, <2>2
<1>31. SoundReplay(ReplayOf({}), TRUE)
  <2>1. PICK g : g = [ok |-> TRUE, verified |-> TRUE, registry |-> reg, local |-> new]
    OBVIOUS
  <2>2. g \in Histories
    BY <1>29, <2>1 DEF Histories
  <2>3. g.ok = TRUE /\ g.verified = TRUE /\ g.registry = registry /\ g.local = new
    BY <1>16, <2>1
  <2>4. SoundReplay(g, TRUE)
    BY <1>16, <1>29, <1>30, <2>2, <2>3 DEF SoundReplay, Whole
  <2> QED
    BY <1>15, <1>18, <1>28, <2>1, <2>4
<1>32. ASSUME NEW S \in SUBSET Redactables PROVE SoundReplay(ReplayOf(S), S = {})
  <2>1. S = {}
    BY <1>7
  <2>2. (S = {}) = TRUE
    BY <2>1
  <2> QED
    BY <1>31, <2>1, <2>2
<1> QED
  BY <1>6, <1>32 DEF HistorySound
-----------------------------------------------------------------------------
LEMMA ChainVerifies ==
  ASSUME NEW n \in Nat, LogListed(n), NEW S \in SUBSET Redactables
  PROVE  verify_archive_chain(RedactedCopy(Records(log), S))
<1>1. PICK copy : copy = RedactedCopy(Records(log), S)
  OBVIOUS
<1>2. PICK v : v = verify_archive_records(Manifest(log), copy)
  OBVIOUS
<1>3. v = [ok |-> TRUE, redacted |-> S]
  BY <1>1, <1>2, CopyVerifies
<1>4. v.ok = TRUE
  BY <1>3
<1>5. Refused.ok = FALSE
  BY DEF Refused
<1>6. Verifies(Manifest(log), copy)
  BY <1>2, <1>4, <1>5, Verdict
<1> QED
  BY <1>1, <1>6 DEF Verifies

LEMMA ReplayExact ==
  ASSUME LogSound, HistorySound, NEW S \in SUBSET Redactables
  PROVE  /\ SoundReplay(replay(RedactedCopy(Records(log), S)), S = {})
         /\ 1 \notin S
<1>1. PICK n \in Nat : n = Len(log) /\ n > 0 /\ LogListed(n)
  BY DEF HistorySound, LogListed, Listed
<1>2. 1 \in 1..n /\ Event(1).type = "room.create"
  BY <1>1 DEF LogSound, room_create_event, discourse_event
<1>3. 1 \notin S
  <2>1. ~Redactable(Event(1).type)
    BY <1>2 DEF Redactable, Builtins
  <2> QED
    BY <2>1 DEF Redactables, Event
<1>4. PICK rs : rs = Records(log)
  OBVIOUS
<1>5. PICK copy : copy = RedactedCopy(rs, S)
  OBVIOUS
<1>6. copy[1].envelope.event = Event(1)
  <2>1. CopyOf(copy[1], 1, PreHash(copy, 1), log[1], 1 \in S)
    BY <1>1, <1>2, <1>4, <1>5, CopyExact
  <2> QED
    BY <1>3, <2>1 DEF CopyOf, Event
<1>7. PICK h : h = ReplayOf(S)
  OBVIOUS
<1>8. SoundReplay(h, S = {})
  BY <1>7 DEF HistorySound
<1>9. h = FoldLeft(replay_record, NewHistory(Event(1).payload), copy)
  BY <1>4, <1>5, <1>7 DEF ReplayOf, Replayed
<1>10. h \in Histories /\ h.ok = TRUE
  BY <1>8 DEF SoundReplay, Histories
<1>11. verify_archive_chain(copy)
  BY <1>1, <1>4, <1>5, ChainVerifies
<1>12. replay(copy) = [h EXCEPT !.ok = @ /\ verify_archive_chain(copy) /\ Event(1).type = "room.create"]
  BY <1>6, <1>9, Zenon DEF replay
<1>13. (h.ok /\ verify_archive_chain(copy) /\ Event(1).type = "room.create") = TRUE
  BY <1>2, <1>10, <1>11
<1>14. replay(copy) = [h EXCEPT !.ok = TRUE]
  BY <1>12, <1>13
<1>15. replay(copy) = h
  BY <1>10, <1>14 DEF Histories
<1> QED
  BY <1>3, <1>4, <1>5, <1>8, <1>15

(* Which records a host may redact. *)
LEMMA RedactableRecords ==
  ASSUME NEW n \in Nat, LogListed(n)
  PROVE  /\ {i \in DOMAIN log : redact_server_record(Records(log)[i]).ok} = Redactables
         /\ Redactables = {i \in DOMAIN log : Event(i).type \in TypeNames \cup {"message.create"}}
<1>1. PICK rs : rs = Records(log)
  OBVIOUS
<1>2. DOMAIN log = 1..n
  BY ListedParts DEF LogListed
<1>3. ASSUME NEW i \in 1..n
      PROVE  /\ redact_server_record(rs[i]).ok <=> Redactable(log[i].event.type)
             /\ Redactable(log[i].event.type) <=> Event(i).type \in TypeNames \cup {"message.create"}
  <2>1. rs[i] = RecordOf(i, PreHash(rs, i), log[i])
    BY <1>1, TheRecord
  <2>2. redact_server_record(rs[i]).ok <=> Redactable(log[i].event.type)
    BY <2>1, RedactableParts
  <2>3. Event(i).type = log[i].event.type /\ log[i].event.type \in Builtins \cup TypeNames
    BY DEF Event, LogListed, EntrySound
  <2>4. TypeNames \cap Builtins = {} /\ "message.create" \in Builtins
    BY RoomAssumption DEF Builtins
  <2> QED
    BY <2>2, <2>3, <2>4 DEF Redactable
<1> QED
  BY <1>1, <1>2, <1>3 DEF Redactables

(* The archive of a room verifies whichever of its messages and custom     *)
(* records are redacted, and the verifier reports exactly those; none with *)
(* another record, another order or another end does (discourse.rs,        *)
(* verify_archive_records, and local_connector/history.rs, room_archive).  *)
THEOREM ArchiveStaysExact == Spec => []ArchiveExact
<1>1. LogSound /\ HistorySound => ArchiveExact
  <2> SUFFICES ASSUME LogSound, HistorySound PROVE ArchiveExact
    OBVIOUS
  <2>1. PICK n \in Nat : n = Len(log) /\ LogListed(n) /\ DOMAIN log = 1..n
    BY ListedParts DEF HistorySound, LogListed, Listed
  <2>2. PICK rs : rs = Records(log)
    OBVIOUS
  <2>3. PICK redactable : redactable = {i \in DOMAIN log : redact_server_record(rs[i]).ok}
    OBVIOUS
  <2>4. /\ redactable = Redactables
        /\ redactable = {i \in DOMAIN log : Event(i).type \in TypeNames \cup {"message.create"}}
    BY <2>1, <2>2, <2>3, RedactableRecords
  <2>5. ASSUME NEW S \in SUBSET redactable
        PROVE  /\ verify_archive_records(Manifest(log), RedactedCopy(rs, S)) = [ok |-> TRUE, redacted |-> S]
               /\ room_archive(Manifest(log), RedactedCopy(rs, S)) = [ok |-> TRUE, state_verified |-> S = {}]
    <3>1. PICK copy : copy = RedactedCopy(rs, S)
      OBVIOUS
    <3>2. PICK v : v = verify_archive_records(Manifest(log), copy)
      OBVIOUS
    <3>3. v = [ok |-> TRUE, redacted |-> S]
      BY <2>1, <2>2, <2>4, <3>1, <3>2, CopyVerifies
    <3>4. v.ok = TRUE /\ v.redacted = S
      BY <3>3
    <3>5. PICK h : h = replay(copy)
      OBVIOUS
    <3>6. SoundReplay(h, S = {}) /\ 1 \notin S
      BY <2>2, <2>4, <3>1, <3>5, ReplayExact
    <3>7. h.ok /\ h.verified = (S = {})
      BY <3>6 DEF SoundReplay
    <3>8. room_archive(Manifest(log), copy) = [ok |-> TRUE, state_verified |-> h.verified]
      BY <3>2, <3>4, <3>5, <3>6, <3>7 DEF room_archive
    <3> QED
      BY <3>1, <3>2, <3>3, <3>7, <3>8
  <2>6. ASSUME NEW i \in DOMAIN log, NEW how \in {"missing", "swapped", "moved", "altered", "rebuilt"},
               Forged(rs, how, i) # rs
        PROVE  verify_archive_records(Manifest(log), Forged(rs, how, i)) = Refused
    BY <2>1, <2>2, <2>6, ForgedFails
  <2> QED
    BY <2>2, <2>3, <2>4, <2>5, <2>6 DEF ArchiveExact
<1>2. RegistrySound => LogSound
  BY DEF RegistrySound
<1>3. Spec => []HistorySound
  <2>1. Spec => []AuthoritySound
    BY RegistryInvariant, AuthorityAtFirst, AuthorityNext, PTL DEF Spec
  <2> QED
    BY <2>1, RegistryInvariant, HistoryAtFirst, HistoryNext, PTL DEF Spec
<1> QED
  BY <1>1, <1>2, <1>3, RegistryInvariant, PTL
-----------------------------------------------------------------------------
(* A verified history takes no record that is not valid. *)
LEMMA OnlyValid ==
  ASSUME NEW h, h.ok, h.verified = TRUE, NEW r, ~is_redacted(r), r.seq # 1, replay_record(h, r).ok,
         h \in Histories
  PROVE  RecordValid(h, r, StatusAt(h.local, r.accepted_at))
<1>1. PICK status : status = StatusAt(h.local, r.accepted_at)
  OBVIOUS
<1>2. PICK e : e = r.envelope.event
  OBVIOUS
<1> DEFINE good == [h EXCEPT !.local.status = status,
                             !.registry = IF e.type = "type.define"
                                          THEN apply(@, e.payload).registry ELSE @]
<1>3. PICK bad : bad = [h EXCEPT !.ok = FALSE]
  OBVIOUS
<1>4. bad.ok = FALSE
  BY <1>3 DEF Histories
<1>5. replay_record(h, r) =
         IF ~(validate_discourse_envelope(r.envelope) /\ validate_room_path(e, room)) THEN bad
         ELSE IF r.seq = 1
         THEN Projected([h EXCEPT !.registry = from_declarations(e.payload.types).registry], r)
         ELSE IF ~h.verified THEN Projected(h, r)
         ELSE IF RecordValid(h, r, status) THEN Projected(good, r)
         ELSE bad
  BY <1>1, <1>2, <1>3, Zenon DEF replay_record
<1> HIDE DEF good
<1>6. replay_record(h, r) # bad
  BY <1>4
<1>7. RecordValid(h, r, status)
  BY <1>5, <1>6
<1> QED
  BY <1>1, <1>7

(* What the next record of an event would be. *)
NextRecord(e) == Last(Records(Append(log, [event |-> e, accepted_at |-> now])))

LEMMA NextParts ==
  ASSUME NEW n \in Nat, LogListed(n), NEW e
  PROVE  /\ ~is_redacted(NextRecord(e)) /\ NextRecord(e).envelope.event = e
         /\ NextRecord(e).seq # 1 /\ NextRecord(e).accepted_at = now
<1>1. PICK entry : entry = [event |-> e, accepted_at |-> now]
  OBVIOUS
<1>2. PICK l : l = Append(log, entry)
  OBVIOUS
<1>3. Listed(log, n) /\ n > 0
  BY DEF LogListed
<1>4. Grown(l, log, n, entry)
  BY <1>2, <1>3, ListedAppend
<1>5. PICK m \in Nat : m = n + 1 /\ m > 0 /\ m # 1
  BY <1>3
<1>6. Listed(l, m) /\ l[m] = entry
  BY <1>4, <1>5 DEF Grown
<1>7. PICK rt : rt = Records(l)
  OBVIOUS
<1>8. DOMAIN l = 1..m
  BY <1>6, ListedParts
<1>9. Chained(rt, l, m)
  BY <1>7, <1>8, RecordsExact
<1>10. Listed(rt, m) /\ rt[m] = RecordOf(m, PreHash(rt, m), entry)
  BY <1>5, <1>6, <1>9 DEF Chained
<1>11. PICK r : r = Last(rt)
  OBVIOUS
<1>12. r = RecordOf(m, PreHash(rt, m), entry)
  BY <1>5, <1>10, <1>11, ListedParts
<1>13. CopyOf(r, m, PreHash(rt, m), entry, FALSE)
  BY <1>12, RecordParts
<1>14. ~is_redacted(r) /\ r.envelope.event = e /\ r.seq # 1 /\ r.accepted_at = now
  BY <1>1, <1>5, <1>13 DEF CopyOf
<1>15. r = NextRecord(e)
  BY <1>1, <1>2, <1>7, <1>11 DEF NextRecord
<1> QED
  BY <1>14, <1>15

(* Every reader finds the host's room. *)
LEMMA ReaderAgrees ==
  ASSUME NEW h, NEW whole, SoundReplay(h, whole)
  PROVE  /\ h.ok /\ h.verified = whole
         /\ \A a \in Agents :
               /\ RoleOf(h.local.members[a]) = members[a]
               /\ a \in banned <=> h.local.members[a] \in {Member(r, "banned") : r \in Roles}
         /\ \A f \in {"policy", "start_time", "end_time"} : h.local[f] = contract[f]
<1>1. Follows(h.local)
  BY DEF SoundReplay
<1>2. ASSUME NEW f \in {"policy", "start_time", "end_time"} PROVE h.local[f] = contract[f]
  <2>1. FollowsContract(h.local)
    BY <1>1 DEF Follows
  <2>2. CASE f = "policy"
    BY <2>1, <2>2 DEF FollowsContract
  <2>3. CASE f = "start_time"
    BY <2>1, <2>3 DEF FollowsContract
  <2>4. CASE f = "end_time"
    BY <2>1, <2>4 DEF FollowsContract
  <2> QED
    BY <2>2, <2>3, <2>4
<1>3. ASSUME NEW a \in Agents
      PROVE  /\ RoleOf(h.local.members[a]) = members[a]
             /\ a \in banned <=> h.local.members[a] \in {Member(r, "banned") : r \in Roles}
  BY <1>1 DEF Follows, FollowsMembers, Barred
<1> QED
  BY <1>2, <1>3 DEF SoundReplay

(* What the host would refuse of messages and joins, a verifier refuses.   *)
LEMMA RefusesMessage ==
  ASSUME Held, LogSound, HistorySound, NEW h, SoundReplay(h, TRUE), NEW a \in Agents, NEW e,
         e = discourse_event("message.create", a, room, Latest, Absent),
         ~(RoomState = "active" /\ (a = creator \/ members[a] \in {"moderator", "speaker"}))
  PROVE  ~replay_record(h, NextRecord(e)).ok
<1>1. PICK n \in Nat : LogListed(n)
  BY DEF HistorySound, LogListed, Listed
<1>2. PICK r : r = NextRecord(e)
  OBVIOUS
<1>3. ~is_redacted(r) /\ r.envelope.event = e /\ r.seq # 1 /\ r.accepted_at = now
  BY <1>1, <1>2, NextParts
<1>4. h \in Histories /\ h.ok /\ h.verified = TRUE /\ Follows(h.local)
  BY DEF SoundReplay
<1> SUFFICES ASSUME replay_record(h, r).ok PROVE FALSE
  BY <1>2
<1>5. RecordValid(h, r, RoomState)
  <2>1. StatusAt(h.local, r.accepted_at) = RoomState
    BY <1>3, <1>4, StatusFollows DEF Held
  <2>2. RecordValid(h, r, StatusAt(h.local, r.accepted_at))
    BY <1>3, <1>4, OnlyValid
  <2> QED
    BY <2>1, <2>2
<1>6. e.type = "message.create" /\ e.actor = a
  BY DEF discourse_event
<1>7. PICK direct : direct = DirectJoin(h.local, e)
  OBVIOUS
<1>8. PICK c : c = [role |-> RoleOf(h.local.members[e.actor]), is_creator |-> e.actor = creator,
                    direct_join_allowed |-> direct]
  OBVIOUS
<1>9. can_submit_event("message.create", c, h.registry) /\ can_write_in_state("message.create", RoomState)
  BY <1>3, <1>5, <1>6, <1>7, <1>8 DEF RecordValid, validate_room_write
<1>10. c.role = members[a] /\ c.is_creator = (a = creator)
  BY <1>4, <1>6, <1>8 DEF Follows, FollowsMembers
<1>11. "message.create" \notin TypeNames
  BY RoomAssumption DEF Builtins
<1>12. RoomState = "active"
  BY <1>9 DEF can_write_in_state
<1>13. a = creator \/ members[a] \in {"moderator", "speaker"}
  BY <1>9, <1>10, <1>11 DEF can_submit_event
<1> QED
  BY <1>12, <1>13

LEMMA RefusesJoin ==
  ASSUME Held, LogSound, HistorySound, NEW h, SoundReplay(h, TRUE), NEW a \in Agents, NEW e,
         e = discourse_event("room.join", a, room, Latest, "observer"), a \in banned
  PROVE  ~replay_record(h, NextRecord(e)).ok
<1>1. PICK n \in Nat : LogListed(n)
  BY DEF HistorySound, LogListed, Listed
<1>2. PICK r : r = NextRecord(e)
  OBVIOUS
<1>3. ~is_redacted(r) /\ r.envelope.event = e /\ r.seq # 1 /\ r.accepted_at = now
  BY <1>1, <1>2, NextParts
<1>4. h \in Histories /\ h.ok /\ h.verified = TRUE /\ Follows(h.local)
  BY DEF SoundReplay
<1> SUFFICES ASSUME replay_record(h, r).ok PROVE FALSE
  BY <1>2
<1>5. RecordValid(h, r, RoomState)
  <2>1. StatusAt(h.local, r.accepted_at) = RoomState
    BY <1>3, <1>4, StatusFollows DEF Held
  <2>2. RecordValid(h, r, StatusAt(h.local, r.accepted_at))
    BY <1>3, <1>4, OnlyValid
  <2> QED
    BY <2>1, <2>2
<1>6. e.type = "room.join" /\ e.actor = a
  BY DEF discourse_event
<1>7. PICK direct : direct = DirectJoin(h.local, e)
  OBVIOUS
<1>8. PICK c : c = [role |-> RoleOf(h.local.members[e.actor]), is_creator |-> e.actor = creator,
                    direct_join_allowed |-> direct]
  OBVIOUS
<1>9. can_submit_event("room.join", c, h.registry)
  BY <1>3, <1>5, <1>6, <1>7, <1>8 DEF RecordValid, validate_room_write
<1>10. direct
  BY <1>8, <1>9, BuiltinJoins DEF can_submit_event
<1>11. h.local.members[a] # Absent => h.local.members[a].status # "banned"
  BY <1>6, <1>7, <1>10 DEF DirectJoin
<1>12. PICK m \in RoomMember \cup {Absent} : m = h.local.members[a]
  BY <1>4 DEF Follows, FollowsMembers, Memberships
<1>13. m \in Barred
  BY <1>4, <1>12 DEF Follows, FollowsMembers
<1> QED
  BY <1>11, <1>12, <1>13, MembershipFacts

(* Whoever replays the records of a room, whichever are redacted, accepts  *)
(* them and finds the host's members, bans and contract; from the whole of *)
(* them its registry, state and head too, and refuses of messages and      *)
(* joins what the host refuses (local_connector/history.rs and             *)
(* projection.rs).                                                         *)
THEOREM HistoryStaysReplayable == Spec => []HistoryReplays
<1>1. RegistrySound /\ AuthoritySound /\ HistorySound => HistoryReplays
  <2> SUFFICES ASSUME RegistrySound, AuthoritySound, HistorySound PROVE HistoryReplays
    OBVIOUS
  <2>1. Held /\ LogSound
    BY HoldsThen DEF RegistrySound
  <2>2. PICK n \in Nat : n = Len(log) /\ LogListed(n) /\ DOMAIN log = 1..n
    BY ListedParts DEF HistorySound, LogListed, Listed
  <2>3. PICK rs : rs = Records(log)
    OBVIOUS
  <2>4. PICK redactable : redactable = {i \in DOMAIN log : redact_server_record(rs[i]).ok}
    OBVIOUS
  <2>5. redactable = Redactables
    BY <2>2, <2>3, <2>4, RedactableRecords
  <2>6. ASSUME NEW S \in {{}, redactable} \cup {{i} : i \in redactable}
        PROVE  LET h == replay(RedactedCopy(rs, S))
               IN  /\ h.ok /\ h.verified = (S = {})
                   /\ \A a \in Agents :
                         /\ RoleOf(h.local.members[a]) = members[a]
                         /\ a \in banned <=> h.local.members[a] \in {Member(r, "banned") : r \in Roles}
                   /\ \A f \in {"policy", "start_time", "end_time"} : h.local[f] = contract[f]
    <3>1. S \in SUBSET Redactables
      BY <2>5
    <3>2. PICK h : h = replay(RedactedCopy(rs, S))
      OBVIOUS
    <3>3. SoundReplay(h, S = {})
      BY <2>1, <2>3, <3>1, <3>2, ReplayExact
    <3> QED
      BY <3>2, <3>3, ReaderAgrees
  <2>7. PICK whole : whole = replay(rs)
    OBVIOUS
  <2>8. SoundReplay(whole, TRUE)
    <3>1. RedactedCopy(rs, {}) = rs
      <4>1. Listed(rs, n)
        BY <2>2, <2>3, ManifestParts DEF Chained
      <4>2. rs = [i \in DOMAIN rs |-> rs[i]]
        BY <4>1, ListedParts DEF Listed
      <4> QED
        BY <4>2 DEF RedactedCopy
    <3>2. PICK S : S = {}
      OBVIOUS
    <3>3. S \in SUBSET Redactables /\ (S = {}) = TRUE
      BY <3>2
    <3>4. SoundReplay(replay(RedactedCopy(Records(log), S)), S = {})
      BY <2>1, <3>3, ReplayExact
    <3> QED
      BY <2>3, <2>7, <3>1, <3>2, <3>3, <3>4
  <2>9. whole.registry = registry /\ whole.local.types = registry
        /\ whole.local.head_seq = Max({i \in DOMAIN log : event_type_advances_head(Event(i).type, registry)})
    BY <2>8 DEF SoundReplay, Whole, Advancing
  <2>10. StatusAt(whole.local, now) = RoomState
    BY <2>1, <2>8, StatusFollows DEF SoundReplay, Held
  <2>11. ASSUME NEW a \in Agents,
                ~(RoomState = "active" /\ (a = creator \/ members[a] \in {"moderator", "speaker"}))
         PROVE  ~replay_record(whole, Last(Records(Append(log,
                    [event |-> discourse_event("message.create", a, room, Latest, Absent),
                     accepted_at |-> now])))).ok
    BY <2>1, <2>8, <2>11, RefusesMessage DEF NextRecord
  <2>12. ASSUME NEW a \in Agents, a \in banned
         PROVE  ~replay_record(whole, Last(Records(Append(log,
                    [event |-> discourse_event("room.join", a, room, Latest, "observer"),
                     accepted_at |-> now])))).ok
    BY <2>1, <2>8, <2>12, RefusesJoin DEF NextRecord
  <2>13. ASSUME NEW S \in {{}, {i \in DOMAIN log : redact_server_record(Records(log)[i]).ok}}
                             \cup {{i} : i \in {i \in DOMAIN log : redact_server_record(Records(log)[i]).ok}}
         PROVE  LET h == replay(RedactedCopy(Records(log), S))
                IN  /\ h.ok /\ h.verified = (S = {})
                    /\ \A a \in Agents :
                          /\ RoleOf(h.local.members[a]) = members[a]
                          /\ a \in banned <=> h.local.members[a] \in {Member(r, "banned") : r \in Roles}
                    /\ \A f \in {"policy", "start_time", "end_time"} : h.local[f] = contract[f]
    <3>1. S \in {{}, redactable} \cup {{i} : i \in redactable}
      BY <2>3, <2>4, Zenon
    <3> QED
      BY <2>3, <2>6, <3>1, Zenon
  <2>14. /\ replay(Records(log)).registry = registry
         /\ replay(Records(log)).local.types = registry
         /\ StatusAt(replay(Records(log)).local, now) = RoomState
         /\ replay(Records(log)).local.head_seq =
              Max({i \in DOMAIN log : event_type_advances_head(Event(i).type, registry)})
    BY <2>3, <2>7, <2>9, <2>10, Zenon
  <2>15. ASSUME NEW a \in Agents
         PROVE  /\ ~(RoomState = "active" /\ (a = creator \/ members[a] \in {"moderator", "speaker"}))
                      => ~replay_record(replay(Records(log)), Last(Records(Append(log,
                             [event |-> discourse_event("message.create", a, room, Latest, Absent),
                              accepted_at |-> now])))).ok
                /\ ~(a \notin banned)
                      => ~replay_record(replay(Records(log)), Last(Records(Append(log,
                             [event |-> discourse_event("room.join", a, room, Latest, "observer"),
                              accepted_at |-> now])))).ok
    BY <2>3, <2>7, <2>11, <2>12, Zenon
  <2> QED
    BY <2>13, <2>14, <2>15, Zenon DEF HistoryReplays
<1>2. Spec => []AuthoritySound
  BY RegistryInvariant, AuthorityAtFirst, AuthorityNext, PTL DEF Spec
<1>3. Spec => []HistorySound
  BY <1>2, RegistryInvariant, HistoryAtFirst, HistoryNext, PTL DEF Spec
<1> QED
  BY <1>1, <1>2, <1>3, RegistryInvariant, PTL
=============================================================================
