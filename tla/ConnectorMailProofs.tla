-------------------------- MODULE ConnectorMailProofs --------------------------
(***************************************************************************)
(* What two connectors and the relays between them promise about a         *)
(* message, for every set of messages, relays, cards and routes, every     *)
(* limit of a sync, any time bound and any number of crashes: it is sealed *)
(* once for a card, its recipient is told of it once, and once a relay has *)
(* taken it, it is not lost before it expires.                             *)
(***************************************************************************)
EXTENDS ConnectorMail, FiniteSetTheorems, TLAPS

(* A set of natural numbers has a least element.                           *)
LEMMA LeastNumber ==
  ASSUME NEW T \in SUBSET Nat, T # {}
  PROVE  \E x \in T : \A y \in T : x <= y
<1> DEFINE R == {ss \in Nat \X Nat : ss[1] < ss[2]}
<1>1. IsWellFoundedOn(R, Nat)
  BY NatLessThanWellFounded DEF OpToRel
<1>2. \A x, y \in Nat : <<y, x>> \in R <=> y < x
  OBVIOUS
<1> HIDE DEF R
<1>3. PICK x \in T : \A y \in T : ~ (<<y, x>> \in R)
  BY <1>1, WFMin
<1>4. ASSUME NEW y \in T PROVE x <= y
  <2>1. x \in Nat /\ y \in Nat
    OBVIOUS
  <2>2. ~ (y < x)
    BY <1>2, <1>3, <2>1
  <2> QED
    BY <2>1, <2>2
<1> QED
  BY <1>4
(* A bounded set of natural numbers has a maximum, and Max is it.          *)
LEMMA MaxOfBounded ==
  ASSUME NEW b \in Nat, NEW T \in SUBSET (0..b), T # {}
  PROVE  /\ Max(T) \in T
         /\ \A y \in T : Max(T) >= y
<1> DEFINE U == {n \in Nat : b - n \in T}
<1>1. U \in SUBSET Nat /\ U # {}
  <2>1. PICK x \in T : TRUE
    OBVIOUS
  <2>2. b - x \in Nat /\ b - (b - x) = x
    BY <2>1
  <2> QED
    BY <2>1, <2>2
<1>2. PICK u \in U : \A v \in U : u <= v
  BY <1>1, LeastNumber
<1>3. b - u \in T /\ u \in Nat
  OBVIOUS
<1>4. ASSUME NEW y \in T PROVE b - u >= y
  <2>1. b - y \in Nat /\ b - (b - y) = y
    OBVIOUS
  <2>2. b - y \in U
    BY <2>1
  <2>3. u <= b - y
    BY <1>2, <2>2
  <2> QED
    BY <2>1, <2>3, <1>3
<1> QED
  BY <1>3, <1>4 DEF Max

(* A number is the greatest of those up to it.                             *)
LEMMA UpTo ==
  ASSUME NEW k \in Nat, k > 0
  PROVE  Max(1..k) = k /\ 1..k # {} /\ (1..k) \ {k} = 1..(k - 1)
<1>1. 1..k \in SUBSET (0..k) /\ 1..k # {} /\ k \in 1..k
  OBVIOUS
<1>2. Max(1..k) \in 1..k /\ \A y \in 1..k : Max(1..k) >= y
  BY <1>1, MaxOfBounded
<1> QED
  BY <1>1, <1>2

(* A function on the sets of places 1 to n that a fold computes, when G is *)
(* its step at a place and a value.                                        *)
IsFold(it, n, A, base, G) ==
    /\ it \in [SUBSET (1..n) -> A]
    /\ \A s \in SUBSET (1..n) :
          it[s] = IF s = {} THEN base ELSE G[<<Max(s), it[s \ {Max(s)}]>>]

(* The recursion of a fold has a solution.                                 *)
LEMMA FoldExists ==
  ASSUME NEW n \in Nat, NEW A, NEW base \in A, NEW G \in [(1..n) \X A -> A]
  PROVE  \E it : IsFold(it, n, A, base, G)
<1> DEFINE Solves(it, k) ==
             /\ it \in [SUBSET (1..k) -> A]
             /\ \A s \in SUBSET (1..k) :
                   it[s] = IF s = {} THEN base ELSE G[<<Max(s), it[s \ {Max(s)}]>>]
           Bad == {k \in Nat : k <= n /\ ~ \E it : Solves(it, k)}
<1>1. Bad = {}
  <2> SUFFICES ASSUME Bad # {} PROVE FALSE
    OBVIOUS
  <2>1. PICK k \in Bad : \A j \in Bad : k <= j
    BY LeastNumber
  <2>0. k \in Nat /\ k <= n /\ \A it : ~ Solves(it, k)
    BY <2>1
  <2>2. CASE k = 0
    <3>1. 1..k = {}
      BY <2>2
    <3>2. Solves([s \in SUBSET (1..k) |-> base], k)
      BY <3>1
    <3> QED
      <4> HIDE DEF Solves
      <4> QED
        BY <2>0, <3>2
  <2>3. CASE k # 0
    <3>1. k \in Nat /\ k - 1 \in Nat /\ k - 1 <= n /\ k <= n /\ ~(k <= k - 1)
      BY <2>3
    <3>2. k - 1 \notin Bad
      BY <2>1, <3>1
    <3>3. PICK f : Solves(f, k - 1)
      BY <3>1, <3>2
    <3>4. ASSUME NEW s \in SUBSET (1..k), s # {}
          PROVE  /\ Max(s) \in 1..n
                 /\ s \ {Max(s)} \in SUBSET (1..(k - 1)) /\ s \ {Max(s)} \in SUBSET (1..k)
      <4>1. s \in SUBSET (0..k)
        OBVIOUS
      <4>2. Max(s) \in s /\ \A y \in s : Max(s) >= y
        BY <3>1, <3>4, <4>1, MaxOfBounded
      <4>3. ASSUME NEW y \in s \ {Max(s)} PROVE y \in 1..(k - 1)
        <5>1. y \in 1..k /\ Max(s) \in 1..k /\ Max(s) >= y /\ Max(s) # y
          BY <4>2, <4>3
        <5> QED
          BY <3>1, <5>1
      <4>4. Max(s) \in 1..n
        <5>1. Max(s) \in 1..k
          BY <4>2
        <5> QED
          BY <3>1, <5>1
      <4> QED
        BY <4>3, <4>4
    <3> DEFINE g == [s \in SUBSET (1..k) |->
                       IF s = {} THEN base ELSE G[<<Max(s), f[s \ {Max(s)}]>>]]
    <3>5. g \in [SUBSET (1..k) -> A]
      <4>1. ASSUME NEW s \in SUBSET (1..k), s # {}
            PROVE  G[<<Max(s), f[s \ {Max(s)}]>>] \in A
        BY <3>3, <3>4, <4>1
      <4> QED
        BY <4>1
    <3>6. ASSUME NEW t \in SUBSET (1..(k - 1)) PROVE g[t] = f[t]
      <4>1. t \in SUBSET (1..k)
        BY <3>1
      <4> QED
        BY <3>3, <4>1
    <3>7. ASSUME NEW s \in SUBSET (1..k)
          PROVE  g[s] = IF s = {} THEN base ELSE G[<<Max(s), g[s \ {Max(s)}]>>]
      <4>1. CASE s = {}
        BY <4>1
      <4>2. CASE s # {}
        BY <4>2, <3>4, <3>6
      <4> QED
        BY <4>1, <4>2
    <3>8. Solves(g, k)
      <4> HIDE DEF g
      <4> QED
        BY <3>5, <3>7
    <3> QED
      <4> HIDE DEF Solves, g
      <4> QED
        BY <2>0, <3>8
  <2> QED
    BY <2>2, <2>3
<1>2. \E it : Solves(it, n)
  <2>1. n \notin Bad
    <3> HIDE DEF Bad
    <3> QED
      BY <1>1
  <2> HIDE DEF Solves
  <2> QED
    BY <2>1
<1> QED
  BY <1>2 DEF IsFold
-----------------------------------------------------------------------------
(* The folds of the model, each with the step it takes at a place.         *)
RouteStep(rs, r) == IF r \in ToSet(rs) THEN rs ELSE Append(rs, r)

RouteFold(routes, more) ==
    CHOOSE it : it = [s \in SUBSET DOMAIN more |->
        IF s = {} THEN routes ELSE RouteStep(it[s \ {Max(s)}], more[Max(s)])]

(* Adding routes is the value the fold's function takes at all places.     *)
LEMMA WithRoutesDef ==
  ASSUME NEW routes, NEW more
  PROVE  WithRoutes(routes, more) = RouteFold(routes, more)[DOMAIN more]
BY Zenon DEF WithRoutes, FoldLeft, MapThenFoldSet, RouteFold, RouteStep

(* The fold's function satisfies its recursion.                            *)
LEMMA RouteFoldSolves ==
  ASSUME NEW routes \in Seq(Relays), NEW more \in Seq(Relays)
  PROVE  LET it == RouteFold(routes, more)
         IN  \A s \in SUBSET DOMAIN more :
                it[s] = IF s = {} THEN routes ELSE RouteStep(it[s \ {Max(s)}], more[Max(s)])
<1> DEFINE n == Len(more)
           A == Seq(Relays)
           G == [x \in (1..n) \X A |-> RouteStep(x[2], more[x[1]])]
           Is(it) == it = [s \in SUBSET DOMAIN more |->
                       IF s = {} THEN routes ELSE RouteStep(it[s \ {Max(s)}], more[Max(s)])]
<1>1. n \in Nat /\ DOMAIN more = 1..n
  OBVIOUS
<1>2. G \in [(1..n) \X A -> A]
  BY DEF RouteStep
<1>3. PICK it : IsFold(it, n, A, routes, G)
  <2>1. n \in Nat /\ routes \in A
    BY <1>1
  <2> HIDE DEF G, n, A
  <2> QED
    BY <1>2, <2>1, FoldExists
<1>4. ASSUME NEW s \in SUBSET (1..n), s # {}
      PROVE  Max(s) \in 1..n /\ s \ {Max(s)} \in SUBSET (1..n)
  <2>1. s \in SUBSET (0..n)
    BY <1>1
  <2>2. Max(s) \in s
    BY <1>1, <1>4, <2>1, MaxOfBounded
  <2> QED
    BY <2>2
<1>5. ASSUME NEW s \in SUBSET (1..n), s # {}
      PROVE  G[<<Max(s), it[s \ {Max(s)}]>>] = RouteStep(it[s \ {Max(s)}], more[Max(s)])
  BY <1>3, <1>4, <1>5 DEF IsFold
<1>6. Is(it)
  <2> HIDE DEF G
  <2> QED
    BY <1>1, <1>3, <1>5 DEF IsFold
<1>7. Is(RouteFold(routes, more))
  <2>1. \E f : Is(f)
    BY <1>6
  <2> QED
    BY <2>1 DEF RouteFold
<1> QED
  BY <1>7

EachOnce(s) == \A i, j \in DOMAIN s : s[i] = s[j] => i = j

(* What appending an item adds to the set of items.                        *)
LEMMA AppendAdds ==
  ASSUME NEW S, NEW s \in Seq(S), NEW x \in S
  PROVE  ToSet(Append(s, x)) = ToSet(s) \cup {x}
<1> DEFINE t == Append(s, x)
<1>1. /\ DOMAIN t = 1..(Len(s) + 1) /\ DOMAIN s = 1..Len(s) /\ Len(s) \in Nat
      /\ \A i \in 1..Len(s) : t[i] = s[i]
      /\ t[Len(s) + 1] = x
  OBVIOUS
<1> HIDE DEF t
<1>2. 1..(Len(s) + 1) = (1..Len(s)) \cup {Len(s) + 1}
  BY <1>1
<1> QED
  BY <1>1, <1>2 DEF ToSet, t

(* Adding routes keeps each once, and loses or invents none.               *)
LEMMA WithRoutesAdds ==
  ASSUME NEW routes \in Seq(Relays), EachOnce(routes), NEW more \in Seq(Relays)
  PROVE  /\ WithRoutes(routes, more) \in Seq(Relays)
         /\ EachOnce(WithRoutes(routes, more))
         /\ ToSet(WithRoutes(routes, more)) = ToSet(routes) \cup ToSet(more)
<1> DEFINE it == RouteFold(routes, more)
           n == Len(more)
           Good(rs, k) ==
             /\ rs \in Seq(Relays) /\ EachOnce(rs)
             /\ ToSet(rs) = ToSet(routes) \cup {more[i] : i \in 1..k}
           Bad == {k \in Nat : k <= n /\ ~ Good(it[1..k], k)}
<1>1. n \in Nat /\ DOMAIN more = 1..n
  OBVIOUS
<1>2. \A s \in SUBSET (1..n) :
         it[s] = IF s = {} THEN routes ELSE RouteStep(it[s \ {Max(s)}], more[Max(s)])
  <2>1. \A s \in SUBSET DOMAIN more :
           it[s] = IF s = {} THEN routes ELSE RouteStep(it[s \ {Max(s)}], more[Max(s)])
    BY RouteFoldSolves
  <2> HIDE DEF it
  <2> QED
    BY <1>1, <2>1
<1> HIDE DEF it
<1>3. ASSUME NEW k \in 1..n, Good(it[1..(k - 1)], k - 1) PROVE Good(it[1..k], k)
  <2> DEFINE rs == it[1..(k - 1)]
  <2>1. it[1..k] = RouteStep(rs, more[k])
    <3>1. 1..k \in SUBSET (1..n) /\ k > 0 /\ k \in Nat
      BY <1>1
    <3> QED
      BY <1>2, <3>1, UpTo
  <2>2. /\ rs \in Seq(Relays) /\ EachOnce(rs) /\ more[k] \in Relays
        /\ ToSet(rs) = ToSet(routes) \cup {more[i] : i \in 1..(k - 1)}
    BY <1>1, <1>3
  <2>3. {more[i] : i \in 1..k} = {more[i] : i \in 1..(k - 1)} \cup {more[k]}
    <3>1. 1..k = (1..(k - 1)) \cup {k}
      BY <1>1
    <3> QED
      BY <3>1
  <2> HIDE DEF rs
  <2>4. CASE more[k] \in ToSet(rs)
    BY <2>1, <2>2, <2>3, <2>4 DEF RouteStep
  <2>5. CASE more[k] \notin ToSet(rs)
    <3>1. it[1..k] = Append(rs, more[k])
      BY <2>1, <2>5 DEF RouteStep
    <3>2. EachOnce(Append(rs, more[k])) /\ Append(rs, more[k]) \in Seq(Relays)
      BY <2>2, <2>5 DEF EachOnce, ToSet
    <3>3. ToSet(Append(rs, more[k])) = ToSet(rs) \cup {more[k]}
      BY <2>2, AppendAdds
    <3> QED
      BY <2>2, <2>3, <3>1, <3>2, <3>3
  <2> QED
    BY <2>4, <2>5
<1>4. Good(it[1..0], 0)
  <2>1. 1..0 = {} /\ 1..0 \in SUBSET (1..n)
    BY <1>1
  <2>2. it[1..0] = routes
    BY <1>2, <2>1
  <2> QED
    BY <2>1, <2>2
<1>5. Bad = {}
  <2> SUFFICES ASSUME Bad # {} PROVE FALSE
    OBVIOUS
  <2>1. PICK k \in Bad : \A j \in Bad : k <= j
    BY LeastNumber
  <2>2. k \in Nat /\ k <= n /\ ~ Good(it[1..k], k)
    OBVIOUS
  <2> HIDE DEF Good
  <2>3. k # 0
    BY <1>4, <2>2
  <2>4. k \in 1..n /\ k - 1 \in Nat /\ k - 1 <= n /\ ~(k <= k - 1)
    BY <1>1, <2>2, <2>3
  <2>5. Good(it[1..(k - 1)], k - 1)
    BY <2>1, <2>4
  <2> QED
    BY <1>3, <2>2, <2>4, <2>5
<1>6. Good(it[1..n], n)
  <2> HIDE DEF Good
  <2> QED
    BY <1>1, <1>5
<1>7. WithRoutes(routes, more) = it[1..n]
  BY <1>1, WithRoutesDef DEF it
<1> QED
  BY <1>1, <1>6, <1>7 DEF ToSet

(* The cards are numbered from 1.                                          *)
LEMMA CardNumbers ==
  /\ Cards = 1..Len(CardRoutes) /\ Len(CardRoutes) \in Nat /\ NoCard \notin Cards
  /\ \A n \in Cards \cup {NoCard} : n \in Nat /\ 1..n \subseteq Cards
BY ConnectorMailAssumption DEF Cards, NoCard

(* What the cards up to n that are in T add to the routes of a poll.       *)
CardStep(routes, c, T) == IF c \in T THEN WithRoutes(routes, CardRoutes[c]) ELSE routes

PollFold(n, T) ==
    CHOOSE it : it = [s \in SUBSET DOMAIN NewestFirst(n) |->
        IF s = {} THEN <<>> ELSE CardStep(it[s \ {Max(s)}], NewestFirst(n)[Max(s)], T)]

(* The routes of a poll are the value that fold takes at all cards.        *)
LEMMA PollRoutesDef ==
  ASSUME Retained \in SUBSET Cards
  PROVE  PollRoutes = PollFold(Len(CardRoutes), Retained)[DOMAIN NewestFirst(Len(CardRoutes))]
<1> DEFINE f(T) == FoldLeft(LAMBDA routes, c : IF c \in T THEN WithRoutes(routes, CardRoutes[c])
                                               ELSE routes,
                            <<>>, NewestFirst(Len(CardRoutes)))
<1>1. f(Retained) = PollFold(Len(CardRoutes), Retained)[DOMAIN NewestFirst(Len(CardRoutes))]
  BY Zenon DEF FoldLeft, MapThenFoldSet, PollFold, CardStep
<1>2. RoutesOf = [T \in SUBSET Cards |-> f(T)]
  BY Zenon DEF RoutesOf
<1> HIDE DEF f
<1> QED
  BY <1>1, <1>2 DEF PollRoutes

(* The types of what a card says.                                          *)
LEMMA CardData ==
  ASSUME NEW c \in Cards
  PROVE  /\ CardRoutes[c] \in Seq(Relays) /\ c \in Nat \ {0}
         /\ usable_until[c] \in Nat /\ receive_until[c] \in Nat
         /\ usable_until[c] <= receive_until[c]
BY ConnectorMailAssumption DEF Cards

(* The fold's function satisfies its recursion.                            *)
LEMMA PollFoldSolves ==
  ASSUME NEW n \in Nat, 1..n \subseteq Cards, NEW T
  PROVE  \A s \in SUBSET (1..n) :
            PollFold(n, T)[s] = IF s = {} THEN <<>>
               ELSE CardStep(PollFold(n, T)[s \ {Max(s)}], NewestFirst(n)[Max(s)], T)
<1> DEFINE A == {rs \in Seq(Relays) : EachOnce(rs)}
           G == [x \in (1..n) \X A |-> CardStep(x[2], NewestFirst(n)[x[1]], T)]
           Is(it) == it = [s \in SUBSET DOMAIN NewestFirst(n) |->
               IF s = {} THEN <<>> ELSE CardStep(it[s \ {Max(s)}], NewestFirst(n)[Max(s)], T)]
<1>1. DOMAIN NewestFirst(n) = 1..n /\ \A i \in 1..n : NewestFirst(n)[i] \in Cards
  <2>1. \A i \in 1..n : NewestFirst(n)[i] = n + 1 - i /\ n + 1 - i \in 1..n
    BY DEF NewestFirst
  <2> QED
    BY <2>1 DEF NewestFirst
<1>2. G \in [(1..n) \X A -> A]
  <2>1. ASSUME NEW i \in 1..n, NEW rs \in A PROVE CardStep(rs, NewestFirst(n)[i], T) \in A
    <3>1. CardRoutes[NewestFirst(n)[i]] \in Seq(Relays)
      BY <1>1, CardData
    <3>2. WithRoutes(rs, CardRoutes[NewestFirst(n)[i]]) \in A
      BY <3>1, WithRoutesAdds
    <3> QED
      BY <3>2 DEF CardStep
  <2> HIDE DEF A
  <2> QED
    BY <2>1
<1>3. <<>> \in A
  BY DEF EachOnce
<1>4. PICK it : IsFold(it, n, A, <<>>, G)
  <2> HIDE DEF G, A
  <2> QED
    BY <1>2, <1>3, FoldExists
<1>5. ASSUME NEW s \in SUBSET (1..n), s # {}
      PROVE  Max(s) \in 1..n /\ s \ {Max(s)} \in SUBSET (1..n)
  <2>1. s \in SUBSET (0..n)
    OBVIOUS
  <2>2. Max(s) \in s
    BY <1>5, <2>1, MaxOfBounded
  <2> QED
    BY <2>2
<1>6. ASSUME NEW s \in SUBSET (1..n), s # {}
      PROVE  G[<<Max(s), it[s \ {Max(s)}]>>]
               = CardStep(it[s \ {Max(s)}], NewestFirst(n)[Max(s)], T)
  <2> HIDE DEF A
  <2> QED
    BY <1>4, <1>5, <1>6 DEF IsFold
<1>7. Is(it)
  <2> HIDE DEF G, A
  <2> QED
    BY <1>1, <1>4, <1>6 DEF IsFold
<1>8. Is(PollFold(n, T))
  <2>1. \E f : Is(f)
    BY <1>7
  <2> QED
    BY <2>1 DEF PollFold
<1> QED
  BY <1>1, <1>8

(* The routes of a poll are those of the retained cards, each once.        *)
LEMMA PollRoutesExact ==
  ASSUME recipient.published \in Nat, 1..recipient.published \subseteq Cards
  PROVE  /\ PollRoutes \in Seq(Relays) /\ EachOnce(PollRoutes)
         /\ \A c \in 1..recipient.published :
               now < receive_until[c] => ToSet(CardRoutes[c]) \subseteq ToSet(PollRoutes)
<1> DEFINE n == Len(CardRoutes)
           it == PollFold(n, Retained)
           Good(rs, k) ==
             /\ rs \in Seq(Relays) /\ EachOnce(rs)
             /\ \A i \in 1..k : n + 1 - i \in Retained =>
                   ToSet(CardRoutes[n + 1 - i]) \subseteq ToSet(rs)
           Bad == {k \in Nat : k <= n /\ ~ Good(it[1..k], k)}
<1>0. n \in Nat /\ 1..n = Cards /\ Retained \in SUBSET Cards
  BY CardNumbers DEF Retained
<1>1. n \in Nat /\ DOMAIN NewestFirst(n) = 1..n
  BY <1>0 DEF NewestFirst
<1>2. \A s \in SUBSET (1..n) :
         it[s] = IF s = {} THEN <<>> ELSE CardStep(it[s \ {Max(s)}], NewestFirst(n)[Max(s)], Retained)
  <2> HIDE DEF n
  <2> QED
    BY <1>0, <1>1, PollFoldSolves
<1>3. PollRoutes = it[1..n]
  BY <1>0, <1>1, PollRoutesDef
<1> HIDE DEF it
<1>4. ASSUME NEW k \in 1..n, Good(it[1..(k - 1)], k - 1) PROVE Good(it[1..k], k)
  <2> DEFINE rs == it[1..(k - 1)]
             c == n + 1 - k
  <2>1. it[1..k] = CardStep(rs, c, Retained)
    <3>1. 1..k \in SUBSET (1..n) /\ k > 0 /\ k \in Nat
      BY <1>1
    <3>2. NewestFirst(n)[k] = c
      BY <1>1 DEF NewestFirst
    <3> QED
      <4>1. Max(1..k) = k /\ 1..k # {} /\ (1..k) \ {k} = 1..(k - 1)
        BY <3>1, UpTo
      <4>2. it[1..k] = CardStep(it[(1..k) \ {Max(1..k)}], NewestFirst(n)[Max(1..k)], Retained)
        BY <1>2, <3>1, <4>1
      <4> QED
        BY <3>2, <4>1, <4>2
  <2>2. CardRoutes[c] \in Seq(Relays)
    <3>1. c \in 1..n
      BY <1>1
    <3> QED
      BY <1>0, <3>1, CardData
  <2>3. /\ rs \in Seq(Relays) /\ EachOnce(rs)
        /\ \A i \in 1..(k - 1) : n + 1 - i \in Retained =>
              ToSet(CardRoutes[n + 1 - i]) \subseteq ToSet(rs)
    BY <1>4
  <2>4. \A i \in 1..k : i # k => i \in 1..(k - 1)
    BY <1>1
  <2> HIDE DEF rs
  <2>5. CASE c \in Retained
    <3>1. it[1..k] = WithRoutes(rs, CardRoutes[c])
      BY <2>1, <2>5 DEF CardStep
    <3>2. /\ it[1..k] \in Seq(Relays) /\ EachOnce(it[1..k])
          /\ ToSet(it[1..k]) = ToSet(rs) \cup ToSet(CardRoutes[c])
      BY <2>2, <2>3, <3>1, WithRoutesAdds
    <3> QED
      BY <2>3, <2>4, <3>2
  <2>6. CASE c \notin Retained
    <3>1. it[1..k] = rs
      BY <2>1, <2>6 DEF CardStep
    <3> QED
      BY <2>3, <2>4, <2>6, <3>1
  <2> QED
    BY <2>5, <2>6
<1>5. Good(it[1..0], 0)
  <2>1. 1..0 = {} /\ 1..0 \in SUBSET (1..n)
    BY <1>1
  <2>2. it[1..0] = <<>>
    BY <1>2, <2>1
  <2> QED
    BY <2>1, <2>2 DEF EachOnce
<1>6. Bad = {}
  <2> SUFFICES ASSUME Bad # {} PROVE FALSE
    OBVIOUS
  <2>1. PICK k \in Bad : \A j \in Bad : k <= j
    BY LeastNumber
  <2>2. k \in Nat /\ k <= n /\ ~ Good(it[1..k], k)
    OBVIOUS
  <2> HIDE DEF Good
  <2>3. k # 0
    BY <1>5, <2>2
  <2>4. k \in 1..n /\ k - 1 \in Nat /\ k - 1 <= n /\ ~(k <= k - 1)
    BY <1>1, <2>2, <2>3
  <2>5. Good(it[1..(k - 1)], k - 1)
    BY <2>1, <2>4
  <2> QED
    BY <1>4, <2>2, <2>4, <2>5
<1>7. Good(it[1..n], n)
  <2> HIDE DEF Good
  <2> QED
    BY <1>1, <1>6
<1>8. ASSUME NEW c \in 1..recipient.published, now < receive_until[c]
      PROVE  ToSet(CardRoutes[c]) \subseteq ToSet(it[1..n])
  <2>1. c \in Retained /\ c \in 1..n
    BY <1>0, <1>8 DEF Retained
  <2>2. n + 1 - c \in 1..n /\ n + 1 - (n + 1 - c) = c
    BY <1>1, <2>1
  <2> QED
    BY <1>7, <2>1, <2>2
<1> QED
  BY <1>3, <1>7, <1>8

(* What one packet adds to what a route's packets brought.                 *)
AcceptStep(a, p) ==
    CASE Disposition(p, a.messages) = "store" ->
            [a EXCEPT !.messages = @ \cup {p.m}, !.new = @ \cup {p.m}]
      [] Disposition(p, a.messages) = "delete" -> [a EXCEPT !.deletions = Append(@, p)]
      [] OTHER -> a

Nothing(messages) == [messages |-> messages, new |-> {}, deletions |-> <<>>]

AcceptFold(listed, messages) ==
    CHOOSE it : it = [s \in SUBSET DOMAIN listed |->
        IF s = {} THEN Nothing(messages) ELSE AcceptStep(it[s \ {Max(s)}], listed[Max(s)])]

(* An acceptance is the value its fold takes at all listed packets.        *)
LEMMA AcceptedDef ==
  ASSUME NEW listed, NEW messages
  PROVE  Accepted(listed, messages) = AcceptFold(listed, messages)[DOMAIN listed]
BY Zenon DEF Accepted, FoldLeft, MapThenFoldSet, AcceptFold, AcceptStep, Nothing

Acceptance == [messages : SUBSET Msgs, new : SUBSET Msgs, deletions : Seq(Packet)]

(* What becomes of a packet, by the three cases of its disposition.        *)
LEMMA AcceptCases ==
  ASSUME NEW a \in Acceptance, NEW p, now \in Nat
  PROVE  /\ AcceptStep(a, p) \in Acceptance
         /\ \/ AcceptStep(a, p) = a
            \/ /\ p \in Packet /\ now < expires_at[p.m] /\ p.m \notin a.messages
               /\ AcceptStep(a, p) = [messages |-> a.messages \cup {p.m},
                                     new |-> a.new \cup {p.m}, deletions |-> a.deletions]
            \/ /\ p \in Packet /\ (now >= expires_at[p.m] \/ p.m \in a.messages)
               /\ AcceptStep(a, p) = [messages |-> a.messages, new |-> a.new,
                                     deletions |-> Append(a.deletions, p)]
<1>1. CASE p \notin Packet
  BY <1>1 DEF AcceptStep, Disposition
<1>2. CASE p \in Packet /\ (now >= expires_at[p.m] \/ p.m \in a.messages)
  <2>1. AcceptStep(a, p) = [a EXCEPT !.deletions = Append(@, p)]
    BY <1>2 DEF AcceptStep, Disposition
  <2>2. AcceptStep(a, p) = [messages |-> a.messages, new |-> a.new,
                            deletions |-> Append(a.deletions, p)]
    BY <2>1 DEF Acceptance
  <2>3. Append(a.deletions, p) \in Seq(Packet)
    BY <1>2 DEF Acceptance
  <2> QED
    BY <1>2, <2>2, <2>3 DEF Acceptance
<1>3. CASE p \in Packet /\ ~(now >= expires_at[p.m]) /\ p.m \notin a.messages
  <2>1. AcceptStep(a, p) = [a EXCEPT !.messages = @ \cup {p.m}, !.new = @ \cup {p.m}]
    BY <1>3 DEF AcceptStep, Disposition
  <2>2. AcceptStep(a, p) = [messages |-> a.messages \cup {p.m},
                            new |-> a.new \cup {p.m}, deletions |-> a.deletions]
    BY <2>1 DEF Acceptance
  <2>3. p.m \in Msgs
    BY <1>3 DEF Packet
  <2>4. now < expires_at[p.m]
    BY <1>3, <2>3, ConnectorMailAssumption
  <2> QED
    BY <1>3, <2>2, <2>3, <2>4 DEF Acceptance
<1> QED
  BY <1>1, <1>2, <1>3

(* The fold's function satisfies its recursion, in acceptances.            *)
LEMMA AcceptFoldSolves ==
  ASSUME NEW S, NEW listed \in Seq(S), NEW messages \in SUBSET Msgs, now \in Nat
  PROVE  \A s \in SUBSET DOMAIN listed :
            AcceptFold(listed, messages)[s] = IF s = {} THEN Nothing(messages)
               ELSE AcceptStep(AcceptFold(listed, messages)[s \ {Max(s)}], listed[Max(s)])
<1> DEFINE n == Len(listed)
           A == Acceptance
           base == Nothing(messages)
           G == [x \in (1..n) \X A |-> AcceptStep(x[2], listed[x[1]])]
           Is(it) == it = [s \in SUBSET DOMAIN listed |->
               IF s = {} THEN base ELSE AcceptStep(it[s \ {Max(s)}], listed[Max(s)])]
<1>1. n \in Nat /\ DOMAIN listed = 1..n
  OBVIOUS
<1>2. G \in [(1..n) \X A -> A]
  <2>1. ASSUME NEW i \in 1..n, NEW a \in A PROVE AcceptStep(a, listed[i]) \in A
    BY AcceptCases
  <2> HIDE DEF A
  <2> QED
    BY <2>1
<1>3. base \in A
  BY DEF Nothing, Acceptance
<1>4. PICK it : IsFold(it, n, A, base, G)
  <2> HIDE DEF G, A, base, n
  <2> QED
    BY <1>1, <1>2, <1>3, FoldExists
<1>5. ASSUME NEW s \in SUBSET (1..n), s # {}
      PROVE  Max(s) \in 1..n /\ s \ {Max(s)} \in SUBSET (1..n)
  <2>1. s \in SUBSET (0..n)
    BY <1>1
  <2>2. Max(s) \in s
    BY <1>1, <1>5, <2>1, MaxOfBounded
  <2> QED
    BY <2>2
<1>6. ASSUME NEW s \in SUBSET (1..n), s # {}
      PROVE  G[<<Max(s), it[s \ {Max(s)}]>>] = AcceptStep(it[s \ {Max(s)}], listed[Max(s)])
  <2> HIDE DEF A
  <2> QED
    BY <1>4, <1>5, <1>6 DEF IsFold
<1>7. Is(it)
  <2> HIDE DEF G, A, base
  <2> QED
    BY <1>1, <1>4, <1>6 DEF IsFold
<1>8. Is(AcceptFold(listed, messages))
  <2>1. \E f : Is(f)
    BY <1>7
  <2> QED
    BY <2>1 DEF AcceptFold
<1> QED
  BY <1>8

(* No packet is listed twice.                                              *)
PacketsOnce(listed) ==
    \A i, j \in DOMAIN listed : listed[i] \in Packet /\ listed[i] = listed[j] => i = j

(* Of the packets listed up to k: what acceptance a they amount to.        *)
AcceptedUpTo(a, listed, messages, k) ==
    /\ a \in Acceptance
    /\ a.messages = messages \cup a.new /\ a.new \cap messages = {}
    /\ \A m \in a.new :
          now < expires_at[m] /\ \E i \in 1..k : listed[i] \in Packet /\ listed[i].m = m /\
                                  (PacketsOnce(listed) => \A j \in DOMAIN a.deletions : a.deletions[j] # listed[i])
    /\ \A j \in DOMAIN a.deletions :
          /\ \E i \in 1..k : a.deletions[j] = listed[i]
          /\ a.deletions[j].m \in a.messages \/ now >= expires_at[a.deletions[j].m]

(* The packets of a route: a message is stored when it is neither stored   *)
(* before nor expired, and the copy it was stored from is not deleted if   *)
(* it is listed once; what is deleted is stored or expired.                *)
LEMMA AcceptedExact ==
  ASSUME NEW S, NEW listed \in Seq(S), NEW messages \in SUBSET Msgs, now \in Nat
  PROVE  AcceptedUpTo(Accepted(listed, messages), listed, messages, Len(listed))
<1> DEFINE it == AcceptFold(listed, messages)
           n == Len(listed)
           Good(a, k) == AcceptedUpTo(a, listed, messages, k)
           Bad == {k \in Nat : k <= n /\ ~ Good(it[1..k], k)}
<1>1. n \in Nat /\ DOMAIN listed = 1..n
  OBVIOUS
<1>2. \A s \in SUBSET (1..n) :
         it[s] = IF s = {} THEN Nothing(messages) ELSE AcceptStep(it[s \ {Max(s)}], listed[Max(s)])
  <2>1. \A s \in SUBSET DOMAIN listed :
         it[s] = IF s = {} THEN Nothing(messages) ELSE AcceptStep(it[s \ {Max(s)}], listed[Max(s)])
    BY AcceptFoldSolves
  <2> HIDE DEF it
  <2> QED
    BY <1>1, <2>1
<1>3. Accepted(listed, messages) = it[1..n]
  BY <1>1, AcceptedDef
<1> HIDE DEF it
<1>4. ASSUME NEW k \in 1..n, Good(it[1..(k - 1)], k - 1) PROVE Good(it[1..k], k)
  <2> DEFINE a == it[1..(k - 1)]
             b == it[1..k]
             p == listed[k]
  <2> SUFFICES AcceptedUpTo(b, listed, messages, k)
    OBVIOUS
  <2>1. b = AcceptStep(a, p)
    <3>1. 1..k \in SUBSET (1..n) /\ k > 0 /\ k \in Nat
      BY <1>1
    <3> QED
      BY <1>2, <3>1, UpTo
  <2>2. 1..k = (1..(k - 1)) \cup {k} /\ k \in 1..k /\ \A i \in 1..(k - 1) : i \in 1..n /\ i # k
    BY <1>1
  <2>3. AcceptedUpTo(a, listed, messages, k - 1)
    BY <1>4
  <2>4. PacketsOnce(listed) /\ p \in Packet => \A i \in 1..(k - 1) : listed[i] # p
    BY <1>1, <2>2 DEF PacketsOnce
  <2> HIDE DEF a, b
  <2>5. a \in Acceptance
    BY <2>3 DEF AcceptedUpTo
  <2>6. b \in Acceptance
    BY <2>1, <2>5, AcceptCases
  <2>7. CASE b = a
    <3>1. AcceptedUpTo(a, listed, messages, k)
      <4>1. \A m \in a.new :
              now < expires_at[m] /\ \E i \in 1..k : listed[i] \in Packet /\ listed[i].m = m /\
                                      (PacketsOnce(listed) => \A j \in DOMAIN a.deletions : a.deletions[j] # listed[i])
        BY <2>2, <2>3 DEF AcceptedUpTo
      <4>2. \A j \in DOMAIN a.deletions :
              /\ \E i \in 1..k : a.deletions[j] = listed[i]
              /\ a.deletions[j].m \in a.messages \/ now >= expires_at[a.deletions[j].m]
        BY <2>2, <2>3 DEF AcceptedUpTo
      <4> QED
        BY <2>3, <4>1, <4>2 DEF AcceptedUpTo
    <3> QED
      BY <2>7, <3>1
  <2>8. CASE /\ p \in Packet /\ now < expires_at[p.m] /\ p.m \notin a.messages
             /\ b = [messages |-> a.messages \cup {p.m}, new |-> a.new \cup {p.m},
                     deletions |-> a.deletions]
    <3>1. b.messages = a.messages \cup {p.m} /\ b.new = a.new \cup {p.m}
          /\ b.deletions = a.deletions
      BY <2>8
    <3>2. PacketsOnce(listed) => \A j \in DOMAIN a.deletions : a.deletions[j] # p
      BY <2>3, <2>4, <2>8 DEF AcceptedUpTo
    <3>3. b.messages = messages \cup b.new /\ b.new \cap messages = {}
      BY <2>3, <2>8, <3>1 DEF AcceptedUpTo
    <3>4. ASSUME NEW m \in b.new
          PROVE now < expires_at[m] /\ \E i \in 1..k : listed[i] \in Packet /\ listed[i].m = m /\
                                  (PacketsOnce(listed) => \A j \in DOMAIN b.deletions : b.deletions[j] # listed[i])
      BY <2>2, <2>3, <2>8, <3>1, <3>2, <3>4 DEF AcceptedUpTo
    <3>5. ASSUME NEW j \in DOMAIN b.deletions
          PROVE /\ \E i \in 1..k : b.deletions[j] = listed[i]
                /\ b.deletions[j].m \in b.messages \/ now >= expires_at[b.deletions[j].m]
      BY <2>2, <2>3, <3>1, <3>5 DEF AcceptedUpTo
    <3>6. /\ \A m \in b.new :
              now < expires_at[m] /\ \E i \in 1..k : listed[i] \in Packet /\ listed[i].m = m /\
                                      (PacketsOnce(listed) => \A j \in DOMAIN b.deletions : b.deletions[j] # listed[i])
          /\ \A j \in DOMAIN b.deletions :
              /\ \E i \in 1..k : b.deletions[j] = listed[i]
              /\ b.deletions[j].m \in b.messages \/ now >= expires_at[b.deletions[j].m]
      BY <3>4, <3>5
    <3> QED
      BY ONLY <2>6, <3>3, <3>6 DEF AcceptedUpTo
  <2>9. CASE /\ p \in Packet /\ (now >= expires_at[p.m] \/ p.m \in a.messages)
             /\ b = [messages |-> a.messages, new |-> a.new,
                     deletions |-> Append(a.deletions, p)]
    <3>1. b.messages = a.messages /\ b.new = a.new /\ b.deletions = Append(a.deletions, p)
      BY <2>9
    <3>2. a.deletions \in Seq(Packet)
      BY <2>5 DEF Acceptance
    <3>3. ASSUME NEW j \in DOMAIN b.deletions
          PROVE  b.deletions[j] = p \/ (j \in DOMAIN a.deletions /\ b.deletions[j] = a.deletions[j])
      BY <2>9, <3>1, <3>2, <3>3
    <3>4. ASSUME NEW m \in b.new
          PROVE now < expires_at[m] /\ \E i \in 1..k : listed[i] \in Packet /\ listed[i].m = m /\
                                  (PacketsOnce(listed) => \A j \in DOMAIN b.deletions : b.deletions[j] # listed[i])
      <4>1. m \in a.new
        BY <3>1, <3>4
      <4>2. PICK i \in 1..(k - 1) : listed[i] \in Packet /\ listed[i].m = m /\
                                  (PacketsOnce(listed) => \A j \in DOMAIN a.deletions : a.deletions[j] # listed[i])
        BY <2>3, <4>1 DEF AcceptedUpTo
      <4>3. now < expires_at[m]
        BY <2>3, <4>1 DEF AcceptedUpTo
      <4>4. (PacketsOnce(listed) => \A j \in DOMAIN b.deletions : b.deletions[j] # listed[i])
        BY <2>4, <2>9, <3>3, <4>2
      <4> QED
        BY <2>2, <4>2, <4>3, <4>4
    <3>5. ASSUME NEW j \in DOMAIN b.deletions
          PROVE /\ \E i \in 1..k : b.deletions[j] = listed[i]
                /\ b.deletions[j].m \in b.messages \/ now >= expires_at[b.deletions[j].m]
      <4>1. CASE b.deletions[j] = p
        BY <2>2, <2>9, <3>1, <4>1
      <4>2. CASE j \in DOMAIN a.deletions /\ b.deletions[j] = a.deletions[j]
        BY <2>2, <2>3, <3>1, <4>2 DEF AcceptedUpTo
      <4> QED
        BY <3>3, <3>5, <4>1, <4>2
    <3>6. b.messages = messages \cup b.new /\ b.new \cap messages = {}
      BY <2>3, <3>1 DEF AcceptedUpTo
    <3>7. /\ \A m \in b.new :
              now < expires_at[m] /\ \E i \in 1..k : listed[i] \in Packet /\ listed[i].m = m /\
                                      (PacketsOnce(listed) => \A j \in DOMAIN b.deletions : b.deletions[j] # listed[i])
          /\ \A j \in DOMAIN b.deletions :
              /\ \E i \in 1..k : b.deletions[j] = listed[i]
              /\ b.deletions[j].m \in b.messages \/ now >= expires_at[b.deletions[j].m]
      BY <3>4, <3>5
    <3> QED
      BY ONLY <2>6, <3>6, <3>7 DEF AcceptedUpTo
  <2> QED
    BY <2>1, <2>5, <2>7, <2>8, <2>9, AcceptCases
<1>5. Good(it[1..0], 0)
  <2>1. 1..0 = {} /\ 1..0 \in SUBSET (1..n)
    BY <1>1
  <2>2. it[1..0] = Nothing(messages)
    BY <1>2, <2>1
  <2>3. Nothing(messages) \in Acceptance
    BY DEF Nothing, Acceptance
  <2>4. DOMAIN Nothing(messages).deletions = {}
    BY DEF Nothing
  <2> QED
    BY <2>2, <2>3, <2>4 DEF AcceptedUpTo, Nothing
<1>6. Bad = {}
  <2> SUFFICES ASSUME Bad # {} PROVE FALSE
    OBVIOUS
  <2>1. PICK k \in Bad : \A j \in Bad : k <= j
    BY LeastNumber
  <2>2. k \in Nat /\ k <= n /\ ~ Good(it[1..k], k)
    OBVIOUS
  <2> HIDE DEF Good
  <2>3. k # 0
    BY <1>5, <2>2
  <2>4. k \in 1..n /\ k - 1 \in Nat /\ k - 1 <= n /\ ~(k <= k - 1)
    BY <1>1, <2>2, <2>3
  <2>5. Good(it[1..(k - 1)], k - 1)
    BY <2>1, <2>4
  <2> QED
    BY <1>4, <2>2, <2>4, <2>5
<1>7. Good(it[1..n], n)
  <2> HIDE DEF Good
  <2> QED
    BY <1>1, <1>6
<1> QED
  BY <1>3, <1>7
-----------------------------------------------------------------------------
(* A finite set can be listed.                                             *)
LEMMA SetListed ==
  ASSUME NEW S, IsFiniteSet(S)
  PROVE  SetToSeq(S) \in Seq(S)
<1>1. Cardinality(S) \in Nat /\ ExistsBijection(1..Cardinality(S), S)
  BY FS_CardinalityType
<1>2. \E f \in [1..Cardinality(S) -> S] : IsInjective(f)
  BY <1>1 DEF ExistsBijection, Bijection, Injection
<1>3. SetToSeq(S) \in [1..Cardinality(S) -> S]
  BY <1>2 DEF SetToSeq
<1> QED
  BY <1>1, <1>3

(* Where the first p of a sequence is removed, the rest moves up.          *)
RemovedAt(t, s, k) ==
    /\ Len(t) = Len(s) - 1
    /\ \A i \in 1..Len(t) : t[i] = IF i < k THEN s[i] ELSE s[i + 1]

(* RemoveFirst removes one packet, at most.                                *)
LEMMA RemoveFirstExact ==
  ASSUME NEW S, NEW s \in Seq(S), NEW p
  PROVE  /\ RemoveFirst(s, p) \in Seq(S)
         /\ \/ RemoveFirst(s, p) = s
            \/ \E k \in 1..Len(s) : s[k] = p /\ RemovedAt(RemoveFirst(s, p), s, k)
<1>1. CASE ~ \E i \in 1..Len(s) : s[i] = p
  BY <1>1 DEF RemoveFirst
<1>2. CASE \E i \in 1..Len(s) : s[i] = p
  <2> DEFINE I == {i \in 1..Len(s) : s[i] = p}
             k == Min(I)
  <2>1. RemoveFirst(s, p) = RemoveAt(s, k)
    BY <1>2, Zenon DEF RemoveFirst, SelectInSeq
  <2>2. PICK x \in I : \A y \in I : x <= y
    <3>1. I \in SUBSET Nat /\ I # {}
      BY <1>2
    <3> HIDE DEF I
    <3> QED
      BY <3>1, LeastNumber
  <2>3. k \in I
    BY <2>2 DEF Min
  <2>4. k \in 1..Len(s) /\ s[k] = p
    BY <2>3
  <2> HIDE DEF k, I
  <2> DEFINE u == SubSeq(s, 1, k - 1)
             v == SubSeq(s, k + 1, Len(s))
             t == u \o v
  <2>5. /\ u \in Seq(S) /\ v \in Seq(S) /\ Len(u) = k - 1 /\ Len(v) = Len(s) - k
        /\ \A i \in 1..(k - 1) : u[i] = s[i]
        /\ \A i \in 1..(Len(s) - k) : v[i] = s[k + i]
    BY <2>4
  <2>8. RemoveAt(s, k) = t
    BY DEF RemoveAt
  <2> HIDE DEF u, v
  <2>9. Len(s) \in Nat /\ k \in Nat
    BY <2>4
  <2>6. /\ t \in Seq(S) /\ Len(t) = Len(s) - 1
        /\ \A i \in 1..Len(u) : t[i] = u[i]
        /\ \A i \in 1..Len(v) : t[Len(u) + i] = v[i]
    <3>1. u \in Seq(S) /\ v \in Seq(S) /\ Len(u) \in Nat /\ Len(v) \in Nat
      BY <2>5
    <3>2. t \in Seq(S) /\ Len(t) = Len(u) + Len(v)
      BY <3>1
    <3>3. \A i \in 1..Len(u) : t[i] = u[i]
      BY <3>1
    <3>4. ASSUME NEW i \in 1..Len(v) PROVE t[Len(u) + i] = v[i]
      <4>1. /\ Len(u) + i \in 1..(Len(u) + Len(v)) /\ ~(Len(u) + i <= Len(u))
            /\ Len(u) + i - Len(u) = i
        BY <3>1
      <4> QED
        BY <3>1, <4>1
    <3>5. Len(t) = Len(s) - 1
      <4>1. Len(t) = (k - 1) + (Len(s) - k)
        BY <2>5, <3>2
      <4> QED
        BY <2>9, <4>1
    <3> QED
      BY <3>2, <3>3, <3>4, <3>5
  <2> HIDE DEF t
  <2>7. ASSUME NEW i \in 1..Len(t) PROVE t[i] = IF i < k THEN s[i] ELSE s[i + 1]
    <3>1. CASE i < k
      <4>1. i \in 1..(k - 1) /\ i \in 1..Len(u)
        BY <2>5, <2>9, <3>1
      <4>2. t[i] = u[i] /\ u[i] = s[i]
        BY <2>5, <2>6, <4>1
      <4> QED
        BY <3>1, <4>2
    <3>2. CASE ~(i < k)
      <4> DEFINE j == i - (k - 1)
      <4>1. j \in 1..(Len(s) - k) /\ k + j = i + 1 /\ Len(u) + j = i
        BY <2>5, <2>6, <2>9, <3>2
      <4> HIDE DEF j
      <4>2. t[i] = v[j]
        BY <2>5, <2>6, <4>1
      <4> QED
        BY <2>5, <3>2, <4>1, <4>2
    <3> QED
      BY <3>1, <3>2
  <2>10. RemoveFirst(s, p) = t
    BY <2>1, <2>8
  <2>11. RemovedAt(t, s, k)
    BY <2>6, <2>7 DEF RemovedAt
  <2>12. t \in Seq(S) /\ k \in 1..Len(s) /\ s[k] = p
    BY <2>4, <2>6
  <2> QED
    BY <2>10, <2>11, <2>12
<1> QED
  BY <1>1, <1>2

(* A sync reads a first part of what a route has.                          *)
LEMMA ListedIsFirst ==
  ASSUME NEW S, NEW r, packets[r] \in Seq(S)
  PROVE  /\ Listed(r) \in Seq(S) /\ Len(Listed(r)) <= Len(packets[r])
         /\ \A i \in DOMAIN Listed(r) : i \in DOMAIN packets[r] /\ Listed(r)[i] = packets[r][i]
<1> DEFINE k == Min({Len(packets[r]), SYNC_MAX})
<1>1. Len(packets[r]) \in Nat /\ SYNC_MAX \in Nat
  BY ConnectorMailAssumption
<1>2. k \in {Len(packets[r]), SYNC_MAX} /\ k <= Len(packets[r])
  BY <1>1 DEF Min
<1>3. k \in Nat
  BY <1>1, <1>2
<1> HIDE DEF k
<1>4. Listed(r) = SubSeq(packets[r], 1, k)
  BY DEF Listed, k
<1> QED
  BY <1>1, <1>2, <1>3, <1>4
-----------------------------------------------------------------------------
(* The records of the two connectors and of their calls, given the packets *)
(* that were sealed.                                                       *)
Message(S) ==
    [status : {"unsent", "queued", "delivered", "pruned"}, packet : S \cup {None}]
SenderState(S) == [pin : Cards \cup {NoCard}, messages : [Msgs -> Message(S)]]
RecipientState ==
    [published : Cards \cup {NoCard}, messages : SUBSET Msgs, notified : [Msgs -> Nat]]
DeliveryOf(S) == {d \in Delivery : d.packet \in S}
BetweenMessages == [kind : {"retry"}, m : {None}, todo : SUBSET Msgs]
PollState == [todo : Seq(Relays) \ {<<>>}, deletions : Seq(Packet)]

RelaysTyped(S) ==
    /\ card \in [Relays -> Cards \cup {NoCard}]
    /\ DOMAIN packets = Relays
    /\ \A r \in Relays : packets[r] \in Seq(Packet \cup Undecryptable[r])
    /\ taken \in [Relays -> SUBSET S]

(* A message keeps packets of its own only.                                *)
SenderTyped(S, s) ==
    /\ s \in SenderState(S)
    /\ \A m \in Msgs : s.messages[m].packet # None => s.messages[m].packet.m = m

(* A delivery goes to the routes of the card its packet is sealed under.   *)
CallTyped(S, c) ==
    /\ c \in DeliveryOf(S) \cup BetweenMessages \cup {None}
    /\ c # None /\ c.m # None => c.card = c.packet.card /\ c.packet.m = c.m

(* The state has its type, and packets anywhere were sealed.               *)
MailTyped ==
    /\ now \in Nat /\ crashes \in Nat
    /\ sealed \subseteq Packet /\ IsFiniteSet(sealed)
    /\ RelaysTyped(sealed)
    /\ SenderTyped(sealed, sender) /\ CallTyped(sealed, call)
    /\ recipient \in RecipientState /\ poll \in PollState \cup {None}
    /\ saved \in [sender : SenderState(sealed), recipient : RecipientState]
    /\ SenderTyped(sealed, saved.sender)

(* What has its type keeps it when packets are sealed.                     *)
LEMMA SealedGrows ==
  ASSUME NEW S, NEW T, S \subseteq T
  PROVE  /\ \A s \in SenderState(S) : s \in SenderState(T)
         /\ \A s : SenderTyped(S, s) => SenderTyped(T, s)
         /\ \A c : CallTyped(S, c) => CallTyped(T, c)
         /\ RelaysTyped(S) => RelaysTyped(T)
<1>1. \A x \in Message(S) : x \in Message(T)
  BY DEF Message
<1>2. ASSUME NEW f \in [Msgs -> Message(S)] PROVE f \in [Msgs -> Message(T)]
  BY <1>1
<1>3. \A s \in SenderState(S) : s \in SenderState(T)
  BY <1>2 DEF SenderState
<1>4. \A c \in DeliveryOf(S) : c \in DeliveryOf(T)
  BY DEF DeliveryOf, Delivery
<1>5. RelaysTyped(S) => RelaysTyped(T)
  BY DEF RelaysTyped
<1> QED
  BY <1>3, <1>4, <1>5 DEF SenderTyped, CallTyped

(* Reading a card gives the pin or a newer card that a route has.          *)
LEMMA CardRead ==
  ASSUME NEW pin \in Cards \cup {NoCard}, NEW routes \in Seq(Relays),
         card \in [Relays -> Cards \cup {NoCard}], NEW read \in mail_card(pin, routes)
  PROVE  /\ read.pin \in Cards \cup {NoCard} /\ read.ok = Usable(read.pin)
         /\ read.pin # pin => read.pin > pin /\ \E r \in Relays : read.pin = card[r]
<1>1. PICK c \in {pin} \cup {d \in {card[r] : r \in ToSet(routes)} : d > pin} :
          read = [pin |-> c, ok |-> Usable(c)]
  BY DEF mail_card
<1>2. ToSet(routes) \subseteq Relays
  BY DEF ToSet
<1>3. read.pin = c /\ read.ok = Usable(c)
  BY <1>1
<1> QED
  BY <1>1, <1>2, <1>3

(* The delivery of packet p that begins a round.                           *)
Started(kind, m, p, refreshed, todo) ==
    [kind |-> kind, m |-> m, packet |-> p, card |-> p.card, i |-> 1,
     transient |-> FALSE, stale |-> FALSE, refreshed |-> refreshed, todo |-> todo]

(* What begins a round is a delivery, and not None.                        *)
LEMMA StartedIsDelivery ==
  ASSUME NEW kind \in {"send", "retry"}, NEW m \in Msgs, NEW p \in Packet,
         NEW refreshed \in BOOLEAN, NEW todo \in SUBSET Msgs
  PROVE  /\ Started(kind, m, p, refreshed, todo) \in Delivery
         /\ Started(kind, m, p, refreshed, todo) # None
<1>1. p.card \in Cards
  BY DEF Packet
<1>2. Started(kind, m, p, refreshed, todo) \in Delivery
  BY <1>1 DEF Started, Delivery
<1> QED
  BY <1>2, ConnectorMailAssumption

(* How a message goes on that is not delivered.                            *)
GoesOn(kind, todo) == IF kind = "send" THEN None ELSE Next_(todo)

(* A round begins with the packet of the message that is sealed under the  *)
(* card, or with one sealed now, or it does not begin.                     *)
LEMMA RoundBegins ==
  ASSUME sealed \subseteq Packet, IsFiniteSet(sealed),
         NEW kind, NEW m \in Msgs, NEW packet, NEW c \in Cards \cup {NoCard},
         NEW refreshed, NEW todo, packet # None => packet \in sealed /\ packet.m = m,
         BeginRound(kind, m, packet, c, refreshed, todo)
  PROVE  \/ /\ sealed' = sealed /\ call' = GoesOn(kind, todo)
         \/ \E p \in Packet :
               /\ p.m = m /\ p.card = c
               /\ call' = Started(kind, m, p, refreshed, todo) /\ sealed' = sealed \cup {p}
               /\ \/ packet # None /\ p = packet
                  \/ (packet = None \/ packet.card # c) /\ Encryptable(m, c)
<1>1. CASE ~NeedsSealing(packet, c)
  <2>1. packet # None /\ packet.card = c /\ packet \in sealed /\ packet.m = m /\ packet \in Packet
    BY <1>1 DEF NeedsSealing
  <2>2. Round(kind, m, packet, c, refreshed, todo) = Started(kind, m, packet, refreshed, todo)
    BY <2>1 DEF Round, PacketFor, Started
  <2>3. /\ call' = Started(kind, m, packet, refreshed, todo)
        /\ sealed' = sealed \cup {call'.packet}
    BY <1>1, <2>2 DEF BeginRound
  <2>4. call'.packet = packet
    BY <2>3 DEF Started
  <2> QED
    BY <2>1, <2>3, <2>4
<1>2. CASE NeedsSealing(packet, c) /\ Encryptable(m, c)
  <2> DEFINE Q == {q \in sealed : q.m = m /\ q.card = c}
             p == [m |-> m, card |-> c, n |-> 1 + Cardinality(Q)]
  <2>1. Cardinality(Q) \in Nat
    <3>1. Q \subseteq sealed
      OBVIOUS
    <3> HIDE DEF Q
    <3> QED
      BY <3>1, FS_Subset, FS_CardinalityType
  <2>2. c \in Cards
    BY <1>2 DEF Encryptable, Usable
  <2>3. p \in Packet /\ p.m = m /\ p.card = c
    <3> HIDE DEF Q
    <3> QED
      BY <2>1, <2>2 DEF Packet
  <2>4. packet = None \/ packet.card # c
    BY <1>2 DEF NeedsSealing
  <2>5. PacketFor(m, packet, c) = p
    BY <2>4 DEF PacketFor
  <2> HIDE DEF p
  <2>6. Round(kind, m, packet, c, refreshed, todo) = Started(kind, m, p, refreshed, todo)
    BY <2>3, <2>5 DEF Round, Started
  <2>7. /\ call' = Started(kind, m, p, refreshed, todo)
        /\ sealed' = sealed \cup {call'.packet}
    BY <1>2, <2>6 DEF BeginRound
  <2>8. call'.packet = p
    BY <2>7 DEF Started
  <2> QED
    BY <1>2, <2>3, <2>4, <2>7, <2>8
<1>3. CASE NeedsSealing(packet, c) /\ ~Encryptable(m, c)
  BY <1>3 DEF BeginRound, GoesOn
<1> QED
  BY <1>1, <1>2, <1>3

(* A round that begins, or does not, keeps the types of what it changes.   *)
LEMMA RoundTyped ==
  ASSUME sealed \subseteq Packet, IsFiniteSet(sealed),
         NEW kind \in {"send", "retry"}, NEW m \in Msgs, NEW packet,
         NEW c \in Cards \cup {NoCard}, NEW refreshed \in BOOLEAN, NEW todo \in SUBSET Msgs,
         packet # None => packet \in sealed /\ packet.m = m,
         BeginRound(kind, m, packet, c, refreshed, todo)
  PROVE  /\ sealed \subseteq sealed' /\ sealed' \subseteq Packet /\ IsFiniteSet(sealed')
         /\ CallTyped(sealed', call')
<1>1. CASE sealed' = sealed /\ call' = GoesOn(kind, todo)
  <2>1. call' = None \/ (call' \in BetweenMessages /\ call'.m = None)
    BY <1>1 DEF GoesOn, Next_, BetweenMessages
  <2> QED
    BY <1>1, <2>1 DEF CallTyped
<1>2. ASSUME NEW p \in Packet, p.m = m, sealed' = sealed \cup {p},
             call' = Started(kind, m, p, refreshed, todo)
      PROVE  /\ sealed \subseteq sealed' /\ sealed' \subseteq Packet /\ IsFiniteSet(sealed')
             /\ CallTyped(sealed', call')
  <2>1. IsFiniteSet(sealed')
    BY <1>2, FS_AddElement
  <2>2. p.card \in Cards
    BY DEF Packet
  <2>3. call' \in DeliveryOf(sealed')
    BY <1>2, <2>2 DEF Started, DeliveryOf, Delivery
  <2>4. call'.card = p.card /\ call'.packet = p /\ call'.m = m
    BY <1>2 DEF Started
  <2> QED
    BY <1>2, <2>1, <2>3, <2>4 DEF CallTyped
<1> QED
  BY <1>1, <1>2, RoundBegins

(* What a message ends with keeps the sender's type.                       *)
LEMMA MessageEnds ==
  ASSUME NEW S, NEW s, SenderTyped(S, s), NEW m \in Msgs,
         NEW status \in {"unsent", "queued", "delivered", "pruned"},
         NEW p \in S \cup {None}, p # None => p.m = m
  PROVE  SenderTyped(S, [s EXCEPT !.messages[m] = [status |-> status, packet |-> p]])
<1> DEFINE msg == [status |-> status, packet |-> p]
           t == [s EXCEPT !.messages[m] = msg]
<1>1. msg \in Message(S) /\ msg.packet = p
  BY DEF Message
<1> HIDE DEF msg
<1>2. t = [s EXCEPT !.messages = [s.messages EXCEPT ![m] = msg]]
  BY DEF SenderTyped, SenderState
<1>3. [s.messages EXCEPT ![m] = msg] \in [Msgs -> Message(S)]
  BY <1>1 DEF SenderTyped, SenderState
<1>4. t \in SenderState(S) /\ t.messages = [s.messages EXCEPT ![m] = msg]
  BY <1>2, <1>3 DEF SenderTyped, SenderState
<1>5. \A k \in Msgs : t.messages[k] = IF k = m THEN msg ELSE s.messages[k]
  BY <1>4 DEF SenderTyped, SenderState
<1> QED
  BY <1>1, <1>4, <1>5 DEF SenderTyped, msg

(* Pruning keeps the sender's type, and every message that stays queued.   *)
(* A pin it drops had its time.                                            *)
LEMMA Pruned ==
  ASSUME now \in Nat, NEW S, NEW s, SenderTyped(S, s)
  PROVE  LET t == prune_mail(s) IN
         /\ SenderTyped(S, t)
         /\ t.pin = s.pin \/ t.pin = NoCard
         /\ t.pin # s.pin => s.pin \in Cards /\ now >= pinned_until[s.pin]
         /\ \A m \in Msgs : t.messages[m].status = "queued" => t.messages[m] = s.messages[m]
<1> DEFINE f == Unexpired(s.messages)
           pin == IF PinHeld(s.pin) THEN s.pin ELSE NoCard
           t == [pin |-> pin, messages |-> f]
<1>1. /\ s.pin \in Cards \cup {NoCard} /\ s.messages \in [Msgs -> Message(S)]
      /\ \A m \in Msgs : s.messages[m].packet # None => s.messages[m].packet.m = m
  BY DEF SenderTyped, SenderState
<1>2. /\ f \in [Msgs -> Message(S)]
      /\ \A m \in Msgs : f[m] = s.messages[m] \/ f[m].packet = None
      /\ \A m \in Msgs : f[m].status = "queued" => f[m] = s.messages[m]
  BY <1>1 DEF Unexpired, Message, NoMessage
<1>3. /\ pin = s.pin \/ pin = NoCard
      /\ pin \in Cards \cup {NoCard}
      /\ pin # s.pin => s.pin \in Cards /\ now >= pinned_until[s.pin]
  <2>1. s.pin \in Cards => pinned_until[s.pin] \in Nat
    BY ConnectorMailAssumption
  <2> QED
    BY <1>1, <2>1 DEF PinHeld
<1> HIDE DEF f, pin
<1>4. SenderTyped(S, t)
  BY <1>1, <1>2, <1>3 DEF SenderTyped, SenderState
<1>5. prune_mail(s) = t
  BY DEF prune_mail, f, pin
<1> QED
  BY <1>2, <1>3, <1>4, <1>5

(* What is known of a delivery in progress.                                *)
LEMMA InProgress ==
  ASSUME MailTyped, call # None, call.m # None
  PROVE  /\ call \in DeliveryOf(sealed) /\ call.card = call.packet.card /\ call.packet.m = call.m
         /\ call.packet \in sealed /\ call.packet \in Packet /\ call.packet # None
         /\ Routes \in Seq(Relays) /\ Routes = CardRoutes[call.packet.card]
         /\ call.i <= Len(Routes) => Routes[call.i] \in Relays /\ Routes[call.i] \in ToSet(Routes)
<1>1. call \in DeliveryOf(sealed) /\ call.card = call.packet.card /\ call.packet.m = call.m
  BY DEF MailTyped, CallTyped, BetweenMessages
<1>2. call.packet \in sealed /\ call.packet \in Packet /\ call.packet # None
  BY <1>1, ConnectorMailAssumption DEF MailTyped, DeliveryOf, Delivery
<1>3. call.card \in Cards /\ call.i \in Nat \ {0}
  BY <1>1 DEF DeliveryOf, Delivery
<1>4. Routes \in Seq(Relays)
  BY <1>3, CardData DEF Routes
<1>5. ASSUME call.i <= Len(Routes) PROVE call.i \in 1..Len(Routes) /\ call.i \in DOMAIN Routes
  BY <1>3, <1>4, <1>5
<1>6. ASSUME call.i <= Len(Routes) PROVE Routes[call.i] \in Relays /\ Routes[call.i] \in ToSet(Routes)
  BY <1>4, <1>5, <1>6 DEF ToSet
<1> QED
  BY <1>1, <1>2, <1>4, <1>6 DEF Routes

(* What is known of the sync of the recipient.                             *)
LEMMA PollStateTyped ==
  ASSUME NEW todo \in Seq(Relays)
  PROVE  Polling(todo) \in PollState \cup {None}
BY DEF Polling, PollState


(* A relay that takes a packet, or answers one it has, keeps its type.     *)
LEMMA TakingTyped ==
  ASSUME MailTyped, NEW r \in Relays, NEW p \in sealed, RelayTakes(r, p), sealed' = sealed
  PROVE  RelaysTyped(sealed)'
<1>1. /\ card' = card /\ taken' = [taken EXCEPT ![r] = @ \cup {p}]
      /\ packets' = packets \/ packets' = [packets EXCEPT ![r] = Append(@, p)]
  BY DEF RelayTakes
<1>2. p \in Packet /\ RelaysTyped(sealed)
  BY DEF MailTyped
<1>3. taken' \in [Relays -> SUBSET sealed]
  BY <1>1, <1>2 DEF RelaysTyped
<1>4. ASSUME NEW q \in Relays PROVE packets'[q] \in Seq(Packet \cup Undecryptable[q])
  <2>1. packets[q] \in Seq(Packet \cup Undecryptable[q])
    BY <1>2 DEF RelaysTyped
  <2>2. packets'[q] = packets[q] \/ packets'[q] = Append(packets[q], p)
    BY <1>1, <1>2 DEF RelaysTyped
  <2> QED
    BY <1>2, <2>1, <2>2
<1>5. DOMAIN packets' = Relays
  BY <1>1, <1>2 DEF RelaysTyped
<1> QED
  BY <1>1, <1>2, <1>3, <1>4, <1>5 DEF RelaysTyped

(* A sync of the recipient that takes what a route listed keeps the types. *)
LEMMA AcceptTyped ==
  ASSUME MailTyped, poll \in PollState, NEW S, NEW listed \in Seq(S), Accept(listed)
  PROVE  recipient' \in RecipientState /\ poll' \in PollState \cup {None}
<1> DEFINE a == Accepted(listed, recipient.messages)
<1>1. recipient \in RecipientState /\ recipient.messages \in SUBSET Msgs /\ now \in Nat
  BY DEF MailTyped, RecipientState
<1>2. a \in Acceptance
  BY <1>1, AcceptedExact DEF AcceptedUpTo
<1>3. /\ recipient' = [recipient EXCEPT !.messages = a.messages,
               !.notified = [m \in Msgs |-> IF m \in a.new THEN @[m] + 1 ELSE @[m]]]
      /\ poll' = IF a.deletions = <<>> THEN Polling(Tail(poll.todo))
                 ELSE [poll EXCEPT !.deletions = a.deletions]
  BY DEF Accept
<1> HIDE DEF a
<1>4. recipient' \in RecipientState
  <2> DEFINE f == [m \in Msgs |-> IF m \in a.new THEN recipient.notified[m] + 1
                                  ELSE recipient.notified[m]]
  <2>1. f \in [Msgs -> Nat]
    BY <1>1 DEF RecipientState
  <2>2. recipient' = [recipient EXCEPT !.messages = a.messages, !.notified = f]
    BY <1>3
  <2> HIDE DEF f
  <2> QED
    BY <1>1, <1>2, <2>1, <2>2 DEF Acceptance, RecipientState
<1>5. poll.todo \in Seq(Relays) /\ Tail(poll.todo) \in Seq(Relays)
  BY DEF PollState
<1>6. Polling(Tail(poll.todo)) \in PollState \cup {None}
  BY <1>5, PollStateTyped
<1>7. [poll EXCEPT !.deletions = a.deletions] \in PollState
  BY <1>2 DEF Acceptance, PollState
<1> QED
  BY <1>3, <1>4, <1>6, <1>7

(* A sync accepts a first part of what its route has.                      *)
FirstPart(l, s) == Len(l) <= Len(s) /\ \A i \in DOMAIN l : i \in DOMAIN s /\ l[i] = s[i]

(* So does every reading of a route, complete or not.                      *)
LEMMA PollReads ==
  ASSUME MailTyped, PollRoute \/ PollRouteFails
  PROVE  /\ poll \in PollState /\ Head(poll.todo) \in Relays /\ BetweenRoutes
         /\ \E listed \in Seq(Packet \cup Undecryptable[Head(poll.todo)]) :
               Accept(listed) /\ FirstPart(listed, packets[Head(poll.todo)])
<1> DEFINE r == Head(poll.todo)
           S == Packet \cup Undecryptable[r]
<1>1. BetweenRoutes
  BY DEF PollRoute, PollRouteFails
<1>2. poll \in PollState /\ r \in Relays
  <2>1. poll \in PollState
    BY <1>1 DEF BetweenRoutes, MailTyped
  <2> QED
    BY <2>1 DEF PollState
<1>3. packets[r] \in Seq(S)
  BY <1>2 DEF MailTyped, RelaysTyped
<1> HIDE DEF r, S
<1>4. Listed(r) \in Seq(S) /\ FirstPart(Listed(r), packets[r])
  BY <1>3, ListedIsFirst DEF FirstPart
<1>5. CASE PollRoute
  <2>1. Accept(Listed(r))
    BY <1>5 DEF PollRoute, r
  <2> QED
    BY <1>1, <1>2, <1>4, <2>1 DEF r, S
<1>6. CASE PollRouteFails
  <2>1. PICK n \in 0..(Len(Listed(r)) - 1) : Accept(SubSeq(Listed(r), 1, n))
    BY <1>6 DEF PollRouteFails, r
  <2>2. SubSeq(Listed(r), 1, n) \in Seq(S) /\ FirstPart(SubSeq(Listed(r), 1, n), packets[r])
    BY <1>3, <1>4 DEF FirstPart
  <2> QED
    BY <1>1, <1>2, <2>1, <2>2 DEF r, S
<1> QED
  BY <1>5, <1>6

(* The state has its type from the start.                                  *)
LEMMA InitTyped ==
  ASSUME Init
  PROVE  MailTyped
<1>1. IsFiniteSet({})
  BY FS_EmptySet
<1>2. RelaysTyped(sealed)
  <2>1. ASSUME NEW r \in Relays PROVE packets[r] \in Seq(Packet \cup Undecryptable[r])
    <3>1. packets[r] = SetToSeq(Undecryptable[r])
      BY DEF Init
    <3>2. packets[r] \in Seq(Undecryptable[r])
      BY <3>1, SetListed, ConnectorMailAssumption
    <3> QED
      BY <3>2
  <2> QED
    BY <2>1 DEF Init, RelaysTyped
<1>3. SenderTyped(sealed, sender)
  <2> DEFINE f == [m \in Msgs |-> NoMessage]
  <2>1. NoMessage \in Message(sealed) /\ NoMessage.packet = None
    BY DEF NoMessage, Message
  <2>2. f \in [Msgs -> Message(sealed)] /\ \A m \in Msgs : f[m].packet = None
    BY <2>1
  <2>3. sender = [pin |-> NoCard, messages |-> f]
    BY DEF Init
  <2> HIDE DEF f
  <2> QED
    BY <2>2, <2>3 DEF SenderTyped, SenderState
<1>4. recipient \in RecipientState
  BY DEF Init, RecipientState
<1>5. saved.sender = sender /\ saved \in [sender : SenderState(sealed), recipient : RecipientState]
  BY <1>3, <1>4 DEF Init, SenderTyped
<1> QED
  BY <1>1, <1>2, <1>3, <1>4, <1>5 DEF Init, MailTyped, CallTyped

(* The state keeps its type in every step.                                 *)
LEMMA StepTyped ==
  ASSUME MailTyped, [Next]_vars
  PROVE  MailTyped'
<1> USE DEF relays
<1>1. /\ now \in Nat /\ crashes \in Nat
      /\ sealed \subseteq Packet /\ IsFiniteSet(sealed)
      /\ RelaysTyped(sealed)
      /\ SenderTyped(sealed, sender) /\ CallTyped(sealed, call)
      /\ recipient \in RecipientState /\ poll \in PollState \cup {None}
      /\ saved \in [sender : SenderState(sealed), recipient : RecipientState]
      /\ SenderTyped(sealed, saved.sender)
  BY DEF MailTyped
<1>2. /\ saved.recipient \in RecipientState
      /\ sender \in SenderState(sealed) /\ sender.pin \in Cards \cup {NoCard}
      /\ card \in [Relays -> Cards \cup {NoCard}]
      /\ \A m \in Msgs : sender.messages[m] \in Message(sealed)
  BY <1>1 DEF SenderTyped, SenderState, RelaysTyped
(* The sender's records after a round over a card began, or did not.       *)
<1>3. ASSUME sealed \subseteq sealed', sealed' \subseteq Packet, IsFiniteSet(sealed'),
             CallTyped(sealed', call'), SenderTyped(sealed', sender'),
             UNCHANGED <<now, crashes, relays, recipient, poll, saved>>
      PROVE  MailTyped'
  <2>1. saved' \in [sender : SenderState(sealed'), recipient : RecipientState]
    <3>1. saved.sender \in SenderState(sealed')
      BY <1>1, <1>3, SealedGrows
    <3> QED
      BY <1>1, <1>3, <3>1
  <2>2. RelaysTyped(sealed')
    BY <1>1, <1>3, SealedGrows
  <2>3. SenderTyped(sealed', saved.sender)
    BY <1>1, <1>3, SealedGrows
  <2>4. RelaysTyped(sealed)'
    BY <1>3, <2>2 DEF RelaysTyped
  <2> QED
    BY <1>1, <1>3, <2>1, <2>3, <2>4 DEF MailTyped
(* A step of a delivery that seals nothing.                                *)
<1>4. ASSUME sealed' = sealed, CallTyped(sealed, call'), SenderTyped(sealed, sender'),
             RelaysTyped(sealed)', UNCHANGED <<now, crashes, recipient, poll, saved>>
      PROVE  MailTyped'
  BY <1>1, <1>4 DEF MailTyped
(* A step of the recipient.                                                *)
<1>5. ASSUME recipient' \in RecipientState, poll' \in PollState \cup {None},
             UNCHANGED <<now, crashes, sealed, relays, sender, call, saved>>
      PROVE  MailTyped'
  BY <1>1, <1>5 DEF MailTyped, RelaysTyped
<1>6. CASE Tick
  BY <1>1, <1>6 DEF Tick, MailTyped, RelaysTyped
<1>7. CASE Publish
  <2>1. recipient' \in RecipientState
    BY <1>1, <1>7 DEF Publish, RecipientState
  <2>2. saved' \in [sender : SenderState(sealed), recipient : RecipientState]
        /\ saved'.sender = saved.sender
    BY <1>1, <1>7, <2>1 DEF Publish
  <2> QED
    BY <1>1, <1>7, <2>1, <2>2 DEF Publish, MailTyped, RelaysTyped
<1>8. ASSUME NEW r \in Relays, RelayTakesCard(r) PROVE MailTyped'
  <2>1. card' \in [Relays -> Cards \cup {NoCard}]
    BY <1>2, <1>8 DEF RelayTakesCard, RecipientState
  <2>2. RelaysTyped(sealed)'
    BY <1>1, <1>8, <2>1 DEF RelayTakesCard, RelaysTyped
  <2> QED
    BY <1>1, <1>8, <2>2 DEF RelayTakesCard, MailTyped
<1>9. ASSUME NEW m \in Msgs, SendStart(m) PROVE MailTyped'
  <2>0. PICK address \in 1..recipient.published :
          \E read \in mail_card(sender.pin, CardRoutes[address]) :
             /\ sender' = [sender EXCEPT !.pin = read.pin]
             /\ IF read.ok THEN BeginRound("send", m, None, read.pin, FALSE, {})
                ELSE UNCHANGED <<call, sealed>>
    BY <1>9 DEF SendStart
  <2>1. PICK read \in mail_card(sender.pin, CardRoutes[address]) :
          /\ sender' = [sender EXCEPT !.pin = read.pin]
          /\ IF read.ok THEN BeginRound("send", m, None, read.pin, FALSE, {})
             ELSE UNCHANGED <<call, sealed>>
    BY <2>0
  <2>2. CardRoutes[address] \in Seq(Relays)
    BY <1>1, CardNumbers, CardData DEF RecipientState
  <2>3. read.pin \in Cards \cup {NoCard}
    BY <1>2, <2>2, CardRead
  <2>4. SenderTyped(sealed, sender')
    BY <1>1, <2>1, <2>3 DEF SenderTyped, SenderState
  <2>5. /\ sealed \subseteq sealed' /\ sealed' \subseteq Packet /\ IsFiniteSet(sealed')
        /\ CallTyped(sealed', call')
    <3>1. CASE read.ok
      <4>1. BeginRound("send", m, None, read.pin, FALSE, {})
        BY <2>1, <3>1
      <4>2. "send" \in {"send", "retry"} /\ FALSE \in BOOLEAN /\ {} \in SUBSET Msgs
        OBVIOUS
      <4> QED
        BY <1>1, <2>3, <4>1, <4>2, RoundTyped
    <3>2. CASE ~read.ok
      BY <1>1, <2>1, <3>2
    <3> QED
      BY <3>1, <3>2
  <2>6. SenderTyped(sealed', sender')
    BY <2>4, <2>5, SealedGrows
  <2> QED
    BY <1>3, <1>9, <2>5, <2>6 DEF SendStart
<1>10. CASE SyncStart
  <2>1. call' \in BetweenMessages /\ call'.m = None
    BY <1>10 DEF SyncStart, Next_, BetweenMessages
  <2> QED
    BY <1>1, <1>10, <2>1 DEF SyncStart, MailTyped, RelaysTyped, CallTyped
<1>11. CASE RetryNext
  <2>1. call \in BetweenMessages
    BY <1>1, <1>11, ConnectorMailAssumption DEF RetryNext, CallTyped, DeliveryOf, Delivery
  <2>2. CASE call.todo = {}
    <3>1. sender' = prune_mail(sender) /\ call' = None /\ sealed' = sealed
      BY <1>11, <2>2 DEF RetryNext
    <3>2. SenderTyped(sealed, sender')
      BY <1>1, <3>1, Pruned
    <3> QED
      BY <1>3, <1>1, <1>11, <3>1, <3>2 DEF RetryNext, CallTyped
  <2>4. CASE call.todo # {} /\ sender.pin = NoCard
    <3>1. PICK m \in call.todo : call' = Next_(call.todo \ {m}) /\ UNCHANGED <<sealed, sender>>
      BY <1>11, <2>4 DEF RetryNext
    <3>2. call' \in BetweenMessages /\ call'.m = None
      BY <2>1, <3>1 DEF Next_, BetweenMessages
    <3> QED
      BY <1>1, <1>3, <1>11, <3>1, <3>2 DEF RetryNext, CallTyped
  <2>3. CASE call.todo # {} /\ sender.pin # NoCard
    <3>1. PICK m \in call.todo :
            /\ BeginRound("retry", m, sender.messages[m].packet, sender.pin, FALSE,
                          call.todo \ {m})
            /\ UNCHANGED sender
      BY <1>11, <2>3 DEF RetryNext
    <3>2. m \in Msgs /\ call.todo \ {m} \in SUBSET Msgs
      BY <2>1 DEF BetweenMessages
    <3>3. sender.messages[m].packet # None =>
            sender.messages[m].packet \in sealed /\ sender.messages[m].packet.m = m
      BY <1>1, <1>2, <3>2 DEF SenderTyped, Message
    <3>4. /\ sealed \subseteq sealed' /\ sealed' \subseteq Packet /\ IsFiniteSet(sealed')
          /\ CallTyped(sealed', call')
      BY <1>1, <1>2, <3>1, <3>2, <3>3, RoundTyped
    <3>5. SenderTyped(sealed', sender')
      BY <1>1, <3>1, <3>4, SealedGrows
    <3> QED
      BY <1>3, <1>11, <3>4, <3>5 DEF RetryNext
  <2> QED
    BY <2>2, <2>3, <2>4
<1>28. CASE PruneMail
  <2>1. sender' = prune_mail(sender) /\ UNCHANGED <<sealed, call>>
    BY <1>28 DEF PruneMail
  <2>2. SenderTyped(sealed, sender')
    BY <1>1, <2>1, Pruned
  <2> QED
    BY <1>1, <1>3, <1>28, <2>1, <2>2 DEF PruneMail
<1>12. CASE DeliverAccepted
  <2>1. call # None /\ call.m # None /\ call.i <= Len(Routes)
    BY <1>12 DEF DeliverAccepted, Delivering
  <2>2. /\ call \in DeliveryOf(sealed) /\ call.packet \in sealed /\ call.packet.m = call.m
        /\ Routes[call.i] \in Relays
    BY <2>1, InProgress
  <2>3. /\ RelayTakes(Routes[call.i], call.packet) /\ EndMessage("delivered", call.packet)
        /\ UNCHANGED <<now, crashes, sealed, recipient, poll, saved>>
    BY <1>12 DEF DeliverAccepted
  <2>4. RelaysTyped(sealed)'
    BY <2>2, <2>3, TakingTyped
  <2>5. SenderTyped(sealed, sender')
    <3>1. call.m \in Msgs
      BY <2>2 DEF DeliveryOf, Delivery
    <3> QED
      BY <1>1, <2>2, <2>3, <3>1, MessageEnds DEF EndMessage
  <2>6. CallTyped(sealed, call')
    BY <2>2, <2>3 DEF EndMessage, CallTyped, Next_, BetweenMessages, DeliveryOf, Delivery
  <2> QED
    BY <1>4, <2>3, <2>4, <2>5, <2>6
<1>13. CASE DeliverTransient
  <2>1. call # None /\ call.m # None /\ call.i <= Len(Routes)
    BY <1>13 DEF DeliverTransient, Delivering
  <2>2. /\ call \in DeliveryOf(sealed) /\ call.packet \in sealed
        /\ Routes[call.i] \in Relays
    BY <2>1, InProgress
  <2>3. /\ RelayTakes(Routes[call.i], call.packet) \/ UNCHANGED relays
        /\ call' = [call EXCEPT !.i = @ + 1, !.transient = TRUE]
        /\ UNCHANGED <<now, crashes, sealed, sender, recipient, poll, saved>>
    BY <1>13 DEF DeliverTransient
  <2>4. RelaysTyped(sealed)'
    BY <1>1, <2>2, <2>3, TakingTyped DEF RelaysTyped
  <2>5. CallTyped(sealed, call')
    <3>0. call.i \in Nat \ {0} /\ call.i + 1 \in Nat \ {0}
      BY <2>2 DEF DeliveryOf, Delivery
    <3>1. call' \in DeliveryOf(sealed)
      <4> DEFINE j == call.i + 1
      <4>1. call' = [call EXCEPT !.i = j, !.transient = TRUE]
        BY <2>3
      <4> HIDE DEF j
      <4>2. j \in Nat \ {0}
        BY <3>0 DEF j
      <4> QED
        BY <2>2, <4>1, <4>2 DEF DeliveryOf, Delivery
    <3>2. call'.card = call.card /\ call'.packet = call.packet /\ call'.m = call.m
      BY <2>2, <2>3 DEF DeliveryOf, Delivery
    <3> QED
      BY <1>1, <2>1, <3>1, <3>2 DEF CallTyped
  <2> QED
    BY <1>1, <1>4, <2>3, <2>4, <2>5
<1>14. CASE DeliverRefused
  <2>1. call # None /\ call.m # None
    BY <1>14 DEF DeliverRefused, Delivering
  <2>2. call \in DeliveryOf(sealed)
    BY <2>1, InProgress
  <2>3. /\ call' = [call EXCEPT !.i = @ + 1,
                      !.stale = @ \/ AnswersStale(Routes[call.i], call.packet)]
        /\ UNCHANGED <<now, crashes, relays, sealed, sender, recipient, poll, saved>>
    BY <1>14 DEF DeliverRefused
  <2>4. RelaysTyped(sealed)'
    BY <1>1, <2>3 DEF RelaysTyped
  <2>5. CallTyped(sealed, call')
    <3> DEFINE stale == call.stale \/ AnswersStale(Routes[call.i], call.packet)
    <3>1. stale \in BOOLEAN /\ call' = [call EXCEPT !.i = @ + 1, !.stale = stale]
      BY <2>3
    <3> HIDE DEF stale
    <3>0. call.i \in Nat \ {0} /\ call.i + 1 \in Nat \ {0}
      BY <2>2 DEF DeliveryOf, Delivery
    <3>2. call' \in DeliveryOf(sealed)
      <4> DEFINE j == call.i + 1
      <4>1. call' = [call EXCEPT !.i = j, !.stale = stale]
        BY <3>1
      <4> HIDE DEF j
      <4>2. j \in Nat \ {0}
        BY <3>0 DEF j
      <4> QED
        BY <2>2, <3>1, <4>1, <4>2 DEF DeliveryOf, Delivery
    <3>3. call'.card = call.card /\ call'.packet = call.packet /\ call'.m = call.m
      BY <2>2, <3>1 DEF DeliveryOf, Delivery
    <3> QED
      BY <1>1, <2>1, <3>2, <3>3 DEF CallTyped
  <2> QED
    BY <1>1, <1>4, <2>3, <2>4, <2>5
<1>15. CASE DeliverRefresh
  <2>1. call # None /\ call.m # None
    BY <1>15 DEF DeliverRefresh, RoundOver
  <2>2. /\ call \in DeliveryOf(sealed) /\ call.packet \in sealed /\ call.packet.m = call.m
        /\ Routes \in Seq(Relays)
    BY <2>1, InProgress
  <2>3. call.m \in Msgs /\ call.kind \in {"send", "retry"} /\ call.todo \in SUBSET Msgs
    BY <2>2 DEF DeliveryOf, Delivery
  <2>4. PICK read \in mail_card(sender.pin, Routes) :
          /\ sender' = [sender EXCEPT !.pin = read.pin,
                           !.messages[call.m].packet =
                               IF call.kind = "retry" THEN call.packet ELSE @]
          /\ IF ~read.ok
             THEN /\ call' = IF call.kind = "send" THEN None ELSE Next_(call.todo)
                  /\ UNCHANGED sealed
             ELSE IF read.pin = call.card
             THEN call' = [call EXCEPT !.refreshed = TRUE] /\ UNCHANGED sealed
             ELSE BeginRound(call.kind, call.m, call.packet, read.pin, TRUE, call.todo)
    BY <1>15 DEF DeliverRefresh
  <2>5. read.pin \in Cards \cup {NoCard}
    BY <1>2, <2>2, CardRead
  <2>6. SenderTyped(sealed, sender')
    <3> DEFINE old == sender.messages[call.m]
               p == IF call.kind = "retry" THEN call.packet ELSE old.packet
               msg == [status |-> old.status, packet |-> p]
               f == [sender.messages EXCEPT ![call.m] = msg]
    <3>1. old \in Message(sealed) /\ (old.packet # None => old.packet.m = call.m)
      BY <1>1, <1>2, <2>3 DEF SenderTyped
    <3>2. p \in sealed \cup {None} /\ (p # None => p.m = call.m)
      BY <2>2, <3>1 DEF Message
    <3>3. sender' = [sender EXCEPT !.pin = read.pin, !.messages = f]
      <4>1. msg = [old EXCEPT !.packet = p]
        BY <3>1 DEF Message
      <4> HIDE DEF msg, p
      <4>2. sender = [pin |-> sender.pin, messages |-> sender.messages]
            /\ sender.messages \in [Msgs -> Message(sealed)]
        BY <1>2 DEF SenderState
      <4>3. /\ sender'.pin = read.pin
            /\ sender' = [pin |-> sender'.pin, messages |-> sender'.messages]
        BY <2>4, <4>2
      <4>4. sender'.messages = [sender.messages EXCEPT ![call.m].packet =
                                   IF call.kind = "retry" THEN call.packet ELSE @]
        BY <2>4, <4>2
      <4>5. sender'.messages = [sender.messages EXCEPT ![call.m] = [old EXCEPT !.packet = p]]
        BY <2>3, <4>2, <4>4 DEF p
      <4> QED
        BY <4>1, <4>2, <4>3, <4>5
    <3> HIDE DEF p
    <3>4. msg \in Message(sealed) /\ msg.packet = p
      BY <3>1, <3>2 DEF Message
    <3> HIDE DEF msg
    <3>5. f \in [Msgs -> Message(sealed)]
      BY <1>2, <3>4 DEF SenderState
    <3>6. \A k \in Msgs : f[k] = IF k = call.m THEN msg ELSE sender.messages[k]
      BY <1>2 DEF SenderState
    <3> HIDE DEF f
    <3>7. sender' \in SenderState(sealed) /\ sender'.messages = f
      BY <1>2, <2>5, <3>3, <3>5 DEF SenderState
    <3> QED
      BY <1>1, <3>2, <3>4, <3>6, <3>7 DEF SenderTyped
  <2>7. /\ sealed \subseteq sealed' /\ sealed' \subseteq Packet /\ IsFiniteSet(sealed')
        /\ CallTyped(sealed', call')
    <3>1. CASE ~read.ok
      <4>1. sealed' = sealed /\ (call' = None \/ (call' \in BetweenMessages /\ call'.m = None))
        BY <2>3, <2>4, <3>1 DEF Next_, BetweenMessages
      <4> QED
        BY <1>1, <4>1 DEF CallTyped
    <3>2. CASE read.ok /\ read.pin = call.card
      <4>1. sealed' = sealed /\ call' = [call EXCEPT !.refreshed = TRUE]
        BY <2>4, <3>2
      <4>2. call' \in DeliveryOf(sealed)
        BY <2>2, <4>1 DEF DeliveryOf, Delivery
      <4>3. call'.card = call.card /\ call'.packet = call.packet /\ call'.m = call.m
        BY <2>2, <4>1 DEF DeliveryOf, Delivery
      <4> QED
        BY <1>1, <2>1, <4>1, <4>2, <4>3 DEF CallTyped
    <3>3. CASE read.ok /\ read.pin # call.card
      <4>1. BeginRound(call.kind, call.m, call.packet, read.pin, TRUE, call.todo)
        BY <2>4, <3>3
      <4> QED
        BY <1>1, <2>2, <2>3, <2>5, <4>1, RoundTyped
    <3> QED
      BY <3>1, <3>2, <3>3
  <2>8. SenderTyped(sealed', sender')
    BY <2>6, <2>7, SealedGrows
  <2> QED
    BY <1>3, <1>15, <2>7, <2>8 DEF DeliverRefresh
<1>16. CASE DeliverFailed
  <2>1. call # None /\ call.m # None
    BY <1>16 DEF DeliverFailed, RoundOver
  <2>2. call \in DeliveryOf(sealed) /\ call.packet \in sealed /\ call.packet.m = call.m
    BY <2>1, InProgress
  <2>3. /\ \/ call' = None /\ UNCHANGED sender
           \/ EndMessage("queued", call.packet)
        /\ UNCHANGED <<now, crashes, relays, sealed, recipient, poll, saved>>
    BY <1>16 DEF DeliverFailed
  <2>4. SenderTyped(sealed, sender')
    <3>1. call.m \in Msgs
      BY <2>2 DEF DeliveryOf, Delivery
    <3> QED
      BY <1>1, <2>2, <2>3, <3>1, MessageEnds DEF EndMessage
  <2>5. CallTyped(sealed, call')
    BY <2>2, <2>3 DEF EndMessage, CallTyped, Next_, BetweenMessages, DeliveryOf, Delivery
  <2>6. RelaysTyped(sealed)'
    BY <1>1, <2>3 DEF RelaysTyped
  <2> QED
    BY <1>4, <2>3, <2>4, <2>5, <2>6
<1>17. CASE PollStart
  <2>1. PollRoutes \in Seq(Relays)
    BY <1>1, CardNumbers, PollRoutesExact DEF RecipientState
  <2>2. poll' \in PollState \cup {None}
    BY <1>17, <2>1, PollStateTyped DEF PollStart
  <2>3. recipient' \in RecipientState
    BY <1>1, <1>17 DEF PollStart, RecipientState
  <2> QED
    BY <1>5, <1>17, <2>2, <2>3 DEF PollStart
<1>18. ASSUME NEW S, NEW listed \in Seq(S), BetweenRoutes, Accept(listed) PROVE MailTyped'
  <2>1. poll \in PollState
    BY <1>1, <1>18 DEF BetweenRoutes
  <2>2. recipient' \in RecipientState /\ poll' \in PollState \cup {None}
    BY <1>18, <2>1, AcceptTyped
  <2> QED
    BY <1>5, <1>18, <2>2 DEF Accept
<1>19. CASE PollRoute \/ PollRouteFails
  <2>1. BetweenRoutes /\ \E listed \in Seq(Packet \cup Undecryptable[Head(poll.todo)]) : Accept(listed)
    BY <1>19, PollReads
  <2> QED
    BY <1>18, <2>1
<1>22. CASE PollDelete
  <2> DEFINE p == Head(poll.deletions)
             r == Head(poll.todo)
  <2>1. poll \in PollState /\ poll.deletions # <<>>
    BY <1>1, <1>22 DEF PollDelete
  <2>2. r \in Relays /\ Tail(poll.todo) \in Seq(Relays) /\ Tail(poll.deletions) \in Seq(Packet)
    BY <2>1 DEF PollState
  <2>3. poll' \in PollState \cup {None}
    <3>1. [poll EXCEPT !.deletions = Tail(poll.deletions)] \in PollState
      BY <2>1, <2>2 DEF PollState
    <3> QED
      BY <1>22, <2>2, <3>1, PollStateTyped DEF PollDelete
  <2>4. packets' = packets \/ packets' = [packets EXCEPT ![r] = RemoveFirst(@, p)]
    BY <1>22 DEF PollDelete
  <2>5. ASSUME NEW q \in Relays PROVE packets'[q] \in Seq(Packet \cup Undecryptable[q])
    <3>1. packets[q] \in Seq(Packet \cup Undecryptable[q]) /\ DOMAIN packets = Relays
      BY <1>1 DEF RelaysTyped
    <3>2. RemoveFirst(packets[q], p) \in Seq(Packet \cup Undecryptable[q])
      BY <3>1, RemoveFirstExact
    <3> QED
      BY <2>4, <3>1, <3>2
  <2>6. DOMAIN packets' = Relays
    BY <1>1, <2>4 DEF RelaysTyped
  <2>7. UNCHANGED <<now, crashes, card, taken, sealed, sender, call, recipient, saved>>
    BY <1>22 DEF PollDelete
  <2>8. RelaysTyped(sealed)'
    BY <1>1, <2>5, <2>6, <2>7 DEF RelaysTyped
  <2> QED
    BY <1>1, <2>3, <2>7, <2>8 DEF MailTyped
<1>23. CASE SaveSender
  <2>1. /\ saved' \in [sender : SenderState(sealed), recipient : RecipientState]
        /\ saved'.sender = sender
    BY <1>1, <1>2, <1>23 DEF SaveSender
  <2> QED
    BY <1>1, <1>23, <2>1 DEF SaveSender, MailTyped, RelaysTyped
<1>24. CASE SaveRecipient
  <2>1. /\ saved' \in [sender : SenderState(sealed), recipient : RecipientState]
        /\ saved'.sender = saved.sender
    BY <1>1, <1>2, <1>24 DEF SaveRecipient
  <2> QED
    BY <1>1, <1>24, <2>1 DEF SaveRecipient, MailTyped, RelaysTyped
<1>25. CASE CrashSender
  BY <1>1, <1>25 DEF CrashSender, MailTyped, RelaysTyped, CallTyped
<1>26. CASE CrashRecipient
  BY <1>1, <1>2, <1>26 DEF CrashRecipient, MailTyped, RelaysTyped
<1>27. CASE UNCHANGED vars
  BY <1>1, <1>27 DEF vars, MailTyped, RelaysTyped
<1> QED
  BY <1>6, <1>7, <1>8, <1>9, <1>10, <1>11, <1>12, <1>13, <1>14, <1>15, <1>16, <1>17,
     <1>19, <1>22, <1>23, <1>24, <1>25, <1>26, <1>27, <1>28
     DEF Next, SenderStep, RecipientStep

(* Every state of the two connectors and their relays is typed; packets    *)
(* are sealed before they are anywhere, and a delivery goes to the routes  *)
(* of the card its packet is sealed under (mail_tools.rs, deliver).        *)
THEOREM MailTyping == Spec => []MailTyped
<1>1. Init => MailTyped
  BY InitTyped
<1>2. MailTyped /\ [Next]_vars => MailTyped'
  BY StepTyped
<1> QED
  BY <1>1, <1>2, PTL DEF Spec
-----------------------------------------------------------------------------
(* Of the packets of a message among S, p is sealed under the newest card. *)
IsNewest(S, p, m) == p \in S /\ p.m = m /\ \A q \in S : q.m = m => q.card <= p.card

InDelivery(m) == call # None /\ call.m = m

(* At time t every card up to c has expired.                               *)
Past(c, t) == \A d \in 1..c : t >= usable_until[d]

(* No message is sealed twice under a card, or under one newer than the    *)
(* pin, unless that is a card whose pin was dropped with its time over.    *)
SealedOnce(S, pin, t) ==
    /\ \A p, q \in S : p.m = q.m /\ p.card = q.card => p = q
    /\ \A p \in S : p.card <= pin \/ Past(p.card, t)

(* Before any crash: a queued message, and the delivery in progress, have  *)
(* the packet under the newest of its cards; a message being sent is not   *)
(* queued; and a retry has queued messages left to do.                     *)
SealedInOrder ==
    /\ SealedOnce(sealed, sender.pin, now)
    /\ \A m \in Msgs :
          Queued(m) /\ ~InDelivery(m) => IsNewest(sealed, sender.messages[m].packet, m)
    /\ call # None /\ call.m # None =>
          IsNewest(sealed, call.packet, call.m) /\ (call.kind = "send" => ~Queued(call.m))
    /\ call # None => \A m \in call.todo : Queued(m) /\ m # call.m

SealingInv == crashes = 0 => SealedInOrder

(* A round over card c begins with the newest packet of its message, or    *)
(* does not begin, and the other messages keep their newest packets.       *)
BegunInOrder(kind, m, c, refreshed, todo) ==
    /\ SealedOnce(sealed', c, now)
    /\ \A p : \A k \in Msgs : k # m /\ IsNewest(sealed, p, k) => IsNewest(sealed', p, k)
    /\ \/ sealed' = sealed /\ call' = GoesOn(kind, todo)
       \/ \E p \in Packet : /\ call' = Started(kind, m, p, refreshed, todo)
                             /\ IsNewest(sealed', p, m)

(* What is sealed in order stays so as time passes and the pin moves on.   *)
LEMMA SealedStays ==
  ASSUME MailTyped, NEW pin \in Cards \cup {NoCard}, NEW c \in Cards \cup {NoCard},
         NEW t \in Nat, NEW u \in Nat, c >= pin, u >= t, SealedOnce(sealed, pin, t)
  PROVE  SealedOnce(sealed, c, u)
<1>1. pin \in Nat /\ c \in Nat /\ \A p \in sealed : p.card \in Cards /\ p.card \in Nat
  BY CardNumbers DEF MailTyped, Packet
<1>2. ASSUME NEW p \in sealed, Past(p.card, t) PROVE Past(p.card, u)
  <2>1. \A d \in 1..p.card : usable_until[d] \in Nat
    BY <1>1, CardNumbers, CardData
  <2> QED
    BY <1>2, <2>1 DEF Past
<1> QED
  BY <1>1, <1>2 DEF SealedOnce

(* And as a pin is dropped whose time is over.                             *)
LEMMA SealedAtDrop ==
  ASSUME MailTyped, NEW pin \in Cards, now >= pinned_until[pin],
         SealedOnce(sealed, pin, now)
  PROVE  SealedOnce(sealed, NoCard, now)
<1>1. /\ now \in Nat /\ pin \in Nat
      /\ \A p \in sealed : p.card \in Cards /\ p.card \in Nat
  BY CardNumbers DEF MailTyped, Packet
<1>2. ASSUME NEW p \in sealed, p.card <= pin PROVE Past(p.card, now)
  <2> SUFFICES ASSUME NEW d \in 1..p.card PROVE now >= usable_until[d]
    BY DEF Past
  <2>1. d \in 1..pin /\ d \in Cards
    BY <1>1, <1>2, CardNumbers
  <2>2. usable_until[d] <= pinned_until[pin]
    BY <2>1, CardsInTimeOrder
  <2>3. usable_until[d] \in Nat /\ pinned_until[pin] \in Nat
    BY <2>1, ConnectorMailAssumption
  <2> QED
    BY <1>1, <2>2, <2>3
<1> QED
  BY <1>2 DEF SealedOnce

(* So does every round with the newest packet, if any, in hand.            *)
LEMMA RoundSealed ==
  ASSUME MailTyped, SealedOnce(sealed, sender.pin, now),
         NEW kind, NEW m \in Msgs, NEW packet, NEW c \in Cards \cup {NoCard},
         NEW refreshed, NEW todo, c >= sender.pin,
         packet = None => Unsent(m), packet # None => IsNewest(sealed, packet, m),
         BeginRound(kind, m, packet, c, refreshed, todo)
  PROVE  BegunInOrder(kind, m, c, refreshed, todo)
<1>1. /\ sealed \subseteq Packet /\ IsFiniteSet(sealed) /\ sender.pin \in Nat /\ c \in Nat
      /\ \A p \in sealed : p.card \in Nat
  BY CardNumbers DEF MailTyped, SenderTyped, SenderState, Packet
<1>2. packet # None => packet \in sealed /\ packet.m = m
  BY DEF IsNewest
<1>6. now \in Nat /\ sender.pin \in Cards \cup {NoCard} /\ now >= now
  BY DEF MailTyped, SenderTyped, SenderState
<1>3. CASE sealed' = sealed /\ call' = GoesOn(kind, todo)
  BY <1>1, <1>3, SealedStays, <1>6 DEF BegunInOrder
<1>4. ASSUME NEW p \in Packet, p.m = m, p.card = c,
             call' = Started(kind, m, p, refreshed, todo), sealed' = sealed \cup {p},
             \/ packet # None /\ p = packet
             \/ (packet = None \/ packet.card # c) /\ Encryptable(m, c)
      PROVE  /\ SealedOnce(sealed', c, now)
             /\ \A q : \A k \in Msgs : k # m /\ IsNewest(sealed, q, k) => IsNewest(sealed', q, k)
             /\ IsNewest(sealed', p, m)
  <2>1. \A q \in sealed : q.m = m => q = p \/ q.card < c
    <3>1. CASE packet = None
      BY <3>1 DEF Unsent
    <3>2. CASE packet # None /\ p = packet
      BY <1>1, <1>4, <3>2 DEF IsNewest, SealedOnce
    <3>3. CASE packet # None /\ packet.card # c /\ Encryptable(m, c)
      <4>1. packet.card <= c
        <5>1. c \in Cards /\ now < usable_until[c]
          BY <3>3 DEF Encryptable, Usable
        <5>2. now \in Nat /\ usable_until[c] \in Nat /\ c \in Nat \ {0}
          BY <5>1, CardData DEF MailTyped
        <5>3. CASE packet.card <= sender.pin
          BY <1>1, <1>2, <3>3, <5>3
        <5>4. CASE Past(packet.card, now) /\ packet.card > c
          <6>1. c \in 1..packet.card
            BY <1>1, <1>2, <3>3, <5>2, <5>4
          <6> QED
            BY <5>1, <5>2, <5>4, <6>1 DEF Past
        <5> QED
          BY <1>1, <1>2, <3>3, <5>3, <5>4 DEF SealedOnce
      <4> QED
        BY <1>1, <1>2, <3>3, <4>1 DEF IsNewest
    <3> QED
      BY <1>4, <3>1, <3>2, <3>3
  <2>3. SealedOnce(sealed', c, now)
    <3>1. SealedOnce(sealed, c, now)
      BY <1>6, SealedStays
    <3> QED
      BY <1>1, <1>4, <2>1, <3>1 DEF SealedOnce
  <2>4. IsNewest(sealed', p, m)
    BY <1>1, <1>4, <2>1 DEF IsNewest
  <2>5. \A q : \A k \in Msgs : k # m /\ IsNewest(sealed, q, k) => IsNewest(sealed', q, k)
    BY <1>4 DEF IsNewest
  <2> QED
    BY <2>3, <2>4, <2>5
<1>5. ASSUME NEW p \in Packet, p.m = m, p.card = c,
             call' = Started(kind, m, p, refreshed, todo), sealed' = sealed \cup {p},
             \/ packet # None /\ p = packet
             \/ (packet = None \/ packet.card # c) /\ Encryptable(m, c)
      PROVE  BegunInOrder(kind, m, c, refreshed, todo)
  BY <1>4, <1>5 DEF BegunInOrder
<1> QED
  BY <1>1, <1>2, <1>3, <1>5, RoundBegins

(* The order of the sealings is kept by every step.                        *)
LEMMA StepSealed ==
  ASSUME MailTyped, SealingInv, [Next]_vars
  PROVE  SealingInv'
<1> USE DEF relays
<1>1. MailTyped'
  BY StepTyped
<1>2. CASE UNCHANGED <<sealed, sender, call>> /\ (crashes' = 0 => crashes = 0) /\ now' >= now
  <2>1. SealedOnce(sealed, sender.pin, now) => SealedOnce(sealed', sender'.pin, now')
    <3>1. now \in Nat /\ sender.pin \in Cards \cup {NoCard}
      BY DEF MailTyped, SenderTyped, SenderState
    <3>2. now' \in Nat
      BY <1>1 DEF MailTyped
    <3>3. \A c \in Cards \cup {NoCard} : c >= c
      <4>1. \A c \in Cards \cup {NoCard} : c \in Nat
        BY CardNumbers
      <4>2. \A c \in Nat : c >= c
        OBVIOUS
      <4> QED
        BY <4>1, <4>2
    <3>4. PICK pin \in Cards \cup {NoCard}, t, u \in Nat :
            pin = sender.pin /\ pin >= pin /\ t = now /\ u = now' /\ t \in Nat /\ u >= t
      BY <1>2, <3>1, <3>2, <3>3
    <3>5. SealedOnce(sealed, pin, t) => SealedOnce(sealed, pin, u)
      BY <3>4, SealedStays
    <3> QED
      BY <1>2, <3>4, <3>5
  <2> QED
    BY <1>2, <2>1 DEF SealingInv, SealedInOrder, Queued, InDelivery
<1>3. crashes \in Nat /\ \A m \in Msgs : m # None
  BY ConnectorMailAssumption DEF MailTyped
<1>4. ASSUME crashes' = crashes, SealedInOrder => SealedInOrder' PROVE SealingInv'
  BY <1>4 DEF SealingInv
<1>5. SenderTyped(sealed, sender) /\ CallTyped(sealed, call) /\ sender.pin \in Cards \cup {NoCard}
      /\ card \in [Relays -> Cards \cup {NoCard}] /\ sender \in SenderState(sealed)
      /\ recipient.published \in Cards \cup {NoCard}
  BY DEF MailTyped, SenderTyped, SenderState, RelaysTyped, RecipientState
<1>9. \A c \in Cards \cup {NoCard} : c \in Nat
  BY CardNumbers
<1>21. now \in Nat /\ now >= now
  BY DEF MailTyped
<1>6. ASSUME NEW m \in Msgs, SendStart(m), now' = now, SealedInOrder PROVE SealedInOrder'
  <2>1. PICK address \in 1..recipient.published :
          \E read \in mail_card(sender.pin, CardRoutes[address]) :
             /\ sender' = [sender EXCEPT !.pin = read.pin]
             /\ IF read.ok THEN BeginRound("send", m, None, read.pin, FALSE, {})
                ELSE UNCHANGED <<call, sealed>>
    BY <1>6 DEF SendStart
  <2>2. PICK read \in mail_card(sender.pin, CardRoutes[address]) :
          /\ sender' = [sender EXCEPT !.pin = read.pin]
          /\ IF read.ok THEN BeginRound("send", m, None, read.pin, FALSE, {})
             ELSE UNCHANGED <<call, sealed>>
    BY <2>1
  <2>3. CardRoutes[address] \in Seq(Relays)
    BY <1>5, CardNumbers, CardData
  <2>4. read.pin \in Cards \cup {NoCard} /\ read.pin >= sender.pin
    <3>1. /\ read.pin \in Cards \cup {NoCard}
          /\ read.pin # sender.pin => read.pin > sender.pin
      BY <1>5, <2>3, CardRead
    <3> QED
      BY <1>5, <1>9, <3>1
  <2>5. call = None /\ sender.messages[m] = NoMessage /\ Unsent(m)
    BY <1>6 DEF SendStart
  <2>6. sender'.pin = read.pin /\ sender'.messages = sender.messages
    BY <1>5, <2>2 DEF SenderState
  <2>7. SealedOnce(sealed, sender.pin, now) /\ ~Queued(m)
    BY <1>6, <2>5 DEF SealedInOrder, Queued, NoMessage
  <2>8. CASE read.ok
    <3>1. BeginRound("send", m, None, read.pin, FALSE, {})
      BY <2>2, <2>8
    <3>2. /\ SealedOnce(sealed', read.pin, now)
          /\ \A p : \A k \in Msgs : k # m /\ IsNewest(sealed, p, k) => IsNewest(sealed', p, k)
          /\ \/ sealed' = sealed /\ call' = GoesOn("send", {})
             \/ \E p \in Packet : /\ call' = Started("send", m, p, FALSE, {})
                                   /\ IsNewest(sealed', p, m)
      <4>1. BegunInOrder("send", m, read.pin, FALSE, {})
        BY <2>4, <2>5, <2>7, <3>1, RoundSealed
      <4> QED
        BY <4>1 DEF BegunInOrder
    <3>3. ASSUME NEW k \in Msgs, Queued(k)
          PROVE  k # m /\ IsNewest(sealed', sender.messages[k].packet, k)
      BY <1>6, <2>5, <2>7, <3>2, <3>3 DEF SealedInOrder, InDelivery
    <3>4. call' = None \/ /\ call'.todo = {} /\ call'.m = m
                          /\ IsNewest(sealed', call'.packet, m)
      BY <3>2 DEF GoesOn, Started
    <3> QED
      BY <1>6, <2>6, <2>7, <3>2, <3>3, <3>4 DEF SealedInOrder, Queued
  <2>9. CASE ~read.ok
    <3>1. sealed' = sealed /\ call' = None
      BY <2>2, <2>5, <2>9
    <3>2. SealedOnce(sealed, sender'.pin, now)
      BY <1>5, <1>21, <2>4, <2>6, <2>7, SealedStays
    <3> QED
      BY <1>6, <2>5, <2>6, <3>1, <3>2 DEF SealedInOrder, Queued, InDelivery
  <2> QED
    BY <2>8, <2>9
<1>7. ASSUME SyncStart, now' = now, SealedInOrder PROVE SealedInOrder'
  <2>1. /\ call = None /\ sealed' = sealed /\ sender' = sender
        /\ call'.m = None /\ call'.todo \subseteq {m \in Msgs : Queued(m)}
    BY <1>7 DEF SyncStart, Next_
  <2> QED
    BY <1>3, <1>7, <2>1 DEF SealedInOrder, Queued, InDelivery
(* A prune between the messages of a retry, or between calls.              *)
<1>22. ASSUME sender' = prune_mail(sender), sealed' = sealed, call' = None, now' = now,
              call = None \/ call.m = None, SealedInOrder
       PROVE  SealedInOrder'
  <2>1. /\ sender'.pin = sender.pin \/ sender'.pin = NoCard
        /\ sender'.pin # sender.pin => sender.pin \in Cards /\ now >= pinned_until[sender.pin]
        /\ \A m \in Msgs : sender'.messages[m].status = "queued" =>
              sender'.messages[m] = sender.messages[m]
    BY <1>5, <1>21, <1>22, Pruned
  <2>2. SealedOnce(sealed, sender.pin, now)
    BY <1>22 DEF SealedInOrder
  <2>3. SealedOnce(sealed, sender'.pin, now)
    BY <2>1, <2>2, SealedAtDrop
  <2> QED
    BY <1>3, <1>22, <2>1, <2>3 DEF SealedInOrder, Queued, InDelivery
<1>23. ASSUME PruneMail, now' = now, SealedInOrder PROVE SealedInOrder'
  BY <1>22, <1>23 DEF PruneMail
<1>8. ASSUME RetryNext, now' = now, SealedInOrder PROVE SealedInOrder'
  <2>1. call # None /\ call.m = None /\ call \in BetweenMessages
    BY <1>5, <1>8, <1>3 DEF RetryNext, CallTyped, DeliveryOf, Delivery
  <2>2. CASE call.todo = {}
    <3>1. sender' = prune_mail(sender) /\ call' = None /\ sealed' = sealed
      BY <1>8, <2>2 DEF RetryNext
    <3> QED
      BY <1>8, <1>22, <2>1, <3>1
  <2>4. CASE call.todo # {} /\ sender.pin = NoCard
    <3>1. PICK m \in call.todo : call' = Next_(call.todo \ {m}) /\ UNCHANGED <<sealed, sender>>
      BY <1>8, <2>4 DEF RetryNext
    <3>2. /\ call'.m = None /\ call'.todo \subseteq call.todo /\ call.todo \subseteq Msgs
      BY <2>1, <3>1 DEF Next_, BetweenMessages
    <3> QED
      BY <1>3, <1>8, <2>1, <3>1, <3>2 DEF SealedInOrder, Queued, InDelivery
  <2>3. CASE call.todo # {} /\ sender.pin # NoCard
    <3>1. PICK m \in call.todo :
            /\ BeginRound("retry", m, sender.messages[m].packet, sender.pin, FALSE,
                          call.todo \ {m})
            /\ UNCHANGED sender
      BY <1>8, <2>3 DEF RetryNext
    <3>2. m \in Msgs /\ call.todo \subseteq Msgs
      BY <2>1 DEF BetweenMessages
    <3>3. IsNewest(sealed, sender.messages[m].packet, m) /\ SealedOnce(sealed, sender.pin, now)
      BY <1>3, <1>8, <2>1, <3>2 DEF SealedInOrder, InDelivery
    <3>4. sender.messages[m].packet # None
      BY <3>3, ConnectorMailAssumption DEF IsNewest, MailTyped
    <3>5. sender.pin >= sender.pin
      BY <1>5, <1>9
    <3>6. /\ SealedOnce(sealed', sender.pin, now)
          /\ \A p : \A k \in Msgs : k # m /\ IsNewest(sealed, p, k) => IsNewest(sealed', p, k)
          /\ \/ sealed' = sealed /\ call' = GoesOn("retry", call.todo \ {m})
             \/ \E p \in Packet :
                   /\ call' = Started("retry", m, p, FALSE, call.todo \ {m})
                   /\ IsNewest(sealed', p, m)
      <4>1. PICK packet, todo, c :
              packet = sender.messages[m].packet /\ todo = call.todo \ {m} /\ c = sender.pin
        OBVIOUS
      <4>2. /\ BeginRound("retry", m, packet, c, FALSE, todo)
            /\ packet = None => Unsent(m)
            /\ packet # None => IsNewest(sealed, packet, m)
        BY <3>1, <3>3, <3>4, <4>1
      <4>3. /\ c \in Cards \cup {NoCard} /\ c >= sender.pin /\ SealedOnce(sealed, sender.pin, now)
            /\ m \in Msgs
        BY <1>5, <3>2, <3>3, <3>5, <4>1
      <4>4. BegunInOrder("retry", m, c, FALSE, todo)
        BY <4>2, <4>3, RoundSealed
      <4> QED
        BY <4>1, <4>4 DEF BegunInOrder
    <3>7. \/ sealed' = sealed /\ call'.m = None /\ call'.todo = call.todo \ {m}
          \/ /\ call'.m = m /\ call'.todo = call.todo \ {m} /\ call'.kind = "retry"
             /\ IsNewest(sealed', call'.packet, m)
      BY <3>6 DEF GoesOn, Next_, Started
    <3>8. ASSUME NEW k \in Msgs, Queued(k) PROVE IsNewest(sealed, sender.messages[k].packet, k)
      BY <1>3, <1>8, <2>1, <3>8 DEF SealedInOrder, InDelivery
    <3>9. \A k \in call.todo : Queued(k)
      BY <1>8, <2>1 DEF SealedInOrder
    <3>10. CASE sealed' = sealed /\ call'.m = None /\ call'.todo = call.todo \ {m}
      BY <1>3, <1>8, <3>1, <3>2, <3>3, <3>8, <3>9, <3>10 DEF SealedInOrder, Queued
    <3>11. CASE /\ call'.m = m /\ call'.todo = call.todo \ {m} /\ call'.kind = "retry"
                /\ IsNewest(sealed', call'.packet, m)
      <4>1. ASSUME NEW k \in Msgs, Queued(k)', ~InDelivery(k)', call' # None
            PROVE  IsNewest(sealed', sender'.messages[k].packet, k)
        <5>1. k # m /\ Queued(k) /\ sender' = sender
          BY <3>1, <3>11, <4>1 DEF InDelivery, Queued
        <5> QED
          BY <3>6, <3>8, <5>1
      <4>2. CASE call' # None
        BY <1>8, <3>1, <3>2, <3>6, <3>9, <3>11, <4>1, <4>2 DEF SealedInOrder, Queued
      <4>3. call' # None
        <5>1. call'.m # None /\ call.todo \ {m} \in SUBSET Msgs
          BY <1>3, <3>2, <3>11
        <5>2. \A p \in Packet : Started("retry", m, p, FALSE, call.todo \ {m}) # None
          BY <3>2, <5>1, StartedIsDelivery
        <5>3. GoesOn("retry", call.todo \ {m}).m = None
          BY DEF GoesOn, Next_
        <5> QED
          BY <3>6, <5>1, <5>2, <5>3
      <4> QED
        BY <4>2, <4>3
    <3> QED
      BY <3>7, <3>10, <3>11
  <2> QED
    BY <2>2, <2>3, <2>4
(* The end of a delivery, with the status and packet its message gets.     *)
<1>10. ASSUME call # None, call.m # None, NEW status,
              EndMessage(status, call.packet), sealed' = sealed, now' = now, SealedInOrder
       PROVE  SealedInOrder'
  <2>1. /\ call \in DeliveryOf(sealed) /\ call.m \in Msgs /\ call.kind \in {"send", "retry"}
        /\ call.todo \subseteq Msgs
    BY <1>10, InProgress DEF DeliveryOf, Delivery
  <2>2. /\ sender'.pin = sender.pin
        /\ \A m \in Msgs : m # call.m => sender'.messages[m] = sender.messages[m]
        /\ sender'.messages[call.m].packet = call.packet
    BY <1>5, <1>10, <2>1 DEF EndMessage, SenderState
  <2>3. /\ IsNewest(sealed, call.packet, call.m) /\ SealedOnce(sealed, sender.pin, now)
        /\ \A m \in call.todo : Queued(m) /\ m # call.m
        /\ \A m \in Msgs : Queued(m) /\ m # call.m => IsNewest(sealed, sender.messages[m].packet, m)
    BY <1>10 DEF SealedInOrder, InDelivery
  <2>4. call' = None \/ (call'.m = None /\ call'.todo = call.todo)
    BY <1>10 DEF EndMessage, Next_
  <2>5. ASSUME NEW m \in Msgs, Queued(m)' PROVE IsNewest(sealed, sender'.messages[m].packet, m)
    BY <2>1, <2>2, <2>3, <2>5 DEF Queued
  <2>6. \A m \in call.todo : Queued(m)'
    BY <2>1, <2>2, <2>3 DEF Queued
  <2> QED
    BY <1>3, <1>10, <2>1, <2>2, <2>3, <2>4, <2>5, <2>6 DEF SealedInOrder
<1>11. ASSUME DeliverAccepted, now' = now, SealedInOrder PROVE SealedInOrder'
  BY <1>10, <1>11 DEF DeliverAccepted, Delivering
(* A delivery that goes on to its next route.                              *)
<1>12. ASSUME call # None, call.m # None, UNCHANGED <<now, sealed, sender>>, call' # None,
              call'.packet = call.packet, call'.m = call.m, call'.kind = call.kind,
              call'.todo = call.todo, SealedInOrder
       PROVE  SealedInOrder'
  BY <1>12 DEF SealedInOrder, Queued, InDelivery
<1>13. ASSUME call # None, call.m # None, UNCHANGED <<now, sealed, sender>>, SealedInOrder,
              \/ call' = [call EXCEPT !.i = @ + 1, !.transient = TRUE]
              \/ call' = [call EXCEPT !.i = @ + 1,
                             !.stale = @ \/ AnswersStale(Routes[call.i], call.packet)]
              \/ call' = [call EXCEPT !.refreshed = TRUE]
       PROVE  SealedInOrder'
  <2>1. call \in DeliveryOf(sealed)
    BY <1>13, InProgress
  <2>2. /\ call'.packet = call.packet /\ call'.m = call.m /\ call'.kind = call.kind
        /\ call'.todo = call.todo
    BY <1>13, <2>1 DEF DeliveryOf, Delivery
  <2>3. call' \in Delivery
    <3>1. call.i \in Nat \ {0} /\ call.i + 1 \in Nat \ {0}
      BY <2>1 DEF DeliveryOf, Delivery
    <3>2. \E j \in Nat \ {0}, stale \in BOOLEAN :
             \/ call' = [call EXCEPT !.i = j, !.transient = TRUE]
             \/ call' = [call EXCEPT !.i = j, !.stale = stale]
             \/ call' = [call EXCEPT !.refreshed = TRUE]
      <4>1. (call.stale \/ AnswersStale(Routes[call.i], call.packet)) \in BOOLEAN
        OBVIOUS
      <4> QED
        BY <1>13, <3>1, <4>1
    <3> QED
      BY <2>1, <3>2 DEF DeliveryOf, Delivery
  <2> QED
    BY <1>12, <1>13, <2>2, <2>3, ConnectorMailAssumption
<1>14. ASSUME DeliverTransient, now' = now, SealedInOrder PROVE SealedInOrder'
  BY <1>13, <1>14 DEF DeliverTransient, Delivering
<1>15. ASSUME DeliverRefused, now' = now, SealedInOrder PROVE SealedInOrder'
  BY <1>13, <1>15 DEF DeliverRefused, Delivering
<1>16. ASSUME DeliverFailed, now' = now, SealedInOrder PROVE SealedInOrder'
  <2>1. CASE call.kind = "send" /\ ~call.transient
    <3>1. call' = None /\ UNCHANGED <<sealed, sender>>
      BY <1>16, <2>1 DEF DeliverFailed
    <3>2. call # None /\ call.m # None
      BY <1>16 DEF DeliverFailed, RoundOver
    <3> QED
      BY <1>16, <2>1, <3>1, <3>2 DEF SealedInOrder, Queued, InDelivery
  <2>2. CASE ~(call.kind = "send" /\ ~call.transient)
    BY <1>10, <1>16, <2>2 DEF DeliverFailed, RoundOver
  <2> QED
    BY <2>1, <2>2
<1>17. ASSUME DeliverRefresh, now' = now, SealedInOrder PROVE SealedInOrder'
  <2>1. call # None /\ call.m # None
    BY <1>17 DEF DeliverRefresh, RoundOver
  <2>2. /\ call \in DeliveryOf(sealed) /\ Routes \in Seq(Relays) /\ call.packet \in sealed
        /\ call.packet # None /\ call.card = call.packet.card
    BY <2>1, InProgress
  <2>3. /\ call.m \in Msgs /\ call.kind \in {"send", "retry"} /\ call.todo \in SUBSET Msgs
        /\ call.refreshed \in BOOLEAN
    BY <2>2 DEF DeliveryOf, Delivery
  <2>4. PICK read \in mail_card(sender.pin, Routes) :
          /\ sender' = [sender EXCEPT !.pin = read.pin,
                           !.messages[call.m].packet =
                               IF call.kind = "retry" THEN call.packet ELSE @]
          /\ IF ~read.ok
             THEN /\ call' = IF call.kind = "send" THEN None ELSE Next_(call.todo)
                  /\ UNCHANGED sealed
             ELSE IF read.pin = call.card
             THEN call' = [call EXCEPT !.refreshed = TRUE] /\ UNCHANGED sealed
             ELSE BeginRound(call.kind, call.m, call.packet, read.pin, TRUE, call.todo)
    BY <1>17 DEF DeliverRefresh
  <2>5. read.pin \in Cards \cup {NoCard} /\ read.pin >= sender.pin
    <3>1. /\ read.pin \in Cards \cup {NoCard}
          /\ read.pin # sender.pin => read.pin > sender.pin
      BY <1>5, <2>2, CardRead
    <3> QED
      BY <1>5, <1>9, <3>1
  <2>6. /\ sender'.pin = read.pin
        /\ \A m \in Msgs : m # call.m => sender'.messages[m] = sender.messages[m]
        /\ sender'.messages[call.m].status = sender.messages[call.m].status
        /\ call.kind = "retry" => sender'.messages[call.m].packet = call.packet
    <3>1. sender.messages \in [Msgs -> Message(sealed)]
          /\ sender = [pin |-> sender.pin, messages |-> sender.messages]
      BY <1>5 DEF SenderState
    <3>2. /\ sender'.pin = read.pin
          /\ sender'.messages = [sender.messages EXCEPT ![call.m].packet =
                                   IF call.kind = "retry" THEN call.packet ELSE @]
      BY <2>4, <3>1
    <3>3. sender.messages[call.m] \in Message(sealed)
      BY <2>3, <3>1
    <3> QED
      BY <2>3, <3>1, <3>2, <3>3 DEF Message
  <2>7. /\ IsNewest(sealed, call.packet, call.m) /\ SealedOnce(sealed, sender.pin, now)
        /\ call.kind = "send" => ~Queued(call.m)
        /\ \A m \in call.todo : Queued(m) /\ m # call.m
        /\ \A m \in Msgs : Queued(m) /\ m # call.m => IsNewest(sealed, sender.messages[m].packet, m)
    BY <1>17, <2>1 DEF SealedInOrder, InDelivery
  <2>8. SealedOnce(sealed, sender'.pin, now)
    BY <1>5, <1>21, <2>5, <2>6, <2>7, SealedStays
  <2>9. /\ \A m \in Msgs : Queued(m)' <=> Queued(m)
        /\ \A m \in Msgs : Queued(m) => IsNewest(sealed, sender'.messages[m].packet, m)
    BY <2>3, <2>6, <2>7 DEF Queued
  <2>10. ASSUME sealed' = sealed, call' = GoesOn(call.kind, call.todo) PROVE SealedInOrder'
    <3>1. call' = None \/ (call'.m = None /\ call'.todo = call.todo)
      BY <2>10 DEF GoesOn, Next_
    <3> QED
      BY <1>3, <1>17, <2>3, <2>7, <2>8, <2>9, <2>10, <3>1 DEF SealedInOrder
  <2>11. CASE ~read.ok
    BY <2>4, <2>10, <2>11 DEF GoesOn
  <2>12. CASE read.ok /\ read.pin = call.card
    <3>1. sealed' = sealed /\ call' = [call EXCEPT !.refreshed = TRUE]
      BY <2>4, <2>12
    <3>2. /\ call'.packet = call.packet /\ call'.m = call.m /\ call'.kind = call.kind
          /\ call'.todo = call.todo
      BY <2>2, <3>1 DEF DeliveryOf, Delivery
    <3> QED
      BY <1>17, <2>3, <2>7, <2>8, <2>9, <3>1, <3>2 DEF SealedInOrder
  <2>13. CASE read.ok /\ read.pin # call.card
    <3>1. PICK kind, m, packet, todo :
            kind = call.kind /\ m = call.m /\ packet = call.packet /\ todo = call.todo
      OBVIOUS
    <3>2. /\ BeginRound(kind, m, packet, read.pin, TRUE, todo)
          /\ packet = None => Unsent(m)
          /\ packet # None => IsNewest(sealed, packet, m)
      BY <2>2, <2>4, <2>7, <2>13, <3>1
    <3>3. m \in Msgs /\ todo \in SUBSET Msgs /\ kind \in {"send", "retry"}
      BY <2>3, <3>1
    <3>4. BegunInOrder(kind, m, read.pin, TRUE, todo)
      BY <2>5, <2>7, <3>2, <3>3, RoundSealed
    <3>5. CASE sealed' = sealed /\ call' = GoesOn(kind, todo)
      BY <2>10, <3>1, <3>5
    <3>6. ASSUME NEW p \in Packet, call' = Started(kind, m, p, TRUE, todo), IsNewest(sealed', p, m)
          PROVE  SealedInOrder'
      <4>1. /\ call'.m = m /\ call'.todo = todo /\ call'.kind = kind /\ call'.packet = p
            /\ call' # None
        BY <3>3, <3>6, StartedIsDelivery DEF Started
      <4>2. SealedOnce(sealed', sender'.pin, now)
        BY <2>6, <3>4 DEF BegunInOrder
      <4>3. ASSUME NEW k \in Msgs, Queued(k)', ~InDelivery(k)'
            PROVE  IsNewest(sealed', sender'.messages[k].packet, k)
        <5>1. k # m /\ Queued(k)
          BY <2>9, <4>1, <4>3 DEF InDelivery
        <5>2. IsNewest(sealed, sender'.messages[k].packet, k)
          BY <2>9, <5>1
        <5> QED
          BY <3>4, <5>1, <5>2 DEF BegunInOrder
      <4>4. /\ kind = "send" => ~Queued(m)'
            /\ \A k \in todo : Queued(k)' /\ k # m
        BY <2>3, <2>7, <2>9, <3>1
      <4> QED
        BY <1>17, <3>6, <4>1, <4>2, <4>3, <4>4 DEF SealedInOrder
    <3> QED
      BY <3>4, <3>5, <3>6 DEF BegunInOrder
  <2> QED
    BY <2>11, <2>12, <2>13
<1>18. CASE \/ Tick \/ Publish \/ RecipientStep \/ PollRoute \/ CrashRecipient
            \/ SaveSender \/ (\E r \in Relays : RelayTakesCard(r)) \/ UNCHANGED vars
  <2>1. CASE Tick \/ Publish \/ SaveSender \/ UNCHANGED vars
    <3>1. now' >= now
      BY <1>21, <2>1 DEF Tick, Publish, SaveSender, vars
    <3> QED
      BY <1>2, <2>1, <3>1 DEF Tick, Publish, SaveSender, vars
  <2>2. CASE PollStart \/ PollDelete \/ SaveRecipient
    BY <1>2, <1>21, <2>2 DEF PollStart, PollDelete, SaveRecipient
  <2>3. ASSUME NEW listed, Accept(listed) PROVE SealingInv'
    BY <1>2, <1>21, <2>3 DEF Accept
  <2>4. CASE PollRoute \/ PollRouteFails
    BY <2>3, <2>4 DEF PollRoute, PollRouteFails
  <2>5. CASE CrashRecipient
    BY <1>2, <1>3, <1>21, <2>5 DEF CrashRecipient
  <2>6. CASE \E r \in Relays : RelayTakesCard(r)
    BY <1>2, <1>21, <2>6 DEF RelayTakesCard
  <2> QED
    BY <1>18, <2>1, <2>2, <2>4, <2>5, <2>6 DEF RecipientStep
<1>19. CASE CrashSender
  BY <1>3, <1>19 DEF CrashSender, SealingInv
<1>20. CASE (\E m \in Msgs : SendStart(m)) \/ PruneMail \/ SyncStart \/ RetryNext
            \/ DeliverAccepted \/ DeliverTransient \/ DeliverRefused \/ DeliverRefresh
            \/ DeliverFailed
  <2>1. crashes' = crashes /\ now' = now
    BY <1>20 DEF SendStart, PruneMail, SyncStart, RetryNext, DeliverAccepted, DeliverTransient,
       DeliverRefused, DeliverRefresh, DeliverFailed
  <2> QED
    BY <1>4, <1>6, <1>7, <1>8, <1>11, <1>14, <1>15, <1>16, <1>17, <1>20, <1>23, <2>1
<1> QED
  BY <1>18, <1>19, <1>20 DEF Next, SenderStep, RecipientStep

(* Until a connector crashes, no message is sealed twice under one card:   *)
(* retries, also after a refresh of the card, submit the packet sealed     *)
(* before (mail_tools.rs, deliver).                                        *)
THEOREM SealsOncePerCard == Spec => []SealedOncePerCard
<1>1. Init => SealingInv
  BY DEF Init, SealingInv, SealedInOrder, SealedOnce, Queued, NoMessage
<1>2. MailTyped /\ SealingInv /\ [Next]_vars => SealingInv'
  BY StepSealed
<1>3. SealingInv => SealedOncePerCard
  BY DEF SealingInv, SealedInOrder, SealedOnce, SealedOncePerCard
<1> QED
  BY <1>1, <1>2, <1>3, MailTyping, PTL DEF Spec
-----------------------------------------------------------------------------
(* A message is notified at most once, and it is stored then or expired:   *)
(* in the state of the recipient and in the one its host saved.            *)
NotifiedWhenStored(r) ==
    \A m \in Msgs :
        /\ r.notified[m] \in {0, 1}
        /\ r.notified[m] = 1 => m \in r.messages \/ now >= expires_at[m]

NotifiedInv == NotifiedWhenStored(recipient) /\ NotifiedWhenStored(saved.recipient)

(* What an acceptance does to the messages and notices of the recipient.   *)
LEMMA AcceptEffect ==
  ASSUME MailTyped, NEW S, NEW listed \in Seq(S), Accept(listed)
  PROVE  LET a == Accepted(listed, recipient.messages)
         IN  /\ AcceptedUpTo(a, listed, recipient.messages, Len(listed))
             /\ recipient'.published = recipient.published
             /\ recipient'.messages = a.messages
             /\ \A m \in Msgs : recipient'.notified[m] =
                   IF m \in a.new THEN recipient.notified[m] + 1 ELSE recipient.notified[m]
             /\ poll' = IF a.deletions = <<>> THEN Polling(Tail(poll.todo))
                        ELSE [poll EXCEPT !.deletions = a.deletions]
             /\ UNCHANGED <<now, crashes, relays, sealed, sender, call, saved>>
<1> DEFINE a == Accepted(listed, recipient.messages)
<1>1. recipient \in RecipientState /\ recipient.messages \in SUBSET Msgs /\ now \in Nat
  BY DEF MailTyped, RecipientState
<1>2. AcceptedUpTo(a, listed, recipient.messages, Len(listed))
  BY <1>1, AcceptedExact
<1>3. /\ recipient' = [recipient EXCEPT !.messages = a.messages,
               !.notified = [m \in Msgs |-> IF m \in a.new THEN @[m] + 1 ELSE @[m]]]
      /\ poll' = IF a.deletions = <<>> THEN Polling(Tail(poll.todo))
                 ELSE [poll EXCEPT !.deletions = a.deletions]
      /\ UNCHANGED <<now, crashes, relays, sealed, sender, call, saved>>
  BY DEF Accept
<1> HIDE DEF a
<1>4. /\ recipient'.published = recipient.published
      /\ recipient'.messages = a.messages
      /\ \A m \in Msgs : recipient'.notified[m] =
            IF m \in a.new THEN recipient.notified[m] + 1 ELSE recipient.notified[m]
  BY <1>1, <1>3 DEF RecipientState
<1> QED
  BY <1>2, <1>3, <1>4 DEF a

(* That the saved notices are sound is kept by every step.                 *)
LEMMA StepNotified ==
  ASSUME MailTyped, NotifiedInv, [Next]_vars
  PROVE  NotifiedInv'
<1> USE DEF relays
<1>1. /\ now \in Nat /\ \A m \in Msgs : expires_at[m] \in Nat
      /\ recipient \in RecipientState /\ saved.recipient \in RecipientState
      /\ saved \in [sender : SenderState(sealed), recipient : RecipientState]
  BY ConnectorMailAssumption DEF MailTyped
<1>2. CASE UNCHANGED <<now, recipient, saved>>
  BY <1>2 DEF NotifiedInv, NotifiedWhenStored
<1>3. CASE Tick
  BY <1>1, <1>3 DEF Tick, NotifiedInv, NotifiedWhenStored
<1>4. CASE Publish
  <2>1. /\ recipient'.messages = recipient.messages /\ recipient'.notified = recipient.notified
        /\ saved'.recipient = recipient' /\ now' = now
    BY <1>1, <1>4 DEF Publish, RecipientState
  <2> QED
    BY <2>1 DEF NotifiedInv, NotifiedWhenStored
<1>5. CASE PollStart
  <2>1. /\ recipient'.messages = {m \in recipient.messages : now < expires_at[m]}
        /\ recipient'.notified = recipient.notified
        /\ UNCHANGED <<now, saved>>
    BY <1>1, <1>5 DEF PollStart, RecipientState
  <2>2. NotifiedWhenStored(saved.recipient)'
    BY <2>1 DEF NotifiedInv, NotifiedWhenStored
  <2>3. NotifiedWhenStored(recipient)'
    BY <1>1, <2>1 DEF NotifiedInv, NotifiedWhenStored
  <2> QED
    BY <2>2, <2>3 DEF NotifiedInv
<1>6. ASSUME NEW S, NEW listed \in Seq(S), Accept(listed) PROVE NotifiedInv'
  <2> DEFINE a == Accepted(listed, recipient.messages)
  <2>1. /\ AcceptedUpTo(a, listed, recipient.messages, Len(listed))
        /\ recipient'.messages = a.messages
        /\ \A m \in Msgs : recipient'.notified[m] =
              IF m \in a.new THEN recipient.notified[m] + 1 ELSE recipient.notified[m]
        /\ UNCHANGED <<now, saved>>
    BY <1>6, AcceptEffect
  <2> HIDE DEF a
  <2>2. /\ a.messages = recipient.messages \cup a.new
        /\ \A m \in a.new : now < expires_at[m] /\ m \notin recipient.messages
    BY <2>1 DEF AcceptedUpTo
  <2>3. ASSUME NEW m \in Msgs
        PROVE  /\ recipient'.notified[m] \in {0, 1}
               /\ recipient'.notified[m] = 1 => m \in recipient'.messages \/ now >= expires_at[m]
    <3>1. /\ recipient.notified[m] \in {0, 1}
          /\ recipient.notified[m] = 1 => m \in recipient.messages \/ now >= expires_at[m]
      BY DEF NotifiedInv, NotifiedWhenStored
    <3>2. CASE m \in a.new
      BY <1>1, <2>1, <2>2, <3>1, <3>2
    <3>3. CASE m \notin a.new
      BY <2>1, <2>2, <3>1, <3>3
    <3> QED
      BY <3>2, <3>3
  <2> QED
    BY <2>1, <2>3 DEF NotifiedInv, NotifiedWhenStored
<1>7. CASE PollRoute \/ PollRouteFails
  BY <1>6, <1>7, PollReads
<1>8. CASE SaveRecipient
  BY <1>1, <1>8 DEF SaveRecipient, NotifiedInv, NotifiedWhenStored
<1>9. CASE CrashRecipient
  BY <1>9 DEF CrashRecipient, NotifiedInv, NotifiedWhenStored
<1>10. CASE SaveSender
  <2>1. saved'.recipient = saved.recipient /\ UNCHANGED <<now, recipient>>
    BY <1>1, <1>10 DEF SaveSender
  <2> QED
    BY <2>1 DEF NotifiedInv, NotifiedWhenStored
<1>11. CASE (\E r \in Relays : RelayTakesCard(r)) \/ PollDelete \/ UNCHANGED vars
  BY <1>2, <1>11 DEF RelayTakesCard, PollDelete, vars
<1>12. CASE (\E m \in Msgs : SendStart(m)) \/ PruneMail \/ SyncStart \/ RetryNext
            \/ DeliverAccepted \/ DeliverTransient \/ DeliverRefused \/ DeliverRefresh
            \/ DeliverFailed \/ CrashSender
  <2>1. UNCHANGED <<now, recipient, saved>>
    BY <1>12 DEF SendStart, PruneMail, SyncStart, RetryNext, DeliverAccepted, DeliverTransient,
       DeliverRefused, DeliverRefresh, DeliverFailed, CrashSender
  <2> QED
    BY <1>2, <2>1
<1> QED
  BY <1>3, <1>4, <1>5, <1>7, <1>8, <1>9, <1>10, <1>11, <1>12
     DEF Next, SenderStep, RecipientStep

(* However often a message is sealed and submitted, and through whichever  *)
(* relays its copies come, its recipient is notified of it once: what a    *)
(* crash takes back is notified again, what was stored is not              *)
(* (mail_tools.rs, accept_packet).                                         *)
THEOREM NotifiesOnce == Spec => []NotifiedOnce
<1>1. Init => NotifiedInv
  BY DEF Init, NotifiedInv, NotifiedWhenStored
<1>2. MailTyped /\ NotifiedInv /\ [Next]_vars => NotifiedInv'
  BY StepNotified
<1>3. NotifiedInv => NotifiedOnce
  BY DEF NotifiedInv, NotifiedWhenStored, NotifiedOnce
<1> QED
  BY <1>1, <1>2, <1>3, MailTyping, PTL DEF Spec
-----------------------------------------------------------------------------
(* Relays have no card the recipient's host does not know of.              *)
CardsPublished ==
    /\ recipient.published = saved.recipient.published
    /\ \A r \in Relays : card[r] <= saved.recipient.published

(* The recipient can open a packet of S until it expires.                  *)
Openable(S) == \A p \in S : expires_at[p.m] <= receive_until[p.card]

(* What a relay took was sealed under a published card that names it.      *)
TakenOnRoute ==
    /\ Openable(sealed)
    /\ \A r \in Relays : \A p \in taken[r] :
          p.card <= saved.recipient.published /\ r \in ToSet(CardRoutes[p.card])

(* What a relay keeps of the packets it took, it keeps once.               *)
StoresExact ==
    \A r \in Relays : \A i \in DOMAIN packets[r] :
        packets[r][i] \in Packet =>
            /\ packets[r][i] \in taken[r]
            /\ \A j \in DOMAIN packets[r] : packets[r][j] = packets[r][i] => i = j

(* Only what some relay took is stored, here or in the saved state.        *)
StoredWasTaken == \A m \in recipient.messages \cup saved.recipient.messages : Taken(m)

(* What is saved and has not expired is still stored.                      *)
SavedIsStored ==
    \A m \in saved.recipient.messages : now < expires_at[m] => m \in recipient.messages

(* A sync visits a route once, and deletes what is stored or expired.      *)
PollSound ==
    poll # None =>
        /\ EachOnce(poll.todo)
        /\ \A i \in DOMAIN poll.deletions :
              poll.deletions[i].m \in recipient.messages \/ now >= expires_at[poll.deletions[i].m]

(* The sync in progress will not delete packet p at relay r.               *)
Spared(r, p) ==
    poll # None /\ p.m \in recipient.messages =>
        \A i \in DOMAIN poll.todo : poll.todo[i] = r =>
            /\ i = 1 /\ poll.deletions # <<>>
            /\ \A j \in DOMAIN poll.deletions : poll.deletions[j] # p

(* Relay r still has packet p, which it took, and keeps it in this sync.   *)
InStore(r, p) == \E i \in DOMAIN packets[r] : packets[r][i] = p
Kept(r, p) == p \in taken[r] /\ InStore(r, p) /\ Spared(r, p)

(* A message that the recipient's host has not saved is kept somewhere.    *)
UnsavedIsKept ==
    \A m \in Msgs : Taken(m) /\ now < expires_at[m] /\ m \notin saved.recipient.messages =>
        \E r \in Relays : \E p \in taken[r] : p.m = m /\ Kept(r, p)

LossInv ==
    /\ CardsPublished /\ TakenOnRoute /\ StoresExact
    /\ StoredWasTaken /\ SavedIsStored /\ PollSound /\ UnsavedIsKept

(* Only messages are stored.                                               *)
LEMMA RecipientMessages ==
  ASSUME MailTyped
  PROVE  recipient.messages \subseteq Msgs /\ saved.recipient.messages \subseteq Msgs
BY DEF MailTyped, RecipientState

(* What a relay that takes a packet has then.                              *)
LEMMA Taking ==
  ASSUME MailTyped, CardsPublished, TakenOnRoute, StoresExact,
         NEW r \in Relays, NEW p \in sealed, r \in ToSet(CardRoutes[p.card]), RelayTakes(r, p)
  PROVE  /\ \A q \in Relays : taken[q] \subseteq taken'[q] /\ taken'[q] \subseteq taken[q] \cup {p}
         /\ \A q \in Relays : q # r => taken'[q] = taken[q]
         /\ \A x : \A q \in Relays : InStore(q, x) => InStore(q, x)'
         /\ p \in taken[r] \/ InStore(r, p)'
         /\ p.card <= saved.recipient.published
         /\ StoresExact'
<1>1. /\ taken \in [Relays -> SUBSET sealed] /\ DOMAIN packets = Relays /\ p \in Packet
      /\ \A q \in Relays : packets[q] \in Seq(Packet \cup Undecryptable[q])
  BY DEF MailTyped, RelaysTyped
<1>2. /\ taken' = [taken EXCEPT ![r] = @ \cup {p}]
      /\ packets' = IF p \in taken[r] THEN packets ELSE [packets EXCEPT ![r] = Append(@, p)]
      /\ p \in taken[r] \/ card[r] = p.card
  BY DEF RelayTakes, RelayAccepts
<1>3. /\ \A q \in Relays : taken[q] \subseteq taken'[q] /\ taken'[q] \subseteq taken[q] \cup {p}
      /\ \A q \in Relays : q # r => taken'[q] = taken[q]
      /\ p \in taken'[r]
  BY <1>1, <1>2
<1>4. ASSUME NEW q \in Relays
      PROVE  \/ packets'[q] = packets[q]
             \/ q = r /\ p \notin taken[r] /\ packets'[q] = Append(packets[q], p)
  BY <1>1, <1>2
<1>5. ASSUME NEW q \in Relays
      PROVE  /\ Len(Append(packets[q], p)) = Len(packets[q]) + 1 /\ Len(packets[q]) \in Nat
             /\ DOMAIN Append(packets[q], p) = 1..(Len(packets[q]) + 1)
             /\ DOMAIN packets[q] = 1..Len(packets[q])
             /\ \A i \in DOMAIN packets[q] : Append(packets[q], p)[i] = packets[q][i]
             /\ Append(packets[q], p)[Len(packets[q]) + 1] = p
  BY <1>1
<1>6. ASSUME NEW q \in Relays, NEW x, InStore(q, x) PROVE InStore(q, x)'
  BY <1>4, <1>5, <1>6 DEF InStore
<1>7. p \in taken[r] \/ InStore(r, p)'
  <2>1. CASE p \notin taken[r]
    <3>1. packets'[r] = Append(packets[r], p)
      BY <1>1, <1>2, <2>1
    <3> QED
      BY <1>5, <3>1 DEF InStore
  <2> QED
    BY <2>1
<1>8. p.card <= saved.recipient.published
  BY <1>2 DEF CardsPublished, TakenOnRoute
<1>9. StoresExact'
  <2> SUFFICES ASSUME NEW q \in Relays, NEW i \in DOMAIN packets'[q], packets'[q][i] \in Packet
               PROVE  /\ packets'[q][i] \in taken'[q]
                      /\ \A j \in DOMAIN packets'[q] : packets'[q][j] = packets'[q][i] => i = j
    BY DEF StoresExact
  <2>1. CASE packets'[q] = packets[q]
    BY <1>3, <2>1 DEF StoresExact
  <2>2. CASE q = r /\ p \notin taken[r] /\ packets'[q] = Append(packets[q], p)
    <3>1. \A j \in DOMAIN packets[q] : packets[q][j] # p
      BY <1>1, <2>2 DEF StoresExact
    <3>2. \A j \in DOMAIN packets'[q] :
             \/ j \in DOMAIN packets[q] /\ packets'[q][j] = packets[q][j]
             \/ j = Len(packets[q]) + 1 /\ packets'[q][j] = p
      BY <1>5, <2>2
    <3>3. CASE i \in DOMAIN packets[q] /\ packets'[q][i] = packets[q][i]
      BY <1>3, <3>1, <3>2, <3>3 DEF StoresExact
    <3>4. CASE i = Len(packets[q]) + 1 /\ packets'[q][i] = p
      BY <1>3, <2>2, <3>1, <3>2, <3>4
    <3> QED
      BY <3>2, <3>3, <3>4
  <2> QED
    BY <1>4, <2>1, <2>2
<1> QED
  BY <1>3, <1>6, <1>7, <1>8, <1>9

(* What a deletion leaves at a relay.                                      *)
LEMMA Deleting ==
  ASSUME MailTyped, StoresExact, NEW r \in Relays, NEW p,
         packets' = [packets EXCEPT ![r] = RemoveFirst(@, p)], taken' = taken
  PROVE  /\ \A x : \A q \in Relays : InStore(q, x) /\ (q # r \/ x # p) => InStore(q, x)'
         /\ StoresExact'
<1>1. /\ DOMAIN packets = Relays
      /\ \A q \in Relays : packets[q] \in Seq(Packet \cup Undecryptable[q])
  BY DEF MailTyped, RelaysTyped
<1>2. \A q \in Relays : q # r => packets'[q] = packets[q]
  BY <1>1
<1> DEFINE s == packets[r]
           t == packets'[r]
<1>3. s \in Seq(Packet \cup Undecryptable[r]) /\ t = RemoveFirst(s, p)
  BY <1>1
<1>4. /\ t \in Seq(Packet \cup Undecryptable[r])
      /\ t = s \/ \E k \in 1..Len(s) : s[k] = p /\ RemovedAt(t, s, k)
  BY <1>3, RemoveFirstExact
<1>5. /\ \A i \in DOMAIN s : s[i] \in Packet =>
            s[i] \in taken[r] /\ \A j \in DOMAIN s : s[j] = s[i] => i = j
  BY DEF StoresExact
<1> HIDE DEF s, t
<1>6. /\ \A x : x # p /\ (\E i \in DOMAIN s : s[i] = x) => \E i \in DOMAIN t : t[i] = x
      /\ \A i \in DOMAIN t : t[i] \in Packet =>
            t[i] \in taken[r] /\ \A j \in DOMAIN t : t[j] = t[i] => i = j
  <2>1. CASE t = s
    BY <1>5, <2>1
  <2>2. ASSUME NEW k \in 1..Len(s), s[k] = p, RemovedAt(t, s, k)
        PROVE  /\ \A x : x # p /\ (\E i \in DOMAIN s : s[i] = x) => \E i \in DOMAIN t : t[i] = x
               /\ \A i \in DOMAIN t : t[i] \in Packet =>
                     t[i] \in taken[r] /\ \A j \in DOMAIN t : t[j] = t[i] => i = j
    <3> DEFINE at(i) == IF i < k THEN i ELSE i + 1
    <3>1. /\ DOMAIN s = 1..Len(s) /\ Len(s) \in Nat /\ DOMAIN t = 1..(Len(s) - 1)
          /\ \A i \in DOMAIN t : t[i] = IF i < k THEN s[i] ELSE s[i + 1]
      BY <1>3, <1>4, <2>2 DEF RemovedAt
    <3>2. \A i \in DOMAIN t : at(i) \in DOMAIN s /\ t[i] = s[at(i)]
      BY <2>2, <3>1
    <3>3. \A i, j \in DOMAIN t : at(i) = at(j) => i = j
      BY <2>2, <3>1
    <3>4. ASSUME NEW x, x # p, NEW i \in DOMAIN s, s[i] = x PROVE \E j \in DOMAIN t : t[j] = x
      <4>1. CASE i < k
        <5>1. i \in DOMAIN t /\ t[i] = s[i]
          BY <2>2, <3>1, <4>1
        <5> QED
          BY <3>4, <5>1
      <4>2. CASE ~(i < k)
        <5>1. i # k /\ i - 1 \in DOMAIN t /\ ~(i - 1 < k) /\ i - 1 + 1 = i
          BY <2>2, <3>1, <3>4, <4>2
        <5>2. t[i - 1] = s[i]
          BY <3>1, <5>1
        <5> QED
          BY <3>4, <5>1, <5>2
      <4> QED
        BY <4>1, <4>2
    <3> HIDE DEF at
    <3> QED
      BY <1>5, <3>2, <3>3, <3>4
  <2> QED
    BY <1>4, <2>1, <2>2
<1>7. \A x : \A q \in Relays : InStore(q, x) /\ (q # r \/ x # p) => InStore(q, x)'
  BY <1>2, <1>6 DEF InStore, s, t
<1>8. StoresExact'
  <2>1. \A q \in Relays : q # r => \A i \in DOMAIN packets'[q] : packets'[q][i] \in Packet =>
            /\ packets'[q][i] \in taken'[q]
            /\ \A j \in DOMAIN packets'[q] : packets'[q][j] = packets'[q][i] => i = j
    BY <1>2 DEF StoresExact
  <2>2. \A i \in DOMAIN packets'[r] : packets'[r][i] \in Packet =>
            /\ packets'[r][i] \in taken'[r]
            /\ \A j \in DOMAIN packets'[r] : packets'[r][j] = packets'[r][i] => i = j
    BY <1>6 DEF s, t
  <2> QED
    BY <2>1, <2>2 DEF StoresExact
<1> QED
  BY <1>7, <1>8
-----------------------------------------------------------------------------
(* Before anything is sent, nothing can be lost.                           *)
LEMMA InitKept ==
  ASSUME Init
  PROVE  LossInv
<1>1. MailTyped
  BY InitTyped
<1>2. /\ \A r \in Relays : taken[r] = {} /\ card[r] = NoCard
      /\ sealed = {} /\ poll = None
      /\ recipient.published = NoCard /\ recipient.messages = {} /\ saved.recipient = recipient
  BY DEF Init
<1>3. ASSUME NEW r \in Relays, NEW i \in DOMAIN packets[r] PROVE packets[r][i] \notin Packet
  <2>1. packets[r] = SetToSeq(Undecryptable[r]) /\ IsFiniteSet(Undecryptable[r])
    BY ConnectorMailAssumption DEF Init
  <2>2. packets[r] \in Seq(Undecryptable[r])
    BY <2>1, SetListed
  <2>3. packets[r][i] \in Undecryptable[r]
    BY <2>2
  <2> QED
    BY <2>3, ConnectorMailAssumption
<1>4. StoresExact
  BY <1>3 DEF StoresExact
<1> QED
  BY <1>2, <1>4 DEF LossInv, CardsPublished, TakenOnRoute, StoredWasTaken, SavedIsStored,
     PollSound, UnsavedIsKept, Taken, Openable, NoCard

(* What the properties below speak of stays as it is.                      *)
Still == UNCHANGED <<now, card, packets, taken, sealed, recipient, poll, saved.recipient>>

(* Such a step keeps what it does not touch.                               *)
LEMMA StillKept ==
  ASSUME LossInv, Still
  PROVE  LossInv'
BY DEF Still, LossInv, CardsPublished, TakenOnRoute, StoresExact, StoredWasTaken, SavedIsStored,
   PollSound, UnsavedIsKept, Taken, Kept, InStore, Spared

(* Taking a packet of its delivery, a relay loses none.                    *)
LEMMA TakingKept ==
  ASSUME MailTyped, LossInv, call # None, call.m # None, call.i <= Len(Routes),
         RelayTakes(Routes[call.i], call.packet),
         UNCHANGED <<now, sealed, recipient, poll, saved>>
  PROVE  LossInv'
<1>1. PICK r, p : r = Routes[call.i] /\ p = call.packet
  OBVIOUS
<1>2. r \in Relays /\ p \in sealed /\ r \in ToSet(CardRoutes[p.card]) /\ RelayTakes(r, p)
  BY <1>1, InProgress
<1>3. /\ \A q \in Relays : taken[q] \subseteq taken'[q] /\ taken'[q] \subseteq taken[q] \cup {p}
      /\ \A q \in Relays : q # r => taken'[q] = taken[q]
      /\ \A x : \A q \in Relays : InStore(q, x) => InStore(q, x)'
      /\ p \in taken[r] \/ InStore(r, p)'
      /\ p.card <= saved.recipient.published
      /\ StoresExact'
  BY <1>2, Taking DEF LossInv
<1>4. card' = card
  BY <1>2 DEF RelayTakes
<1>5. CardsPublished' /\ SavedIsStored' /\ PollSound'
  BY <1>4 DEF LossInv, CardsPublished, SavedIsStored, PollSound
<1>6. TakenOnRoute'
  <2>1. ASSUME NEW q \in Relays, NEW x \in taken'[q]
        PROVE  x.card <= saved.recipient.published /\ q \in ToSet(CardRoutes[x.card])
    <3>1. x \in taken[q] \/ (q = r /\ x = p)
      BY <1>3, <2>1
    <3> QED
      BY <1>2, <1>3, <3>1 DEF LossInv, TakenOnRoute
  <2> QED
    BY <2>1 DEF LossInv, TakenOnRoute
<1>7. \A m \in Msgs : Taken(m) => Taken(m)'
  BY <1>3 DEF Taken
<1>8. StoredWasTaken'
  BY <1>7, RecipientMessages DEF LossInv, StoredWasTaken
<1>9. UnsavedIsKept'
  <2> SUFFICES ASSUME NEW m \in Msgs, Taken(m)', now < expires_at[m],
                      m \notin saved.recipient.messages
               PROVE  \E q \in Relays : \E x \in taken'[q] : x.m = m /\ Kept(q, x)'
    BY DEF UnsavedIsKept
  <2>1. CASE Taken(m)
    <3>0. PICK q \in Relays : \E x \in taken[q] : x.m = m /\ Kept(q, x)
      BY <2>1 DEF LossInv, UnsavedIsKept
    <3>1. PICK x \in taken[q] : x.m = m /\ Kept(q, x)
      BY <3>0
    <3>2. x \in taken'[q] /\ InStore(q, x)' /\ Spared(q, x)'
      BY <1>3, <3>1 DEF Kept, Spared
    <3> QED
      BY <3>1, <3>2 DEF Kept
  <2>2. CASE ~Taken(m)
    <3>0. PICK q \in Relays : \E x \in taken'[q] : x.m = m
      BY DEF Taken
    <3>1. PICK x \in taken'[q] : x.m = m
      BY <3>0
    <3>2. x \notin taken[q]
      BY <2>2, <3>1 DEF Taken
    <3>3. q = r /\ x = p
      BY <1>3, <3>1, <3>2
    <3>4. m \notin recipient.messages
      BY <2>2 DEF LossInv, StoredWasTaken
    <3>5. Spared(q, x)' /\ InStore(q, x)'
      BY <1>3, <3>1, <3>2, <3>3, <3>4 DEF Spared
    <3> QED
      BY <3>1, <3>5 DEF Kept
  <2> QED
    BY <2>1, <2>2
<1> QED
  BY <1>3, <1>5, <1>6, <1>8, <1>9 DEF LossInv

(* A packet is sealed to be openable until it expires.                     *)
LEMMA RoundOpenable ==
  ASSUME MailTyped, Openable(sealed),
         NEW kind, NEW m \in Msgs, NEW packet, NEW c \in Cards \cup {NoCard},
         NEW refreshed, NEW todo, packet # None => packet \in sealed /\ packet.m = m,
         BeginRound(kind, m, packet, c, refreshed, todo)
  PROVE  Openable(sealed')
<1>1. sealed \subseteq Packet /\ IsFiniteSet(sealed)
  BY DEF MailTyped
<1>2. ASSUME NEW p \in Packet, p.m = m, p.card = c, sealed' = sealed \cup {p},
             \/ packet # None /\ p = packet
             \/ Encryptable(m, c)
      PROVE  Openable(sealed')
  <2>1. expires_at[p.m] <= receive_until[p.card]
    BY <1>2 DEF Encryptable, Openable
  <2> QED
    BY <1>2, <2>1 DEF Openable
<1> QED
  BY <1>1, <1>2, RoundBegins

(* The steps of the sender that read cards seal openable packets only.     *)
LEMMA SealingKept ==
  ASSUME MailTyped, LossInv,
         (\E m \in Msgs : SendStart(m)) \/ RetryNext \/ DeliverRefresh
  PROVE  LossInv'
<1> USE DEF relays
<1>1. UNCHANGED <<now, crashes, relays, recipient, poll, saved>>
  BY DEF SendStart, RetryNext, DeliverRefresh
<1>2. SUFFICES Openable(sealed')
  BY <1>1 DEF LossInv, CardsPublished, TakenOnRoute, StoresExact, StoredWasTaken, SavedIsStored,
     PollSound, UnsavedIsKept, Taken, Kept, InStore, Spared
<1>3. Openable(sealed)
  BY DEF LossInv, TakenOnRoute
<1>4. SenderTyped(sealed, sender) /\ CallTyped(sealed, call) /\ sender.pin \in Cards \cup {NoCard}
      /\ card \in [Relays -> Cards \cup {NoCard}] /\ sender \in SenderState(sealed)
      /\ recipient.published \in Cards \cup {NoCard}
  BY DEF MailTyped, SenderTyped, SenderState, RelaysTyped, RecipientState
<1>5. ASSUME NEW m \in Msgs, SendStart(m) PROVE Openable(sealed')
  <2>1. PICK address \in 1..recipient.published :
          \E read \in mail_card(sender.pin, CardRoutes[address]) :
             IF read.ok THEN BeginRound("send", m, None, read.pin, FALSE, {})
             ELSE UNCHANGED <<call, sealed>>
    BY <1>5 DEF SendStart
  <2>2. PICK read \in mail_card(sender.pin, CardRoutes[address]) :
          IF read.ok THEN BeginRound("send", m, None, read.pin, FALSE, {})
          ELSE UNCHANGED <<call, sealed>>
    BY <2>1
  <2>3. CardRoutes[address] \in Seq(Relays)
    BY <1>4, CardNumbers, CardData
  <2>4. read.pin \in Cards \cup {NoCard}
    BY <1>4, <2>3, CardRead
  <2>5. CASE read.ok
    <3>1. BeginRound("send", m, None, read.pin, FALSE, {})
      BY <2>2, <2>5
    <3> QED
      BY <1>3, <2>4, <3>1, RoundOpenable
  <2> QED
    BY <1>3, <2>2, <2>5
<1>6. ASSUME RetryNext PROVE Openable(sealed')
  <2>1. CASE call.todo = {}
    BY <1>3, <1>6, <2>1 DEF RetryNext
  <2>2. CASE call.todo # {}
    <3>1. PICK m \in call.todo :
            \/ UNCHANGED sealed
            \/ BeginRound("retry", m, sender.messages[m].packet, sender.pin, FALSE, call.todo \ {m})
      BY <1>6, <2>2 DEF RetryNext
    <3>2. m \in Msgs
      BY <1>4, <1>6, ConnectorMailAssumption
         DEF RetryNext, CallTyped, DeliveryOf, Delivery, BetweenMessages
    <3>3. sender.messages[m].packet # None =>
            sender.messages[m].packet \in sealed /\ sender.messages[m].packet.m = m
      BY <1>4, <3>2 DEF SenderTyped, SenderState, Message
    <3>4. PICK packet, c, todo :
            packet = sender.messages[m].packet /\ c = sender.pin /\ todo = call.todo \ {m}
      OBVIOUS
    <3>5. /\ UNCHANGED sealed \/ BeginRound("retry", m, packet, c, FALSE, todo)
          /\ c \in Cards \cup {NoCard}
          /\ packet # None => packet \in sealed /\ packet.m = m
      BY <1>4, <3>1, <3>3, <3>4
    <3> QED
      BY <1>3, <3>2, <3>5, RoundOpenable
  <2> QED
    BY <2>1, <2>2
<1>7. ASSUME DeliverRefresh PROVE Openable(sealed')
  <2>1. call # None /\ call.m # None
    BY <1>7 DEF DeliverRefresh, RoundOver
  <2>2. /\ call \in DeliveryOf(sealed) /\ call.packet \in sealed /\ call.packet.m = call.m
        /\ Routes \in Seq(Relays)
    BY <2>1, InProgress
  <2>3. PICK read \in mail_card(sender.pin, Routes) :
          \/ UNCHANGED sealed
          \/ BeginRound(call.kind, call.m, call.packet, read.pin, TRUE, call.todo)
    BY <1>7 DEF DeliverRefresh
  <2>4. read.pin \in Cards \cup {NoCard}
    BY <1>4, <2>2, CardRead
  <2>5. PICK kind, m, packet, todo :
          kind = call.kind /\ m = call.m /\ packet = call.packet /\ todo = call.todo
    OBVIOUS
  <2>6. /\ m \in Msgs /\ (packet # None => packet \in sealed /\ packet.m = m)
        /\ \/ UNCHANGED sealed
           \/ BeginRound(kind, m, packet, read.pin, TRUE, todo)
    BY <2>2, <2>3, <2>5 DEF DeliveryOf, Delivery
  <2> QED
    BY <1>3, <2>4, <2>6, RoundOpenable
<1> QED
  BY <1>5, <1>6, <1>7

(* The recipient's steps between its syncs lose nothing: what it saves it  *)
(* has stored.                                                             *)
LEMMA SavingKept ==
  ASSUME MailTyped, LossInv, poll = None, poll' = None,
         saved'.recipient.messages = recipient.messages,
         saved'.recipient.published = recipient'.published,
         recipient'.messages = recipient.messages,
         recipient'.published \in Nat, recipient'.published >= recipient.published,
         UNCHANGED <<now, card, packets, taken, sealed>>
  PROVE  LossInv'
<1>1. /\ recipient.published \in Nat /\ recipient.published = saved.recipient.published
      /\ \A r \in Relays : card[r] \in Nat
      /\ \A p \in sealed : p.card \in Nat
      /\ taken \in [Relays -> SUBSET sealed]
  BY CardNumbers DEF MailTyped, RecipientState, RelaysTyped, Packet, LossInv, CardsPublished
<1>2. ASSUME recipient'.published \in Nat PROVE CardsPublished' /\ TakenOnRoute'
  <2>1. CardsPublished'
    BY <1>1, <1>2 DEF LossInv, CardsPublished
  <2>2. ASSUME NEW r \in Relays, NEW p \in taken[r]
        PROVE  p.card <= recipient'.published /\ r \in ToSet(CardRoutes[p.card])
    <3>1. p \in sealed /\ p.card \in Nat /\ p.card <= recipient.published
      BY <1>1 DEF LossInv, TakenOnRoute
    <3> QED
      BY <1>1, <1>2, <3>1 DEF LossInv, TakenOnRoute
  <2> QED
    BY <2>1, <2>2 DEF LossInv, TakenOnRoute
<1>4. StoresExact' /\ StoredWasTaken' /\ SavedIsStored' /\ PollSound'
  BY DEF LossInv, StoresExact, StoredWasTaken, SavedIsStored, PollSound, Taken
<1>5. UnsavedIsKept'
  <2> SUFFICES ASSUME NEW m \in Msgs, Taken(m), now < expires_at[m], m \notin recipient.messages
               PROVE  \E r \in Relays : \E p \in taken[r] : p.m = m /\ Kept(r, p)'
    BY DEF UnsavedIsKept, Taken
  <2>1. m \notin saved.recipient.messages
    BY DEF LossInv, SavedIsStored
  <2>2. \E r \in Relays : \E p \in taken[r] : p.m = m /\ Kept(r, p)
    BY <2>1 DEF LossInv, UnsavedIsKept
  <2> QED
    BY <2>2 DEF Kept, InStore, Spared
<1> QED
  BY <1>2, <1>4, <1>5 DEF LossInv

(* A sync that begins drops expired messages only.                         *)
LEMMA StartKept ==
  ASSUME MailTyped, LossInv, PollStart
  PROVE  LossInv'
<1> USE DEF relays
<1>1. /\ UNCHANGED <<now, card, packets, taken, sealed, saved>>
      /\ saved.recipient = recipient
      /\ recipient'.published = recipient.published
      /\ recipient'.messages = {m \in recipient.messages : now < expires_at[m]}
      /\ poll' = Polling(PollRoutes)
  BY DEF PollStart, MailTyped, RecipientState
<1>2. EachOnce(PollRoutes)
  BY CardNumbers, PollRoutesExact DEF MailTyped, RecipientState
<1>3. PollSound'
  BY <1>1, <1>2 DEF Polling, PollSound, EachOnce
<1>4. CardsPublished' /\ TakenOnRoute' /\ StoresExact' /\ StoredWasTaken' /\ SavedIsStored'
  BY <1>1 DEF LossInv, CardsPublished, TakenOnRoute, StoresExact, StoredWasTaken, SavedIsStored, Taken
<1>5. UnsavedIsKept'
  <2> SUFFICES ASSUME NEW m \in Msgs, Taken(m), now < expires_at[m],
                      m \notin saved.recipient.messages
               PROVE  \E r \in Relays : \E p \in taken[r] : p.m = m /\ Kept(r, p)'
    BY <1>1 DEF UnsavedIsKept, Taken
  <2>1. \E r \in Relays : \E p \in taken[r] : p.m = m /\ Kept(r, p)
    BY DEF LossInv, UnsavedIsKept
  <2>2. m \notin recipient'.messages
    BY <1>1
  <2> QED
    BY <1>1, <2>1, <2>2 DEF Kept, InStore, Spared
<1> QED
  BY <1>3, <1>4, <1>5 DEF LossInv

(* A route's packets that are accepted: a copy stays of what is stored.    *)
LEMMA AcceptKept ==
  ASSUME MailTyped, LossInv, PollRoute \/ PollRouteFails
  PROVE  LossInv'
<1> USE DEF relays
<1>1. PICK r0 : r0 = Head(poll.todo)
  OBVIOUS
<1>2. /\ poll \in PollState /\ r0 \in Relays /\ poll # None /\ poll.deletions = <<>>
      /\ \E listed \in Seq(Packet \cup Undecryptable[r0]) : Accept(listed) /\ FirstPart(listed, packets[r0])
  BY <1>1, PollReads DEF BetweenRoutes
<1>3. PICK listed \in Seq(Packet \cup Undecryptable[r0]) :
        Accept(listed) /\ FirstPart(listed, packets[r0])
  BY <1>2
<1>4. PICK messages, a : messages = recipient.messages /\ a = Accepted(listed, messages)
  OBVIOUS
<1>5. /\ AcceptedUpTo(a, listed, messages, Len(listed))
      /\ recipient'.published = recipient.published
      /\ recipient'.messages = a.messages
      /\ poll' = IF a.deletions = <<>> THEN Polling(Tail(poll.todo))
                 ELSE [poll EXCEPT !.deletions = a.deletions]
      /\ UNCHANGED <<now, card, packets, taken, sealed, saved>>
  BY <1>3, <1>4, AcceptEffect
<1>6. /\ a.messages = messages \cup a.new /\ a.deletions \in Seq(Packet)
      /\ \A j \in DOMAIN a.deletions :
            a.deletions[j].m \in a.messages \/ now >= expires_at[a.deletions[j].m]
  BY <1>5 DEF AcceptedUpTo, Acceptance
<1>7. DOMAIN listed = 1..Len(listed)
  BY <1>3
(* Each packet is listed once, so what a message is stored from stays.     *)
<1>8. ASSUME NEW m \in a.new
      PROVE  \E p \in taken[r0] : /\ p.m = m /\ InStore(r0, p)
                                   /\ \A j \in DOMAIN a.deletions : a.deletions[j] # p
  <2>1. PacketsOnce(listed)
    BY <1>2, <1>3 DEF PacketsOnce, FirstPart, LossInv, StoresExact
  <2>2. PICK i \in DOMAIN listed : /\ listed[i] \in Packet /\ listed[i].m = m
                                   /\ \A j \in DOMAIN a.deletions : a.deletions[j] # listed[i]
    BY <1>5, <1>7, <1>8, <2>1 DEF AcceptedUpTo
  <2>3. i \in DOMAIN packets[r0] /\ packets[r0][i] = listed[i]
    BY <1>3, <2>2 DEF FirstPart
  <2>4. listed[i] \in taken[r0] /\ InStore(r0, listed[i])
    BY <1>2, <2>2, <2>3 DEF LossInv, StoresExact, InStore
  <2> QED
    BY <2>2, <2>4
<1>9. /\ poll.todo \in Seq(Relays) /\ poll.todo # <<>> /\ EachOnce(poll.todo)
      /\ poll.todo[1] = r0 /\ 1 \in DOMAIN poll.todo
  BY <1>1, <1>2 DEF PollState, LossInv, PollSound
<1>10. /\ DOMAIN Tail(poll.todo) = 1..(Len(poll.todo) - 1) /\ Len(poll.todo) \in Nat
       /\ DOMAIN poll.todo = 1..Len(poll.todo)
       /\ \A i \in DOMAIN Tail(poll.todo) : Tail(poll.todo)[i] = poll.todo[i + 1]
  BY <1>9
<1>11. /\ EachOnce(Tail(poll.todo))
       /\ \A i \in DOMAIN Tail(poll.todo) : Tail(poll.todo)[i] # r0
       /\ \A i \in DOMAIN Tail(poll.todo) : \E j \in DOMAIN poll.todo : poll.todo[j] = Tail(poll.todo)[i]
  <2>1. \A i \in DOMAIN Tail(poll.todo) : i + 1 \in DOMAIN poll.todo /\ i + 1 # 1 /\ i \in Nat
    BY <1>10
  <2>2. \A i, j \in DOMAIN Tail(poll.todo) : i + 1 = j + 1 => i = j
    BY <1>10
  <2> QED
    BY <1>9, <1>10, <2>1, <2>2 DEF EachOnce
(* What is left of the sync.                                               *)
<1>12. poll' # None =>
         \/ a.deletions = <<>> /\ poll'.todo = Tail(poll.todo) /\ poll'.deletions = <<>>
         \/ a.deletions # <<>> /\ poll'.todo = poll.todo /\ poll'.deletions = a.deletions
  BY <1>2, <1>5 DEF Polling, PollState
<1>13. PollSound'
  BY <1>5, <1>6, <1>9, <1>11, <1>12 DEF PollSound
<1>14. a.new \subseteq Msgs /\ \A m \in a.new : Taken(m)
  BY <1>2, <1>5, <1>8 DEF AcceptedUpTo, Acceptance, Taken
<1>15. CardsPublished' /\ TakenOnRoute' /\ StoresExact' /\ StoredWasTaken' /\ SavedIsStored'
  BY <1>4, <1>5, <1>6, <1>14
     DEF LossInv, CardsPublished, TakenOnRoute, StoresExact, StoredWasTaken, SavedIsStored, Taken
<1>16. UnsavedIsKept'
  <2> SUFFICES ASSUME NEW m \in Msgs, Taken(m), now < expires_at[m],
                      m \notin saved.recipient.messages
               PROVE  \E r \in Relays : \E p \in taken[r] : p.m = m /\ Kept(r, p)'
    BY <1>5 DEF UnsavedIsKept, Taken
  <2>1. PICK r \in Relays : \E p \in taken[r] : p.m = m /\ Kept(r, p)
    BY DEF LossInv, UnsavedIsKept
  <2>2. PICK p \in taken[r] : p.m = m /\ Kept(r, p)
    BY <2>1
  <2>3. CASE m \notin a.messages
    BY <1>5, <2>2, <2>3 DEF Kept, InStore, Spared
  <2>4. CASE m \in messages
    <3>1. \A i \in DOMAIN poll.todo : poll.todo[i] # r
      BY <1>2, <1>4, <2>2, <2>4 DEF Kept, Spared
    <3>2. poll' # None => \A i \in DOMAIN poll'.todo : poll'.todo[i] # r
      BY <1>11, <1>12, <3>1
    <3> QED
      BY <1>5, <2>2, <3>2 DEF Kept, InStore, Spared
  <2>5. CASE m \in a.new
    <3>1. PICK q \in taken[r0] : /\ q.m = m /\ InStore(r0, q)
                                 /\ \A j \in DOMAIN a.deletions : a.deletions[j] # q
      BY <1>8, <2>5
    <3>2. Spared(r0, q)'
      <4>1. ASSUME poll' # None, NEW i \in DOMAIN poll'.todo, poll'.todo[i] = r0
            PROVE  /\ i = 1 /\ poll'.deletions # <<>>
                   /\ \A j \in DOMAIN poll'.deletions : poll'.deletions[j] # q
        <5>1. a.deletions # <<>> /\ poll'.todo = poll.todo /\ poll'.deletions = a.deletions
          BY <1>11, <1>12, <4>1
        <5>2. i = 1
          BY <1>9, <4>1, <5>1 DEF EachOnce
        <5> QED
          BY <3>1, <5>1, <5>2
      <4> QED
        BY <4>1 DEF Spared
    <3> QED
      BY <1>2, <1>5, <3>1, <3>2 DEF Kept, InStore
  <2> QED
    BY <1>6, <2>3, <2>4, <2>5
<1> QED
  BY <1>13, <1>15, <1>16 DEF LossInv

(* A deletion takes away no kept packet.                                   *)
LEMMA DeleteKept ==
  ASSUME MailTyped, LossInv, PollDelete
  PROVE  LossInv'
<1>1. PICK r0, p0 : r0 = Head(poll.todo) /\ p0 = Head(poll.deletions)
  OBVIOUS
<1>2. /\ poll # None /\ poll.deletions # <<>> /\ poll \in PollState
      /\ packets' = [packets EXCEPT ![r0] = RemoveFirst(@, p0)] \/ packets' = packets
      /\ poll' = IF Len(poll.deletions) = 1 THEN Polling(Tail(poll.todo))
                 ELSE [poll EXCEPT !.deletions = Tail(@)]
      /\ UNCHANGED <<now, crashes, card, taken, sealed, sender, call, recipient, saved>>
  BY <1>1 DEF PollDelete, MailTyped
<1>3. /\ poll.todo \in Seq(Relays) /\ poll.todo # <<>> /\ EachOnce(poll.todo)
      /\ poll.todo[1] = r0 /\ 1 \in DOMAIN poll.todo /\ r0 \in Relays
      /\ poll.deletions \in Seq(Packet) /\ 1 \in DOMAIN poll.deletions /\ poll.deletions[1] = p0
  BY <1>1, <1>2 DEF PollState, LossInv, PollSound
<1>4. /\ DOMAIN Tail(poll.todo) = 1..(Len(poll.todo) - 1) /\ Len(poll.todo) \in Nat
      /\ DOMAIN poll.todo = 1..Len(poll.todo)
      /\ \A i \in DOMAIN Tail(poll.todo) : Tail(poll.todo)[i] = poll.todo[i + 1]
  BY <1>3
<1>5. /\ DOMAIN Tail(poll.deletions) = 1..(Len(poll.deletions) - 1) /\ Len(poll.deletions) \in Nat
      /\ DOMAIN poll.deletions = 1..Len(poll.deletions)
      /\ \A i \in DOMAIN Tail(poll.deletions) :
            i + 1 \in DOMAIN poll.deletions /\ Tail(poll.deletions)[i] = poll.deletions[i + 1]
      /\ Len(poll.deletions) # 1 => Tail(poll.deletions) # <<>>
  <2>1. PICK d : d = poll.deletions
    OBVIOUS
  <2>2. d \in Seq(Packet) /\ 1 \in DOMAIN d
    BY <1>3, <2>1
  <2>3. DOMAIN d = 1..Len(d) /\ Len(d) \in Nat /\ Len(d) >= 1
    BY <2>2
  <2>4. Tail(d) \in Seq(Packet) /\ Len(Tail(d)) = Len(d) - 1
    BY <2>2, <2>3
  <2>5. DOMAIN Tail(d) = 1..(Len(d) - 1)
    BY <2>2, <2>3, <2>4
  <2>6. ASSUME NEW i \in DOMAIN Tail(d) PROVE i + 1 \in DOMAIN d /\ Tail(d)[i] = d[i + 1]
    BY <2>2, <2>3, <2>5, <2>6
  <2>7. Len(d) # 1 => Tail(d) # <<>>
    <3>1. \A x \in Seq(Packet) : x = <<>> => Len(x) = 0
      OBVIOUS
    <3>2. Tail(d) = <<>> => Len(d) - 1 = 0
      BY <2>4, <3>1
    <3> QED
      BY <2>3, <3>2
  <2> QED
    BY <2>1, <2>3, <2>5, <2>6, <2>7
<1>6. /\ EachOnce(Tail(poll.todo))
      /\ \A i \in DOMAIN Tail(poll.todo) : i + 1 \in DOMAIN poll.todo /\ i + 1 # 1
  <2>1. \A i \in DOMAIN Tail(poll.todo) : i + 1 \in DOMAIN poll.todo /\ i + 1 # 1 /\ i \in Nat
    BY <1>4
  <2>2. \A i, j \in DOMAIN Tail(poll.todo) : i + 1 = j + 1 => i = j
    BY <1>4
  <2> QED
    BY <1>3, <1>4, <2>1, <2>2 DEF EachOnce
<1>7. poll' # None =>
        \/ poll'.todo = Tail(poll.todo) /\ poll'.deletions = <<>>
        \/ /\ poll'.todo = poll.todo /\ poll'.deletions = Tail(poll.deletions)
           /\ Tail(poll.deletions) # <<>>
  BY <1>2, <1>5 DEF Polling, PollState
<1>8. PollSound'
  <2>1. \A i \in DOMAIN poll.deletions :
          poll.deletions[i].m \in recipient.messages \/ now >= expires_at[poll.deletions[i].m]
    BY <1>2 DEF LossInv, PollSound
  <2>2. CASE poll'.todo = Tail(poll.todo) /\ poll'.deletions = <<>>
    BY <1>6, <2>2 DEF PollSound
  <2>3. CASE poll'.todo = poll.todo /\ poll'.deletions = Tail(poll.deletions)
    <3>1. ASSUME NEW i \in DOMAIN poll'.deletions
          PROVE  poll'.deletions[i].m \in recipient.messages \/ now >= expires_at[poll'.deletions[i].m]
      BY <1>5, <2>1, <2>3, <3>1
    <3> QED
      BY <1>2, <1>3, <2>3, <3>1 DEF PollSound
  <2> QED
    BY <1>7, <2>2, <2>3 DEF PollSound
<1>9. /\ \A x : \A q \in Relays : InStore(q, x) /\ (q # r0 \/ x # p0) => InStore(q, x)'
      /\ StoresExact'
  <2>1. CASE packets' = packets
    BY <1>2, <2>1 DEF InStore, LossInv, StoresExact
  <2>2. CASE packets' = [packets EXCEPT ![r0] = RemoveFirst(@, p0)]
    BY <1>2, <1>3, <2>2, Deleting DEF LossInv
  <2> QED
    BY <1>2, <2>1, <2>2
<1>10. CardsPublished' /\ TakenOnRoute' /\ StoredWasTaken' /\ SavedIsStored'
  BY <1>2 DEF LossInv, CardsPublished, TakenOnRoute, StoredWasTaken, SavedIsStored, Taken
<1>11. UnsavedIsKept'
  <2> SUFFICES ASSUME NEW m \in Msgs, Taken(m), now < expires_at[m],
                      m \notin saved.recipient.messages
               PROVE  \E r \in Relays : \E p \in taken[r] : p.m = m /\ Kept(r, p)'
    BY <1>2 DEF UnsavedIsKept, Taken
  <2>1. PICK r \in Relays : \E p \in taken[r] : p.m = m /\ Kept(r, p)
    BY DEF LossInv, UnsavedIsKept
  <2>2. PICK p \in taken[r] : p.m = m /\ Kept(r, p)
    BY <2>1
  <2>3. r # r0 \/ p # p0
    <3> SUFFICES ASSUME r = r0, p = p0 PROVE FALSE
      OBVIOUS
    <3>1. p0.m \in recipient.messages
      <4>1. now \in Nat /\ expires_at[m] \in Nat
        BY ConnectorMailAssumption DEF MailTyped
      <4> QED
        BY <1>2, <1>3, <2>2, <4>1 DEF LossInv, PollSound
    <3> QED
      BY <1>2, <1>3, <2>2, <3>1 DEF Kept, Spared
  <2>4. InStore(r, p)'
    BY <1>9, <2>2, <2>3 DEF Kept
  <2>5. Spared(r, p)'
    <3> SUFFICES ASSUME poll' # None, p.m \in recipient.messages,
                        NEW i \in DOMAIN poll'.todo, poll'.todo[i] = r
                 PROVE  /\ i = 1 /\ poll'.deletions # <<>>
                        /\ \A j \in DOMAIN poll'.deletions : poll'.deletions[j] # p
      BY <1>2 DEF Spared
    <3>1. \A k \in DOMAIN poll.todo : poll.todo[k] = r =>
             k = 1 /\ \A j \in DOMAIN poll.deletions : poll.deletions[j] # p
      BY <1>2, <2>2 DEF Kept, Spared
    <3>2. CASE poll'.todo = Tail(poll.todo) /\ poll'.deletions = <<>>
      BY <1>4, <1>6, <3>1, <3>2
    <3>3. CASE /\ poll'.todo = poll.todo /\ poll'.deletions = Tail(poll.deletions)
               /\ Tail(poll.deletions) # <<>>
      BY <1>5, <3>1, <3>3
    <3> QED
      BY <1>7, <3>2, <3>3
  <2> QED
    BY <1>2, <2>2, <2>4, <2>5 DEF Kept
<1> QED
  BY <1>8, <1>9, <1>10, <1>11 DEF LossInv

(* No step loses a message.                                                *)
LEMMA StepKept ==
  ASSUME MailTyped, LossInv, [Next]_vars
  PROVE  LossInv'
<1> USE DEF relays
<1>1. CASE Tick
  <2>1. /\ now \in Nat /\ now' = now + 1
        /\ UNCHANGED <<card, packets, taken, sealed, recipient, poll, saved>>
        /\ \A m \in Msgs : expires_at[m] \in Nat
    BY <1>1, ConnectorMailAssumption DEF Tick, MailTyped
  <2>2. /\ \A m \in Msgs : now' < expires_at[m] => now < expires_at[m]
        /\ \A m \in Msgs : now >= expires_at[m] => now' >= expires_at[m]
    BY <2>1
  <2>3. ASSUME poll # None, NEW i \in DOMAIN poll.deletions PROVE poll.deletions[i].m \in Msgs
    <3>1. poll.deletions \in Seq(Packet)
      BY <2>3 DEF MailTyped, PollState
    <3>2. poll.deletions[i] \in Packet
      BY <2>3, <3>1
    <3> QED
      BY <3>2 DEF Packet
  <2>4. PollSound'
    <3>1. ASSUME poll # None, NEW i \in DOMAIN poll.deletions
          PROVE  poll.deletions[i].m \in recipient.messages \/ now' >= expires_at[poll.deletions[i].m]
      BY <2>2, <2>3, <3>1 DEF LossInv, PollSound
    <3> QED
      BY <2>1, <3>1 DEF LossInv, PollSound
  <2>5. UnsavedIsKept'
    BY <2>1, <2>2 DEF LossInv, UnsavedIsKept, Taken, Kept, InStore, Spared
  <2>6. SavedIsStored'
    <3>1. ASSUME NEW m \in saved.recipient.messages, now' < expires_at[m]
          PROVE  m \in recipient.messages
      <4>1. m \in Msgs
        BY RecipientMessages
      <4> QED
        BY <2>2, <3>1, <4>1 DEF LossInv, SavedIsStored
    <3> QED
      BY <2>1, <3>1 DEF SavedIsStored
  <2>7. CardsPublished' /\ TakenOnRoute' /\ StoresExact' /\ StoredWasTaken'
    <3>1. CardsPublished' /\ TakenOnRoute'
      BY <2>1 DEF LossInv, CardsPublished, TakenOnRoute
    <3>2. StoresExact' /\ StoredWasTaken'
      BY <2>1 DEF LossInv, StoresExact, StoredWasTaken, Taken
    <3> QED
      BY <3>1, <3>2
  <2> QED
    BY <2>4, <2>5, <2>6, <2>7 DEF LossInv
<1>2. CASE Publish
  <2>1. /\ recipient'.messages = recipient.messages
        /\ recipient'.published = recipient.published + 1
        /\ saved'.recipient = recipient' /\ poll = None
        /\ UNCHANGED <<now, card, packets, taken, sealed, poll>>
    BY <1>2 DEF Publish, MailTyped, RecipientState
  <2>2. recipient.published \in Nat
    BY CardNumbers DEF MailTyped, RecipientState
  <2> QED
    BY <2>1, <2>2, SavingKept
<1>3. ASSUME NEW r \in Relays, RelayTakesCard(r) PROVE LossInv'
  <2>1. /\ card' = [card EXCEPT ![r] = saved.recipient.published]
        /\ UNCHANGED <<now, packets, taken, sealed, recipient, poll, saved>>
    BY <1>3 DEF RelayTakesCard
  <2>2. CardsPublished'
    <3>1. /\ saved.recipient.published \in Nat /\ card \in [Relays -> Cards \cup {NoCard}]
          /\ recipient.published = saved.recipient.published
          /\ \A q \in Relays : card[q] <= saved.recipient.published
      BY CardNumbers DEF LossInv, CardsPublished, MailTyped, RelaysTyped, RecipientState
    <3>2. \A q \in Relays : card'[q] <= saved.recipient.published
      BY <2>1, <3>1
    <3> QED
      BY <2>1, <3>1, <3>2 DEF CardsPublished
  <2> QED
    BY <2>1, <2>2 DEF LossInv, TakenOnRoute, StoresExact, StoredWasTaken, SavedIsStored,
       PollSound, UnsavedIsKept, Taken, Kept, InStore, Spared
<1>4. CASE (\E m \in Msgs : SendStart(m)) \/ RetryNext \/ DeliverRefresh
  BY <1>4, SealingKept
<1>5. CASE \/ PruneMail \/ SyncStart \/ DeliverRefused \/ DeliverFailed
         \/ CrashSender \/ UNCHANGED vars
  <2>1. Still
    BY <1>5 DEF PruneMail, SyncStart, DeliverRefused, DeliverFailed, CrashSender, vars, Still
  <2> QED
    BY <2>1, StillKept
<1>6. CASE SaveSender
  <2>1. Still
    BY <1>6 DEF SaveSender, Still, MailTyped
  <2> QED
    BY <2>1, StillKept
<1>7. CASE DeliverAccepted
  BY <1>7, TakingKept DEF DeliverAccepted, Delivering
<1>8. CASE DeliverTransient
  <2>1. CASE UNCHANGED relays
    <3>1. Still
      BY <1>8, <2>1 DEF DeliverTransient, Still
    <3> QED
      BY <3>1, StillKept
  <2>2. CASE RelayTakes(Routes[call.i], call.packet)
    BY <1>8, <2>2, TakingKept DEF DeliverTransient, Delivering
  <2> QED
    BY <1>8, <2>1, <2>2 DEF DeliverTransient
<1>9. CASE PollStart
  BY <1>9, StartKept
<1>10. CASE PollRoute \/ PollRouteFails
  BY <1>10, AcceptKept
<1>11. CASE PollDelete
  BY <1>11, DeleteKept
<1>12. CASE SaveRecipient
  <2>1. /\ saved'.recipient = recipient /\ poll = None
        /\ UNCHANGED <<now, card, packets, taken, sealed, poll, recipient>>
    BY <1>12 DEF SaveRecipient, MailTyped
  <2>2. recipient.published \in Nat
    BY CardNumbers DEF MailTyped, RecipientState
  <2> QED
    BY <2>1, <2>2, SavingKept
<1>13. CASE CrashRecipient
  <2>1. /\ recipient' = saved.recipient /\ poll' = None
        /\ UNCHANGED <<now, card, packets, taken, sealed, saved>>
    BY <1>13 DEF CrashRecipient
  <2> QED
    BY <2>1 DEF LossInv, CardsPublished, TakenOnRoute, StoresExact, StoredWasTaken,
       SavedIsStored, PollSound, UnsavedIsKept, Taken, Kept, InStore, Spared
<1> QED
  BY <1>1, <1>2, <1>3, <1>4, <1>5, <1>6, <1>7, <1>8, <1>9, <1>10, <1>11, <1>12, <1>13
     DEF Next, SenderStep, RecipientStep

(* What is kept is where the recipient polls.                              *)
LEMMA KeptIsPolled ==
  ASSUME MailTyped, LossInv
  PROVE  AcceptedNotLost
<1> SUFFICES ASSUME NEW m \in Msgs, Taken(m), now < expires_at[m],
                    m \notin saved.recipient.messages
             PROVE  \E r \in ToSet(PollRoutes) : \E p \in ToSet(packets[r]) : p \in Packet /\ p.m = m
  BY DEF AcceptedNotLost
<1>1. PICK r \in Relays : \E p \in taken[r] : p.m = m /\ Kept(r, p)
  BY DEF LossInv, UnsavedIsKept
<1>2. PICK p \in taken[r] : p.m = m /\ Kept(r, p)
  BY <1>1
<1>3. p \in sealed /\ p \in Packet /\ p.card \in Cards
  BY DEF MailTyped, RelaysTyped, Packet
<1>4. /\ p.card <= recipient.published /\ r \in ToSet(CardRoutes[p.card])
      /\ expires_at[p.m] <= receive_until[p.card]
  BY <1>3 DEF LossInv, TakenOnRoute, CardsPublished, Openable
<1>5. /\ recipient.published \in Nat /\ 1..recipient.published \subseteq Cards
      /\ p.card \in 1..recipient.published
  <2>1. /\ recipient.published \in Nat /\ 1..recipient.published \subseteq Cards
        /\ p.card \in Nat /\ p.card >= 1
    <3>1. recipient.published \in Cards \cup {NoCard}
      BY DEF MailTyped, RecipientState
    <3>2. p.card \in 1..Len(CardRoutes) /\ Len(CardRoutes) \in Nat
      BY <1>3, CardNumbers
    <3>3. p.card \in Nat /\ p.card >= 1
      BY <3>2
    <3> QED
      BY <3>1, <3>3, CardNumbers
  <2> QED
    BY <1>4, <2>1
<1>6. now < receive_until[p.card]
  <2>1. now \in Nat /\ expires_at[m] \in Nat /\ receive_until[p.card] \in Nat
    BY <1>3, CardData, ConnectorMailAssumption DEF MailTyped
  <2> QED
    BY <1>2, <1>4, <2>1
<1>7. r \in ToSet(PollRoutes)
  BY <1>4, <1>5, <1>6, PollRoutesExact
<1>8. p \in ToSet(packets[r])
  BY <1>2 DEF Kept, InStore, ToSet
<1> QED
  BY <1>2, <1>3, <1>7, <1>8

(* A message some relay took is not lost before it expires, wherever a     *)
(* connector crashes: the recipient's host saved it, or a relay that the   *)
(* recipient still polls has a copy (mail_tools.rs, poll_mailboxes).       *)
THEOREM LosesNoMessage == Spec => []AcceptedNotLost
<1>1. Init => LossInv
  BY InitKept
<1>2. MailTyped /\ LossInv /\ [Next]_vars => LossInv'
  BY StepKept
<1>3. MailTyped /\ LossInv => AcceptedNotLost
  BY KeptIsPolled
<1> QED
  BY <1>1, <1>2, <1>3, MailTyping, PTL DEF Spec
=============================================================================
