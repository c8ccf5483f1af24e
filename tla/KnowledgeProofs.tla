---------------------------- MODULE KnowledgeProofs ----------------------------
(***************************************************************************)
(* The two maps of the knowledge repository stay inverse to each other,    *)
(* for every set of events, whatever order they are accepted, hidden,      *)
(* unhidden and pruned in, and whatever the consumer does meanwhile.  The  *)
(* consumer accepts every page of this service, misses no event within the *)
(* checkpoint it captured, and computes the status the service computes.   *)
(***************************************************************************)
EXTENDS KnowledgeFollower, FiniteSetsExt, FiniteSetTheorems, TLAPS

(* A set of natural numbers has a least element.  The library's induction  *)
(* rules take an operator; what is shown by induction elsewhere is shown   *)
(* here by a least counterexample.                                         *)
LEMMA LeastNumber ==
  ASSUME NEW T \in SUBSET Nat, T # {}
  PROVE  \E x \in T : \A y \in T : x <= y
<1> DEFINE R == {ss \in Nat \X Nat : ss[1] < ss[2]}
<1>1. IsWellFoundedOn(R, Nat)
  BY NatLessThanWellFounded DEF OpToRel
<1>2. \A x, y \in Nat : <<y, x>> \in R <=> y < x
  OBVIOUS
<1> HIDE DEF R
<1>3. PICK x \in T : \A y \in T : ~ (<<y, x>> \in R)
  BY <1>1, WFMin
<1>4. ASSUME NEW y \in T PROVE x <= y
  <2>1. x \in Nat /\ y \in Nat
    OBVIOUS
  <2>2. ~ (y < x)
    BY <1>2, <1>3, <2>1
  <2> QED
    BY <2>1, <2>2
<1> QED
  BY <1>4
(* A bounded set of natural numbers has a maximum, and Max is it.          *)
LEMMA MaxOfBounded ==
  ASSUME NEW b \in Nat, NEW T \in SUBSET (0..b), T # {}
  PROVE  /\ Max(T) \in T
         /\ \A y \in T : Max(T) >= y
<1> DEFINE U == {n \in Nat : b - n \in T}
<1>1. U \in SUBSET Nat /\ U # {}
  <2>1. PICK x \in T : TRUE
    OBVIOUS
  <2>2. b - x \in Nat /\ b - (b - x) = x
    BY <2>1
  <2> QED
    BY <2>1, <2>2
<1>2. PICK u \in U : \A v \in U : u <= v
  BY <1>1, LeastNumber
<1>3. b - u \in T /\ u \in Nat
  OBVIOUS
<1>4. ASSUME NEW y \in T PROVE b - u >= y
  <2>1. b - y \in Nat /\ b - (b - y) = y
    OBVIOUS
  <2>2. b - y \in U
    BY <2>1
  <2>3. u <= b - y
    BY <1>2, <2>2
  <2> QED
    BY <2>1, <2>3, <1>3
<1> QED
  BY <1>3, <1>4 DEF Max
(* A finite set of numbers can be listed in ascending order: its least     *)
(* element, then the others in that order.                                 *)
LEMMA AscendingExists ==
  ASSUME NEW S \in SUBSET Nat, IsFiniteSet(S)
  PROVE  \E s \in [1..Cardinality(S) -> S] :
           /\ \A n \in S : \E i \in DOMAIN s : s[i] = n
           /\ \A i, j \in DOMAIN s : i < j => s[i] < s[j]
<1> DEFINE Lists(s, T) ==
             /\ s \in [1..Cardinality(T) -> T]
             /\ \A n \in T : \E i \in 1..Cardinality(T) : s[i] = n
             /\ \A i, j \in 1..Cardinality(T) : i < j => s[i] < s[j]
           Bad == {n \in Nat : \E T \in SUBSET S :
                                 Cardinality(T) = n /\ ~ \E s : Lists(s, T)}
<1>1. Bad = {}
  <2> SUFFICES ASSUME Bad # {} PROVE FALSE
    OBVIOUS
  <2>1. PICK low \in Bad : \A k \in Bad : low <= k
    BY LeastNumber
  <2>0. PICK c \in SUBSET S : Cardinality(c) = low /\ ~ \E s : Lists(s, c)
    OBVIOUS
  <2>2. IsFiniteSet(c) /\ Cardinality(c) \in Nat /\ c \in SUBSET Nat
    BY FS_Subset, FS_CardinalityType
  <2>3. CASE c = {}
    <3>1. Cardinality(c) = 0
      BY <2>3, FS_EmptySet
    <3>2. Lists([i \in 1..0 |-> i], c)
      BY <2>3, <3>1
    <3> QED
      BY <2>0, <3>2
  <2>4. CASE c # {}
    <3>1. PICK m \in c : \A x \in c : m <= x
      BY <2>2, <2>4, LeastNumber
    <3> DEFINE d == c \ {m}
               k == Cardinality(d)
    <3>2. Cardinality(c) = k + 1 /\ k \in Nat
      <4>1. IsFiniteSet(d) /\ k = Cardinality(c) - 1
        BY <2>2, FS_RemoveElement
      <4>2. k \in Nat
        BY <4>1, FS_CardinalityType
      <4> QED
        BY <2>2, <4>1, <4>2
    <3>3. d \in SUBSET S /\ k \notin Bad
      <4>1. d \in SUBSET S
        OBVIOUS
      <4>2. low = k + 1
        BY <2>0, <3>2
      <4> HIDE DEF d, k, Bad
      <4>3. ~ (low <= k)
        BY <3>2, <4>2
      <4> QED
        BY <2>1, <4>1, <4>3
    <3>4. PICK s : Lists(s, d)
      BY <3>2, <3>3
    <3> DEFINE t == [i \in 1..(k + 1) |-> IF i = 1 THEN m ELSE s[i - 1]]
    <3>5. /\ s \in [1..k -> d] /\ \A n \in d : \E i \in 1..k : s[i] = n
          /\ \A i, j \in 1..k : i < j => s[i] < s[j]
      BY <3>4
    <3>6. d \subseteq c /\ c = d \cup {m} /\ m \notin d /\ \A x \in d : m < x
      BY <2>2, <3>1
    <3> HIDE DEF d, k
    <3>7. \A i \in 2..(k + 1) : i - 1 \in 1..k /\ t[i] = s[i - 1] /\ s[i - 1] \in d
      BY <3>2, <3>5
    <3>8. t[1] = m
      BY <3>2
    <3>9. t \in [1..(k + 1) -> c]
      BY <3>2, <3>5, <3>6, <3>7, <3>8
    <3>10. \A x \in c : \E i \in 1..(k + 1) : t[i] = x
      <4> TAKE x \in c
      <4>1. CASE x = m
        <5>1. 1 \in 1..(k + 1)
          BY <3>2
        <5> HIDE DEF t
        <5> QED
          BY <3>8, <4>1, <5>1
      <4>2. CASE x \in d
        <5>1. PICK i \in 1..k : s[i] = x
          BY <3>5, <4>2
        <5>2. i + 1 \in 2..(k + 1) /\ (i + 1) - 1 = i /\ i + 1 \in 1..(k + 1)
          BY <3>2
        <5> QED
          BY <3>7, <5>1, <5>2
      <4> QED
        BY <3>6, <4>1, <4>2
    <3>11. \A i, j \in 1..(k + 1) : i < j => t[i] < t[j]
      <4> SUFFICES ASSUME NEW i \in 1..(k + 1), NEW j \in 1..(k + 1), i < j
                   PROVE  t[i] < t[j]
        OBVIOUS
      <4>1. j \in 2..(k + 1)
        BY <3>2
      <4>2. CASE i = 1
        BY <3>6, <3>7, <3>8, <4>1, <4>2
      <4>3. CASE i # 1
        <5>1. i \in 2..(k + 1) /\ i - 1 < j - 1
          BY <3>2, <4>3
        <5> HIDE DEF t
        <5> QED
          BY <3>5, <3>7, <4>1, <5>1
      <4> QED
        BY <4>2, <4>3
    <3> HIDE DEF t
    <3>12. Lists(t, c)
      BY <3>2, <3>9, <3>10, <3>11
    <3> QED
      BY <2>0, <3>12
  <2> QED
    BY <2>3, <2>4
<1>2. PICK s : Lists(s, S)
  <2>1. Cardinality(S) \in Nat /\ S \in SUBSET S
    BY FS_CardinalityType
  <2> QED
    BY <1>1, <2>1
<1>3. s \in [1..Cardinality(S) -> S]
  BY <1>2
<1> QED
  BY <1>2, <1>3
-----------------------------------------------------------------------------
(* Sequence numbers come from a counter of natural numbers. *)
Counted == seq \in Nat /\ DOMAIN by_seq \subseteq Nat

(* An accepted event gets the number after all that were ever given, so it *)
(* displaces no entry of the index.                                        *)
LEMMA SubmitKeepsIndex ==
  ASSUME IndexExact, Counted, NEW e \in Events, Submit(e)
  PROVE  (IndexExact /\ Counted)'
<1>1. /\ e \notin DOMAIN records /\ hidden' = hidden /\ seq' = seq + 1
      /\ seq + 1 \notin DOMAIN by_seq
  BY DEF Submit, NextSeq, IndexExact, Counted
<1>2. /\ DOMAIN records' = DOMAIN records \cup {e}
      /\ records'[e].seq = seq + 1
      /\ \A k \in DOMAIN records : records'[k] = records[k]
  BY <1>1 DEF Submit, insert
<1>3. /\ DOMAIN by_seq' = DOMAIN by_seq \cup {seq + 1}
      /\ by_seq'[seq + 1] = e
      /\ \A n \in DOMAIN by_seq : by_seq'[n] = by_seq[n]
  BY <1>1 DEF Submit, insert
<1>4. \A k \in DOMAIN records' :
         records'[k].seq \in DOMAIN by_seq' /\ by_seq'[records'[k].seq] = k
  BY <1>2, <1>3 DEF IndexExact
<1>5. \A n \in DOMAIN by_seq' : by_seq'[n] \in DOMAIN records' /\ records'[by_seq'[n]].seq = n
  BY <1>2, <1>3 DEF IndexExact
<1>6. \A n \in DOMAIN by_seq' : n <= seq'
  <2> SUFFICES ASSUME NEW n \in DOMAIN by_seq' PROVE n <= seq + 1
    BY <1>1
  <2>1. CASE n = seq + 1
    BY <2>1 DEF Counted
  <2>2. CASE n \in DOMAIN by_seq
    BY <2>2 DEF IndexExact, Counted
  <2> QED
    BY <2>1, <2>2, <1>3
<1> QED
  BY <1>1, <1>2, <1>3, <1>4, <1>5, <1>6 DEF IndexExact, Counted

(* A pruned event leaves both maps, and the set of hidden events.          *)
LEMMA PruneKeepsIndex ==
  ASSUME IndexExact, Counted, NEW e \in Events, Prune(e)
  PROVE  (IndexExact /\ Counted)'
<1>1. CASE e \in DOMAIN records
  <2>1. /\ DOMAIN records' = DOMAIN records \ {e}
        /\ \A k \in DOMAIN records' : records'[k] = records[k]
    BY <1>1 DEF Prune, remove, Restrict
  <2>2. /\ DOMAIN by_seq' = DOMAIN by_seq \ {records[e].seq}
        /\ \A n \in DOMAIN by_seq' : by_seq'[n] = by_seq[n]
    BY <1>1 DEF Prune, remove, Restrict
  <2>3. hidden' = hidden \ {e} /\ seq' = seq
    BY DEF Prune
  <2> QED
    BY <1>1, <2>1, <2>2, <2>3 DEF IndexExact, Counted
<1>2. CASE e \notin DOMAIN records
  BY <1>2 DEF Prune, IndexExact, Counted
<1> QED
  BY <1>1, <1>2

(* The index by sequence number and the accepted records are inverse to    *)
(* each other, and what is hidden is retained (KnowledgeStore::submit,     *)
(* hide, unhide and prune).                                                *)
THEOREM IndexStaysExact == Spec => []IndexExact
<1>1. Init => IndexExact /\ Counted
  BY DEF Init, StoreInit, IndexExact, Counted
<1>2. IndexExact /\ Counted /\ [Next]_vars => (IndexExact /\ Counted)'
  <2> SUFFICES ASSUME IndexExact, Counted, [Next]_vars PROVE (IndexExact /\ Counted)'
    OBVIOUS
  <2>1. ASSUME UNCHANGED store PROVE (IndexExact /\ Counted)'
    BY <2>1 DEF store, IndexExact, Counted
  <2>2. ASSUME NEW e \in Events, ServiceSubmits(e) PROVE (IndexExact /\ Counted)'
    BY <2>2, SubmitKeepsIndex DEF ServiceSubmits
  <2>3. ASSUME NEW e \in Events, ServiceHides(e) PROVE (IndexExact /\ Counted)'
    BY <2>3 DEF ServiceHides, Hide, IndexExact, Counted
  <2>4. ASSUME NEW e \in Events, ServiceUnhides(e) PROVE (IndexExact /\ Counted)'
    BY <2>4 DEF ServiceUnhides, Unhide, IndexExact, Counted
  <2>5. ASSUME NEW e \in Events, ServicePrunes(e) PROVE (IndexExact /\ Counted)'
    BY <2>5, PruneKeepsIndex DEF ServicePrunes
  <2>6. CASE ServiceTicks
    BY <2>6, <2>1 DEF ServiceTicks, ServiceTick
  <2>7. CASE ConsumerNext
    BY <2>7, <2>1 DEF ConsumerNext, StartQueryAll, StartStatus, Serve, NextPage,
       FinishQueryAll, FinishStatus, CallFails, TransportFails
  <2>8. CASE UNCHANGED vars
    BY <2>8, <2>1 DEF vars
  <2> QED
    BY <2>2, <2>3, <2>4, <2>5, <2>6, <2>7, <2>8 DEF Next, ServiceNext
<1> QED
  BY <1>1, <1>2, PTL DEF Spec
-----------------------------------------------------------------------------
(***************************************************************************)
(* The consumer's calls.  What follows describes a call in progress, while *)
(* the service goes on between its pages.                                  *)
(***************************************************************************)

FoundRecord == [event : Events, seq : Nat]

FoundIn(page) == {page.result[i].event : i \in DOMAIN page.result}

FilterOf(target) ==
    [actor |-> NoFilter, type |-> NoFilter,
     target |-> IF target = None THEN NoFilter ELSE target.event]

Matches(e) == knowledge_query_matches(e, FilterOf(call.target))

(* How far the pages taken so far reach.                                   *)
From == IF call.tracker.scope = None THEN call.request.after_seq ELSE call.tracker.last

(* How far the page in transit reaches, when it is not the last one.       *)
PageEnd == IF response.result = <<>> THEN From ELSE Last(response.result).seq

(* Links of accepted events passed check_dependencies; what is hidden has  *)
(* been withheld.                                                          *)
StoreSound ==
    /\ IndexExact
    /\ now \in 0..MaxTime /\ seq \in 0..MAX_SAFE_NONCE
    /\ DOMAIN records \subseteq Events /\ DOMAIN by_seq \subseteq Nat \ {0}
    /\ hidden \subseteq withheld
    /\ \A e \in DOMAIN records :
          /\ e \notin knowledge_dependencies(e)
          /\ \A link \in event[e].links : AuthorAllowed(e, link)

(* The request of a call never changes but for its cursor, which continues *)
(* where the tracker is, within the scope of the first page.               *)
CallSound ==
    IF call = NoCall THEN response = NoResponse
    ELSE /\ call.target \in ResultRecord \cup {None}
         /\ call.target # None =>
               call.target.event \notin knowledge_dependencies(call.target.event)
         /\ call.request = [after_seq |-> IF call.target = None THEN after ELSE 0,
                            filter |-> FilterOf(call.target), limit |-> limit,
                            cursor |-> call.request.cursor]
         /\ call.records \in Seq(FoundRecord)
         /\ call.tracker.seen = EventsOf(call)
         /\ \A e \in call.tracker.seen : Matches(e)
         /\ LET scope == call.tracker.scope
                cursor == call.request.cursor
            IN  IF scope = None THEN cursor = NoCursor /\ call.records = <<>>
                ELSE /\ cursor # NoCursor /\ cursor = call.tracker.next_cursor
                     /\ cursor.digest = query_binding(call.request)
                     /\ cursor.last = call.tracker.last
                     /\ cursor.last \in call.request.after_seq..scope.checkpoint
                     /\ scope.checkpoint \in 0..seq /\ scope.as_of \in 0..MaxTime
                     /\ scope = [checkpoint |-> cursor.checkpoint, as_of |-> cursor.as_of]
                     /\ \A e \in call.tracker.seen \cap DOMAIN records :
                           records[e].seq <= cursor.last \/ records[e].seq > scope.checkpoint

(* The answer in transit is the next page of the call.                     *)
ResponseSound ==
    call # NoCall /\ response # NoResponse =>
        LET rows == response.result
            cursor == response.next_cursor
        IN  /\ response # Refused
            /\ response.checkpoint \in From..seq /\ response.as_of \in 0..MaxTime
            /\ call.tracker.scope # None => ScopeOf(response) = call.tracker.scope
            /\ rows \in Seq(FoundRecord) /\ Len(rows) <= limit
            /\ \A i \in DOMAIN rows :
                  /\ rows[i].seq \in From + 1..response.checkpoint
                  /\ Matches(rows[i].event)
                  /\ rows[i].event \notin call.tracker.seen
                  /\ rows[i].event \in DOMAIN records =>
                        \/ records[rows[i].event].seq = rows[i].seq
                        \/ records[rows[i].event].seq > response.checkpoint
                  /\ \A j \in DOMAIN rows :
                        i < j => rows[i].seq < rows[j].seq /\ rows[i].event # rows[j].event
            /\ cursor # NoCursor =>
                  /\ cursor.digest = query_binding(call.request)
                  /\ cursor.last = PageEnd
                  /\ ScopeOf(cursor) = ScopeOf(response)

(* The first page fixed the checkpoint and what was visible up to it.      *)
Captured == call # NoCall /\ (response # NoResponse \/ call.tracker.scope # None)

Checkpoint ==
    IF call.tracker.scope # None THEN call.tracker.scope.checkpoint ELSE response.checkpoint

(* What has stayed visible since is what was never withheld, and more; all *)
(* of it up to where the pages reach is on them.                           *)
SteadySound ==
    Captured =>
        /\ \A e \in steady :
              /\ e \in DOMAIN records /\ e \notin hidden /\ records[e].seq <= Checkpoint
              /\ (Matches(e) /\ records[e].seq \in call.request.after_seq + 1..From)
                    => e \in call.tracker.seen
              /\ ( /\ response # NoResponse
                   /\ Matches(e) /\ records[e].seq > From
                   /\ records[e].seq <= PageEnd \/ response.next_cursor = NoCursor )
                    => e \in FoundIn(response)
        /\ \A e \in DOMAIN records :
              (e \notin withheld /\ records[e].seq <= Checkpoint) => e \in steady

FollowerSound ==
    /\ StoreSound /\ CallSound /\ ResponseSound /\ SteadySound
    /\ after \in 0..seq /\ FollowerMissesNothing
-----------------------------------------------------------------------------
(* The service's steps, as the consumer can tell: a number once given      *)
(* stays with its event for as long as it is retained, later ones are      *)
(* greater, and what leaves `steady` is withheld or gone.                  *)
ServiceMoves ==
    /\ seq <= seq'
    /\ \A e \in DOMAIN records' :
          \/ /\ e \in DOMAIN records /\ records'[e].seq = records[e].seq
             /\ e \in withheld => e \in withheld'
          \/ e \notin DOMAIN records /\ records'[e].seq = seq + 1
    /\ steady' \subseteq steady
    /\ \A e \in steady' :
          e \in DOMAIN records /\ e \notin hidden => e \in DOMAIN records' /\ e \notin hidden'
    /\ \A e \in steady : e \in steady' \/ e \in withheld' \/ e \notin DOMAIN records'
    /\ UNCHANGED <<call, response, known, after, report, owed>>

(* The store keeps what it promises, and the consumer sees it move so. *)
LEMMA ServiceEffect ==
  ASSUME StoreSound, ServiceNext
  PROVE  StoreSound' /\ ServiceMoves
<1> USE KnowledgeAssumption
<1>1. Counted /\ seq \in Nat
  BY DEF StoreSound, Counted
<1>2. ASSUME NEW e \in Events, ServiceSubmits(e)
      PROVE  StoreSound' /\ ServiceMoves
  <2>1. Submit(e) /\ UNCHANGED <<follower, history>>
    BY <1>2 DEF ServiceSubmits
  <2>2. IndexExact'
    BY <1>1, <2>1, SubmitKeepsIndex DEF StoreSound
  <2>3. /\ e \notin DOMAIN records /\ seq' = seq + 1 /\ seq # MAX_SAFE_NONCE
        /\ UNCHANGED <<now, hidden>>
        /\ knowledge_dependencies(e) \subseteq DOMAIN records
        /\ \A link \in event[e].links : AuthorAllowed(e, link)
    BY <2>1 DEF Submit, NextSeq, SequenceLeft, check_dependencies
  <2>4. /\ DOMAIN records' = DOMAIN records \cup {e}
        /\ records'[e].seq = seq + 1
        /\ \A k \in DOMAIN records : records'[k] = records[k]
        /\ DOMAIN by_seq' = DOMAIN by_seq \cup {seq + 1}
    BY <2>1, <2>3 DEF Submit, insert
  <2>5. StoreSound'
    <3>1. seq' \in 0..MAX_SAFE_NONCE /\ now' \in 0..MaxTime
      BY <2>3 DEF StoreSound
    <3>2. DOMAIN records' \subseteq Events /\ DOMAIN by_seq' \subseteq Nat \ {0}
      BY <1>1, <2>4 DEF StoreSound
    <3>3. hidden' \subseteq withheld'
      BY <2>1, <2>3 DEF StoreSound, history
    <3>4. \A k \in DOMAIN records' :
            /\ k \notin knowledge_dependencies(k)
            /\ \A link \in event[k].links : AuthorAllowed(k, link)
      BY <2>3, <2>4 DEF StoreSound
    <3> QED
      BY <2>2, <3>1, <3>2, <3>3, <3>4 DEF StoreSound, AuthorAllowed, knowledge_dependencies
  <2> QED
    BY <1>1, <2>1, <2>3, <2>4, <2>5 DEF ServiceMoves, follower, history
<1>3. ASSUME NEW e \in Events, ServiceHides(e)
      PROVE  StoreSound' /\ ServiceMoves
  <2>1. /\ e \in DOMAIN records /\ hidden' = hidden \cup {e}
        /\ UNCHANGED <<now, records, by_seq, seq>>
        /\ withheld' = withheld \cup {e} /\ steady' = steady \ {e}
        /\ UNCHANGED <<follower, owed>>
    BY <1>3 DEF ServiceHides, Hide
  <2> QED
    BY <1>1, <2>1 DEF StoreSound, IndexExact, AuthorAllowed, knowledge_dependencies,
                      ServiceMoves, follower
<1>4. ASSUME NEW e \in Events, ServiceUnhides(e)
      PROVE  StoreSound' /\ ServiceMoves
  <2>1. /\ hidden' = hidden \ {e}
        /\ UNCHANGED <<now, records, by_seq, seq>>
        /\ UNCHANGED <<follower, withheld, steady, owed>>
    BY <1>4 DEF ServiceUnhides, Unhide
  <2> QED
    BY <1>1, <2>1 DEF StoreSound, IndexExact, AuthorAllowed, knowledge_dependencies,
                      ServiceMoves, follower
<1>5. ASSUME NEW e \in Events, ServicePrunes(e)
      PROVE  StoreSound' /\ ServiceMoves
  <2>1. /\ Prune(e) /\ hidden' = hidden \ {e} /\ UNCHANGED <<now, seq>>
        /\ withheld' = withheld \ {e} /\ steady' = steady \ {e}
        /\ UNCHANGED <<follower, owed>>
    BY <1>5 DEF ServicePrunes, Prune
  <2>2. IndexExact'
    BY <1>1, <2>1, PruneKeepsIndex DEF StoreSound
  <2>3. /\ DOMAIN records' = DOMAIN records \ {e}
        /\ \A k \in DOMAIN records' : records'[k] = records[k]
        /\ DOMAIN by_seq' \subseteq DOMAIN by_seq
    <3>1. CASE e \in DOMAIN records
      BY <2>1, <3>1 DEF Prune, remove, Restrict
    <3>2. CASE e \notin DOMAIN records
      BY <2>1, <3>2 DEF Prune
    <3> QED
      BY <3>1, <3>2
  <2>4. StoreSound'
    <3>1. DOMAIN records' \subseteq Events /\ DOMAIN by_seq' \subseteq Nat \ {0}
      BY <2>3 DEF StoreSound
    <3>2. hidden' \subseteq withheld'
      BY <2>1 DEF StoreSound
    <3>3. \A k \in DOMAIN records' :
            /\ k \notin knowledge_dependencies(k)
            /\ \A link \in event[k].links : AuthorAllowed(k, link)
      BY <2>3 DEF StoreSound
    <3> QED
      BY <2>1, <2>2, <3>1, <3>2, <3>3 DEF StoreSound, AuthorAllowed, knowledge_dependencies
  <2> QED
    BY <1>1, <2>1, <2>3, <2>4 DEF ServiceMoves, follower
<1>6. CASE ServiceTicks
  <2>1. /\ now < MaxTime /\ now' = now + 1
        /\ UNCHANGED <<records, by_seq, hidden, seq, follower, history>>
    BY <1>6 DEF ServiceTicks, ServiceTick, store
  <2> QED
    BY <1>1, <2>1 DEF StoreSound, IndexExact, AuthorAllowed, knowledge_dependencies,
                      ServiceMoves, follower, history
<1> QED
  BY <1>2, <1>3, <1>4, <1>5, <1>6 DEF ServiceNext

(* The index of the store gives each retained event a number up to seq.    *)
LEMMA NumberOf ==
  ASSUME StoreSound
  PROVE  \A e \in DOMAIN records :
            /\ records[e].seq \in Nat \ {0} /\ records[e].seq <= seq
            /\ records[e].seq \in DOMAIN by_seq /\ by_seq[records[e].seq] = e
BY DEF StoreSound, IndexExact

(* Whatever the service does between two pages disturbs no call.           *)
LEMMA ServiceKeepsSound ==
  ASSUME FollowerSound, ServiceMoves, StoreSound'
  PROVE  FollowerSound'
<1>0. /\ seq \in Nat /\ seq' \in Nat /\ seq <= seq'
      /\ UNCHANGED <<call, response, known, after>>
  BY DEF FollowerSound, StoreSound, ServiceMoves
<1>1. \A e \in DOMAIN records' :
        /\ records'[e].seq \in Nat
        /\ \/ /\ e \in DOMAIN records /\ records'[e].seq = records[e].seq
              /\ e \in withheld => e \in withheld'
           \/ records'[e].seq > seq
  <2>1. \A e \in DOMAIN records' : records'[e].seq \in Nat
    BY DEF StoreSound, IndexExact
  <2> QED
    BY <1>0, <2>1 DEF ServiceMoves
<1>2. CallSound'
  <2>1. CASE call = NoCall
    BY <1>0, <2>1 DEF FollowerSound, CallSound
  <2>2. CASE call # NoCall
    <3> DEFINE scope == call.tracker.scope
               cursor == call.request.cursor
    <3>1. ASSUME scope # None
          PROVE  /\ scope.checkpoint \in 0..seq'
                 /\ \A e \in call.tracker.seen \cap DOMAIN records' :
                      records'[e].seq <= cursor.last \/ records'[e].seq > scope.checkpoint
      <4>1. /\ scope.checkpoint \in 0..seq
            /\ \A e \in call.tracker.seen \cap DOMAIN records :
                  records[e].seq <= cursor.last \/ records[e].seq > scope.checkpoint
        BY <2>2, <3>1 DEF FollowerSound, CallSound
      <4> HIDE DEF scope, cursor
      <4> QED
        BY <1>0, <1>1, <4>1
    <3> HIDE DEF scope
    <3> QED
      BY <1>0, <2>2, <3>1
      DEF FollowerSound, CallSound, EventsOf, Matches, scope
  <2> QED
    BY <2>1, <2>2
<1>3. ResponseSound'
  <2> SUFFICES ASSUME call # NoCall, response # NoResponse
               PROVE  ResponseSound'
    BY <1>0 DEF ResponseSound
  <2> DEFINE rows == response.result
  <2>1. /\ response.checkpoint \in From..seq
        /\ rows \in Seq(FoundRecord)
        /\ \A i \in DOMAIN rows :
              rows[i].event \in DOMAIN records =>
                \/ records[rows[i].event].seq = rows[i].seq
                \/ records[rows[i].event].seq > response.checkpoint
    BY DEF FollowerSound, ResponseSound
  <2>2. From' = From /\ PageEnd' = PageEnd
    BY <1>0 DEF From, PageEnd
  <2>3. From \in Int
    BY DEF From, FollowerSound, CallSound, StoreSound
  <2>4. response.checkpoint \in From..seq'
    BY <1>0, <2>1, <2>3
  <2>5. \A i \in DOMAIN rows :
          rows[i].event \in DOMAIN records' =>
            \/ records'[rows[i].event].seq = rows[i].seq
            \/ records'[rows[i].event].seq > response.checkpoint
    <3> SUFFICES ASSUME NEW i \in DOMAIN rows, rows[i].event \in DOMAIN records'
                 PROVE  \/ records'[rows[i].event].seq = rows[i].seq
                        \/ records'[rows[i].event].seq > response.checkpoint
      OBVIOUS
    <3> DEFINE e == rows[i].event
    <3>1. /\ e \in DOMAIN records =>
                records[e].seq = rows[i].seq \/ records[e].seq > response.checkpoint
          /\ response.checkpoint \in Int /\ response.checkpoint <= seq
      BY <1>0, <2>1, <2>3
    <3> HIDE DEF e
    <3>2. records'[e].seq = rows[i].seq \/ records'[e].seq > response.checkpoint
      BY <1>0, <1>1, <3>1 DEF e
    <3> QED
      BY <3>2 DEF e
  <2> HIDE DEF rows
  <2> QED
    BY <1>0, <2>2, <2>4, <2>5
    DEF FollowerSound, ResponseSound, Matches, ScopeOf, rows
<1>4. SteadySound'
  <2> SUFFICES ASSUME Captured PROVE SteadySound'
    BY <1>0 DEF SteadySound, Captured
  <2>1. /\ From' = From /\ PageEnd' = PageEnd /\ Checkpoint' = Checkpoint
    BY <1>0 DEF From, PageEnd, Checkpoint
  <2>2. Checkpoint \in Int /\ Checkpoint <= seq
    <3>1. From \in Int
      BY DEF Captured, From, FollowerSound, CallSound, StoreSound
    <3>2. CASE call.tracker.scope # None
      BY <1>0, <3>2 DEF Captured, Checkpoint, FollowerSound, CallSound
    <3>3. CASE call.tracker.scope = None
      BY <1>0, <3>1, <3>3 DEF Captured, Checkpoint, FollowerSound, ResponseSound
    <3> QED
      BY <3>2, <3>3
  <2>3. \A e \in steady' :
          /\ e \in steady /\ e \in DOMAIN records' /\ e \notin hidden'
          /\ e \in DOMAIN records /\ records'[e].seq = records[e].seq
    <3> TAKE e \in steady'
    <3>1. /\ e \in steady /\ e \in DOMAIN records /\ e \notin hidden
          /\ records[e].seq <= Checkpoint
      BY DEF FollowerSound, SteadySound, ServiceMoves
    <3>2. e \in DOMAIN records' /\ e \notin hidden'
      BY <3>1 DEF ServiceMoves
    <3>3. records'[e].seq = records[e].seq
      BY <3>1, <3>2 DEF ServiceMoves
    <3> QED
      BY <3>1, <3>2, <3>3
  <2>4. \A e \in DOMAIN records' :
          (e \notin withheld' /\ records'[e].seq <= Checkpoint) => e \in steady'
    <3> SUFFICES ASSUME NEW e \in DOMAIN records', e \notin withheld',
                        records'[e].seq <= Checkpoint
                 PROVE  e \in steady'
      OBVIOUS
    <3>1. e \in DOMAIN records /\ records'[e].seq = records[e].seq /\ e \notin withheld
      BY <1>0, <1>1, <2>2
    <3>2. e \in steady
      BY <3>1 DEF FollowerSound, SteadySound
    <3> QED
      BY <3>2 DEF ServiceMoves
  <2> QED
    BY <1>0, <2>1, <2>3, <2>4
    DEF FollowerSound, SteadySound, Captured, Matches, FoundIn
<1>5. after' \in 0..seq' /\ FollowerMissesNothing'
  <2>1. after \in 0..seq /\ FollowerMissesNothing
    BY DEF FollowerSound
  <2> QED
    BY <1>0, <1>1, <2>1 DEF FollowerMissesNothing
<1> QED
  BY <1>2, <1>3, <1>4, <1>5 DEF FollowerSound
-----------------------------------------------------------------------------
(* A page is the initial part of what may still be returned: at most       *)
(* `limit` numbers in ascending order, and none up to its end left out.    *)
PageFacts(found, page, rows, count, end, last, checkpoint) ==
    /\ count \in 0..limit /\ rows \in [1..count -> page]
    /\ \A n \in page : \E i \in 1..count : rows[i] = n
    /\ \A i, j \in 1..count : i < j => rows[i] < rows[j]
    /\ page \subseteq found
    /\ end = IF count = 0 THEN last ELSE rows[count]
    /\ end \in last..checkpoint
    /\ \A n \in found : n <= end => n \in page

(* The page of a query, listed in ascending order, is such a part. *)
LEMMA PageRows ==
  ASSUME NEW last \in Nat, NEW checkpoint \in Nat, last <= checkpoint, NEW filter
  PROVE  LET page == Page(last, checkpoint, filter, limit)
         IN  PageFacts(Enumerable(last, checkpoint, filter), page, Ascending(page),
                       Cardinality(page), Max(page \cup {last}), last, checkpoint)
<1> DEFINE found == Enumerable(last, checkpoint, filter)
           page == Page(last, checkpoint, filter, limit)
           rows == Ascending(page)
           count == Cardinality(page)
           end == Max(page \cup {last})
           below(n) == {k \in found : k < n}
<1>1. found \subseteq last + 1..checkpoint
  BY DEF Enumerable
<1>2. page = {n \in found : Cardinality(below(n)) < limit}
  BY DEF Page
<1> HIDE DEF found, page
<1>3. IsFiniteSet(found) /\ IsFiniteSet(page)
  <2>1. last + 1 \in Int /\ checkpoint \in Int
    OBVIOUS
  <2>2. IsFiniteSet(last + 1..checkpoint)
    BY <2>1, FS_Interval
  <2> QED
    BY <1>1, <1>2, <2>2, FS_Subset
<1>4. count \in Nat /\ page \in SUBSET Nat /\ page \subseteq found
  <2>1. count \in Nat
    BY <1>3, FS_CardinalityType
  <2>2. page \subseteq found
    BY <1>2
  <2> QED
    BY <1>1, <2>1, <2>2
<1>5. /\ rows \in [1..count -> page]
      /\ \A n \in page : \E i \in 1..count : rows[i] = n
      /\ \A i, j \in 1..count : i < j => rows[i] < rows[j]
  <2>1. \E s \in [1..Cardinality(page) -> page] :
          /\ \A n \in page : \E i \in DOMAIN s : s[i] = n
          /\ \A i, j \in DOMAIN s : i < j => s[i] < s[j]
    BY <1>3, <1>4, AscendingExists
  <2>2. /\ rows \in [1..Cardinality(page) -> page]
        /\ \A n \in page : \E i \in DOMAIN rows : rows[i] = n
        /\ \A i, j \in DOMAIN rows : i < j => rows[i] < rows[j]
    BY <2>1 DEF Ascending
  <2> HIDE DEF rows
  <2> QED
    BY <2>2
<1> HIDE DEF rows
<1>6. \A n \in found : IsFiniteSet(below(n)) /\ Cardinality(below(n)) \in Nat
  BY <1>3, FS_Subset, FS_CardinalityType
<1>7. ASSUME count = 0
      PROVE  end = last /\ \A n \in found : n <= end => n \in page
  <2>1. page = {}
    BY <1>3, <1>7, FS_EmptySet
  <2>2. end = last
    <3>1. page \cup {last} \in SUBSET (0..checkpoint)
      BY <2>1
    <3>2. Max(page \cup {last}) \in page \cup {last}
      BY <3>1, MaxOfBounded
    <3> QED
      BY <2>1, <3>2
  <2> HIDE DEF end
  <2>3. \A n \in found : ~ (n <= last)
    BY <1>1
  <2> QED
    BY <2>2, <2>3
<1>8. ASSUME count # 0
      PROVE  /\ count <= limit /\ end = rows[count] /\ end \in last..checkpoint
             /\ \A n \in found : n <= end => n \in page
  <2> DEFINE m == rows[count]
  <2>1. m \in page /\ m \in found /\ \A i \in 1..count : i = count \/ rows[i] < m
    <3> HIDE DEF count
    <3>1. count \in 1..count /\ \A i \in 1..count : i = count \/ i < count
      BY <1>4, <1>8
    <3> QED
      BY <1>4, <1>5, <3>1
  <2> HIDE DEF m
  <2>2. \A n \in page : n <= m
    <3> TAKE n \in page
    <3>1. PICK i \in 1..count : rows[i] = n
      BY <1>5
    <3>2. n = m \/ n < m
      BY <2>1, <3>1 DEF m
    <3> QED
      BY <1>4, <2>1, <3>2
  <2>3. m \in last + 1..checkpoint /\ Cardinality(below(m)) < limit
    BY <1>1, <1>2, <2>1
  <2>4. count <= limit
    <3>1. page \subseteq below(m) \cup {m}
      <4> SUFFICES ASSUME NEW n \in page PROVE n < m \/ n = m
        BY <1>4
      <4> QED
        BY <1>4, <2>1, <2>2
    <3>2. IsFiniteSet(below(m)) /\ Cardinality(below(m)) \in Nat
      BY <1>6, <2>1
    <3> HIDE DEF below
    <3>3. /\ IsFiniteSet(below(m) \cup {m})
          /\ Cardinality(below(m) \cup {m}) <= Cardinality(below(m)) + 1
      BY <3>2, FS_AddElement
    <3>4. count <= Cardinality(below(m) \cup {m})
      BY <3>1, <3>3, FS_Subset
    <3>5. Cardinality(below(m) \cup {m}) \in Nat
      BY <3>3, FS_CardinalityType
    <3> HIDE DEF count
    <3> QED
      BY <1>4, <2>3, <3>2, <3>3, <3>4, <3>5, FollowerAssumption
  <2>5. end = m
    <3>1. page \cup {last} \in SUBSET (0..checkpoint) /\ page \cup {last} # {}
      BY <1>1, <1>4
    <3>2. end \in page \cup {last} /\ \A n \in page \cup {last} : end >= n
      BY <3>1, MaxOfBounded
    <3> HIDE DEF end
    <3>3. end \in Nat /\ end >= m /\ m > last
      BY <1>4, <2>1, <2>3, <3>2
    <3> QED
      BY <1>4, <2>2, <2>3, <3>2, <3>3
  <2>6. \A n \in found : n <= m => n \in page
    <3> SUFFICES ASSUME NEW n \in found, n <= m PROVE Cardinality(below(n)) < limit
      BY <1>2
    <3>1. below(n) \subseteq below(m)
      <4>1. \A k \in found : k \in Int
        BY <1>1
      <4> QED
        BY <2>1, <4>1
    <3>2. Cardinality(below(n)) <= Cardinality(below(m))
      BY <1>6, <2>1, <3>1, FS_Subset
    <3>3. Cardinality(below(n)) \in Nat /\ Cardinality(below(m)) \in Nat
      BY <1>6, <2>1
    <3> HIDE DEF below
    <3> QED
      BY <2>3, <3>2, <3>3, FollowerAssumption
  <2> HIDE DEF end, count
  <2> QED
    BY <2>3, <2>4, <2>5, <2>6 DEF m
<1> HIDE DEF end, count
<1>9. /\ count \in 0..limit
      /\ end = IF count = 0 THEN last ELSE rows[count]
      /\ end \in last..checkpoint
      /\ \A n \in found : n <= end => n \in page
  BY <1>4, <1>7, <1>8, FollowerAssumption
<1>10. PageFacts(found, page, rows, count, end, last, checkpoint)
  BY <1>4, <1>5, <1>9 DEF PageFacts
<1> QED
  BY <1>10 DEF end, count, rows, found, page
-----------------------------------------------------------------------------
(* The filter of a call is one of the service's. *)
LEMMA FilterType ==
  ASSUME NEW target \in ResultRecord \cup {None}
  PROVE  FilterOf(target) \in Filter
BY DEF FilterOf, Filter, ResultRecord

(* Where a call is: the next page follows what the tracker has, within the *)
(* scope of the first one, or of the current state if there is none.       *)
LEMMA CallPosition ==
  ASSUME FollowerSound, call # NoCall
  PROVE  /\ From \in Nat /\ call.request.after_seq \in 0..From /\ From <= seq
         /\ call.request.after_seq \in 0..MAX_SAFE_NONCE
         /\ call.request.limit = limit
         /\ call.request.filter = FilterOf(call.target)
         /\ call.target = None => call.request.after_seq = after
         /\ call.target # None => call.request.after_seq = 0
         /\ call.target \in ResultRecord \cup {None}
<1>1. call.request = [after_seq |-> IF call.target = None THEN after ELSE 0,
                      filter |-> FilterOf(call.target), limit |-> limit,
                      cursor |-> call.request.cursor]
  BY DEF FollowerSound, CallSound
<1>2. /\ call.request.after_seq = IF call.target = None THEN after ELSE 0
      /\ call.request.filter = FilterOf(call.target) /\ call.request.limit = limit
  BY <1>1
<1>3. after \in 0..seq /\ seq \in 0..MAX_SAFE_NONCE
  BY DEF FollowerSound, StoreSound
<1>4. From \in call.request.after_seq..seq
  <2>1. CASE call.tracker.scope = None
    BY <1>2, <1>3, <2>1 DEF From
  <2>2. CASE call.tracker.scope # None
    BY <1>2, <1>3, <2>2 DEF From, FollowerSound, CallSound
  <2> QED
    BY <2>1, <2>2
<1> QED
  BY <1>2, <1>3, <1>4, KnowledgeAssumption DEF FollowerSound, CallSound

(* An honest answer: it keeps the scope, lists what is visible and matches *)
(* between the last number taken and the end of the page, and carries a    *)
(* cursor to the rest, if there is any.                                    *)
LEMMA Answer ==
  ASSUME FollowerSound, call # NoCall, Serve
  PROVE  LET scope == call.tracker.scope
             rows == response'.result
             end == IF rows = <<>> THEN From ELSE Last(rows).seq
         IN  /\ response' # Refused
             /\ response'.checkpoint = IF scope = None THEN seq ELSE scope.checkpoint
             /\ response'.checkpoint \in From..seq /\ response'.as_of \in 0..MaxTime
             /\ scope # None => ScopeOf(response') = scope
             /\ rows \in Seq(FoundRecord) /\ Len(rows) <= limit
             /\ \A i \in DOMAIN rows :
                   /\ rows[i].seq \in From + 1..response'.checkpoint
                   /\ rows[i].event \in DOMAIN records
                   /\ records[rows[i].event].seq = rows[i].seq
                   /\ Matches(rows[i].event)
                   /\ \A j \in DOMAIN rows : i < j => rows[i].seq < rows[j].seq
             /\ response'.next_cursor # NoCursor =>
                   /\ response'.next_cursor.digest = query_binding(call.request)
                   /\ response'.next_cursor.last = end
                   /\ ScopeOf(response'.next_cursor) = ScopeOf(response')
             /\ \A e \in DOMAIN records :
                   ( /\ e \notin hidden /\ Matches(e)
                     /\ records[e].seq \in From + 1..response'.checkpoint
                     /\ records[e].seq <= end \/ response'.next_cursor = NoCursor )
                   => \E i \in DOMAIN rows : rows[i].event = e
<1> DEFINE request == call.request
           scope == call.tracker.scope
           checkpoint == IF scope = None THEN seq ELSE scope.checkpoint
           as_of == IF scope = None THEN now ELSE scope.as_of
           filter == FilterOf(call.target)
           found == Enumerable(From, checkpoint, filter)
           page == Page(From, checkpoint, filter, limit)
           numbers == Ascending(page)
           count == Cardinality(page)
           end == Max(page \cup {From})
           row(i) == [event |-> by_seq[numbers[i]], seq |-> numbers[i]]
           rows == [i \in DOMAIN numbers |-> row(i)]
           cursor == [checkpoint |-> checkpoint, as_of |-> as_of, last |-> end,
                      digest |-> query_binding(request)]
<1>1. /\ From \in Nat /\ request.after_seq \in 0..From
      /\ request.limit = limit /\ request.filter = filter
      /\ request.after_seq \in 0..MAX_SAFE_NONCE /\ filter \in Filter
  BY CallPosition, FilterType
<1>2. /\ checkpoint \in From..seq /\ checkpoint \in 0..MAX_SAFE_NONCE
      /\ as_of \in 0..MaxTime /\ seq \in 0..MAX_SAFE_NONCE
      /\ now \in 0..MaxTime /\ checkpoint \in Nat /\ From <= checkpoint
  <2>1. seq \in 0..MAX_SAFE_NONCE /\ now \in 0..MaxTime
    BY DEF FollowerSound, StoreSound
  <2>2. CASE scope = None
    BY <1>1, <2>1, <2>2, CallPosition, KnowledgeAssumption
  <2>3. CASE scope # None
    <3>1. /\ scope.checkpoint \in 0..seq /\ scope.as_of \in 0..MaxTime
          /\ From \in request.after_seq..scope.checkpoint
      BY <2>3 DEF From, FollowerSound, CallSound
    <3> QED
      BY <1>1, <2>1, <2>3, <3>1, KnowledgeAssumption
  <2> QED
    BY <2>2, <2>3
<1>3. /\ CursorAllowed(request)
      /\ QueryScope(request) = [checkpoint |-> checkpoint, as_of |-> as_of, last |-> From]
  <2>1. CASE scope = None
    <3>1. request.cursor = NoCursor /\ From = request.after_seq
      BY <2>1 DEF From, FollowerSound, CallSound
    <3> QED
      BY <1>1, <1>2, <2>1, <3>1 DEF CursorAllowed, QueryScope
  <2>2. CASE scope # None
    <3>1. /\ request.cursor # NoCursor /\ request.cursor.last = From
          /\ request.cursor.digest = query_binding(request)
          /\ scope = [checkpoint |-> request.cursor.checkpoint,
                     as_of |-> request.cursor.as_of]
      BY <2>2 DEF From, FollowerSound, CallSound
    <3>2. request.cursor.checkpoint = checkpoint /\ request.cursor.as_of = as_of
      BY <2>2, <3>1
    <3> HIDE DEF checkpoint, as_of
    <3> QED
      BY <1>1, <1>2, <3>1, <3>2 DEF CursorAllowed, QueryScope
  <2> QED
    BY <2>1, <2>2
<1>4. scope # None => scope = [checkpoint |-> checkpoint, as_of |-> as_of]
  BY DEF FollowerSound, CallSound
<1>5. checkpoint = IF scope = None THEN seq ELSE scope.checkpoint
  OBVIOUS
<1> HIDE DEF checkpoint, as_of, filter, scope, request
<1>6. response' = [checkpoint |-> checkpoint, as_of |-> as_of, result |-> rows,
                   next_cursor |-> IF page = found THEN NoCursor ELSE cursor]
  BY <1>1, <1>3 DEF Serve, query, request
<1>6a. PageFacts(found, page, numbers, count, end, From, checkpoint)
  BY <1>1, <1>2, PageRows
<1> HIDE DEF found, page, numbers, end, count
<1>7. /\ count \in 0..limit /\ numbers \in [1..count -> page]
      /\ \A n \in page : \E i \in 1..count : numbers[i] = n
      /\ \A i, j \in 1..count : i < j => numbers[i] < numbers[j]
      /\ page \subseteq found
      /\ end = IF count = 0 THEN From ELSE numbers[count]
      /\ end \in From..checkpoint
      /\ \A n \in found : n <= end => n \in page
  BY <1>6a DEF PageFacts
<1>8. \A n \in found :
        /\ n \in From + 1..checkpoint
        /\ n \in DOMAIN by_seq /\ by_seq[n] \in DOMAIN records
        /\ records[by_seq[n]].seq = n /\ Matches(by_seq[n])
  BY DEF FollowerSound, StoreSound, IndexExact, Enumerable, visible, Matches, filter, found
<1>9. \A e \in DOMAIN records :
        ( /\ e \notin hidden /\ Matches(e) /\ records[e].seq \in From + 1..checkpoint )
        => records[e].seq \in found /\ by_seq[records[e].seq] = e
  BY NumberOf DEF FollowerSound, Enumerable, visible, Matches, filter, found
<1>10. DOMAIN numbers = 1..count /\ count \in Nat
  BY <1>7, FollowerAssumption
<1>11. \A i \in 1..count :
         /\ rows[i] = row(i) /\ numbers[i] \in page /\ numbers[i] \in found
         /\ rows[i].seq = numbers[i] /\ rows[i].event = by_seq[numbers[i]]
  BY <1>7, <1>10
<1>12. /\ rows \in Seq(FoundRecord) /\ rows \in Seq(ResultRecord)
       /\ Len(rows) = count /\ DOMAIN rows = 1..count
  <2>1. \A i \in 1..count : row(i) \in FoundRecord /\ row(i) \in ResultRecord
    <3> TAKE i \in 1..count
    <3>1. /\ numbers[i] \in From + 1..checkpoint /\ by_seq[numbers[i]] \in DOMAIN records
      BY <1>8, <1>11
    <3>2. numbers[i] \in Nat /\ numbers[i] \in 1..MAX_SAFE_NONCE
      BY <1>1, <1>2, <3>1, KnowledgeAssumption
    <3>3. by_seq[numbers[i]] \in Events
      BY <3>1 DEF FollowerSound, StoreSound
    <3> QED
      BY <3>2, <3>3 DEF FoundRecord, ResultRecord
  <2> HIDE DEF row
  <2> QED
    BY <1>10, <2>1
<1> HIDE DEF rows, row
<1>13. end = IF rows = <<>> THEN From ELSE Last(rows).seq
  <2>1. CASE count = 0
    BY <1>7, <1>12, <2>1
  <2>2. CASE count # 0
    <3>1. count \in 1..count
      BY <1>10, <2>2
    <3>2. rows # <<>> /\ Last(rows) = rows[count]
      BY <1>12, <2>2 DEF Last
    <3> QED
      BY <1>7, <1>11, <2>2, <3>1, <3>2
  <2> QED
    BY <2>1, <2>2
<1>14. cursor \in Cursor
  <2>1. query_binding(request) \in Binding
    BY <1>1 DEF query_binding, Binding
  <2>2. end \in 0..MAX_SAFE_NONCE
    BY <1>1, <1>2, <1>7, KnowledgeAssumption
  <2> QED
    BY <1>2, <2>1, <2>2 DEF Cursor
<1>15. cursor # NoCursor /\ response' # Refused
  <2>1. response' \in Response
    BY <1>2, <1>6, <1>12, <1>14 DEF Response
  <2> QED
    BY <1>14, <2>1, AbsentAssumption
<1>16. /\ response'.checkpoint = checkpoint /\ response'.as_of = as_of
       /\ response'.result = rows
       /\ response'.next_cursor = IF page = found THEN NoCursor ELSE cursor
       /\ ScopeOf(response') = [checkpoint |-> checkpoint, as_of |-> as_of]
  BY <1>6 DEF ScopeOf
<1>17. \A i \in 1..count :
         /\ rows[i].seq \in From + 1..checkpoint
         /\ rows[i].event \in DOMAIN records
         /\ records[rows[i].event].seq = rows[i].seq
         /\ Matches(rows[i].event)
         /\ \A j \in 1..count : i < j => rows[i].seq < rows[j].seq
  BY <1>7, <1>8, <1>11, SMTT(60)
<1>18. response'.next_cursor # NoCursor =>
         /\ response'.next_cursor.digest = query_binding(request)
         /\ response'.next_cursor.last = end
         /\ ScopeOf(response'.next_cursor) = ScopeOf(response')
  BY <1>16 DEF ScopeOf
<1>19. \A e \in DOMAIN records :
         ( /\ e \notin hidden /\ Matches(e) /\ records[e].seq \in From + 1..checkpoint
           /\ records[e].seq <= end \/ response'.next_cursor = NoCursor )
         => \E i \in 1..count : rows[i].event = e
  <2> SUFFICES ASSUME NEW e \in DOMAIN records, e \notin hidden, Matches(e),
                      records[e].seq \in From + 1..checkpoint,
                      records[e].seq <= end \/ response'.next_cursor = NoCursor
               PROVE  \E i \in 1..count : rows[i].event = e
    OBVIOUS
  <2>1. records[e].seq \in found /\ by_seq[records[e].seq] = e
    BY <1>9
  <2>2. records[e].seq \in page
    <3>1. CASE records[e].seq <= end
      BY <1>7, <2>1, <3>1
    <3>2. CASE response'.next_cursor = NoCursor
      BY <1>15, <1>16, <2>1, <3>2
    <3> QED
      BY <3>1, <3>2
  <2>3. PICK i \in 1..count : numbers[i] = records[e].seq
    BY <1>7, <2>2
  <2> QED
    BY <1>11, <2>1, <2>3
<1>20. response'.checkpoint \in From..seq /\ response'.as_of \in 0..MaxTime
  BY <1>2, <1>16
<1>21. scope # None => ScopeOf(response') = scope
  BY <1>4, <1>16
<1>22. Len(rows) <= limit
  BY <1>7, <1>12, FollowerAssumption
<1> HIDE DEF cursor
<1> QED
  BY <1>5, <1>12, <1>13, <1>15, <1>16, <1>17, <1>18, <1>19, <1>20, <1>21, <1>22
  DEF scope, request
(* Serving a request keeps the call sound: the first page fixes what is    *)
(* steady, later ones miss none of it.                                     *)
LEMMA ServeKeepsSound ==
  ASSUME FollowerSound, Serve
  PROVE  FollowerSound'
<1> DEFINE rows == response'.result
           end == IF rows = <<>> THEN From ELSE Last(rows).seq
           checkpoint == response'.checkpoint
<1>0. /\ call # NoCall /\ response = NoResponse
      /\ UNCHANGED <<now, store, call, known, after, withheld>>
      /\ steady' = IF call.request.cursor = NoCursor
                   THEN {e \in DOMAIN records : visible(e)} ELSE steady
  BY DEF Serve
<1>1. /\ response' # Refused
      /\ checkpoint = IF call.tracker.scope = None THEN seq ELSE call.tracker.scope.checkpoint
      /\ checkpoint \in From..seq /\ response'.as_of \in 0..MaxTime
      /\ call.tracker.scope # None => ScopeOf(response') = call.tracker.scope
      /\ rows \in Seq(FoundRecord) /\ Len(rows) <= limit
      /\ \A i \in DOMAIN rows :
            /\ rows[i].seq \in From + 1..checkpoint
            /\ rows[i].event \in DOMAIN records
            /\ records[rows[i].event].seq = rows[i].seq
            /\ Matches(rows[i].event)
            /\ \A j \in DOMAIN rows : i < j => rows[i].seq < rows[j].seq
      /\ response'.next_cursor # NoCursor =>
            /\ response'.next_cursor.digest = query_binding(call.request)
            /\ response'.next_cursor.last = end
            /\ ScopeOf(response'.next_cursor) = ScopeOf(response')
      /\ \A e \in DOMAIN records :
            ( /\ e \notin hidden /\ Matches(e) /\ records[e].seq \in From + 1..checkpoint
              /\ records[e].seq <= end \/ response'.next_cursor = NoCursor )
            => \E i \in DOMAIN rows : rows[i].event = e
  BY <1>0, Answer
<1>2. /\ From' = From /\ PageEnd' = end /\ From \in Nat
      /\ call.request.after_seq \in 0..From
      /\ \A e : Matches(e)' = Matches(e)
  BY <1>0, CallPosition DEF From, PageEnd, Matches
<1> HIDE DEF rows, end
<1>3. StoreSound'
  BY <1>0 DEF store, FollowerSound, StoreSound, IndexExact, AuthorAllowed, knowledge_dependencies
<1>4. CallSound'
  BY <1>0 DEF store, FollowerSound, CallSound, EventsOf, Matches
<1>5. \A i \in DOMAIN rows : rows[i].event \notin call.tracker.seen
  <2> SUFFICES ASSUME NEW i \in DOMAIN rows, rows[i].event \in call.tracker.seen PROVE FALSE
    OBVIOUS
  <2>1. /\ records[rows[i].event].seq \in From + 1..checkpoint
        /\ rows[i].event \in call.tracker.seen \cap DOMAIN records
    BY <1>1
  <2>2. CASE call.tracker.scope = None
    <3>1. call.records = <<>> /\ call.tracker.seen = EventsOf(call)
      BY <1>0, <2>2 DEF FollowerSound, CallSound
    <3> QED
      BY <2>1, <3>1 DEF EventsOf
  <2>3. CASE call.tracker.scope # None
    <3>1. \/ records[rows[i].event].seq <= From
          \/ records[rows[i].event].seq > checkpoint
      BY <1>0, <1>1, <2>1, <2>3 DEF From, FollowerSound, CallSound
    <3> QED
      BY <1>1, <1>2, <2>1, <3>1
  <2> QED
    BY <2>2, <2>3
<1>6. ResponseSound'
  <2>1. \A i, j \in DOMAIN rows :
          i < j => rows[i].seq < rows[j].seq /\ rows[i].event # rows[j].event
    <3> SUFFICES ASSUME NEW i \in DOMAIN rows, NEW j \in DOMAIN rows, i < j
                 PROVE  rows[i].seq < rows[j].seq /\ rows[i].event # rows[j].event
      OBVIOUS
    <3>1. /\ rows[i].seq < rows[j].seq
          /\ rows[i].seq \in From + 1..checkpoint
          /\ records[rows[i].event].seq = rows[i].seq
          /\ records[rows[j].event].seq = rows[j].seq
      BY <1>1
    <3>2. rows[i].seq # rows[j].seq
      BY <1>1, <1>2, <3>1
    <3> QED
      BY <3>1, <3>2
  <2> QED
    BY <1>0, <1>1, <1>2, <1>5, <2>1 DEF store, ResponseSound, ScopeOf, rows
<1>7. SteadySound'
  <2>1. Checkpoint' = checkpoint
    BY <1>0, <1>1 DEF Checkpoint
  <2>2. \A e \in steady' :
          e \in DOMAIN records /\ e \notin hidden /\ records[e].seq <= checkpoint
    <3>1. CASE call.tracker.scope = None
      <4>1. call.request.cursor = NoCursor
        BY <1>0, <3>1 DEF FollowerSound, CallSound
      <4> QED
        BY <1>0, <1>1, <3>1, <4>1, NumberOf DEF FollowerSound, visible
    <3>2. CASE call.tracker.scope # None
      <4>1. call.request.cursor # NoCursor
        BY <1>0, <3>2 DEF FollowerSound, CallSound
      <4> QED
        BY <1>0, <1>1, <3>2, <4>1 DEF FollowerSound, SteadySound, Captured, Checkpoint
    <3> QED
      BY <3>1, <3>2
  <2>3. \A e \in steady' :
          (Matches(e) /\ records[e].seq \in call.request.after_seq + 1..From)
            => e \in call.tracker.seen
    <3>1. CASE call.tracker.scope = None
      <4>1. From = call.request.after_seq
        BY <3>1 DEF From
      <4> QED
        BY <1>2, <4>1
    <3>2. CASE call.tracker.scope # None
      <4>1. call.request.cursor # NoCursor
        BY <1>0, <3>2 DEF FollowerSound, CallSound
      <4> QED
        BY <1>0, <3>2, <4>1 DEF FollowerSound, SteadySound, Captured
    <3> QED
      BY <3>1, <3>2
  <2>4. \A e \in steady' :
          ( /\ Matches(e) /\ records[e].seq > From
            /\ records[e].seq <= end \/ response'.next_cursor = NoCursor )
          => \E i \in DOMAIN rows : rows[i].event = e
    <3> SUFFICES ASSUME NEW e \in steady', Matches(e), records[e].seq > From,
                        records[e].seq <= end \/ response'.next_cursor = NoCursor
                 PROVE  \E i \in DOMAIN rows : rows[i].event = e
      OBVIOUS
    <3>1. e \in DOMAIN records /\ e \notin hidden /\ records[e].seq <= checkpoint
      BY <2>2
    <3>2. records[e].seq \in From + 1..checkpoint
      BY <1>1, <1>2, <3>1, NumberOf DEF FollowerSound
    <3> QED
      BY <1>1, <3>1, <3>2
  <2>5. \A e \in DOMAIN records :
          (e \notin withheld /\ records[e].seq <= checkpoint) => e \in steady'
    <3>1. CASE call.tracker.scope = None
      <4>1. call.request.cursor = NoCursor /\ hidden \subseteq withheld
        BY <1>0, <3>1 DEF FollowerSound, CallSound, StoreSound
      <4> QED
        BY <1>0, <4>1 DEF visible
    <3>2. CASE call.tracker.scope # None
      <4>1. call.request.cursor # NoCursor
        BY <1>0, <3>2 DEF FollowerSound, CallSound
      <4> QED
        BY <1>0, <1>1, <3>2, <4>1 DEF FollowerSound, SteadySound, Captured, Checkpoint
    <3> QED
      BY <3>1, <3>2
  <2>6. FoundIn(response)' = {rows[i].event : i \in DOMAIN rows}
    BY DEF FoundIn, rows
  <2> QED
    BY <1>0, <1>2, <2>1, <2>2, <2>3, <2>4, <2>5, <2>6 DEF store, SteadySound
<1>8. after' \in 0..seq' /\ FollowerMissesNothing'
  BY <1>0 DEF store, FollowerSound, FollowerMissesNothing
<1> QED
  BY <1>3, <1>4, <1>6, <1>7, <1>8 DEF FollowerSound
-----------------------------------------------------------------------------
(* The tracker takes the next page of an honest service. *)
LEMMA PageIsTaken ==
  ASSUME FollowerSound, call # NoCall, response # NoResponse
  PROVE  PageTaken
<1> DEFINE rows == response.result
           request == call.request
           tracker == call.tracker
<1>1. /\ From \in Nat /\ request.after_seq \in 0..From /\ request.limit = limit
      /\ request.filter = FilterOf(call.target)
  BY CallPosition
<1>2. /\ response # Refused /\ response.checkpoint \in From..seq
      /\ tracker.scope # None => ScopeOf(response) = tracker.scope
      /\ rows \in Seq(FoundRecord) /\ Len(rows) <= limit
      /\ \A i \in DOMAIN rows :
            /\ rows[i].seq \in From + 1..response.checkpoint
            /\ Matches(rows[i].event)
            /\ rows[i].event \notin tracker.seen
            /\ \A j \in DOMAIN rows :
                  i < j => rows[i].seq < rows[j].seq /\ rows[i].event # rows[j].event
  BY DEF FollowerSound, ResponseSound
<1>3. IF tracker.scope = None THEN request.cursor = NoCursor
      ELSE request.cursor # NoCursor /\ request.cursor = tracker.next_cursor
  BY DEF FollowerSound, CallSound
<1>4. From = IF tracker.scope = None THEN request.after_seq ELSE tracker.last
  BY DEF From
<1> HIDE DEF rows, request, tracker
<1>5. PageValid(request, response)
  <2>1. DOMAIN rows = 1..Len(rows) /\ Len(rows) \in Nat
    BY <1>2
  <2> SUFFICES ASSUME NEW i \in DOMAIN rows
               PROVE  /\ rows[i].seq <= response.checkpoint
                      /\ rows[i].seq > request.after_seq
                      /\ i > 1 => rows[i].seq > rows[i - 1].seq
                      /\ \A j \in 1..i - 1 : rows[i].event # rows[j].event
                      /\ knowledge_query_matches(rows[i].event, request.filter)
    BY <1>1, <1>2 DEF PageValid, rows
  <2>2. rows[i].seq \in From + 1..response.checkpoint /\ response.checkpoint \in Int
    BY <1>1, <1>2
  <2>3. rows[i].seq <= response.checkpoint /\ rows[i].seq > request.after_seq
    BY <1>1, <2>2
  <2>4. \A j \in 1..i - 1 : j \in DOMAIN rows /\ j < i
    BY <2>1
  <2>5. i > 1 => i - 1 \in DOMAIN rows /\ i - 1 < i
    BY <2>1
  <2>6. \A j \in DOMAIN rows : j < i => rows[j].seq \in Int
    BY <1>1, <1>2
  <2>7. i > 1 => rows[i].seq > rows[i - 1].seq
    BY <1>2, <2>2, <2>5, <2>6
  <2> QED
    BY <1>1, <1>2, <2>3, <2>4, <2>7 DEF Matches
<1>6. rows # <<>> => rows[1].seq > From
  <2> SUFFICES ASSUME rows # <<>> PROVE rows[1].seq > From
    OBVIOUS
  <2>1. 1 \in DOMAIN rows
    BY <1>2
  <2> QED
    BY <1>1, <1>2, <2>1
<1>7. Accepts(tracker, request, response)
  BY <1>2, <1>3, <1>4, <1>5, <1>6 DEF Accepts, rows
<1> QED
  BY <1>2, <1>7 DEF PageTaken, tracker, request

EventsIn(rows) == {rows[i].event : i \in DOMAIN rows}

(* The events of two lists are the events of the one after the other. *)
LEMMA EventsAppended ==
  ASSUME NEW S, NEW s \in Seq(S), NEW t \in Seq(S)
  PROVE  EventsIn(s \o t) = EventsIn(s) \cup EventsIn(t)
<1> DEFINE m == Len(s)
           n == Len(t)
           u == s \o t
<1>1. /\ m \in Nat /\ n \in Nat /\ Len(u) = m + n
      /\ DOMAIN s = 1..m /\ DOMAIN t = 1..n /\ DOMAIN u = 1..(m + n)
  OBVIOUS
<1>2. \A i \in 1..(m + n) : u[i] = IF i <= m THEN s[i] ELSE t[i - m]
  OBVIOUS
<1> HIDE DEF m, n, u
<1>3. \A i \in 1..m : i \in 1..(m + n) /\ u[i] = s[i]
  BY <1>1, <1>2
<1>4. \A i \in 1..n : i + m \in 1..(m + n) /\ u[i + m] = t[i]
  <2> TAKE i \in 1..n
  <2>1. i + m \in 1..(m + n) /\ ~ (i + m <= m) /\ (i + m) - m = i
    BY <1>1
  <2> QED
    BY <1>2, <2>1
<1>5. ASSUME NEW i \in 1..(m + n)
      PROVE  \/ \E j \in 1..m : u[i].event = s[j].event
             \/ \E j \in 1..n : u[i].event = t[j].event
  <2>1. i \in 1..m \/ (i - m \in 1..n /\ ~ (i <= m))
    BY <1>1
  <2>2. CASE i \in 1..m
    BY <1>3, <2>2
  <2>3. CASE i - m \in 1..n /\ ~ (i <= m)
    <3>1. u[i] = t[i - m]
      BY <1>2, <2>3
    <3> QED
      BY <2>3, <3>1
  <2> QED
    BY <2>1, <2>2, <2>3
<1>6. {u[i].event : i \in 1..(m + n)}
        = {s[i].event : i \in 1..m} \cup {t[i].event : i \in 1..n}
  <2>1. ASSUME NEW x \in {u[i].event : i \in 1..(m + n)}
        PROVE  x \in {s[i].event : i \in 1..m} \cup {t[i].event : i \in 1..n}
    <3>1. PICK i \in 1..(m + n) : x = u[i].event
      OBVIOUS
    <3> QED
      BY <1>5, <3>1
  <2>2. ASSUME NEW x \in {s[i].event : i \in 1..m}
        PROVE  x \in {u[i].event : i \in 1..(m + n)}
    BY <1>3
  <2>3. ASSUME NEW x \in {t[i].event : i \in 1..n}
        PROVE  x \in {u[i].event : i \in 1..(m + n)}
    BY <1>4
  <2> QED
    BY <2>1, <2>2, <2>3
<1> QED
  BY <1>1, <1>6, Zenon DEF u, EventsIn

(* What taking it makes of the call. *)
LEMMA TakenPage ==
  ASSUME FollowerSound, PageTaken
  PROVE  /\ call # NoCall /\ response # NoResponse
         /\ PageEnd \in From..response.checkpoint
         /\ TakePage.tracker = [scope |-> ScopeOf(response),
                                seen |-> call.tracker.seen \cup FoundIn(response),
                                last |-> PageEnd, next_cursor |-> response.next_cursor]
         /\ ScopeOf(response) # None
         /\ TakePage.request = [after_seq |-> call.request.after_seq,
                                filter |-> FilterOf(call.target), limit |-> limit,
                                cursor |-> response.next_cursor]
         /\ TakePage.target = call.target
         /\ TakePage.records \in Seq(FoundRecord)
         /\ EventsOf(TakePage) = call.tracker.seen \cup FoundIn(response)
<1> DEFINE rows == response.result
<1>1. call # NoCall /\ response # NoResponse
  BY DEF PageTaken
<1>2. From \in Nat /\ From <= seq /\ seq \in 0..MAX_SAFE_NONCE
  BY <1>1, CallPosition DEF FollowerSound, StoreSound
<1>3. /\ rows \in Seq(FoundRecord)
      /\ response.checkpoint \in From..seq /\ response.as_of \in 0..MaxTime
      /\ \A i \in DOMAIN rows : rows[i].seq \in From + 1..response.checkpoint
  BY <1>1 DEF FollowerSound, ResponseSound
<1>4. call.records \in Seq(FoundRecord) /\ call.tracker.seen = EventsOf(call)
  BY <1>1 DEF FollowerSound, CallSound
<1>5. call.request = [after_seq |-> IF call.target = None THEN after ELSE 0,
                      filter |-> FilterOf(call.target), limit |-> limit,
                      cursor |-> call.request.cursor]
  BY <1>1 DEF FollowerSound, CallSound
<1>6. PageEnd \in From..response.checkpoint
  <2>1. CASE rows = <<>>
    BY <1>2, <1>3, <2>1 DEF PageEnd
  <2>2. CASE rows # <<>>
    <3>1. Len(rows) \in DOMAIN rows
      BY <1>3, <2>2
    <3>2. PageEnd = rows[Len(rows)].seq
      BY <2>2 DEF PageEnd, Last
    <3> HIDE DEF rows
    <3> QED
      BY <1>2, <1>3, <3>1, <3>2
  <2> QED
    BY <2>1, <2>2
<1>7. TakePage.tracker = [scope |-> ScopeOf(response),
                          seen |-> call.tracker.seen \cup FoundIn(response),
                          last |-> PageEnd, next_cursor |-> response.next_cursor]
  BY DEF TakePage, Accepted, PageEnd, From, FoundIn
<1>8. ScopeOf(response) # None
  <2>1. response.checkpoint \in 0..MAX_SAFE_NONCE
    BY <1>2, <1>3, KnowledgeAssumption
  <2>2. ScopeOf(response) \in Scope
    BY <1>3, <2>1 DEF ScopeOf, Scope
  <2> QED
    BY <2>2, AbsentAssumption
<1>9. TakePage.request = [after_seq |-> call.request.after_seq,
                          filter |-> FilterOf(call.target), limit |-> limit,
                          cursor |-> response.next_cursor]
  <2>1. TakePage.request = [call.request EXCEPT !.cursor = response.next_cursor]
    BY DEF TakePage
  <2> DEFINE a == IF call.target = None THEN after ELSE 0
             f == FilterOf(call.target)
             r == call.request
  <2>2. r = [after_seq |-> a, filter |-> f, limit |-> limit, cursor |-> r.cursor]
    BY <1>5
  <2> HIDE DEF a, f, r
  <2>3. [r EXCEPT !.cursor = response.next_cursor] =
          [after_seq |-> r.after_seq, filter |-> f, limit |-> limit,
           cursor |-> response.next_cursor]
    BY <2>2
  <2> QED
    BY <2>1, <2>3 DEF r, f
<1>10. TakePage.target = call.target /\ TakePage.records = call.records \o rows
  BY DEF TakePage
<1>11. /\ TakePage.records \in Seq(FoundRecord)
       /\ EventsOf(TakePage) = EventsOf(call) \cup FoundIn(response)
  <2>1. TakePage.records \in Seq(FoundRecord)
    BY <1>3, <1>4, <1>10
  <2>2. EventsOf(TakePage) = EventsOf(call) \cup FoundIn(response)
    <3>1. EventsOf(TakePage) = EventsIn(call.records \o rows)
      BY <1>10, Zenon DEF EventsOf, EventsIn
    <3>2. EventsOf(call) = EventsIn(call.records) /\ FoundIn(response) = EventsIn(rows)
      BY Zenon DEF EventsOf, FoundIn, EventsIn
    <3>3. EventsIn(call.records \o rows) = EventsIn(call.records) \cup EventsIn(rows)
      BY <1>3, <1>4, EventsAppended
    <3> QED
      BY <3>1, <3>2, <3>3, Zenon
  <2> QED
    BY <2>1, <2>2
<1> QED
  BY <1>1, <1>4, <1>6, <1>7, <1>8, <1>9, <1>10, <1>11

(* The next request continues where the page ended. *)
LEMMA NextPageKeepsSound ==
  ASSUME FollowerSound, NextPage
  PROVE  FollowerSound'
<1> DEFINE page == response
           tracker == TakePage.tracker
<1>1. /\ PageTaken /\ ~ is_complete(tracker)
      /\ call' = TakePage /\ response' = NoResponse
      /\ UNCHANGED <<now, records, by_seq, hidden, seq, known, after, withheld, steady>>
  BY DEF NextPage, store, history
<1>2. /\ call # NoCall /\ response # NoResponse
      /\ PageEnd \in From..page.checkpoint
      /\ tracker = [scope |-> ScopeOf(page),
                    seen |-> call.tracker.seen \cup FoundIn(page),
                    last |-> PageEnd, next_cursor |-> page.next_cursor]
      /\ ScopeOf(page) # None
      /\ TakePage.request = [after_seq |-> call.request.after_seq,
                             filter |-> FilterOf(call.target), limit |-> limit,
                             cursor |-> page.next_cursor]
      /\ TakePage.target = call.target
      /\ TakePage.records \in Seq(FoundRecord)
      /\ EventsOf(TakePage) = call.tracker.seen \cup FoundIn(page)
  BY <1>1, TakenPage
<1>3. /\ From \in Nat /\ call.request.after_seq \in 0..From
      /\ call.request.filter = FilterOf(call.target) /\ call.request.limit = limit
      /\ call.request.after_seq = IF call.target = None THEN after ELSE 0
      /\ call.target \in ResultRecord \cup {None}
  BY <1>2, CallPosition
<1>4. /\ page.checkpoint \in From..seq /\ page.as_of \in 0..MaxTime /\ seq \in Nat
      /\ \A i \in DOMAIN page.result :
            /\ page.result[i].seq \in From + 1..page.checkpoint
            /\ Matches(page.result[i].event)
            /\ page.result[i].event \in DOMAIN records =>
                  \/ records[page.result[i].event].seq = page.result[i].seq
                  \/ records[page.result[i].event].seq > page.checkpoint
      /\ call.tracker.scope # None => ScopeOf(page) = call.tracker.scope
      /\ page.next_cursor # NoCursor =>
            /\ page.next_cursor.digest = query_binding(call.request)
            /\ page.next_cursor.last = PageEnd
            /\ ScopeOf(page.next_cursor) = ScopeOf(page)
  BY <1>2 DEF FollowerSound, ResponseSound, StoreSound
<1> HIDE DEF tracker
<1>5. /\ call'.request = TakePage.request /\ call'.target = call.target
      /\ call'.tracker = tracker /\ call'.records = TakePage.records
      /\ EventsOf(call)' = EventsOf(TakePage)
      /\ \A e : Matches(e)' = Matches(e)
  BY <1>1, <1>2 DEF tracker, Matches, EventsOf
<1>6. /\ tracker.scope = ScopeOf(page) /\ tracker.last = PageEnd
      /\ tracker.seen = call.tracker.seen \cup FoundIn(page)
      /\ tracker.next_cursor = page.next_cursor
      /\ tracker.scope.checkpoint = page.checkpoint /\ tracker.scope.as_of = page.as_of
  BY <1>2 DEF ScopeOf
<1>7. page.next_cursor # NoCursor
  BY <1>1, <1>2, <1>6 DEF is_complete
<1>8. \A e \in FoundIn(page) :
        /\ Matches(e)
        /\ e \in DOMAIN records => records[e].seq <= PageEnd \/ records[e].seq > page.checkpoint
  <2> SUFFICES ASSUME NEW e \in FoundIn(page)
               PROVE  /\ Matches(e)
                      /\ e \in DOMAIN records =>
                           records[e].seq <= PageEnd \/ records[e].seq > page.checkpoint
    OBVIOUS
  <2>1. PICK i \in DOMAIN page.result : e = page.result[i].event
    BY DEF FoundIn
  <2>2. page.result[i].seq <= PageEnd
    <3> DEFINE rows == page.result
    <3>1. /\ rows \in Seq(FoundRecord)
          /\ \A j, k \in DOMAIN rows : j < k => rows[j].seq < rows[k].seq
      BY <1>2 DEF FollowerSound, ResponseSound
    <3>2. /\ i \in 1..Len(rows) /\ Len(rows) \in DOMAIN rows /\ rows # <<>>
          /\ rows[i].seq \in Int /\ rows[Len(rows)].seq \in Int
      BY <1>3, <1>4, <2>1, <3>1
    <3>3. PageEnd = rows[Len(rows)].seq
      BY <3>2 DEF PageEnd, Last
    <3> HIDE DEF rows
    <3>4. i = Len(rows) \/ i < Len(rows)
      BY <3>1, <3>2
    <3>5. rows[i].seq <= rows[Len(rows)].seq
      BY <2>1, <3>1, <3>2, <3>4 DEF rows
    <3> QED
      BY <3>3, <3>5 DEF rows
  <2> QED
    BY <1>4, <2>1, <2>2
<1>9. StoreSound'
  BY <1>1 DEF FollowerSound, StoreSound, IndexExact, AuthorAllowed, knowledge_dependencies
<1>10. CallSound'
  <2>1. call'.request = [after_seq |-> IF call.target = None THEN after ELSE 0,
                         filter |-> FilterOf(call.target), limit |-> limit,
                         cursor |-> page.next_cursor]
    BY <1>2, <1>3, <1>5
  <2>2. call'.request.cursor = page.next_cursor
    BY <2>1
  <2>3. query_binding(call'.request) = query_binding(call.request)
    BY <1>2, <1>3, <1>5 DEF query_binding
  <2>4. \A e \in tracker.seen : Matches(e)
    BY <1>2, <1>6, <1>8 DEF FollowerSound, CallSound
  <2>5. \A e \in tracker.seen \cap DOMAIN records :
          records[e].seq <= PageEnd \/ records[e].seq > page.checkpoint
    <3> SUFFICES ASSUME NEW e \in call.tracker.seen, e \in DOMAIN records
                 PROVE  records[e].seq <= PageEnd \/ records[e].seq > page.checkpoint
      BY <1>6, <1>8
    <3>1. CASE call.tracker.scope = None
      <4>1. call.records = <<>> /\ call.tracker.seen = EventsOf(call)
        BY <1>2, <3>1 DEF FollowerSound, CallSound
      <4> QED
        BY <4>1 DEF EventsOf
    <3>2. CASE call.tracker.scope # None
      <4>1. /\ call.tracker.scope.checkpoint = page.checkpoint
            /\ \/ records[e].seq <= From
               \/ records[e].seq > call.tracker.scope.checkpoint
        BY <1>2, <1>4, <3>2 DEF ScopeOf, From, FollowerSound, CallSound
      <4>2. records[e].seq \in Nat /\ From <= PageEnd /\ PageEnd \in Int
        BY <1>2, <1>3, <1>4, NumberOf DEF FollowerSound
      <4> QED
        BY <1>3, <4>1, <4>2
    <3> QED
      BY <3>1, <3>2
  <2>6. /\ page.next_cursor.last \in call.request.after_seq..page.checkpoint
        /\ page.checkpoint \in 0..seq
    BY <1>2, <1>3, <1>4, <1>7
  <2>7. tracker.scope = [checkpoint |-> page.next_cursor.checkpoint,
                         as_of |-> page.next_cursor.as_of]
    BY <1>4, <1>6, <1>7 DEF ScopeOf
  <2>8. call.target # None =>
          call.target.event \notin knowledge_dependencies(call.target.event)
    BY <1>2 DEF FollowerSound, CallSound
  <2>9. call'.request.after_seq = call.request.after_seq
    BY <1>2, <1>5
  <2> QED
    BY <1>1, <1>2, <1>3, <1>4, <1>5, <1>6, <1>7, <2>1, <2>2, <2>3, <2>4, <2>5, <2>6, <2>7,
       <2>8, <2>9 DEF CallSound, knowledge_dependencies
<1>11. ResponseSound'
  BY <1>1 DEF ResponseSound
<1>12. SteadySound'
  <2>1. Checkpoint' = page.checkpoint /\ Checkpoint = page.checkpoint
    <3>1. call'.tracker.scope # None
      BY <1>2, <1>5, <1>6
    <3>2. call.tracker.scope # None => call.tracker.scope.checkpoint = page.checkpoint
      BY <1>4 DEF ScopeOf
    <3> QED
      BY <1>5, <1>6, <3>1, <3>2 DEF Checkpoint
  <2>2. From' = PageEnd
    BY <1>2, <1>5, <1>6 DEF From
  <2>3. call'.request.after_seq = call.request.after_seq
    BY <1>2, <1>5
  <2>4. Captured
    BY <1>2 DEF Captured
  <2>5. /\ \A e \in steady :
              /\ e \in DOMAIN records /\ e \notin hidden /\ records[e].seq <= page.checkpoint
              /\ (Matches(e) /\ records[e].seq \in call.request.after_seq + 1..From)
                    => e \in call.tracker.seen
              /\ (Matches(e) /\ records[e].seq > From /\ records[e].seq <= PageEnd)
                    => e \in FoundIn(page)
        /\ \A e \in DOMAIN records :
              (e \notin withheld /\ records[e].seq <= page.checkpoint) => e \in steady
    BY <1>2, <2>1, <2>4 DEF FollowerSound, SteadySound
  <2>6. \A e \in steady :
          (Matches(e) /\ records[e].seq \in call.request.after_seq + 1..PageEnd)
            => e \in tracker.seen
    <3> SUFFICES ASSUME NEW e \in steady, Matches(e),
                        records[e].seq \in call.request.after_seq + 1..PageEnd
                 PROVE  e \in call.tracker.seen \cup FoundIn(page)
      BY <1>6
    <3>1. e \in DOMAIN records /\ records[e].seq \in Nat
      BY <2>5, NumberOf DEF FollowerSound
    <3>2. PageEnd \in Int
      BY <1>2, <1>3
    <3>3. records[e].seq \in call.request.after_seq + 1..From
          \/ (records[e].seq > From /\ records[e].seq <= PageEnd)
      BY <1>3, <3>1, <3>2
    <3> QED
      BY <2>5, <3>3
  <2> QED
    BY <1>1, <1>5, <2>1, <2>2, <2>3, <2>5, <2>6 DEF SteadySound
<1>13. after' \in 0..seq' /\ FollowerMissesNothing'
  BY <1>1 DEF FollowerSound, FollowerMissesNothing
<1> QED
  BY <1>9, <1>10, <1>11, <1>12, <1>13 DEF FollowerSound

(* When no page remains, all that stayed visible since the first one has    *)
(* been taken, as far as it matches.                                       *)
LEMMA CompleteFindsSteady ==
  ASSUME FollowerSound, PageTaken, is_complete(TakePage.tracker)
  PROVE  /\ \A e \in steady :
               (Matches(e) /\ records[e].seq > call.request.after_seq) => e \in EventsOf(TakePage)
         /\ \A e \in DOMAIN records :
               (e \notin withheld /\ records[e].seq <= response.checkpoint) => e \in steady
         /\ response.checkpoint \in 0..seq
<1>1. /\ call # NoCall /\ response # NoResponse
      /\ TakePage.tracker.next_cursor = response.next_cursor
      /\ EventsOf(TakePage) = call.tracker.seen \cup FoundIn(response)
  BY TakenPage
<1>2. response.next_cursor = NoCursor /\ Captured
  BY <1>1 DEF is_complete, Captured
<1>3. From \in Nat /\ call.request.after_seq \in 0..From /\ seq \in Nat
  BY <1>1, CallPosition DEF FollowerSound, StoreSound
<1>4. response.checkpoint \in From..seq /\ Checkpoint = response.checkpoint
  BY <1>1 DEF FollowerSound, ResponseSound, Checkpoint, ScopeOf
<1>5. /\ \A e \in steady :
            /\ e \in DOMAIN records
            /\ (Matches(e) /\ records[e].seq \in call.request.after_seq + 1..From)
                  => e \in call.tracker.seen
            /\ (Matches(e) /\ records[e].seq > From) => e \in FoundIn(response)
      /\ \A e \in DOMAIN records :
            (e \notin withheld /\ records[e].seq <= response.checkpoint) => e \in steady
  BY <1>1, <1>2, <1>4 DEF FollowerSound, SteadySound
<1>6. ASSUME NEW e \in steady, Matches(e), records[e].seq > call.request.after_seq
      PROVE  e \in EventsOf(TakePage)
  <2>1. records[e].seq \in Nat
    BY <1>5, NumberOf DEF FollowerSound
  <2>2. records[e].seq \in call.request.after_seq + 1..From \/ records[e].seq > From
    BY <1>3, <1>6, <2>1
  <2> QED
    BY <1>1, <1>5, <1>6, <2>2
<1> QED
  BY <1>3, <1>4, <1>5, <1>6

(* A call that ends leaves nothing of itself behind. *)
LEMMA CallEnds ==
  ASSUME FollowerSound, call' = NoCall, response' = NoResponse,
         UNCHANGED <<now, store, withheld>>,
         after' \in 0..seq, FollowerMissesNothing'
  PROVE  FollowerSound'
<1>1. UNCHANGED <<now, records, by_seq, hidden, seq, withheld>>
  BY DEF store
<1>2. StoreSound'
  BY <1>1 DEF FollowerSound, StoreSound, IndexExact, AuthorAllowed, knowledge_dependencies
<1>3. CallSound' /\ ResponseSound' /\ SteadySound'
  BY DEF CallSound, ResponseSound, SteadySound, Captured
<1> QED
  BY <1>1, <1>2, <1>3 DEF FollowerSound

(* The checkpoint the caller persists passes no record it is owed: what    *)
(* was never withheld has been on a page, of this traversal or before.     *)
LEMMA FinishQueryAllKeepsSound ==
  ASSUME FollowerSound, FinishQueryAll
  PROVE  FollowerSound'
<1>1. /\ PageTaken /\ call.target = None /\ is_complete(TakePage.tracker)
      /\ known' = known \cup EventsOf(TakePage) /\ after' = response.checkpoint
      /\ call' = NoCall /\ response' = NoResponse
      /\ UNCHANGED <<now, store, withheld>> /\ records' = records
  BY DEF FinishQueryAll, store, history
<1>2. call # NoCall
  BY <1>1 DEF PageTaken
<1>3. call.request.after_seq = after /\ after \in Nat
  BY <1>1, <1>2, CallPosition DEF FollowerSound
<1>4. /\ \A e \in steady : (Matches(e) /\ records[e].seq > after) => e \in EventsOf(TakePage)
      /\ \A e \in DOMAIN records :
            (e \notin withheld /\ records[e].seq <= response.checkpoint) => e \in steady
      /\ response.checkpoint \in 0..seq
  BY <1>1, <1>3, CompleteFindsSteady
<1>5. \A e : Matches(e)
  BY <1>1 DEF Matches, FilterOf, knowledge_query_matches
<1>6. FollowerMissesNothing'
  <2> SUFFICES ASSUME NEW e \in DOMAIN records, records[e].seq <= response.checkpoint,
                      e \notin withheld
               PROVE  e \in known \cup EventsOf(TakePage)
    BY <1>1 DEF FollowerMissesNothing
  <2>1. records[e].seq \in Nat
    BY NumberOf DEF FollowerSound
  <2>2. CASE records[e].seq <= after
    BY <2>2 DEF FollowerSound, FollowerMissesNothing
  <2>3. CASE records[e].seq > after
    BY <1>4, <1>5, <2>3
  <2> QED
    BY <1>3, <2>1, <2>2, <2>3
<1> QED
  BY <1>1, <1>4, <1>6, CallEnds

(* A call begins with no page taken, and nothing yet owed to it. *)
LEMMA CallBegins ==
  ASSUME FollowerSound, call = NoCall,
         NEW target \in ResultRecord \cup {None},
         target # None => target.event \notin knowledge_dependencies(target.event),
         call' = NewCall(target, FilterOf(target), IF target = None THEN after ELSE 0),
         UNCHANGED <<now, store, response, known, after, withheld>>
  PROVE  FollowerSound'
<1>1. UNCHANGED <<now, records, by_seq, hidden, seq, known, after, withheld>>
  BY DEF store
<1>2. StoreSound'
  BY <1>1 DEF FollowerSound, StoreSound, IndexExact, AuthorAllowed, knowledge_dependencies
<1>3. response' = NoResponse
  BY DEF FollowerSound, CallSound
<1> DEFINE request == [after_seq |-> IF target = None THEN after ELSE 0,
                       filter |-> FilterOf(target), limit |-> limit, cursor |-> NoCursor]
<1>4. /\ call'.request = request /\ call'.target = target
      /\ call'.tracker = NewTracker /\ call'.records = <<>>
  BY DEF NewCall
<1>5. /\ call'.tracker.scope = None /\ call'.tracker.seen = {}
      /\ EventsOf(call)' = {}
  BY <1>4 DEF NewTracker, EventsOf
<1>6. /\ request.cursor = NoCursor
      /\ call'.request.cursor = NoCursor
      /\ call'.request = [after_seq |-> IF call'.target = None THEN after' ELSE 0,
                          filter |-> FilterOf(call'.target), limit |-> limit,
                          cursor |-> call'.request.cursor]
  BY <1>1, <1>4
<1>7. call'.records \in Seq(FoundRecord)
  <2>1. <<>> \in Seq(FoundRecord)
    OBVIOUS
  <2> QED
    BY <1>4, <2>1, Zenon
<1>8. CallSound'
  BY <1>1, <1>3, <1>4, <1>5, <1>6, <1>7 DEF CallSound, knowledge_dependencies
<1>9. ResponseSound' /\ SteadySound'
  BY <1>3, <1>5 DEF ResponseSound, SteadySound, Captured
<1> QED
  BY <1>1, <1>2, <1>8, <1>9 DEF FollowerSound, FollowerMissesNothing

(* Every step of the consumer and of the service keeps what a call relies  *)
(* on.                                                                     *)
LEMMA FollowerStays == Spec => []FollowerSound
<1>1. Init => FollowerSound
  BY KnowledgeAssumption
  DEF Init, StoreInit, FollowerSound, StoreSound, IndexExact, CallSound, ResponseSound,
      SteadySound, Captured, FollowerMissesNothing
<1>2. FollowerSound /\ [Next]_vars => FollowerSound'
  <2> SUFFICES ASSUME FollowerSound, [Next]_vars PROVE FollowerSound'
    OBVIOUS
  <2>1. CASE ServiceNext
    BY <2>1, ServiceEffect, ServiceKeepsSound DEF FollowerSound
  <2>2. CASE StartQueryAll
    <3>1. FilterOf(None) = [actor |-> NoFilter, type |-> NoFilter, target |-> NoFilter]
      BY DEF FilterOf
    <3>2. call = NoCall /\ call' = NewCall(None, FilterOf(None), after)
      BY <2>2, <3>1 DEF StartQueryAll
    <3>3. UNCHANGED <<now, store, response, known, after, withheld>>
      BY <2>2 DEF StartQueryAll
    <3> QED
      BY <3>2, <3>3, CallBegins
  <2>3. ASSUME NEW e \in Events, StartStatus(e) PROVE FollowerSound'
    <3> DEFINE target == [event |-> e, seq |-> records[e].seq]
    <3>1. e \in DOMAIN records /\ seq \in 0..MAX_SAFE_NONCE
      BY <2>3 DEF StartStatus, visible, FollowerSound, StoreSound
    <3>2. records[e].seq \in 1..MAX_SAFE_NONCE
      BY <3>1, NumberOf, KnowledgeAssumption DEF FollowerSound
    <3>3. target \in ResultRecord
      BY <3>2 DEF ResultRecord
    <3>4. target # None
      BY <3>3, AbsentAssumption
    <3>5. target.event \notin knowledge_dependencies(target.event)
      BY <3>1 DEF FollowerSound, StoreSound
    <3>6. FilterOf(target) = [actor |-> NoFilter, type |-> NoFilter, target |-> e]
      BY <3>4 DEF FilterOf
    <3>7. call = NoCall /\ call' = NewCall(target, FilterOf(target), 0)
      BY <2>3, <3>6 DEF StartStatus
    <3>8. UNCHANGED <<now, store, response, known, after, withheld>>
      BY <2>3 DEF StartStatus
    <3> HIDE DEF target
    <3> QED
      BY <3>3, <3>4, <3>5, <3>7, <3>8, CallBegins
  <2>4. CASE Serve
    BY <2>4, ServeKeepsSound
  <2>5. CASE NextPage
    BY <2>5, NextPageKeepsSound
  <2>6. CASE FinishQueryAll
    BY <2>6, FinishQueryAllKeepsSound
  <2>7. CASE FinishStatus \/ CallFails \/ TransportFails
    <3>1. /\ call' = NoCall /\ response' = NoResponse
          /\ UNCHANGED <<now, store, withheld>> /\ UNCHANGED <<records, seq, known, after>>
      BY <2>7 DEF FinishStatus, CallFails, TransportFails, store, history
    <3>2. after' \in 0..seq /\ FollowerMissesNothing'
      BY <3>1 DEF FollowerSound, FollowerMissesNothing
    <3> QED
      BY <3>1, <3>2, CallEnds
  <2>8. CASE UNCHANGED vars
    BY <2>8 DEF vars, store, follower, history, FollowerSound, StoreSound, IndexExact,
       AuthorAllowed, knowledge_dependencies, CallSound, ResponseSound, SteadySound,
       Captured, Checkpoint, From, PageEnd, Matches, EventsOf, FoundIn, ScopeOf,
       FollowerMissesNothing
  <2> QED
    BY <2>1, <2>2, <2>3, <2>4, <2>5, <2>6, <2>7, <2>8 DEF Next, ConsumerNext
<1> QED
  BY <1>1, <1>2, PTL DEF Spec

(***************************************************************************)
(* No page of an honest service is rejected and no cursor of its own       *)
(* refused, whatever it accepts, hides, unhides and prunes between two     *)
(* pages (query, decode_cursor, KnowledgePageTracker::accept).             *)
(***************************************************************************)
THEOREM FollowerAccepts == Spec => []HonestServiceAccepted
<1>1. FollowerSound => HonestServiceAccepted
  BY PageIsTaken DEF HonestServiceAccepted
<1> QED
  BY <1>1, FollowerStays, PTL

(***************************************************************************)
(* The checkpoint the caller of query_all persists never passes a record   *)
(* it should have: what was accepted up to it and never withheld is known. *)
(***************************************************************************)
THEOREM FollowerComplete == Spec => []FollowerMissesNothing
<1>1. FollowerSound => FollowerMissesNothing
  BY DEF FollowerSound
<1> QED
  BY <1>1, FollowerStays, PTL
-----------------------------------------------------------------------------
(* What a lifecycle check returns: each lifecycle change that stayed       *)
(* visible to it, when it is complete, and none that is not of the target. *)
LEMMA StatusReported ==
  ASSUME FollowerSound, FinishStatus
  PROVE  StatusExact'
<1> DEFINE target == call.target.event
           links == EventsOf(TakePage)
<1>1. /\ PageTaken /\ call.target # None
      /\ report' = [ target |-> target, complete |-> is_complete(TakePage.tracker),
                     checkpoint |-> response.checkpoint,
                     retractions |-> Retractions(links, target),
                     successors |-> Successors(links, target),
                     assessments |-> Assessments(links) ]
      /\ owed' = {e \in steady : target \in knowledge_dependencies(e)}
  BY DEF FinishStatus
<1>2. call # NoCall /\ response # NoResponse
  BY <1>1 DEF PageTaken
<1>3. /\ report'.target = target
      /\ report'.complete = is_complete(TakePage.tracker)
      /\ report'.retractions = Retractions(links, target)
      /\ report'.successors = Successors(links, target)
      /\ report'.assessments = Assessments(links)
  BY <1>1
<1>4. call.request.after_seq = 0 /\ call.target \in ResultRecord
  BY <1>1, <1>2, CallPosition
<1>5. target \in Events /\ target # NoFilter /\ target \notin knowledge_dependencies(target)
  BY <1>1, <1>2, <1>4, AbsentAssumption DEF ResultRecord, FollowerSound, CallSound
<1>6. \A e : Matches(e) <=> target \in knowledge_dependencies(e)
  BY <1>1, <1>5 DEF Matches, FilterOf, knowledge_query_matches
<1>7. \A e \in links : Matches(e)
  <2>1. \A e \in FoundIn(response) : Matches(e)
    BY <1>2 DEF FollowerSound, ResponseSound, FoundIn
  <2>2. \A e \in call.tracker.seen : Matches(e)
    BY <1>2 DEF FollowerSound, CallSound
  <2>3. links = call.tracker.seen \cup FoundIn(response)
    BY <1>1, TakenPage
  <2> QED
    BY <2>1, <2>2, <2>3
<1>8. \A e \in report'.retractions \cup report'.successors :
        /\ event[e].actor = event[report'.target].actor
        /\ report'.target \in knowledge_dependencies(e)
  BY <1>3, <1>6, <1>7 DEF Retractions, Successors, LaterByAuthor
<1>9. ASSUME is_complete(TakePage.tracker)
      PROVE  LET readable == {e \in owed' : ~event[e].decimal}
                 change == LifecycleView(readable \cup {target}, target)
                 view == LifecycleView(owed' \cup {target}, target)
             IN
             /\ ~event[target].decimal =>
                   /\ change.status = "retracted" => report'.retractions # {}
                   /\ change.successors \subseteq report'.successors
             /\ view.assessments \subseteq report'.assessments
  <2> DEFINE readable == {e \in owed' : ~event[e].decimal}
             plain == readable \cup {target}
             retained == owed' \cup {target}
  <2>1. \A e \in owed' :
          e \in links /\ \A link \in event[e].links : AuthorAllowed(e, link)
    <3> SUFFICES ASSUME NEW e \in owed'
                 PROVE  e \in links /\ \A link \in event[e].links : AuthorAllowed(e, link)
      OBVIOUS
    <3>1. e \in steady /\ Matches(e)
      BY <1>1, <1>6
    <3>2. Captured
      BY <1>2 DEF Captured
    <3>3. e \in DOMAIN records
      BY <3>1, <3>2 DEF FollowerSound, SteadySound
    <3>4. records[e].seq > 0
      BY <3>3, NumberOf DEF FollowerSound
    <3>5. e \in links
      BY <1>1, <1>4, <1>9, <3>1, <3>4, CompleteFindsSteady
    <3> QED
      BY <3>3, <3>5 DEF FollowerSound, StoreSound
  <2>2. ASSUME NEW S \in SUBSET owed', NEW type, NEW relation,
               NEW e \in Pointing(S \cup {target}, type, relation, target)
        PROVE  /\ e \in S /\ event[e].type = type
               /\ [relation |-> relation, target |-> target] \in event[e].links
    <3>1. /\ e \in S \cup {target} /\ event[e].type = type
          /\ [relation |-> relation, target |-> target] \in event[e].links
      BY DEF Pointing
    <3>2. target \in knowledge_dependencies(e)
      BY <3>1 DEF knowledge_dependencies
    <3> QED
      BY <1>5, <3>1, <3>2
  <2>3. ASSUME NEW e \in owed', NEW relation \in {"supersedes", "knowledge.retract"},
               [relation |-> relation, target |-> target] \in event[e].links,
               ~event[e].decimal, ~event[target].decimal
        PROVE  LaterByAuthor(e, target)
    <3> DEFINE link == [relation |-> relation, target |-> target]
    <3>1. AuthorAllowed(e, link)
      BY <2>1, <2>3
    <3>2. /\ event[target].actor = event[e].actor
          /\ event[target].nonce < event[e].nonce
      BY <3>1 DEF AuthorAllowed
    <3>3. e \in Events
      BY <1>1, <1>2 DEF FollowerSound, SteadySound, StoreSound, Captured
    <3>4. event[target].nonce \in Int /\ event[e].nonce \in Int
      BY <1>5, <3>3, KnowledgeAssumption DEF EventFields
    <3> HIDE DEF target
    <3> QED
      BY <2>3, <3>2, <3>4 DEF LaterByAuthor
  <2> DEFINE change == LifecycleView(plain, target)
             view == LifecycleView(retained, target)
  <2>4. /\ change.status = "retracted" =>
              Pointing(plain, "knowledge.retract", "knowledge.retract", target) # {}
        /\ change.successors = Pointing(plain, "knowledge.publish", "supersedes", target)
        /\ view.assessments =
              Pointing(retained, "knowledge.assess", "knowledge.assess", target)
    BY DEF LifecycleView
  <2>9. readable \subseteq owed' /\ \A e \in readable : ~event[e].decimal
    OBVIOUS
  <2> HIDE DEF change, view, links, readable
  <2>5. ~event[target].decimal =>
          Pointing(plain, "knowledge.retract", "knowledge.retract", target)
            \subseteq Retractions(links, target)
    BY <2>1, <2>2, <2>3, <2>9 DEF Retractions
  <2>6. ~event[target].decimal =>
          Pointing(plain, "knowledge.publish", "supersedes", target)
            \subseteq Successors(links, target)
    BY <2>1, <2>2, <2>3, <2>9 DEF Successors
  <2>7. Pointing(retained, "knowledge.assess", "knowledge.assess", target)
          \subseteq Assessments(links)
    BY <2>1, <2>2 DEF Assessments
  <2>8. /\ ~event[target].decimal =>
              /\ change.status = "retracted" => report'.retractions # {}
              /\ change.successors \subseteq report'.successors
        /\ view.assessments \subseteq report'.assessments
    <3> HIDE DEF plain, retained
    <3> QED
      BY <1>3, <2>4, <2>5, <2>6, <2>7
  <2> QED
    BY <2>8 DEF change, view, readable, plain, retained
<1> HIDE DEF target, links
<1> QED
  BY <1>3, <1>8, <1>9
  DEF StatusExact, LifecycleView, Pointing, knowledge_dependencies

(***************************************************************************)
(* A lifecycle check that reports itself complete omits no retraction,     *)
(* successor or assessment that stayed visible to it, except those it      *)
(* cannot compare because a nonce is written as a decimal, and never names *)
(* one of another author or target (knowledge_status).                     *)
(***************************************************************************)
THEOREM FollowerStatusExact == Spec => []StatusExact
<1>1. Init => StatusExact
  BY DEF Init, StatusExact
<1>2. FollowerSound /\ StatusExact /\ [Next]_vars => StatusExact'
  <2> SUFFICES ASSUME FollowerSound, StatusExact, [Next]_vars PROVE StatusExact'
    OBVIOUS
  <2>1. ASSUME UNCHANGED <<report, owed>> PROVE StatusExact'
    BY <2>1 DEF StatusExact, LifecycleView, Pointing, knowledge_dependencies
  <2>2. CASE ServiceNext
    BY <2>1, <2>2
    DEF ServiceNext, ServiceSubmits, ServiceHides, ServiceUnhides, ServicePrunes,
        ServiceTicks, follower, history
  <2>3. CASE FinishStatus
    BY <2>3, StatusReported
  <2>4. CASE ConsumerNext /\ ~ FinishStatus
    BY <2>1, <2>4 DEF ConsumerNext, StartQueryAll, StartStatus, Serve, NextPage,
       FinishQueryAll, CallFails, TransportFails, history
  <2>5. CASE UNCHANGED vars
    BY <2>1, <2>5 DEF vars, follower, history
  <2> QED
    BY <2>2, <2>3, <2>4, <2>5 DEF Next
<1> QED
  BY <1>1, <1>2, FollowerStays, PTL DEF Spec
=============================================================================
