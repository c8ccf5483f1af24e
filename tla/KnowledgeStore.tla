----------------------------- MODULE KnowledgeStore -----------------------------
(***************************************************************************)
(* KnowledgeStore: the in-memory repository of an Agent Knowledge service. *)
(* Authors submit signed events in any order, any number of times; the     *)
(* host hides, unhides and prunes.  Reads are pure functions of this state *)
(* and are defined here as operators; KnowledgeFollower puts a consumer on *)
(* the other side of them.                                                 *)
(*                                                                         *)
(* An event is named by its hash; `event` gives the fields the rules read. *)
(***************************************************************************)
EXTENDS Integers, Sequences, FiniteSets, FiniteSetsExt, SequencesExt

CONSTANTS
    Events,              \* hashes of the envelopes in circulation
    event,               \* their signed content
    future_skew_ms,      \* allowance for created_at ahead of the clock
    MAX_SAFE_NONCE,      \* the largest safe integer, 2^53 - 1 in the code
    max_envelope_bytes,  \* size limit of the service
    MaxTime,             \* bound on the clock
    NoFilter,                 \* "this filter is absent"
    NoCursor,            \* "no cursor" and "no next_cursor"
    Refused              \* an error response

(* Relations that may point at an assessment as well as at a publication.  *)
ASSESSMENT_RELATIONS == {"derived_from", "supports", "contradicts"}

Link == [relation : STRING, target : Events]

(* `decimal`: the nonce is written as 3.0, which the service takes for the *)
(* integer 3 (knowledge_u64) and keeps and returns as it was written.      *)

EventFields ==
    [actor : STRING, nonce : 1..MAX_SAFE_NONCE, decimal : BOOLEAN,
     created_at : Nat, size : Nat,
     type : {"knowledge.publish", "knowledge.assess", "knowledge.retract"},
     kind : STRING, links : SUBSET Link]

ASSUME KnowledgeAssumption ==
    /\ event \in [Events -> EventFields]
    /\ MAX_SAFE_NONCE \in Nat
    /\ future_skew_ms \in Nat /\ max_envelope_bytes \in Nat /\ MaxTime \in Nat

VARIABLES
    now,      \* the service's clock
    records,  \* accepted events: [event -> accepted_at, seq]
    by_seq,   \* the index by sequence number: [seq -> event]
    hidden,   \* events withheld from public reads
    seq       \* the sequence high-water mark

store == <<records, by_seq, hidden, seq>>

AcceptanceRecord == [accepted_at : 0..MaxTime, seq : 1..MAX_SAFE_NONCE]

StoreTypeOK ==
    /\ now \in 0..MaxTime
    /\ DOMAIN records \subseteq Events
    /\ records \in [DOMAIN records -> AcceptanceRecord]
    /\ DOMAIN by_seq \subseteq 1..MAX_SAFE_NONCE
    /\ by_seq \in [DOMAIN by_seq -> Events]
    /\ hidden \subseteq Events
    /\ seq \in 0..MAX_SAFE_NONCE

StoreInit ==
    /\ now = 0
    /\ records = <<>>
    /\ by_seq = <<>>
    /\ hidden = {}
    /\ seq = 0

insert(map, k, v) ==
    [key \in DOMAIN map \cup {k} |-> IF key = k THEN v ELSE map[key]]

remove(map, k) == Restrict(map, DOMAIN map \ {k})
-----------------------------------------------------------------------------
(* Acceptance *)

knowledge_dependencies(e) == {link.target : link \in event[e].links}

TargetAllowed(link) ==
    LET target == event[link.target] IN
    /\ \/ target.type = "knowledge.publish"
       \/ /\ target.type = "knowledge.assess"
          /\ link.relation \in ASSESSMENT_RELATIONS \cup {"knowledge.retract"}
    /\ link.relation = "addresses" => target.kind = "question"
    /\ link.relation = "tests" => target.kind = "hypothesis"

(* Only its author supersedes or retracts an event, with a later nonce.    *)
AuthorAllowed(e, link) ==
    link.relation \in {"supersedes", "knowledge.retract"} =>
        /\ event[link.target].actor = event[e].actor
        /\ event[link.target].nonce < event[e].nonce

(* Dependencies resolve against what is retained, hidden or not.           *)
check_dependencies(e, retained) ==
    /\ knowledge_dependencies(e) \subseteq retained
    /\ \A link \in event[e].links : TargetAllowed(link) /\ AuthorAllowed(e, link)

(* The lifecycle view materialize_knowledge derives of an event from a set *)
(* of events: what withdraws, succeeds and assesses it within the set.     *)
Pointing(S, type, relation, id) ==
    {e \in S : event[e].type = type /\ [relation |-> relation, target |-> id] \in event[e].links}

LifecycleView(retained, id) ==
    LET withdrawn == {t \in retained : Pointing(retained, "knowledge.retract",
                                                "knowledge.retract", t) # {}}
        reports == Pointing(retained, "knowledge.assess", "knowledge.assess", id)
    IN  [status |-> IF id \in withdrawn THEN "retracted" ELSE "active",
         assessments |-> reports, active_assessments |-> reports \ withdrawn,
         successors |-> Pointing(retained, "knowledge.publish", "supersedes", id)]

\* fault: sequence numbers allocated from the index instead of the counter
NextSeq_FromIndex == IF DOMAIN by_seq = {} THEN 1 ELSE Max(DOMAIN by_seq) + 1

NextSeq == seq + 1

SequenceLeft == seq # MAX_SAFE_NONCE

(* A retained event, hidden or not, is answered with its original record.  *)
Submit(e) ==
    /\ e \notin DOMAIN records
    /\ event[e].created_at <= now + future_skew_ms
    /\ check_dependencies(e, DOMAIN records)
    /\ event[e].size <= max_envelope_bytes
    /\ SequenceLeft
    /\ seq' = NextSeq
    /\ records' = insert(records, e, [accepted_at |-> now, seq |-> seq'])
    /\ by_seq' = insert(by_seq, seq', e)
    /\ UNCHANGED <<now, hidden>>
-----------------------------------------------------------------------------
(* The host's moderation *)

Hide(e) ==
    /\ e \in DOMAIN records
    /\ hidden' = hidden \cup {e}
    /\ UNCHANGED <<now, records, by_seq, seq>>

Unhide(e) ==
    /\ hidden' = hidden \ {e}
    /\ UNCHANGED <<now, records, by_seq, seq>>

\* fault: a pruned event stays in the index
Prune_KeepsIndex(e) ==
    /\ records' = remove(records, e)
    /\ hidden' = hidden \ {e}
    /\ UNCHANGED <<now, by_seq, seq>>

Prune(e) ==
    /\ IF e \in DOMAIN records
       THEN /\ records' = remove(records, e)
            /\ by_seq' = remove(by_seq, records[e].seq)
       ELSE UNCHANGED <<records, by_seq>>
    /\ hidden' = hidden \ {e}
    /\ UNCHANGED <<now, seq>>

ServiceTick ==
    /\ now < MaxTime
    /\ now' = now + 1
    /\ UNCHANGED store
-----------------------------------------------------------------------------
(* Public reads *)

visible(e) == e \in DOMAIN records /\ e \notin hidden

knowledge_query_matches(e, filter) ==
    /\ filter.actor \in {NoFilter, event[e].actor}
    /\ filter.type \in {NoFilter, event[e].type}
    /\ filter.target \in {NoFilter} \cup knowledge_dependencies(e)

(* What a query may still return: sequence numbers in ascending order.     *)
Enumerable(last, checkpoint, filter) ==
    {n \in last + 1..checkpoint :
        /\ n \in DOMAIN by_seq
        /\ visible(by_seq[n])
        /\ knowledge_query_matches(by_seq[n], filter)}

Page(last, checkpoint, filter, limit) ==
    {n \in Enumerable(last, checkpoint, filter) :
        Cardinality({k \in Enumerable(last, checkpoint, filter) : k < n}) < limit}

(* The request without its cursor, which the cursor's digest binds.        *)
query_binding(request) ==
    [after_seq |-> request.after_seq, filter |-> request.filter,
     limit |-> request.limit]

(* decode_cursor refuses a cursor of another request or of a later state.  *)
CursorAllowed(request) ==
    LET cursor == request.cursor IN
    IF cursor = NoCursor THEN request.after_seq <= seq
    ELSE /\ cursor.digest = query_binding(request)
         /\ request.after_seq <= cursor.last
         /\ cursor.last <= cursor.checkpoint
         /\ cursor.checkpoint <= seq

\* fault: a following page reads up to the current high-water mark
QueryScope_Current(request) ==
    LET cursor == request.cursor IN
    [checkpoint |-> seq,
     as_of |-> IF cursor = NoCursor THEN now ELSE cursor.as_of,
     last |-> IF cursor = NoCursor THEN request.after_seq ELSE cursor.last]

(* The first page captures the checkpoint and the time; a cursor carries   *)
(* them, and the last sequence number returned, to the pages after it.     *)
QueryScope(request) ==
    IF request.cursor = NoCursor
    THEN [checkpoint |-> seq, as_of |-> now, last |-> request.after_seq]
    ELSE [checkpoint |-> request.cursor.checkpoint,
          as_of |-> request.cursor.as_of, last |-> request.cursor.last]

(* A page lists its sequence numbers in ascending order.                  *)
Ascending(numbers) ==
    CHOOSE s \in [1..Cardinality(numbers) -> numbers] :
        /\ \A n \in numbers : \E i \in DOMAIN s : s[i] = n
        /\ \A i, j \in DOMAIN s : i < j => s[i] < s[j]

query(request) ==
    LET scope == QueryScope(request)
        found == Enumerable(scope.last, scope.checkpoint, request.filter)
        page == Page(scope.last, scope.checkpoint, request.filter, request.limit)
        rows == Ascending(page)
        cursor == [checkpoint |-> scope.checkpoint, as_of |-> scope.as_of,
                   last |-> Max(page \cup {scope.last}),
                   digest |-> query_binding(request)]
    IN  IF ~CursorAllowed(request) THEN Refused
        ELSE [checkpoint |-> scope.checkpoint, as_of |-> scope.as_of,
              result |-> [i \in DOMAIN rows |->
                             [event |-> by_seq[rows[i]], seq |-> rows[i]]],
              next_cursor |-> IF page = found THEN NoCursor ELSE cursor]

-----------------------------------------------------------------------------
(***************************************************************************)
(* The two maps of the store are inverse to each other at every moment, so *)
(* that an enumeration over by_seq neither repeats an event nor names a    *)
(* pruned one, and a hidden event is a retained one.                       *)
(***************************************************************************)
IndexExact ==
    /\ \A e \in DOMAIN records :
          records[e].seq \in DOMAIN by_seq /\ by_seq[records[e].seq] = e
    /\ \A n \in DOMAIN by_seq :
          by_seq[n] \in DOMAIN records /\ records[by_seq[n]].seq = n
    /\ hidden \subseteq DOMAIN records
    /\ \A n \in DOMAIN by_seq : n <= seq
=============================================================================
