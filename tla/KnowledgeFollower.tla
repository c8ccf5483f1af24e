--------------------------- MODULE KnowledgeFollower ---------------------------
(***************************************************************************)
(* KnowledgeFollower: a consumer of one Agent Knowledge service.           *)
(*                                                                         *)
(* It makes one call at a time: query_all, which the caller repeats with   *)
(* the checkpoint the last one returned (the follower of Agent Knowledge   *)
(* 9.3.1), or the lifecycle check of knowledge_status.  A call is a        *)
(* sequence of requests, each answered at a moment of the service's own    *)
(* choosing; between two of them the service accepts, hides, unhides and   *)
(* prunes.  KnowledgePageTracker joins the pages.                          *)
(***************************************************************************)
EXTENDS KnowledgeStore

CONSTANTS
    limit,         \* page size of the calls
    max_pages,     \* pages query_all reads before it gives up
    status_pages,  \* pages knowledge_status reads before it gives up
    NoCall, NoResponse, None, NoReport,
    Callers,       \* the calls the consumer makes
    MaxFailures,   \* bound on calls that fail in transit
    MaxModerations \* bound on hiding, unhiding and pruning

ASSUME FollowerAssumption ==
    limit \in Nat \ {0} /\ max_pages \in Nat \ {0} /\ status_pages \in Nat \ {0}

VARIABLES
    call,      \* the call in progress: its request, its tracker, its records
    response,  \* the service's answer in transit
    known,     \* the records query_all has returned, by event
    after,     \* the checkpoint the caller persisted
    report,    \* what the last knowledge_status returned
    failures,  \* calls that failed in transit
    moderations, \* how often the service hid, unhid or pruned
    withheld,  \* history: events hidden at some time since their acceptance
    steady,    \* history: what stayed visible since the call's first page
    owed       \* history: what the last knowledge_status had to find

follower == <<call, response, known, after, report, failures>>
history == <<moderations, withheld, steady, owed>>
vars == <<now, store, follower, history>>

Filter == [actor : {NoFilter}, type : {NoFilter}, target : Events \cup {NoFilter}]
Binding == [after_seq : 0..MAX_SAFE_NONCE, filter : Filter, limit : {limit}]
Cursor == [checkpoint : 0..MAX_SAFE_NONCE, as_of : 0..MaxTime,
           last : 0..MAX_SAFE_NONCE, digest : Binding]
Request == [after_seq : 0..MAX_SAFE_NONCE, filter : Filter, limit : {limit},
            cursor : Cursor \cup {NoCursor}]
ResultRecord == [event : Events, seq : 1..MAX_SAFE_NONCE]
Scope == [checkpoint : 0..MAX_SAFE_NONCE, as_of : 0..MaxTime]
Response == [checkpoint : 0..MAX_SAFE_NONCE, as_of : 0..MaxTime,
             result : Seq(ResultRecord), next_cursor : Cursor \cup {NoCursor}]

(* `scope` is absent until the tracker has taken a page.                   *)
Tracker == [scope : Scope \cup {None}, seen : SUBSET Events,
            last : 0..MAX_SAFE_NONCE, next_cursor : Cursor \cup {NoCursor}]
Call == [request : Request, tracker : Tracker, pages : Nat,
         target : ResultRecord \cup {None}, records : Seq(ResultRecord)]
Report == [target : Events, complete : BOOLEAN, checkpoint : 0..MAX_SAFE_NONCE,
           retractions : SUBSET Events, successors : SUBSET Events,
           assessments : SUBSET Events]

(* What stands for the absence of a value is none.                         *)
ASSUME AbsentAssumption ==
    /\ NoCall \notin Call /\ NoReport \notin Report
    /\ NoResponse \notin Response /\ Refused \notin Response
    /\ NoCursor \notin Cursor /\ None \notin Scope /\ None \notin ResultRecord
    /\ NoFilter \notin Events

TypeOK ==
    /\ StoreTypeOK
    /\ call \in Call \cup {NoCall}
    /\ response \in Response \cup {NoResponse, Refused}
    /\ known \subseteq Events
    /\ after \in 0..MAX_SAFE_NONCE
    /\ report \in Report \cup {NoReport}
    /\ failures \in 0..MaxFailures
    /\ moderations \in 0..MaxModerations
    /\ {withheld, steady, owed} \subseteq SUBSET Events

Init ==
    /\ StoreInit
    /\ call = NoCall /\ response = NoResponse
    /\ known = {} /\ after = 0
    /\ report = NoReport
    /\ failures = 0
    /\ moderations = 0
    /\ withheld = {} /\ steady = {} /\ owed = {}
-----------------------------------------------------------------------------
(* KnowledgePageTracker *)

NewTracker ==
    [scope |-> None, seen |-> {}, last |-> 0, next_cursor |-> NoCursor]

\* fault: a traversal counts as complete with its first page
is_complete_FirstPage(tracker) == tracker.scope # None

is_complete(tracker) ==
    tracker.scope # None /\ tracker.next_cursor = NoCursor

(* validate_knowledge_query_response: each page by itself.                 *)
PageValid(request, page) ==
    /\ Len(page.result) <= request.limit
    /\ \A i \in DOMAIN page.result :
          /\ page.result[i].seq <= page.checkpoint
          /\ page.result[i].seq > request.after_seq
          /\ i > 1 => page.result[i].seq > page.result[i - 1].seq
          /\ \A j \in 1..i - 1 : page.result[i].event # page.result[j].event
          /\ knowledge_query_matches(page.result[i].event, request.filter)

ScopeOf(page) == [checkpoint |-> page.checkpoint, as_of |-> page.as_of]

(* Within a call the binding never changes: the loop only sets the cursor. *)
Accepts(tracker, request, page) ==
    LET first == tracker.scope = None
        last == IF first THEN request.after_seq ELSE tracker.last
    IN  /\ PageValid(request, page)
        /\ IF first THEN request.cursor = NoCursor
           ELSE /\ tracker.next_cursor # NoCursor
                /\ request.cursor = tracker.next_cursor
                /\ ScopeOf(page) = tracker.scope
        /\ page.result # <<>> => page.result[1].seq > last
        /\ \A i \in DOMAIN page.result : page.result[i].event \notin tracker.seen

Accepted(tracker, request, page) ==
    LET from == IF tracker.scope = None THEN request.after_seq
                ELSE tracker.last
    IN  [scope |-> ScopeOf(page),
         seen |-> tracker.seen \cup {page.result[i].event : i \in DOMAIN page.result},
         last |-> IF page.result = <<>> THEN from ELSE Last(page.result).seq,
         next_cursor |-> page.next_cursor]
-----------------------------------------------------------------------------
(* One call at a time *)

NewCall(target, filter, after_seq) ==
    [request |-> [after_seq |-> after_seq, filter |-> filter, limit |-> limit,
                  cursor |-> NoCursor],
     tracker |-> NewTracker, pages |-> 0, target |-> target, records |-> <<>>]

(* The caller follows without filters, from the checkpoint it persisted.   *)
StartQueryAll ==
    /\ call = NoCall
    /\ "query_all" \in Callers
    /\ call' = NewCall(None, [actor |-> NoFilter, type |-> NoFilter, target |-> NoFilter],
                       after)
    /\ steady' = {}
    /\ UNCHANGED <<now, store, response, known, after, report, failures,
                   moderations, withheld, owed>>

(* knowledge_status first reads the event itself; not_found ends the call. *)
StartStatus(e) ==
    /\ call = NoCall
    /\ "knowledge_status" \in Callers
    /\ report = NoReport
    /\ visible(e)
    /\ call' = NewCall([event |-> e, seq |-> records[e].seq],
                       [actor |-> NoFilter, type |-> NoFilter, target |-> e], 0)
    /\ steady' = {}
    /\ UNCHANGED <<now, store, response, known, after, report, failures,
                   moderations, withheld, owed>>

(* The service answers a request when it gets to it.                       *)
Serve ==
    /\ call # NoCall
    /\ response = NoResponse
    /\ response' = query(call.request)
    /\ steady' = IF call.request.cursor = NoCursor
                 THEN {e \in DOMAIN records : visible(e)}
                 ELSE steady
    /\ UNCHANGED <<now, store, call, known, after, report, failures,
                   moderations, withheld, owed>>

PageBudget(c) == IF c.target = None THEN max_pages ELSE status_pages

\* fault: the next request repeats the first one
TakePage_SameRequest ==
    [call EXCEPT !.tracker = Accepted(call.tracker, call.request, response),
                 !.records = @ \o response.result,
                 !.pages = @ + 1]

(* The page is taken, and the next request carries its cursor.             *)
TakePage ==
    [request |-> [call.request EXCEPT !.cursor = response.next_cursor],
     tracker |-> Accepted(call.tracker, call.request, response),
     pages |-> call.pages + 1, target |-> call.target,
     records |-> call.records \o response.result]

PageTaken ==
    /\ call # NoCall
    /\ response \notin {NoResponse, Refused}
    /\ Accepts(call.tracker, call.request, response)

EventsOf(taken) == {taken.records[i].event : i \in DOMAIN taken.records}

NextPage ==
    /\ PageTaken
    /\ ~is_complete(TakePage.tracker)
    /\ TakePage.pages < PageBudget(call)
    /\ call' = TakePage
    /\ response' = NoResponse
    /\ UNCHANGED <<now, store, known, after, report, failures, history>>

(* query_all returns; the caller stores the records and the checkpoint.    *)
FinishQueryAll ==
    /\ PageTaken
    /\ call.target = None
    /\ is_complete(TakePage.tracker)
    /\ known' = known \cup EventsOf(TakePage)
    /\ after' = response.checkpoint
    /\ call' = NoCall
    /\ response' = NoResponse
    /\ UNCHANGED <<now, store, report, failures, history>>

(* The author rule is checked again by the reader.  It reads the nonces    *)
(* with as_u64, which has no value for a decimal: such an event is never   *)
(* later, and nothing is later than such a target.                         *)
LaterByAuthor(e, target) ==
    /\ event[e].actor = event[target].actor
    /\ ~event[e].decimal /\ ~event[target].decimal
    /\ event[e].nonce > event[target].nonce

Retractions(links, target) ==
    {e \in links : event[e].type = "knowledge.retract" /\ LaterByAuthor(e, target)}

Successors(links, target) ==
    {e \in links :
        /\ event[e].type = "knowledge.publish"
        /\ [relation |-> "supersedes", target |-> target] \in event[e].links
        /\ LaterByAuthor(e, target)}

Assessments(links) == {e \in links : event[e].type = "knowledge.assess"}

(* knowledge_status reports, with complete = FALSE when pages remain.      *)
FinishStatus ==
    /\ PageTaken
    /\ call.target # None
    /\ is_complete(TakePage.tracker) \/ TakePage.pages = PageBudget(call)
    /\ LET target == call.target.event
           links == EventsOf(TakePage)
       IN  report' = [ target |-> target,
                       complete |-> is_complete(TakePage.tracker),
                       checkpoint |-> response.checkpoint,
                       retractions |-> Retractions(links, target),
                       successors |-> Successors(links, target),
                       assessments |-> Assessments(links) ]
          /\ owed' = {e \in steady : target \in knowledge_dependencies(e)}
    /\ call' = NoCall
    /\ response' = NoResponse
    /\ UNCHANGED <<now, store, known, after, failures, moderations, withheld,
                   steady>>

(* An error response, a page the tracker rejects, or PageLimitExceeded.    *)
CallFails ==
    /\ call # NoCall
    /\ response # NoResponse
    /\ ~(PageTaken /\ \/ is_complete(TakePage.tracker)
                      \/ TakePage.pages < PageBudget(call)
                      \/ call.target # None)
    /\ call' = NoCall
    /\ response' = NoResponse
    /\ UNCHANGED <<now, store, known, after, report, failures, history>>

(* A request or a response is lost, or the consumer stops during the call. *)
TransportFails ==
    /\ call # NoCall
    /\ failures < MaxFailures
    /\ failures' = failures + 1
    /\ call' = NoCall
    /\ response' = NoResponse
    /\ UNCHANGED <<now, store, known, after, report, history>>
-----------------------------------------------------------------------------
(* The service goes on meanwhile *)

ServiceSubmits(e) ==
    /\ Submit(e)
    /\ UNCHANGED <<follower, history>>

Moderates ==
    /\ moderations < MaxModerations
    /\ moderations' = moderations + 1

ServiceHides(e) ==
    /\ Moderates
    /\ Hide(e)
    /\ withheld' = withheld \cup {e}
    /\ steady' = steady \ {e}
    /\ UNCHANGED <<follower, owed>>

ServiceUnhides(e) ==
    /\ Moderates
    /\ Unhide(e)
    /\ UNCHANGED <<follower, withheld, steady, owed>>

ServicePrunes(e) ==
    /\ Moderates
    /\ Prune(e)
    /\ withheld' = withheld \ {e}
    /\ steady' = steady \ {e}
    /\ UNCHANGED <<follower, owed>>

ServiceTicks ==
    /\ ServiceTick
    /\ UNCHANGED <<follower, history>>

ServiceNext ==
    \/ \E e \in Events : ServiceSubmits(e)
    \/ \E e \in Events : ServiceHides(e)
    \/ \E e \in Events : ServiceUnhides(e)
    \/ \E e \in Events : ServicePrunes(e)
    \/ ServiceTicks

ConsumerNext ==
    \/ StartQueryAll
    \/ \E e \in Events : StartStatus(e)
    \/ Serve
    \/ NextPage
    \/ FinishQueryAll
    \/ FinishStatus
    \/ CallFails
    \/ TransportFails

Next == ServiceNext \/ ConsumerNext

Spec == Init /\ [][Next]_vars

(* The caller repeats query_all, the service answers, the consumer's loop  *)
(* runs on; nothing makes the service accept, hide or prune.               *)
FairSpec ==
    /\ Spec
    /\ WF_vars(StartQueryAll) /\ WF_vars(Serve)
    /\ WF_vars(NextPage) /\ WF_vars(FinishQueryAll)
    /\ WF_vars(FinishStatus) /\ WF_vars(CallFails)
-----------------------------------------------------------------------------
(***************************************************************************)
(* Whatever the service accepts, hides, unhides or prunes between two      *)
(* pages, the tracker takes every page of an honest service and the        *)
(* service honours every cursor it gave out: a following call fails only   *)
(* in transit or on its page budget.                                       *)
(***************************************************************************)
HonestServiceAccepted ==
    call # NoCall /\ response # NoResponse => PageTaken

(***************************************************************************)
(* A record accepted up to the persisted checkpoint and never withheld     *)
(* since is with the follower, although hiding and pruning went on between *)
(* its pages and calls of it were lost: `after` never passes a record the  *)
(* follower was owed.                                                      *)
(***************************************************************************)
FollowerMissesNothing ==
    \A e \in DOMAIN records :
        records[e].seq <= after /\ e \notin withheld => e \in known

(***************************************************************************)
(* A lifecycle check that claims to be complete reports all that           *)
(* materialize_knowledge derives for its target from what stayed visible   *)
(* during the check, however many pages it took and whatever the service   *)
(* hid or pruned between them, and it names only retractions and           *)
(* successors of the author, later than the target.  What it misses is     *)
(* what LaterByAuthor cannot read: the retractions and successors that     *)
(* write their nonce as a decimal, and all those of a target that does.    *)
(***************************************************************************)
StatusExact ==
    report # NoReport =>
        /\ report.complete =>
              LET target == report.target
                  readable == {e \in owed : ~event[e].decimal}
                  change == LifecycleView(readable \cup {target}, target)
                  view == LifecycleView(owed \cup {target}, target)
              IN
              /\ ~event[target].decimal =>
                    /\ change.status = "retracted" => report.retractions # {}
                    /\ change.successors \subseteq report.successors
              /\ view.assessments \subseteq report.assessments
        /\ \A e \in report.retractions \cup report.successors :
              /\ event[e].actor = event[report.target].actor
              /\ report.target \in knowledge_dependencies(e)

(* More records wait behind the checkpoint than one call may read: it then *)
(* ends in PageLimitExceeded and returns neither records nor a checkpoint. *)
OverBudget ==
    Cardinality({n \in DOMAIN by_seq : n > after /\ visible(by_seq[n])})
        > max_pages * limit

(***************************************************************************)
(* A visible record reaches the follower, unless the service withdraws it, *)
(* although calls are lost and the traversal always lags the store.  The   *)
(* exception is query_all's page budget: while more waits than it covers,  *)
(* every call fails and the follower stays where it is.                    *)
(***************************************************************************)
FollowerCatchesUp ==
    \A e \in Events :
        (visible(e) /\ e \notin withheld)
            ~> (e \in known \/ e \in withheld \/ e \notin DOMAIN records \/ OverBudget)
=============================================================================
