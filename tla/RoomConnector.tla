------------------------------ MODULE RoomConnector ------------------------------
(***************************************************************************)
(* One room in the local connector: the verified copy of its records, the  *)
(* head the agent has been shown, and the agent's writes, which are held,  *)
(* rejected or re-based when the room moved on while the agent was         *)
(* thinking.                                                               *)
(*                                                                         *)
(* The connector serves one tool call at a time; the host accepts the      *)
(* writes of others at any moment, between any two requests of a call, and *)
(* any request may fail or its answer be lost.                             *)
(***************************************************************************)
EXTENDS RoomRules

CONSTANTS
    OtherTypes,     \* what the others write
    OtherBases,     \* what they base it on: "oldest" base allowed, "head"
    OwnTypes,       \* what the agent writes
    Policies,       \* on_head_mismatch: "hold", "reject", "send_anyway"
    Listings,       \* do the entries of a room list carry the room's types?
    ROOM_HISTORY_LIMIT,
    SEND_ANYWAY_MAX_ATTEMPTS,
    MaxSeq,         \* bound on the records of the room
    MaxDrafts       \* bound on the drafts held at once

ASSUME ConnectorAssumption ==
    /\ OtherTypes \subseteq Types /\ OwnTypes \subseteq Types
    /\ OtherBases \subseteq {"oldest", "head"}
    /\ Policies \subseteq {"hold", "reject", "send_anyway"}
    /\ Listings \subseteq BOOLEAN
    /\ {ROOM_HISTORY_LIMIT, SEND_ANYWAY_MAX_ATTEMPTS, MaxSeq, MaxDrafts} \subseteq Nat
    /\ ROOM_HISTORY_LIMIT > 0 /\ MaxSeq > 0

VARIABLES
    log,     \* host: the records of the room
    room,    \* LocalRoomState
    drafts,  \* held drafts
    call,    \* the tool call in progress
    start,   \* history: the head of the agent's starting view
    shown,   \* history: the head-advancing records the agent was shown
    passed   \* history: those the connector passed over, by giving up or trimming

vars == <<log, room, drafts, call, start, shown, passed>>

(* known: observe_room has seen the room; types: the custom types it has   *)
(* of it; first: the oldest record kept, synced_seq + 1 when there is none;*)
(* presented_seq is 0 before any head has been presented.                  *)
NoRoom ==
    [known |-> FALSE, types |-> {}, head_seq |-> 0, synced_seq |-> 0,
     first |-> 1, presented_seq |-> 0]

(* A write remembers its draft (0: none), its base, whether it is bound to *)
(* the head, and the presented and previous head of its latest attempt;    *)
(* own is its record once accepted; until is what the host had when a sync *)
(* began.  History: origin is the base the agent wrote on, before the      *)
(* attempts of send_anyway moved it.                                       *)
IdleCall ==
    [step |-> "idle", tool |-> "none", type |-> "none", policy |-> "none",
     draft |-> 0, base |-> 0, origin |-> 0, attempts |-> 0, presented |-> 0,
     previous |-> 0, bound |-> FALSE, own |-> 0, until |-> 0]

Draft == [id : Nat, type : Types, base : Nat]

TypeOK ==
    /\ log \in Seq(RoomRecord) /\ Len(log) <= MaxSeq
    /\ room \in [known : BOOLEAN, types : SUBSET DOMAIN CustomTypes, head_seq : Nat,
                 synced_seq : Nat, first : Nat \ {0}, presented_seq : Nat]
    /\ room.synced_seq <= Len(log) /\ room.head_seq <= room.synced_seq
    /\ room.synced_seq + 1 - room.first \in 0..ROOM_HISTORY_LIMIT
    /\ drafts \subseteq Draft
    /\ \A d, e \in drafts : d.id = e.id => d = e
    /\ call.step \in {"idle", "check", "submit", "sync"}
    /\ call.step = "idle" => call = IdleCall
    /\ start \in Nat /\ {shown, passed} \subseteq SUBSET (1..Len(log))

Init ==
    /\ log = <<>> /\ room = NoRoom /\ drafts = {} /\ call = IdleCall
    /\ start = 0 /\ shown = {} /\ passed = {}
-----------------------------------------------------------------------------
(* The room as the connector has it *)

Kept(r) == r.first..r.synced_seq
LocalHeads(r, S) == {s \in S \cap Kept(r) : AdvancesHead(log[s].type, r.types)}

(* observe_room replaces the resource, its types with it.                  *)
ObserveRoom(r, types) == [r EXCEPT !.known = TRUE, !.types = types]

(* accept_room_response: the positions of a room of which no record is     *)
(* held; n is its latest record.                                           *)
AcceptRoomResponse(r, types, head, n) ==
    [ObserveRoom(r, types) EXCEPT !.head_seq = head, !.synced_seq = n, !.first = n + 1]

(* validate_next_record, validate_record_base_precondition.                *)
Acceptable(r, s, record) ==
    /\ s = r.synced_seq + 1
    /\ \/ record.type = "create"
       \/ /\ record.base < s
          /\ RequiresHead(record.type, r.types) => record.base >= r.head_seq

(* trim_history                                                            *)
Trimmed(r) ==
    [r EXCEPT !.first = Max({r.first, r.synced_seq + 1 - ROOM_HISTORY_LIMIT})]

Applied_Class(r, s, record) ==  \* fault: every record but a message moves the head
    Trimmed([r EXCEPT
        !.types = IF record.type = "define" THEN DOMAIN CustomTypes ELSE @,
        !.head_seq = IF record.type = "message" THEN @ ELSE s,
        !.synced_seq = s])

(* The projection of a type.define takes over the definition it carries.   *)
Applied(r, s, record) ==
    LET types == IF record.type = "define" THEN DOMAIN CustomTypes ELSE r.types
    IN  Trimmed([r EXCEPT
            !.types = types,
            !.head_seq = IF AdvancesHead(record.type, types) THEN s ELSE @,
            !.synced_seq = s])

(* apply_record_to: a duplicate or a refused record changes nothing.       *)
ApplyRecord(r, s, record) ==
    IF Acceptable(r, s, record) THEN Applied(r, s, record) ELSE r

PresentHead(r) ==
    IF r.head_seq = 0 THEN r ELSE [r EXCEPT !.presented_seq = r.head_seq]

(* present_through: forward only.                                          *)
PresentThrough(r, n) ==
    LET found == LocalHeads(r, (r.presented_seq + 1)..n)
    IN  IF found = {} THEN r ELSE [r EXCEPT !.presented_seq = Max(found)]

(* head_before: with the head known before the write for a room of which   *)
(* no earlier head is kept.                                                *)
HeadBefore(r, s, previous) ==
    LET found == LocalHeads(r, 1..(s - 1))
    IN  IF found # {} THEN Max(found) ELSE IF previous < s THEN previous ELSE 0

(* room_changes_since                                                      *)
ChangesSince(r, base) == {s \in Kept(r) : s > base}
Show(S) == shown' = shown \cup Heads(log, S)

(* What trim_history has dropped.                                          *)
Forgotten(r) == 1..(r.first - 1)

(* History: the heads of S after base, which the agent wrote on or was     *)
(* shown, are presented by a result that does not have them.               *)
PassOver(base, S) ==
    passed' = passed \cup {s \in Heads(log, S \cap 1..Len(log)) : s > base}
-----------------------------------------------------------------------------
(* The host *)

OtherCreates ==
    /\ log = <<>>
    /\ log' = <<[type |-> "create", base |-> 0]>>
    /\ UNCHANGED <<room, drafts, call, start, shown, passed>>

OtherWrites(t, on) ==
    /\ Len(log) \in 1..(MaxSeq - 1) /\ TypeAccepted(log, t)
    /\ LET base == IF on = "head" \/ RequiresHead(t, DOMAIN CustomTypes)
                   THEN HeadAt(log, Len(log)) ELSE 1
       IN  log' = Append(log, [type |-> t, base |-> base])
    /\ UNCHANGED <<room, drafts, call, start, shown, passed>>
-----------------------------------------------------------------------------
(* Reading *)

(* public_rooms, my_rooms: the room is in a list.                          *)
RoomsListed(typed) ==
    /\ call = IdleCall /\ log # <<>>
    /\ room' = ObserveRoom(room, IF typed THEN TypesAt(log, Len(log)) ELSE {})
    /\ UNCHANGED <<log, drafts, call, start, shown, passed>>

(* A record handed to apply_host_record, late or out of order or again.    *)
Deliver(s) ==
    /\ call = IdleCall /\ room.known /\ s \in 1..Len(log)
    /\ room' = ApplyRecord(room, s, log[s])
    /\ UNCHANGED <<log, drafts, call, start, shown, passed>>

(* sync_room begins: the room resource is read; the host has n records.    *)
StartSync(c, n) ==
    /\ room' = ObserveRoom(room, TypesAt(log, Len(log)))
    /\ call' = [c EXCEPT !.step = "sync", !.until = n]

SyncRecord ==
    /\ call.step = "sync" /\ room.synced_seq < Len(log)
    /\ LET s == room.synced_seq + 1
       IN  Acceptable(room, s, log[s]) /\ room' = Applied(room, s, log[s])
    /\ UNCHANGED <<log, drafts, call, start, shown, passed>>

(* A request fails, or a record is refused: so does the call.              *)
SyncFails ==
    /\ call.step = "sync"
    /\ call' = IdleCall
    /\ UNCHANGED <<log, room, drafts, start, shown, passed>>

Synced(tool) ==
    call.step = "sync" /\ call.tool = tool /\ room.synced_seq >= call.until

FirstStateRead(r) ==
    IF r.presented_seq = 0
    THEN room' = PresentHead(r) /\ start' = r.head_seq
    ELSE room' = r /\ start' = start

(* room_state, from what is known or after a sync.                         *)
RoomState ==
    /\ call = IdleCall
    /\ \/ /\ room.synced_seq > 0
          /\ FirstStateRead(room)
          /\ UNCHANGED call
       \/ /\ log # <<>>
          /\ StartSync([IdleCall EXCEPT !.tool = "room_state"], Len(log))
          /\ UNCHANGED start
    /\ UNCHANGED <<log, drafts, shown, passed>>

RoomStateSynced ==
    /\ Synced("room_state")
    /\ FirstStateRead(room)
    /\ call' = IdleCall
    /\ UNCHANGED <<log, drafts, shown, passed>>

(* An unfiltered read with no gap after the presented head presents.       *)
TimelinePresents(lo, filtered) == ~ filtered /\ lo <= room.presented_seq + 1

(* room_timeline: the items lo..hi, or the messages among them.            *)
RoomTimeline(lo, hi, filtered) ==
    /\ call = IdleCall \/ Synced("room_timeline")
    /\ lo \in Kept(room) /\ hi \in lo..room.synced_seq
    /\ room' = IF TimelinePresents(lo, filtered) THEN PresentThrough(room, hi) ELSE room
    /\ Show({s \in lo..hi : filtered => log[s].type = "message"})
    /\ call' = IdleCall
    /\ UNCHANGED <<log, drafts, start, passed>>

TimelineEmpty ==
    /\ Synced("room_timeline")
    /\ call' = IdleCall
    /\ UNCHANGED <<log, room, drafts, start, shown, passed>>

TimelineRefresh ==
    /\ call = IdleCall /\ room.known
    /\ StartSync([IdleCall EXCEPT !.tool = "room_timeline"], Len(log))
    /\ UNCHANGED <<log, drafts, start, shown, passed>>
-----------------------------------------------------------------------------
(* Writing *)

WriteBase_Head(r, base) ==  \* fault: the verified head, read or not
    IF base > 0 THEN base ELSE r.head_seq

(* An explicit base, else the presented head, else the verified head.      *)
WriteBase(r, base) ==
    IF base > 0 THEN base
    ELSE IF r.presented_seq > 0 THEN r.presented_seq ELSE r.head_seq

BaseIsCurrent(r, base) == base >= r.head_seq

Write(t, policy, draft, base, r) ==
    [IdleCall EXCEPT
        !.step = "check", !.tool = "write", !.type = t, !.policy = policy, !.draft = draft,
        !.base = WriteBase(r, base), !.origin = WriteBase(r, base),
        !.bound = RequiresHead(t, r.types)]

Attempted(c) ==
    [c EXCEPT !.step = "submit", !.attempts = @ + 1,
              !.presented = room.presented_seq, !.previous = room.head_seq]

(* room_send_message, room_submit_event; the agent may name a head it was  *)
(* shown, 0 stands for none.                                               *)
SubmitRoomWrite(t, policy, base) ==
    /\ call = IdleCall /\ Cardinality(drafts) < MaxDrafts
    /\ room.known /\ WriteBase(room, base) > 0
    /\ call' = Write(t, policy, 0, base, room)
    /\ UNCHANGED <<log, room, drafts, start, shown, passed>>

DraftCommit(d, policy) ==
    /\ call = IdleCall /\ d \in drafts
    /\ call' = Write(d.type, policy, d.id, 0, room)
    /\ UNCHANGED <<log, room, drafts, start, shown, passed>>

DraftDrop(d) ==
    /\ call = IdleCall /\ d \in drafts
    /\ drafts' = drafts \ {d}
    /\ UNCHANGED <<log, room, call, start, shown, passed>>

(* drafts_list of one draft shows what changed since its base.             *)
DraftsList(d) ==
    /\ call = IdleCall /\ d \in drafts
    /\ room' = PresentHead(room)
    /\ Show(ChangesSince(room, d.base))
    /\ PassOver(d.base, Forgotten(room))
    /\ UNCHANGED <<log, drafts, call, start>>

(* room_join of an open room, room_join_review: a signal on the default    *)
(* base.  A room of which no head is known is read first.                  *)
RoomJoin ==
    /\ call = IdleCall /\ log # <<>>
    /\ LET r == IF room.head_seq = 0
                THEN LET n == Len(log)
                     IN  AcceptRoomResponse(room, TypesAt(log, n), HeadAt(log, n), n)
                ELSE room
       IN  /\ room' = r
           /\ call' = [IdleCall EXCEPT !.step = "submit", !.tool = "room_join",
                                       !.type = "join", !.base = WriteBase(r, 0)]
    /\ UNCHANGED <<log, drafts, start, shown, passed>>

RoomCreate(answered) ==
    /\ call = IdleCall /\ log = <<>>
    /\ log' = <<[type |-> "create", base |-> 0]>>
    /\ IF answered
       THEN room' = PresentHead(AcceptRoomResponse(room, Declared, 1, 1)) /\ start' = 1
       ELSE UNCHANGED <<room, start>>
    /\ UNCHANGED <<drafts, call, shown, passed>>

Stale == call.bound /\ ~ BaseIsCurrent(room, call.base)
MayRebase == call.policy = "send_anyway" /\ call.attempts < SEND_ANYWAY_MAX_ATTEMPTS

Attempt ==
    /\ call.step = "check"
    /\ \/ ~ Stale /\ call' = Attempted(call)
       \/ Stale /\ MayRebase /\ call' = Attempted([call EXCEPT !.base = room.head_seq])
    /\ UNCHANGED <<log, room, drafts, start, shown, passed>>

(* With no head presented before, the base of the write is where the agent *)
(* starts.  The changes begin after the base of the last attempt, so those *)
(* that send_anyway re-based over are in no result.                        *)
ShowChanges(S) ==
    /\ Show(S)
    /\ PassOver(call.origin, 1..call.base \cup Forgotten(room))
    /\ room' = PresentHead(room)
    /\ start' = IF room.presented_seq = 0 THEN call.origin ELSE start
    /\ call' = IdleCall

RejectedHeadMismatch ==
    /\ call.step = "check" /\ Stale /\ call.policy = "reject"
    /\ ShowChanges(ChangesSince(room, call.base))
    /\ UNCHANGED <<log, drafts>>

NextDraftId ==
    Min({n \in (Cardinality(drafts) + 1)..(2 * Cardinality(drafts) + 1) :
            \A d \in drafts : d.id # n})

(* hold_draft; a committed draft that is held again is a new one.          *)
HoldDraft ==
    /\ call.step = "check" /\ Stale /\ ~ MayRebase /\ call.policy # "reject"
    /\ ShowChanges(ChangesSince(room, call.base))
    /\ drafts' = {d \in drafts : d.id # call.draft} \cup
                 {[id |-> NextDraftId, type |-> call.type, base |-> call.base]}
    /\ UNCHANGED log
-----------------------------------------------------------------------------
(* The answer to a submitted write *)

ExtendsPresented_Head(r, s) ==  \* fault: the write is the head, whatever came before
    r.head_seq = s /\ call.presented > 0

(* Nothing the agent has not seen moved the head before its own record s.  *)
ExtendsPresented(r, s) ==
    /\ r.head_seq = s
    /\ call.presented > 0 /\ HeadBefore(r, s, call.previous) = call.presented

(* The record is in the local copy: the result is "sent" or "joined".      *)
Sent(r, s) ==
    /\ IF call.tool = "write" /\ ExtendsPresented(r, s)
       THEN /\ room' = [r EXCEPT !.presented_seq = s]
            /\ PassOver(call.presented, Forgotten(r))
       ELSE room' = r /\ UNCHANGED passed
    /\ shown' = shown \cup Heads(log', {s})
    /\ drafts' = {d \in drafts : d.id # call.draft}
    /\ call' = IdleCall

(* apply_own_record: records accepted before it are synced first.  The     *)
(* host's answer may be lost.                                              *)
HostAccepts(answered) ==
    /\ call.step = "submit" /\ Len(log) < MaxSeq
    /\ TypeAccepted(log, call.type) /\ BaseAccepted(log, call.type, call.base)
    /\ LET s == Len(log) + 1
           record == [type |-> call.type, base |-> call.base]
       IN  /\ log' = Append(log, record)
           /\ IF ~ answered
              THEN call' = IdleCall /\ UNCHANGED <<room, drafts, shown, passed>>
              ELSE IF s > room.synced_seq + 1
              THEN StartSync([call EXCEPT !.own = s], s) /\ UNCHANGED <<drafts, shown, passed>>
              ELSE IF Acceptable(room, s, record)
              THEN Sent(Applied(room, s, record), s)
              ELSE call' = IdleCall /\ UNCHANGED <<room, drafts, shown, passed>>
    /\ UNCHANGED start

(* room_head_mismatch: sync and look again, unless the write was not known *)
(* to be bound to the head.  Another refusal ends the call.                *)
HostRefuses ==
    /\ call.step = "submit"
    /\ ~ TypeAccepted(log, call.type) \/ ~ BaseAccepted(log, call.type, call.base)
    /\ IF call.bound /\ TypeAccepted(log, call.type)
       THEN StartSync(call, Len(log))
       ELSE call' = IdleCall /\ UNCHANGED room
    /\ UNCHANGED <<log, drafts, start, shown, passed>>

RequestLost ==
    /\ call.step = "submit"
    /\ call' = IdleCall
    /\ UNCHANGED <<log, room, drafts, start, shown, passed>>

(* After the sync: the write is done, or it is tried again unless the      *)
(* verified history does not show the mismatch.                            *)
WriteSynced ==
    /\ Synced("write") \/ Synced("room_join")
    /\ UNCHANGED <<log, start>>
    /\ IF call.own > 0
       THEN Sent(room, call.own)
       ELSE /\ call' = IF BaseIsCurrent(room, call.base)
                       THEN IdleCall ELSE [call EXCEPT !.step = "check"]
            /\ UNCHANGED <<room, drafts, shown, passed>>
-----------------------------------------------------------------------------
Reads ==
    \/ \E typed \in Listings : RoomsListed(typed)
    \/ \E s \in 1..Len(log) : Deliver(s)
    \/ SyncRecord
    \/ SyncFails
    \/ RoomState
    \/ RoomStateSynced
    \/ TimelineRefresh
    \/ \E lo, hi \in 1..Len(log), filtered \in BOOLEAN : RoomTimeline(lo, hi, filtered)
    \/ TimelineEmpty

Writes ==
    \/ \E t \in OwnTypes, policy \in Policies,
          base \in {0} \cup (shown \cap 1..room.presented_seq) :
           SubmitRoomWrite(t, policy, base)
    \/ \E d \in drafts :
           \/ \E policy \in Policies : DraftCommit(d, policy)
           \/ DraftDrop(d)
           \/ DraftsList(d)
    \/ RoomJoin
    \/ \E answered \in BOOLEAN : RoomCreate(answered)
    \/ Attempt
    \/ RejectedHeadMismatch
    \/ HoldDraft
    \/ \E answered \in BOOLEAN : HostAccepts(answered)
    \/ HostRefuses
    \/ RequestLost
    \/ WriteSynced

Others == OtherCreates \/ \E t \in OtherTypes, on \in OtherBases : OtherWrites(t, on)

Next == Others \/ Reads \/ Writes

Spec == Init /\ [][Next]_vars
-----------------------------------------------------------------------------
(***************************************************************************)
(* The head the connector reports is the room's head as of its last        *)
(* verified record: neither room lists, nor late records, nor a snapshot   *)
(* taken at a join, nor its own writes make it differ.                     *)
(***************************************************************************)
HeadExact == room.head_seq = HeadAt(log, room.synced_seq)

(***************************************************************************)
(* The presented head is one the agent may be taken to know: each record   *)
(* up to it that advanced the head is part of the starting view, of some   *)
(* result the agent got, or of what a result had to leave out, because     *)
(* trim_history had dropped it or send_anyway had re-based the write over  *)
(* it before it gave up.                                                   *)
(***************************************************************************)
PresentedIsRead ==
    \A s \in Heads(log, 1..room.presented_seq) : s <= start \/ s \in shown \cup passed

(***************************************************************************)
(* docs/mcp/local-connector/1.0.md:89 "It is the latest head for which the *)
(* agent has been shown every head-advancing record".  The code presents   *)
(* more once send_anyway has used up its attempts: the draft is held on    *)
(* the base of the last attempt, so the changes leave out what the         *)
(* attempts were re-based over, and the head after them is presented.      *)
(***************************************************************************)
PresentedIsShown ==
    \A s \in Heads(log, 1..room.presented_seq) : s <= start \/ s \in shown

(***************************************************************************)
(* A message or control write, once the agent has a presented head and     *)
(* unless it asks to be sent anyway, enters the room only if the agent has *)
(* been shown every head before it: it speaks about the room it read.  The *)
(* only heads it may enter over unread are those that an earlier result    *)
(* left out.                                                               *)
(***************************************************************************)
SpeaksAfterReading ==
    [][ ( /\ call.step = "submit" /\ log' # log /\ call' # call
          /\ RequiresHead(call.type, DOMAIN CustomTypes)
          /\ call.presented > 0 /\ call.policy # "send_anyway" )
        => \A s \in Heads(log, 1..Len(log)) : s <= start \/ s \in shown \cup passed ]_vars
=============================================================================
