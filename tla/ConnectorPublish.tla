---------------------------- MODULE ConnectorPublish ----------------------------
(***************************************************************************)
(* How the local connector publishes the cards of one of its mailboxes:    *)
(* mail_mailbox_publish, the publication retries of mail_sync, and the     *)
(* state and keys the host saves through mail_persistence.                 *)
(*                                                                         *)
(* Every attempt is retained and saved before its first request; a request *)
(* may be lost, answered late or not at all; the process may crash between *)
(* any two steps and then continues from what was saved, keys and state    *)
(* being saved one after the other.                                        *)
(***************************************************************************)
EXTENDS LiveWriteRules, FiniteSets, FiniteSetsExt

CONSTANTS
    Routes,          \* relay origins, all of them allowed hosts
    Payloads,        \* the card payloads the user asks for
    MAX_TTL_MS,      \* longest sending and longest extra receiving period
    FUTURE_SKEW_MS,  \* the time window of a relay
    MAX_NONCE_JUMP,  \* how far one Max-Seen-Nonce may move the sequence
    MaxTime,         \* bound on the clock
    MaxSigned,       \* bound on the cards signed before the user stops
    MaxLate,         \* bound on the requests that arrive late
    OtherNonces,     \* nonces of other writes of the agent at a relay
    Crashes,         \* may the process crash?
    NoCard

Keys == {p.key : p \in Payloads}

PayloadFields ==
    [routes : SUBSET Routes, key : STRING, expires_at : Nat, receive_until : Nat]

ASSUME PublishAssumption ==
    /\ Payloads \subseteq PayloadFields
    /\ MAX_TTL_MS \in Nat \ {0} /\ FUTURE_SKEW_MS \in Nat
    /\ MAX_NONCE_JUMP \in Nat
    /\ {MaxTime, MaxSigned, MaxLate} \subseteq Nat
    /\ OtherNonces \subseteq Nat /\ Crashes \in BOOLEAN

(* A signed card: the payload, its signing time and its nonce.             *)
CardFields == [payload : Payloads, created_at : 0..MaxTime, nonce : 1..MAX_SAFE_NONCE]

ASSUME NoCardAssumption == NoCard \notin CardFields

VARIABLES
    now,         \* the clock, the same for the connector and the relays
    cards,       \* retained cards of the mailbox, the greatest nonce current
    keys,        \* mail_keys: the loaded secrets
    pending,     \* pending_publications: the attempt, and where it is unconfirmed
    next_nonce,  \* ClientNonceManager
    saved_keys,  \* the saved secrets
    saved,       \* the saved state: cards, pending, next_nonce
    call,        \* the tool call in progress
    current,     \* relays: current card of the mailbox
    nonces,      \* relays: nonce record of the agent
    late,        \* requests that will arrive after their caller gave up
    sent         \* history: the cards some request carried

local == <<cards, keys, pending, next_nonce>>
durable == <<saved_keys, saved>>
relays == <<current, nonces>>
vars == <<now, local, durable, call, relays, late, sent>>

NoPending == [card |-> NoCard, routes |-> {}]
PendingPublication == [card : CardFields, routes : SUBSET Routes \ {{}}]

State == [cards |-> cards, pending |-> pending, next_nonce |-> next_nonce]

(* Steps of a call: save, publish, save again.                             *)
IdleCall ==
    [step |-> "idle", tool |-> "none", card |-> NoCard, targets |-> {},
     todo |-> {}, failed |-> {}, resigned |-> FALSE]

TypeOK ==
    /\ now \in 0..MaxTime
    /\ cards \subseteq CardFields
    /\ keys \subseteq Keys /\ saved_keys \subseteq Keys
    /\ pending \in PendingPublication \cup {NoPending}
    /\ next_nonce \in 1..(MAX_SAFE_NONCE + 1)
    /\ saved.cards \subseteq CardFields
    /\ saved.pending \in PendingPublication \cup {NoPending}
    /\ saved.next_nonce \in 1..(MAX_SAFE_NONCE + 1)
    /\ \/ call = IdleCall
       \/ /\ call.step \in {"save", "publish", "end_save"}
          /\ call.tool \in {"publish", "sync"}
          /\ call.card \in cards
          /\ call.failed \subseteq call.targets /\ call.todo \subseteq call.targets
          /\ call.targets \subseteq Routes
    /\ current \in [Routes -> CardFields \cup {NoCard}]
    /\ nonces \in [Routes -> NonceRecord]
    /\ late \subseteq Routes \X CardFields
    /\ sent \subseteq CardFields

Init ==
    /\ now = 0
    /\ cards = {} /\ keys = {} /\ pending = NoPending /\ next_nonce = 1
    /\ saved_keys = {} /\ saved = State
    /\ call = IdleCall
    /\ current = [r \in Routes |-> NoCard]
    /\ nonces = [r \in Routes |-> NoRecord]
    /\ late = {}
    /\ sent = {}

Tick ==
    /\ now < MaxTime
    /\ now' = now + 1
    /\ UNCHANGED <<local, durable, call, relays, late, sent>>

Live(c) == now < c.payload.receive_until

Latest(cs) == CHOOSE c \in cs : \A d \in cs : d.nonce <= c.nonce

RoutesOf(cs) == UNION {c.payload.routes : c \in cs}
-----------------------------------------------------------------------------
(* prune_mail, as far as mailboxes go *)

(* A card is over at receive_until; the latest one stays while another is  *)
(* live, so that no older card is taken for the current one.               *)
PrunedCards ==
    {c \in cards :
        Live(c) \/ (c = Latest(cards) /\ \E d \in cards : Live(d))}

PrunedKeys == keys \cap {c.payload.key : c \in PrunedCards}

PrunedPending == IF PrunedCards = {} THEN NoPending ELSE pending

Prune ==
    /\ cards' = PrunedCards
    /\ keys' = PrunedKeys
    /\ pending' = PrunedPending

(* mail_mailbox_publish prunes before it looks at its input, so that a call *)
(* it refuses has pruned, too.                                             *)
MailMailboxPublishRefused ==
    /\ call = IdleCall
    /\ Prune
    /\ UNCHANGED <<now, next_nonce, durable, call, relays, late, sent>>
-----------------------------------------------------------------------------
(* Signing and attempts *)

Max2(a, b) == IF a > b THEN a ELSE b

NextNonce_Clock(next) == now  \* fault: the clock alone, not the sequence

NextNonce(next) == Max2(next, now)

(* validate_card, of a card signed now.                                    *)
Signable(p, next) ==
    /\ p.expires_at - now \in 1..MAX_TTL_MS
    /\ p.receive_until - p.expires_at \in 0..MAX_TTL_MS
    /\ NextNonce(next) \in 1..MAX_SAFE_NONCE

SignMailCard(p, next) ==
    [payload |-> p, created_at |-> now, nonce |-> NextNonce(next)]

(* The head of the loop of publish_mail_card, up to its first save.        *)
Attempt_Unsaved(tool, c, retained, targets, resigned) ==  \* fault: saved at the end only
    /\ cards' = retained \cup {c}
    /\ pending' = [card |-> c, routes |-> targets]
    /\ next_nonce' = Max2(next_nonce, c.nonce + 1)
    /\ call' = [step |-> "publish", tool |-> tool, card |-> c,
                targets |-> targets, todo |-> targets, failed |-> {},
                resigned |-> resigned]

Attempt(tool, c, retained, targets, resigned) ==
    /\ cards' = retained \cup {c}
    /\ pending' = [card |-> c, routes |-> targets]
    /\ next_nonce' = Max2(next_nonce, c.nonce + 1)
    /\ call' = [step |-> "save", tool |-> tool, card |-> c,
                targets |-> targets, todo |-> targets, failed |-> {},
                resigned |-> resigned]

(* A new mailbox draws its identifier, so it is created once; later cards  *)
(* keep the key, which must be loaded, or rotate to one freshly drawn.     *)
KeyAllowed(p) ==
    \/ p.key \notin keys \cup saved_keys \cup {c.payload.key : c \in sent \cup cards}
    \/ /\ PrunedCards # {}
       /\ p.key = Latest(PrunedCards).payload.key
       /\ p.key \in PrunedKeys

MailMailboxPublish(p) ==
    LET targets == p.routes \cup RoutesOf(PrunedCards) \cup PrunedPending.routes
    IN  /\ call = IdleCall
        /\ PrunedCards = {} => sent = {} /\ p.routes # {}
        /\ KeyAllowed(p)
        /\ targets # {}
        /\ Signable(p, next_nonce)
        /\ Cardinality(sent \cup cards) < MaxSigned
        /\ keys' = PrunedKeys \cup {p.key}
        /\ Attempt("publish", SignMailCard(p, next_nonce), PrunedCards, targets, FALSE)
        /\ UNCHANGED <<now, durable, relays, late, sent>>

(* mail_sync publishes what is pending, exactly as it was signed, if it is *)
(* not over; otherwise it goes on to prune.                                *)
Resumable == pending # NoPending /\ pending.card \in cards /\ Live(pending.card)

MailSync ==
    /\ call = IdleCall
    /\ IF Resumable
       THEN /\ Attempt("sync", pending.card, cards, pending.routes, FALSE)
            /\ UNCHANGED keys
       ELSE Prune /\ UNCHANGED <<next_nonce, call>>
    /\ UNCHANGED <<now, durable, relays, late, sent>>
-----------------------------------------------------------------------------
(* persist_mail *)

(* The host saves the keys, then the state, and may fail before either;    *)
(* an error ends the call.                                                 *)
PersistMail(keysSaved, stateSaved) ==
    /\ call.step \in {"save", "end_save"}
    /\ stateSaved => keysSaved
    /\ saved_keys' = IF keysSaved THEN keys ELSE saved_keys
    /\ saved' = IF stateSaved THEN State ELSE saved
    /\ IF call.step = "save" /\ stateSaved
       THEN call' = [call EXCEPT !.step = "publish"]
       ELSE call' = IdleCall
    /\ IF call.step = "end_save" /\ stateSaved /\ call.tool = "sync"
       THEN Prune /\ UNCHANGED next_nonce
       ELSE UNCHANGED local
    /\ UNCHANGED <<now, relays, late, sent>>

(* The host saves after every call.                                        *)
HostSaves ==
    /\ call = IdleCall
    /\ saved_keys' = keys
    /\ saved' = State
    /\ UNCHANGED <<now, local, call, relays, late, sent>>

Crash ==
    /\ Crashes
    /\ cards' = saved.cards /\ pending' = saved.pending
    /\ next_nonce' = saved.next_nonce
    /\ keys' = saved_keys
    /\ call' = IdleCall
    /\ UNCHANGED <<now, durable, relays, late, sent>>
-----------------------------------------------------------------------------
(* The relays (MailRelay has the whole of them) *)

Verdict(r, c) ==
    LET card == current[r] IN
    IF card = c THEN "ok"
    ELSE IF card # NoCard /\ c.nonce <= card.nonce THEN "nonce_not_greater"
    ELSE IF card = NoCard /\ r \notin c.payload.routes THEN "permission_denied"
    ELSE IF ~ verify_timestamp(c.created_at, now, FUTURE_SKEW_MS)
         THEN "timestamp_out_of_window"
    ELSE IF ~ NonceAllowed(nonces[r], c.nonce, now) THEN "nonce_not_greater"
    ELSE "ok"

(* The greatest nonce a nonce_not_greater answer reports.                  *)
MaxSeen(r, c) ==
    IF current[r] # NoCard /\ c.nonce <= current[r].nonce THEN current[r].nonce
    ELSE nonces[r].max_nonce

Receives(r, c) ==
    IF Verdict(r, c) = "ok" /\ current[r] # c
    THEN /\ current' = [current EXCEPT ![r] = c]
         /\ nonces' = [nonces EXCEPT ![r] =
                           UpdatedRecord(c.nonce, now, 2 * FUTURE_SKEW_MS)]
    ELSE UNCHANGED relays

RelayForgets(r) ==
    /\ current[r] # NoCard /\ ~ Live(current[r])
    /\ current' = [current EXCEPT ![r] = NoCard]
    /\ UNCHANGED <<now, local, durable, call, nonces, late, sent>>

(* Another write of the agent at the relay, of a device of its own.        *)
OtherWrite(r, nonce) ==
    /\ NonceAllowed(nonces[r], nonce, now)
    /\ nonces' = [nonces EXCEPT ![r] = UpdatedRecord(nonce, now, 2 * FUTURE_SKEW_MS)]
    /\ UNCHANGED <<now, local, durable, call, current, late, sent>>

LateArrival(r, c) ==
    /\ <<r, c>> \in late
    /\ late' = late \ {<<r, c>>}
    /\ Receives(r, c)
    /\ UNCHANGED <<now, local, durable, call, sent>>
-----------------------------------------------------------------------------
(* One request of publish_mail_card *)

(* resync_nonce: the jump is bounded.                                      *)
Resynced(max_nonce) ==
    /\ max_nonce + 1 <= Max2(next_nonce, now) + MAX_NONCE_JUMP
    /\ max_nonce < MAX_SAFE_NONCE

Retryable_NonceOnly(r, c) ==  \* fault: a missed time window is final
    /\ ~ call.resigned
    /\ Verdict(r, c) = "nonce_not_greater" /\ Resynced(MaxSeen(r, c))

Retryable(r, c) ==
    /\ ~ call.resigned
    /\ \/ Verdict(r, c) = "nonce_not_greater" /\ Resynced(MaxSeen(r, c))
       \/ Verdict(r, c) = "timestamp_out_of_window" /\ c.payload.expires_at > now

(* The one re-signed card goes to every route again, those of the retained *)
(* cards included; a payload that can no longer be signed ends the call.   *)
ReSign(r, c) ==
    LET next == IF Verdict(r, c) = "nonce_not_greater"
                THEN Max2(next_nonce, MaxSeen(r, c) + 1) ELSE next_nonce
    IN  IF Signable(c.payload, next)
        THEN Attempt(call.tool, SignMailCard(c.payload, next), cards,
                     call.targets \cup RoutesOf(cards), TRUE)
        ELSE /\ next_nonce' = next
             /\ call' = IdleCall
             /\ UNCHANGED <<cards, pending>>

Confirmed_Optimistic(r, c, readOk) == TRUE  \* fault: an error is taken for success

(* After an error the current card is read; only this very card confirms.  *)
Confirmed(r, c, readOk) == readOk /\ current'[r] = c

EndOfAttempt(failed) ==
    pending' = IF failed = {} THEN NoPending
               ELSE [card |-> call.card, routes |-> failed]

RequestDone(r, failed) ==
    /\ call' = [call EXCEPT !.todo = @ \ {r}, !.failed = failed,
                   !.step = IF call.todo = {r} THEN "end_save" ELSE @]
    /\ IF call.todo = {r} THEN EndOfAttempt(failed) ELSE UNCHANGED pending
    /\ UNCHANGED <<cards, next_nonce>>

Answered(r) ==
    LET c == call.card IN
    /\ Receives(r, c)
    /\ IF Retryable(r, c) THEN ReSign(r, c)
       ELSE \E readOk \in BOOLEAN :
              RequestDone(r, IF Verdict(r, c) = "ok" \/ Confirmed(r, c, readOk)
                             THEN call.failed ELSE call.failed \cup {r})
    /\ UNCHANGED late

(* No answer: the request got there, never will, or is still on its way.   *)
Unanswered(r) ==
    LET c == call.card IN
    /\ \/ Receives(r, c) /\ UNCHANGED late
       \/ UNCHANGED <<relays, late>>
       \/ /\ Cardinality(late) < MaxLate
          /\ late' = late \cup {<<r, c>>}
          /\ UNCHANGED relays
    /\ \E readOk \in BOOLEAN :
          RequestDone(r, IF Confirmed(r, c, readOk)
                         THEN call.failed ELSE call.failed \cup {r})

RequestAnswered(r) ==
    /\ call.step = "publish"
    /\ r \in call.todo
    /\ Answered(r)
    /\ sent' = sent \cup {call.card}
    /\ UNCHANGED <<now, keys, durable>>

RequestUnanswered(r) ==
    /\ call.step = "publish"
    /\ r \in call.todo
    /\ Unanswered(r)
    /\ sent' = sent \cup {call.card}
    /\ UNCHANGED <<now, keys, durable>>
-----------------------------------------------------------------------------
Next ==
    \/ Tick
    \/ \E p \in Payloads : MailMailboxPublish(p)
    \/ MailMailboxPublishRefused
    \/ MailSync
    \/ \E keysSaved, stateSaved \in BOOLEAN : PersistMail(keysSaved, stateSaved)
    \/ HostSaves
    \/ Crash
    \/ \E r \in Routes :
          \/ RequestAnswered(r)
          \/ RequestUnanswered(r)
          \/ RelayForgets(r)
          \/ \E nonce \in OtherNonces : OtherWrite(r, nonce)
    \/ \E request \in late : LateArrival(request[1], request[2])

Spec == Init /\ [][Next]_vars

(* The user calls mail_sync again and again, saving works in the end, and  *)
(* no route stays unreachable for good.                                    *)
FairSpec ==
    /\ Spec
    /\ WF_vars(MailSync)
    /\ SF_vars(PersistMail(TRUE, TRUE))
    /\ \A r \in Routes : SF_vars(RequestAnswered(r))
-----------------------------------------------------------------------------
(***************************************************************************)
(* While mail may arrive for a card that is current at a relay, or will be *)
(* when a late request gets there, that card and its secret are loaded and *)
(* saved: no crash, failed save or later card loses the key of pending     *)
(* mail.                                                                   *)
(***************************************************************************)
KeysOutliveTheirCards ==
    \A c \in {current[r] : r \in Routes} \cup {request[2] : request \in late} :
        ( c # NoCard /\ Live(c) ) =>
            /\ c \in cards \cap saved.cards
            /\ c.payload.key \in keys \cap saved_keys

(***************************************************************************)
(* Between calls, and after a restart, every relay that should serve the   *)
(* latest card and does not is a pending route: those the latest card      *)
(* names, and those that still take mail for an earlier card.              *)
(***************************************************************************)
NoRelayLeftBehind ==
    LET cs == saved.cards IN
    ( call = IdleCall /\ cs # {} /\ Live(Latest(cs)) ) =>
        \A r \in Routes :
            ( /\ current[r] # Latest(cs)
              /\ \/ r \in Latest(cs).payload.routes
                 \/ current[r] # NoCard /\ r \in current[r].payload.routes )
            => r \in saved.pending.routes

(***************************************************************************)
(* No two cards with one nonce ever reach the network, although a crash    *)
(* rewinds the nonce sequence to the last save.                            *)
(***************************************************************************)
AttemptsDistinct ==
    \A c, d \in sent \cup cards : c.nonce = d.nonce => c = d

(***************************************************************************)
(* A route the pending card names does not stay pending: it confirms the   *)
(* card, a newer one takes its place, or the card expires, in spite of     *)
(* missed time windows and of nonces other writes have passed.  (A closing *)
(* card stays pending at a relay that never had the mailbox.)              *)
(***************************************************************************)
PendingConfirmed ==
    \A r \in Routes :
        LET unconfirmed == /\ r \in pending.routes
                           /\ r \in pending.card.payload.routes
                           /\ now < pending.card.payload.expires_at
        IN  unconfirmed ~> ~ unconfirmed
=============================================================================
