------------------------- MODULE ConnectorPublishProofs -------------------------
(***************************************************************************)
(* What the connector's publication of cards keeps safe, for every set of  *)
(* relays and payloads, every bound and any crash or failed save: the keys *)
(* of pending mail are kept, nonces on the network are unique, and no      *)
(* relay stays on an old card without being a pending route.               *)
(***************************************************************************)
EXTENDS ConnectorPublish, FiniteSetsExt, FiniteSetTheorems, TLAPS

(* A set of natural numbers has a least element.                           *)
LEMMA LeastNumber ==
  ASSUME NEW T \in SUBSET Nat, T # {}
  PROVE  \E x \in T : \A y \in T : x <= y
<1> DEFINE R == {ss \in Nat \X Nat : ss[1] < ss[2]}
<1>1. IsWellFoundedOn(R, Nat)
  BY NatLessThanWellFounded DEF OpToRel
<1>2. \A x, y \in Nat : <<y, x>> \in R <=> y < x
  OBVIOUS
<1> HIDE DEF R
<1>3. PICK x \in T : \A y \in T : ~ (<<y, x>> \in R)
  BY <1>1, WFMin
<1>4. ASSUME NEW y \in T PROVE x <= y
  <2>1. x \in Nat /\ y \in Nat
    OBVIOUS
  <2>2. ~ (y < x)
    BY <1>2, <1>3, <2>1
  <2> QED
    BY <2>1, <2>2
<1> QED
  BY <1>4
(* A bounded set of natural numbers has a maximum, and Max is it.          *)
LEMMA MaxOfBounded ==
  ASSUME NEW b \in Nat, NEW T \in SUBSET (0..b), T # {}
  PROVE  /\ Max(T) \in T
         /\ \A y \in T : Max(T) >= y
<1> DEFINE U == {n \in Nat : b - n \in T}
<1>1. U \in SUBSET Nat /\ U # {}
  <2>1. PICK x \in T : TRUE
    OBVIOUS
  <2>2. b - x \in Nat /\ b - (b - x) = x
    BY <2>1
  <2> QED
    BY <2>1, <2>2
<1>2. PICK u \in U : \A v \in U : u <= v
  BY <1>1, LeastNumber
<1>3. b - u \in T /\ u \in Nat
  OBVIOUS
<1>4. ASSUME NEW y \in T PROVE b - u >= y
  <2>1. b - y \in Nat /\ b - (b - y) = y
    OBVIOUS
  <2>2. b - y \in U
    BY <2>1
  <2>3. u <= b - y
    BY <1>2, <2>2
  <2> QED
    BY <2>1, <2>3, <1>3
<1> QED
  BY <1>3, <1>4 DEF Max
-----------------------------------------------------------------------------
(* A tool call, in progress or idle.                                       *)
CallRecord ==
    [step : {"idle", "save", "publish", "end_save"},
     tool : {"none", "publish", "sync"}, card : CardFields \cup {NoCard},
     targets : SUBSET Routes, todo : SUBSET Routes, failed : SUBSET Routes,
     resigned : BOOLEAN]

(* The parts of the state the two invariants are about have their types;   *)
(* a call in progress holds a retained card, and relays only ever hold, or *)
(* are about to receive, what some request carried.                        *)
PublishTyped ==
    /\ now \in 0..MaxTime
    /\ cards \subseteq CardFields /\ saved.cards \subseteq CardFields
    /\ pending.routes \subseteq Routes /\ saved.pending.routes \subseteq Routes
    /\ next_nonce \in Nat /\ saved.next_nonce \in Nat
    /\ call \in CallRecord
    /\ call.step # "idle" => call.card \in cards
    /\ sent \subseteq CardFields
    /\ current \in [Routes -> sent \cup {NoCard}]
    /\ nonces \in [Routes -> [max_nonce : Nat, expires_at : Nat]]
    /\ late \subseteq Routes \X sent

(* What is live stays: a saved card is retained and has a saved secret, a  *)
(* retained card a loaded one, and a card that reached the network was     *)
(* saved before.                                                           *)
Retention ==
    /\ \A c \in saved.cards : Live(c) => c \in cards /\ c.payload.key \in saved_keys
    /\ \A c \in cards : Live(c) => c.payload.key \in keys
    /\ \A c \in sent : Live(c) => c \in saved.cards
    /\ call.step = "publish" => call.card \in saved.cards

(* The saved sequence is beyond every nonce that reached the network, and  *)
(* no two cards anywhere share a nonce.                                    *)
NonceOrder ==
    /\ saved.next_nonce <= next_nonce
    /\ \A c \in cards : c.nonce < next_nonce
    /\ \A c \in saved.cards \cup sent : c.nonce < saved.next_nonce
    /\ call.step = "publish" => call.card.nonce < saved.next_nonce
    /\ \A c, d \in sent \cup cards \cup saved.cards : c.nonce = d.nonce => c = d
-----------------------------------------------------------------------------
(* What may happen at a relay in one step, D being the cards on their way. *)
KeepsAt(r) == current'[r] = current[r] /\ nonces'[r] = nonces[r]

ForgetsAt(r) ==
    /\ current[r] # NoCard /\ ~ Live(current[r]) /\ current'[r] = NoCard
    /\ nonces'[r] = nonces[r]

WritesAt(r) ==
    /\ current'[r] = current[r]
    /\ \E n \in Nat : /\ NonceAllowed(nonces[r], n, now)
                      /\ nonces'[r] = UpdatedRecord(n, now, 2 * FUTURE_SKEW_MS)

TakesAt(r, c) ==
    /\ Verdict(r, c) = "ok" /\ current[r] # c /\ current'[r] = c
    /\ nonces'[r] = UpdatedRecord(c.nonce, now, 2 * FUTURE_SKEW_MS)

MovesAt(r, D) == KeepsAt(r) \/ ForgetsAt(r) \/ WritesAt(r) \/ \E c \in D : TakesAt(r, c)

LateAt(r) == {d \in sent : <<r, d>> \in late}

-----------------------------------------------------------------------------

(* The fields of a card are those of its type: its payload is one of the   *)
(* constant's, its nonce a positive number.                                *)
LEMMA CardData ==
  ASSUME NEW c \in CardFields
  PROVE  /\ c.payload \in Payloads /\ c.payload.routes \subseteq Routes
         /\ c.payload.receive_until \in Nat /\ c.nonce \in Nat
<1>1. c.payload \in Payloads /\ c.nonce \in 1..MAX_SAFE_NONCE
  BY DEF CardFields
<1>2. c.payload \in PayloadFields
  BY <1>1, PublishAssumption
<1> QED
  BY <1>1, <1>2, NonceAssumption DEF PayloadFields

(* A card signed now has the next nonce of the sequence it was drawn from. *)
LEMMA SignedCard ==
  ASSUME PublishTyped, NEW p \in Payloads, NEW next \in Nat, Signable(p, next)
  PROVE  LET c == SignMailCard(p, next) IN
         /\ c \in CardFields /\ c.payload = p
         /\ c.nonce \in Nat /\ c.nonce >= next /\ c.created_at = now
BY NonceAssumption DEF SignMailCard, Signable, NextNonce, Max2, CardFields, PublishTyped

AttemptStarts(c, targets) ==
    /\ pending' = [card |-> c, routes |-> targets]
    /\ call'.targets = targets /\ call'.todo = targets /\ call'.failed = {}

(* An attempt retains its card and starts over with saving. *)
LEMMA AttemptEffect ==
  ASSUME NEW tool \in {"publish", "sync"}, NEW c \in CardFields, NEW retained,
         NEW targets \in SUBSET Routes, NEW resigned \in BOOLEAN,
         next_nonce \in Nat,
         Attempt(tool, c, retained, targets, resigned)
  PROVE  /\ cards' = retained \cup {c} /\ pending'.routes = targets
         /\ next_nonce' = Max2(next_nonce, c.nonce + 1)
         /\ next_nonce' \in Nat /\ next_nonce' >= next_nonce /\ next_nonce' > c.nonce
         /\ call' \in CallRecord /\ call'.step = "save" /\ call'.card = c
         /\ AttemptStarts(c, targets)
BY CardData DEF AttemptStarts, Attempt, Max2, CallRecord

(* A relay takes the card of a request or keeps what it has. *)
LEMMA ReceivesEffect ==
  ASSUME PublishTyped, NEW r \in Routes, NEW c \in CardFields, Receives(r, c)
  PROVE  /\ \A t \in Routes : current'[t] = current[t] \/ current'[t] = c
         /\ current' = [t \in Routes |-> current'[t]]
         /\ nonces' \in [Routes -> [max_nonce : Nat, expires_at : Nat]]
         /\ KeepsAt(r) \/ TakesAt(r, c)
         /\ \A t \in Routes \ {r} : KeepsAt(t)
         /\ Verdict(r, c) = "ok" => current'[r] = c
<1>1. CASE Verdict(r, c) = "ok" /\ current[r] # c
  <2> DEFINE record == UpdatedRecord(c.nonce, now, 2 * FUTURE_SKEW_MS)
  <2>1. record \in [max_nonce : Nat, expires_at : Nat]
    BY CardData, PublishAssumption DEF UpdatedRecord, PublishTyped
  <2>2. current' = [current EXCEPT ![r] = c] /\ nonces' = [nonces EXCEPT ![r] = record]
    BY <1>1 DEF Receives
  <2>3. TakesAt(r, c) /\ \A t \in Routes \ {r} : KeepsAt(t)
    BY <1>1, <2>2 DEF TakesAt, KeepsAt, PublishTyped
  <2> HIDE DEF record
  <2> QED
    BY <2>1, <2>2, <2>3 DEF PublishTyped
<1>2. CASE ~ (Verdict(r, c) = "ok" /\ current[r] # c)
  BY <1>2 DEF Receives, relays, KeepsAt, PublishTyped
<1> QED
  BY <1>1, <1>2
-----------------------------------------------------------------------------
(***************************************************************************)
(* What the steps do, as far as the invariants can tell.                   *)
(***************************************************************************)

(* Time passes, or something happens at a relay.                           *)
Quiet ==
    /\ now' \in 0..MaxTime /\ now <= now'
    /\ UNCHANGED <<cards, keys, pending, next_nonce, durable, call, sent>>
    /\ current' \in [Routes -> sent \cup {NoCard}]
    /\ nonces' \in [Routes -> [max_nonce : Nat, expires_at : Nat]]
    /\ late' \subseteq late
    /\ \A r \in Routes : MovesAt(r, LateAt(r))

(* Pruning, or nothing: live cards stay, and so do their loaded keys.      *)
KeepsLive ==
    /\ cards' \subseteq cards
    /\ \A c \in cards :
          Live(c) => /\ c \in cards'
                     /\ c.payload.key \in keys => c.payload.key \in keys'
    /\ pending'.routes \subseteq Routes
    /\ \/ UNCHANGED <<cards, pending>>
       \/ cards' = PrunedCards /\ pending' = PrunedPending
    /\ UNCHANGED next_nonce

Pruned ==
    /\ KeepsLive
    /\ call = IdleCall
    /\ UNCHANGED <<now, durable, call, relays, late, sent>>

StartsWith(c) ==
    /\ pending'.routes \subseteq Routes
    /\ next_nonce' \in Nat /\ next_nonce <= next_nonce' /\ c.nonce < next_nonce'
    /\ call' \in CallRecord /\ call'.step = "save" /\ call'.card = c
    /\ AttemptStarts(c, call'.targets)

Published(c) ==
    /\ c \in CardFields /\ next_nonce <= c.nonce /\ c.created_at = now
    /\ PrunedCards = {} => sent = {}
    /\ c.payload.routes \cup RoutesOf(PrunedCards) \cup PrunedPending.routes = call'.targets
    /\ cards' = PrunedCards \cup {c} /\ keys' = PrunedKeys \cup {c.payload.key}
    /\ StartsWith(c)
    /\ UNCHANGED <<now, durable, relays, late, sent>>

Resumed ==
    /\ cards' = cards /\ pending.card \in cards
    /\ StartsWith(pending.card)
    /\ pending # NoPending /\ call'.targets = pending.routes
    /\ UNCHANGED <<now, keys, durable, relays, late, sent>>

Saves ==
    /\ KeepsLive
    /\ saved_keys' \in {saved_keys, keys}
    /\ saved' = saved \/ (saved' = State /\ saved_keys' = keys)
    /\ \/ call' = IdleCall
       \/ /\ call' \in CallRecord /\ call'.card = call.card
          /\ saved' = State /\ call.step = "save" /\ call'.step = "publish"
          /\ call'.todo = call.todo /\ call'.failed = call.failed
          /\ call'.targets = call.targets
          /\ UNCHANGED <<cards, keys, pending>>
    /\ UNCHANGED <<now, relays, late, sent>>

(* A request that is over: the relay has the card, or has failed.          *)
Done(r) ==
    LET c == call.card IN
    /\ UNCHANGED <<cards, next_nonce>>
    /\ call' \in CallRecord /\ call'.card = c /\ call'.targets = call.targets
    /\ call'.todo = call.todo \ {r}
    /\ \/ call'.failed = call.failed \cup {r}
       \/ call'.failed = call.failed /\ current'[r] = c
    /\ \/ call'.step = "publish" /\ pending' = pending
       \/ /\ call'.step = "end_save" /\ call'.todo = {}
          /\ pending' = IF call'.failed = {} THEN NoPending
                        ELSE [card |-> c, routes |-> call'.failed]

Requested(r) ==
    LET c == call.card IN
    /\ call.step = "publish"
    /\ sent' = sent \cup {c}
    /\ current' \in [Routes -> sent' \cup {NoCard}]
    /\ nonces' \in [Routes -> [max_nonce : Nat, expires_at : Nat]]
    /\ MovesAt(r, {c}) /\ \A t \in Routes \ {r} : KeepsAt(t)
    /\ late' \subseteq late \cup {<<r, c>>}
    /\ pending'.routes \subseteq Routes
    /\ next_nonce' \in Nat /\ next_nonce <= next_nonce'
    /\ UNCHANGED <<now, keys, durable>>
    /\ \/ Done(r)
       \/ cards' = cards /\ pending' = pending /\ call' = IdleCall
       \/ \E d \in CardFields :
             /\ d.payload = c.payload /\ next_nonce <= d.nonce /\ d.created_at = now
             /\ cards' = cards \cup {d}
             /\ StartsWith(d)
             /\ call'.targets = call.targets \cup RoutesOf(cards)
-----------------------------------------------------------------------------
(* The call record of no call is a call record. *)
LEMMA IdleRecord == IdleCall \in CallRecord /\ IdleCall.step = "idle"
BY DEF IdleCall, CallRecord

(* Pruning, and doing nothing, keep every live card and its loaded key. *)
LEMMA PruneKeepsLive ==
  ASSUME PublishTyped,
         (Prune /\ UNCHANGED next_nonce) \/ UNCHANGED local
  PROVE  KeepsLive
<1>1. CASE Prune /\ UNCHANGED next_nonce
  <2>1. /\ cards' = PrunedCards /\ keys' = PrunedKeys /\ pending' = PrunedPending
    BY <1>1 DEF Prune
  <2>2. PrunedPending.routes \subseteq Routes
    BY DEF PrunedPending, NoPending, PublishTyped
  <2>3. PrunedCards \subseteq cards /\ \A c \in cards : Live(c) => c \in PrunedCards
    BY DEF PrunedCards
  <2>4. \A c \in PrunedCards : c.payload.key \in keys => c.payload.key \in PrunedKeys
    BY DEF PrunedKeys
  <2> QED
    BY <1>1, <2>1, <2>2, <2>3, <2>4 DEF KeepsLive
<1>2. CASE UNCHANGED local
  BY <1>2 DEF local, KeepsLive, PublishTyped
<1> QED
  BY <1>1, <1>2

(* The card of a publication is new: its nonce is the next one. *)
LEMMA PublishEffect ==
  ASSUME PublishTyped, NEW p \in Payloads, MailMailboxPublish(p)
  PROVE  \E c \in CardFields : Published(c)
<1> DEFINE c == SignMailCard(p, next_nonce)
           targets == p.routes \cup RoutesOf(PrunedCards) \cup PrunedPending.routes
<1>1. /\ Signable(p, next_nonce) /\ keys' = PrunedKeys \cup {p.key}
      /\ Attempt("publish", c, PrunedCards, targets, FALSE)
      /\ UNCHANGED <<now, durable, relays, late, sent>>
  BY DEF MailMailboxPublish
<1>2. c \in CardFields /\ c.payload = p /\ c.nonce >= next_nonce /\ c.created_at = now
  BY <1>1, SignedCard DEF PublishTyped
<1>3. targets \subseteq Routes
  <2>1. p.routes \subseteq Routes
    BY <1>2, CardData
  <2>2. PrunedPending.routes \subseteq Routes
    BY DEF PrunedPending, NoPending, PublishTyped
  <2>3. \A d \in PrunedCards : d.payload.routes \subseteq Routes
    BY CardData DEF PrunedCards, PublishTyped
  <2>4. RoutesOf(PrunedCards) \subseteq Routes
    BY <2>3 DEF RoutesOf
  <2> QED
    BY <2>1, <2>2, <2>4
<1>5. p.routes \cup RoutesOf(PrunedCards) \cup PrunedPending.routes = targets
  OBVIOUS
<1>6. PrunedCards = {} => sent = {}
  BY DEF MailMailboxPublish
<1> HIDE DEF c, targets
<1>4. cards' = PrunedCards \cup {c} /\ StartsWith(c) /\ call'.targets = targets
  <2>1. next_nonce \in Nat
    BY DEF PublishTyped
  <2>2. /\ cards' = PrunedCards \cup {c} /\ pending'.routes = targets
        /\ next_nonce' \in Nat /\ next_nonce' >= next_nonce /\ next_nonce' > c.nonce
        /\ call' \in CallRecord /\ call'.step = "save" /\ call'.card = c
        /\ AttemptStarts(c, targets)
    <3>1. /\ c \in CardFields /\ targets \in SUBSET Routes
          /\ "publish" \in {"publish", "sync"} /\ FALSE \in BOOLEAN
          /\ Attempt("publish", c, PrunedCards, targets, FALSE)
      BY <1>1, <1>2, <1>3
    <3> QED
      BY ONLY <2>1, <3>1, AttemptEffect
  <2>4. call'.targets = targets
    BY <2>2 DEF AttemptStarts
  <2>3. c.nonce \in Nat
    BY <1>2, CardData
  <2> QED
    BY <1>3, <2>1, <2>2, <2>3, <2>4 DEF StartsWith
<1> QED
  BY <1>1, <1>2, <1>4, <1>5, <1>6, CardData DEF Published, PublishTyped

(* A sync resumes the pending publication or prunes. *)
LEMMA SyncEffect ==
  ASSUME PublishTyped, MailSync
  PROVE  Resumed \/ Pruned
<1>1. call = IdleCall /\ UNCHANGED <<now, durable, relays, late, sent>>
  BY DEF MailSync
<1>2. CASE Resumable
  <2>1. pending.card \in cards /\ pending.card \in CardFields
    BY <1>2 DEF Resumable, PublishTyped
  <2>2. Attempt("sync", pending.card, cards, pending.routes, FALSE) /\ UNCHANGED keys
    BY <1>2 DEF MailSync
  <2>0. pending.routes \in SUBSET Routes /\ next_nonce \in Nat /\ pending.card.nonce \in Nat
    BY <2>1, CardData DEF PublishTyped
  <2>4. /\ cards' = cards \cup {pending.card} /\ pending'.routes = pending.routes
        /\ next_nonce' \in Nat /\ next_nonce' >= next_nonce
        /\ next_nonce' > pending.card.nonce
        /\ call' \in CallRecord /\ call'.step = "save" /\ call'.card = pending.card
        /\ AttemptStarts(pending.card, pending.routes)
    BY <2>0, <2>1, <2>2, AttemptEffect
  <2>3. /\ cards' = cards \cup {pending.card} /\ StartsWith(pending.card)
        /\ pending # NoPending /\ call'.targets = pending.routes
    BY <1>2, <2>0, <2>4 DEF StartsWith, AttemptStarts, Resumable
  <2> QED
    BY <1>1, <2>1, <2>2, <2>3 DEF Resumed
<1>3. CASE ~ Resumable
  BY <1>1, <1>3, PruneKeepsLive DEF MailSync, Pruned
<1> QED
  BY <1>2, <1>3

(* Saving: keys first, and only what is retained. *)
LEMMA SaveEffect ==
  ASSUME PublishTyped,
         \/ \E keysSaved, stateSaved \in BOOLEAN : PersistMail(keysSaved, stateSaved)
         \/ HostSaves
  PROVE  Saves
<1>1. CASE HostSaves
  BY <1>1, PruneKeepsLive DEF HostSaves, Saves, local
<1>2. ASSUME NEW keysSaved \in BOOLEAN, NEW stateSaved \in BOOLEAN,
             PersistMail(keysSaved, stateSaved)
      PROVE  Saves
  <2>1. KeepsLive
    BY <1>2, PruneKeepsLive DEF PersistMail
  <2>2. /\ saved_keys' \in {saved_keys, keys}
        /\ saved' = saved \/ (saved' = State /\ saved_keys' = keys)
        /\ UNCHANGED <<now, relays, late, sent>>
    BY <1>2 DEF PersistMail
  <2>3. CASE call.step = "save" /\ stateSaved
    <3>1. call' = [call EXCEPT !.step = "publish"] /\ saved' = State /\ UNCHANGED local
      BY <1>2, <2>3 DEF PersistMail
    <3>2. /\ call' \in CallRecord /\ call'.card = call.card /\ call'.step = "publish"
          /\ call'.todo = call.todo /\ call'.failed = call.failed
          /\ call'.targets = call.targets
      BY <3>1 DEF CallRecord, PublishTyped
    <3> QED
      BY <2>1, <2>2, <2>3, <3>1, <3>2 DEF Saves, local
  <2>4. CASE ~ (call.step = "save" /\ stateSaved)
    BY <1>2, <2>1, <2>2, <2>4 DEF PersistMail, Saves
  <2> QED
    BY <2>3, <2>4
<1> QED
  BY <1>1, <1>2
(* A request that is over leaves the call at its card. *)
LEMMA DoneEffect ==
  ASSUME PublishTyped, call.step = "publish", NEW r \in Routes,
         NEW failed \in {call.failed, call.failed \cup {r}}, RequestDone(r, failed),
         failed = call.failed => failed = call.failed \cup {r} \/ current'[r] = call.card
  PROVE  Done(r) /\ pending'.routes \subseteq Routes
<1> DEFINE step == IF call.todo = {r} THEN "end_save" ELSE call.step
<1>1. call \in CallRecord /\ failed \subseteq Routes
  BY DEF PublishTyped, CallRecord
<1>2. call' = [call EXCEPT !.todo = call.todo \ {r}, !.failed = failed, !.step = step]
  BY <1>1 DEF RequestDone, CallRecord
<1>3. /\ step \in {"end_save", "publish"}
      /\ step = "end_save" => call.todo = {r}
      /\ step = "publish" => call.todo # {r}
  OBVIOUS
<1> HIDE DEF step
<1>4. /\ call' \in CallRecord /\ call'.card = call.card /\ call'.targets = call.targets
      /\ call'.todo = call.todo \ {r} /\ call'.failed = failed /\ call'.step = step
  BY <1>1, <1>2, <1>3 DEF CallRecord
<1>5. /\ pending'.routes \subseteq Routes
      /\ step = "publish" => pending' = pending
      /\ step = "end_save" => pending' = IF failed = {} THEN NoPending
                                         ELSE [card |-> call.card, routes |-> failed]
  BY <1>1, <1>3 DEF RequestDone, EndOfAttempt, NoPending, PublishTyped
<1> QED
  BY <1>3, <1>4, <1>5 DEF RequestDone, Done

(* Signing again keeps the payload and takes a nonce not below the next. *)
LEMMA ReSignEffect ==
  ASSUME PublishTyped, call.step = "publish", NEW r \in Routes, ReSign(r, call.card)
  PROVE  /\ pending'.routes \subseteq Routes
         /\ next_nonce' \in Nat /\ next_nonce <= next_nonce'
         /\ \/ cards' = cards /\ pending' = pending /\ call' = IdleCall
            \/ \E d \in CardFields :
                  /\ d.payload = call.card.payload /\ next_nonce <= d.nonce
                  /\ d.created_at = now
                  /\ cards' = cards \cup {d}
                  /\ StartsWith(d)
                  /\ call'.targets = call.targets \cup RoutesOf(cards)
<1> DEFINE c == call.card
           next == IF Verdict(r, c) = "nonce_not_greater"
                   THEN Max2(next_nonce, MaxSeen(r, c) + 1) ELSE next_nonce
           d == SignMailCard(c.payload, next)
           targets == call.targets \cup RoutesOf(cards)
<1>1. c \in cards /\ c \in CardFields /\ call \in CallRecord /\ next_nonce \in Nat
  BY DEF PublishTyped
<1>2. current[r] # NoCard => current[r] \in CardFields
  BY DEF PublishTyped
<1>3. MaxSeen(r, c) \in Nat
  BY <1>2, CardData DEF MaxSeen, PublishTyped
<1>4. next \in Nat /\ next_nonce <= next
  BY <1>1, <1>3 DEF Max2
<1>5. targets \subseteq Routes
  <2>1. \A e \in cards : e.payload.routes \subseteq Routes
    BY CardData DEF PublishTyped
  <2>2. RoutesOf(cards) \subseteq Routes
    BY <2>1 DEF RoutesOf
  <2> QED
    BY <1>1, <2>2 DEF CallRecord
<1>6. CASE Signable(c.payload, next)
  <2>1. Attempt(call.tool, d, cards, targets, TRUE)
    BY <1>6 DEF ReSign
  <2>2. /\ d \in CardFields /\ d.payload = c.payload /\ d.nonce \in Nat /\ next <= d.nonce
        /\ d.created_at = now /\ targets = call.targets \cup RoutesOf(cards)
    BY <1>1, <1>4, <1>6, CardData, SignedCard
  <2> HIDE DEF d, targets, next
  <2>3. /\ cards' = cards \cup {d} /\ pending' = [card |-> d, routes |-> targets]
        /\ next_nonce' = Max2(next_nonce, d.nonce + 1)
        /\ call' = [step |-> "save", tool |-> call.tool, card |-> d, targets |-> targets,
                    todo |-> targets, failed |-> {}, resigned |-> TRUE]
    BY <2>1 DEF Attempt
  <2>4. next_nonce' \in Nat /\ next_nonce <= next_nonce' /\ d.nonce < next_nonce'
    BY <1>1, <2>2, <2>3 DEF Max2
  <2>5. /\ call' \in CallRecord /\ call'.step = "save" /\ call'.card = d
        /\ call'.targets = targets /\ call'.todo = targets /\ call'.failed = {}
    BY <1>1, <1>5, <2>2, <2>3 DEF CallRecord
  <2>6. pending'.routes \subseteq Routes
    BY <1>5, <2>3
  <2>9. AttemptStarts(d, targets)
    BY <2>3 DEF AttemptStarts
  <2>7. StartsWith(d) /\ call'.targets = call.targets \cup RoutesOf(cards)
    BY <2>2, <2>5, <2>9, <2>4, <2>5, <2>6 DEF StartsWith
  <2>8. next_nonce <= d.nonce
    BY <1>1, <1>4, <2>2
  <2> QED
    BY <2>2, <2>3, <2>4, <2>6, <2>7, <2>8
<1>7. CASE ~ Signable(c.payload, next)
  BY <1>4, <1>7 DEF ReSign, PublishTyped
<1> QED
  BY <1>6, <1>7

(* A request carries the card of the call, whatever comes of it. *)
LEMMA RequestEffect ==
  ASSUME PublishTyped, NEW r \in Routes,
         RequestAnswered(r) \/ RequestUnanswered(r)
  PROVE  Requested(r)
<1> DEFINE c == call.card
<1>1. call.step = "publish" /\ sent' = sent \cup {c} /\ UNCHANGED <<now, keys, durable>>
  BY DEF RequestAnswered, RequestUnanswered
<1>2. c \in CardFields /\ call.failed \subseteq Routes
  BY <1>1 DEF PublishTyped, CallRecord
<1>3. ASSUME Receives(r, c) \/ UNCHANGED relays
      PROVE  /\ current' \in [Routes -> sent' \cup {NoCard}]
             /\ nonces' \in [Routes -> [max_nonce : Nat, expires_at : Nat]]
             /\ MovesAt(r, {c}) /\ \A t \in Routes \ {r} : KeepsAt(t)
  <2>1. CASE Receives(r, c)
    BY <1>1, <1>2, <2>1, ReceivesEffect DEF MovesAt, PublishTyped
  <2>2. CASE UNCHANGED relays
    BY <1>1, <2>2 DEF relays, MovesAt, KeepsAt, PublishTyped
  <2> QED
    BY <1>3, <2>1, <2>2
<1>4. ASSUME NEW failed \in {call.failed, call.failed \cup {r}}, RequestDone(r, failed),
             failed = call.failed => failed = call.failed \cup {r} \/ current'[r] = c
      PROVE  /\ pending'.routes \subseteq Routes /\ Done(r)
             /\ next_nonce' \in Nat /\ next_nonce <= next_nonce'
  <2>1. Done(r) /\ pending'.routes \subseteq Routes
    BY <1>1, <1>4, DoneEffect
  <2> QED
    BY <2>1 DEF Done, PublishTyped
<1>5. CASE RequestAnswered(r)
  <2>1. Receives(r, c) /\ late' = late
    BY <1>5 DEF RequestAnswered, Answered
  <2>2. CASE Retryable(r, c)
    <3>1. ReSign(r, c)
      BY <1>5, <2>2 DEF RequestAnswered, Answered
    <3> QED
      BY <1>1, <1>3, <2>1, <3>1, ReSignEffect DEF Requested
  <2>3. CASE ~ Retryable(r, c)
    <3>1. PICK readOk \in BOOLEAN :
             RequestDone(r, IF Verdict(r, c) = "ok" \/ Confirmed(r, c, readOk)
                            THEN call.failed ELSE call.failed \cup {r})
      BY <1>5, <2>3 DEF RequestAnswered, Answered
    <3>2. Verdict(r, c) = "ok" \/ Confirmed(r, c, readOk) => current'[r] = c
      BY <1>2, <2>1, ReceivesEffect DEF Confirmed
    <3>3. CASE Verdict(r, c) = "ok" \/ Confirmed(r, c, readOk)
      BY <1>1, <1>3, <1>4, <2>1, <3>1, <3>2, <3>3 DEF Requested
    <3>4. CASE ~ (Verdict(r, c) = "ok" \/ Confirmed(r, c, readOk))
      BY <1>1, <1>3, <1>4, <2>1, <3>1, <3>4 DEF Requested
    <3> QED
      BY <3>3, <3>4
  <2> QED
    BY <2>2, <2>3
<1>6. CASE RequestUnanswered(r)
  <2>1. /\ Receives(r, c) \/ UNCHANGED relays
        /\ late' \subseteq late \cup {<<r, c>>}
    BY <1>6 DEF RequestUnanswered, Unanswered
  <2>2. PICK readOk \in BOOLEAN :
           RequestDone(r, IF Confirmed(r, c, readOk)
                          THEN call.failed ELSE call.failed \cup {r})
    BY <1>6 DEF RequestUnanswered, Unanswered
  <2>3. CASE Confirmed(r, c, readOk)
    BY <1>1, <1>3, <1>4, <2>1, <2>2, <2>3 DEF Requested, Confirmed
  <2>4. CASE ~ Confirmed(r, c, readOk)
    BY <1>1, <1>3, <1>4, <2>1, <2>2, <2>4 DEF Requested
  <2> QED
    BY <2>3, <2>4
<1> QED
  BY <1>5, <1>6
(* Every step is of one of seven kinds. *)
LEMMA StepKinds ==
  ASSUME PublishTyped, [Next]_vars
  PROVE  \/ Quiet
         \/ Pruned
         \/ \E c \in CardFields : Published(c)
         \/ Resumed
         \/ Saves
         \/ Crash
         \/ \E r \in Routes : Requested(r)
<1>1. CASE Tick
  BY <1>1, PublishAssumption
  DEF Tick, Quiet, local, durable, relays, MovesAt, KeepsAt, PublishTyped
<1>2. CASE \E p \in Payloads : MailMailboxPublish(p)
  BY <1>2, PublishEffect
<1>3. CASE MailMailboxPublishRefused
  BY <1>3, PruneKeepsLive DEF MailMailboxPublishRefused, Pruned
<1>4. CASE MailSync
  BY <1>4, SyncEffect
<1>5. CASE \/ \E keysSaved, stateSaved \in BOOLEAN : PersistMail(keysSaved, stateSaved)
           \/ HostSaves
  BY <1>5, SaveEffect
<1>6. CASE \E r \in Routes : RequestAnswered(r) \/ RequestUnanswered(r)
  BY <1>6, RequestEffect
<1>7. ASSUME NEW r \in Routes, RelayForgets(r)
      PROVE  Quiet
  <2>1. \A t \in Routes : KeepsAt(t) \/ ForgetsAt(t)
    BY <1>7 DEF RelayForgets, KeepsAt, ForgetsAt, PublishTyped
  <2> QED
    BY <1>7, <2>1 DEF RelayForgets, Quiet, MovesAt, local, durable, PublishTyped
<1>8. ASSUME NEW r \in Routes, NEW nonce \in OtherNonces, OtherWrite(r, nonce)
      PROVE  Quiet
  <2> DEFINE record == UpdatedRecord(nonce, now, 2 * FUTURE_SKEW_MS)
  <2>1. record \in [max_nonce : Nat, expires_at : Nat]
    BY PublishAssumption DEF UpdatedRecord, PublishTyped
  <2>2. nonces' = [nonces EXCEPT ![r] = record]
    BY <1>8 DEF OtherWrite
  <2>4. \A t \in Routes : MovesAt(t, LateAt(t))
    <3>1. WritesAt(r) /\ \A t \in Routes \ {r} : KeepsAt(t)
      BY <1>8, <2>2, PublishAssumption DEF OtherWrite, WritesAt, KeepsAt, PublishTyped
    <3> QED
      BY <3>1 DEF MovesAt
  <2> HIDE DEF record
  <2>3. nonces' \in [Routes -> [max_nonce : Nat, expires_at : Nat]]
    BY <2>1, <2>2 DEF PublishTyped
  <2> QED
    BY <1>8, <2>3, <2>4 DEF OtherWrite, Quiet, local, durable, PublishTyped
<1>9. ASSUME NEW request \in late, LateArrival(request[1], request[2])
      PROVE  Quiet
  <2> DEFINE r == request[1]
             c == request[2]
  <2>1. r \in Routes /\ c \in sent /\ c \in CardFields
    BY DEF PublishTyped
  <2>2. /\ Receives(r, c) /\ late' \subseteq late
        /\ UNCHANGED <<now, local, durable, call, sent>>
    BY <1>9 DEF LateArrival
  <2> HIDE DEF r, c
  <2>3. /\ current' \in [Routes -> sent \cup {NoCard}]
        /\ nonces' \in [Routes -> [max_nonce : Nat, expires_at : Nat]]
    BY <2>1, <2>2, ReceivesEffect DEF PublishTyped
  <2>4. \A t \in Routes : MovesAt(t, LateAt(t))
    <3>1. c \in LateAt(r)
      BY <2>1 DEF LateAt, r, c, PublishTyped
    <3>2. /\ KeepsAt(r) \/ TakesAt(r, c)
          /\ \A t \in Routes \ {r} : KeepsAt(t)
      BY <2>1, <2>2, ReceivesEffect
    <3> QED
      BY <3>1, <3>2 DEF MovesAt
  <2> QED
    BY <2>2, <2>3, <2>4 DEF Quiet, local, PublishTyped
<1>10. CASE UNCHANGED vars
  BY <1>10 DEF vars, local, relays, MovesAt, KeepsAt, Quiet, PublishTyped
<1> QED
  BY <1>1, <1>2, <1>3, <1>4, <1>5, <1>6, <1>7, <1>8, <1>9, <1>10 DEF Next
-----------------------------------------------------------------------------
(* The parts keep their types. *)
LEMMA TypedStep ==
  ASSUME PublishTyped, [Next]_vars
  PROVE  PublishTyped'
<1>1. CASE Quiet
  BY <1>1 DEF Quiet, durable, PublishTyped
<1>2. CASE Pruned
  <2>1. call.step = "idle"
    BY <1>2, IdleRecord DEF Pruned
  <2> QED
    BY <1>2, <2>1 DEF Pruned, KeepsLive, durable, relays, PublishTyped
<1>3. ASSUME NEW c \in CardFields, Published(c)
      PROVE  PublishTyped'
  BY <1>3 DEF Published, StartsWith, PrunedCards, durable, relays, PublishTyped
<1>4. CASE Resumed
  BY <1>4 DEF Resumed, StartsWith, durable, relays, PublishTyped
<1>5. CASE Saves
  BY <1>5, IdleRecord DEF Saves, KeepsLive, State, relays, PublishTyped
<1>6. CASE Crash
  BY <1>6, IdleRecord DEF Crash, durable, relays, PublishTyped
<1>7. ASSUME NEW r \in Routes, Requested(r)
      PROVE  PublishTyped'
  BY <1>7, IdleRecord DEF Requested, Done, StartsWith, durable, PublishTyped
<1> QED
  BY <1>1, <1>2, <1>3, <1>4, <1>5, <1>6, <1>7, StepKinds
(* No step breaks retention: pruning and crashes keep live cards and their *)
(* keys, keys are saved before the state, and signing again keeps the key. *)
LEMMA RetentionStep ==
  ASSUME PublishTyped, Retention, [Next]_vars
  PROVE  Retention'
<1> DEFINE LiveNext(c) == now' < c.payload.receive_until
<1>1. CASE Quiet
  <2>1. \A c \in CardFields : LiveNext(c) => Live(c)
    BY <1>1, CardData DEF Quiet, Live, PublishTyped
  <2> QED
    BY <1>1, <2>1 DEF Quiet, durable, Live, Retention, PublishTyped
<1>2. CASE Pruned
  BY <1>2 DEF Pruned, KeepsLive, durable, Live, Retention, PublishTyped
<1>3. ASSUME NEW c \in CardFields, Published(c)
      PROVE  Retention'
  <2>1. \A d \in cards : Live(d) => d \in PrunedCards /\ d.payload.key \in PrunedKeys
    BY DEF PrunedCards, PrunedKeys, Retention
  <2>2. PrunedCards \subseteq cards
    BY DEF PrunedCards
  <2> QED
    BY <1>3, <2>1, <2>2 DEF Published, StartsWith, durable, Live, Retention
<1>4. CASE Resumed
  BY <1>4 DEF Resumed, StartsWith, durable, Live, Retention
<1>5. CASE Saves
  BY <1>5, IdleRecord DEF Saves, KeepsLive, State, Live, Retention, PublishTyped
<1>6. CASE Crash
  BY <1>6, IdleRecord DEF Crash, durable, Live, Retention
<1>7. ASSUME NEW r \in Routes, Requested(r)
      PROVE  Retention'
  BY <1>7, IdleRecord DEF Requested, Done, StartsWith, durable, Live, Retention, PublishTyped
<1> QED
  BY <1>1, <1>2, <1>3, <1>4, <1>5, <1>6, <1>7, StepKinds

(* No step breaks the order of nonces: a new card is beyond the sequence,  *)
(* and a crash goes back to a save every card on the network came after.   *)
LEMMA NonceOrderStep ==
  ASSUME PublishTyped, NonceOrder, [Next]_vars
  PROVE  NonceOrder'
<1> USE DEF NonceOrder
<1>0. /\ \A c \in sent \cup cards \cup saved.cards : c \in CardFields /\ c.nonce \in Nat
      /\ saved.next_nonce \in Nat /\ next_nonce \in Nat
  BY CardData DEF PublishTyped
<1>1. CASE Quiet
  BY <1>1 DEF Quiet, durable
<1>2. CASE Pruned
  BY <1>2 DEF Pruned, KeepsLive, durable
<1>3. ASSUME NEW c \in CardFields, Published(c)
      PROVE  NonceOrder'
  <2>1. PrunedCards \subseteq cards
    BY DEF PrunedCards
  <2>2. /\ cards' \subseteq cards \cup {c} /\ next_nonce <= c.nonce
        /\ next_nonce' \in Nat /\ next_nonce <= next_nonce' /\ c.nonce < next_nonce'
        /\ call'.step = "save" /\ saved' = saved /\ sent' = sent
    BY <1>3, <2>1 DEF Published, StartsWith, durable
  <2>3. c.nonce \in Nat
    BY CardData
  <2>4. \A d \in sent \cup cards \cup saved.cards : d.nonce < next_nonce
    BY <1>0
  <2> QED
    BY <1>0, <2>2, <2>3, <2>4
<1>4. CASE Resumed
  BY <1>0, <1>4 DEF Resumed, StartsWith, durable
<1>5. CASE Saves
  <2>1. /\ cards' \subseteq cards /\ next_nonce' = next_nonce /\ sent' = sent
    BY <1>5 DEF Saves, KeepsLive
  <2>2. CASE saved' = saved /\ saved' # State
    <3>1. call'.step = "idle"
      BY <1>5, <2>2, IdleRecord DEF Saves
    <3> QED
      BY <1>0, <2>1, <2>2, <3>1
  <2>3. CASE saved' = State
    <3>1. saved'.cards = cards /\ saved'.next_nonce = next_nonce
      BY <2>3 DEF State
    <3>2. call'.step = "publish" => call'.card \in cards
      BY <1>5, IdleRecord DEF Saves, PublishTyped
    <3> QED
      BY <1>0, <2>1, <3>1, <3>2
  <2> QED
    BY <1>5, <2>2, <2>3 DEF Saves
<1>6. CASE Crash
  BY <1>0, <1>6, IdleRecord DEF Crash, durable
<1>7. ASSUME NEW r \in Routes, Requested(r)
      PROVE  NonceOrder'
  <2> DEFINE c == call.card
  <2>1. /\ call.step = "publish" /\ sent' = sent \cup {c} /\ saved' = saved
        /\ next_nonce' \in Nat /\ next_nonce <= next_nonce'
        /\ c \in cards
    BY <1>7 DEF Requested, durable, PublishTyped
  <2>2. CASE cards' = cards /\ (call'.card = c \/ call' = IdleCall)
    BY <1>0, <2>1, <2>2, IdleRecord
  <2>3. ASSUME NEW d \in CardFields, next_nonce <= d.nonce,
               cards' = cards \cup {d}, StartsWith(d)
        PROVE  NonceOrder'
    <3>1. d.nonce \in Nat /\ d.nonce < next_nonce' /\ call'.step = "save"
      BY <2>3, CardData DEF StartsWith
    <3>2. \A e \in sent \cup cards \cup saved.cards : e.nonce < next_nonce
      BY <1>0
    <3> QED
      BY <1>0, <2>1, <2>3, <3>1, <3>2
  <2> QED
    BY <1>7, <2>2, <2>3 DEF Requested, Done
<1> QED
  BY <1>1, <1>2, <1>3, <1>4, <1>5, <1>6, <1>7, StepKinds
-----------------------------------------------------------------------------
(* The three parts together are inductive. *)
LEMMA PublishSafe == Spec => [](PublishTyped /\ Retention /\ NonceOrder)
<1>1. Init => PublishTyped /\ Retention /\ NonceOrder
  <2> SUFFICES ASSUME Init PROVE PublishTyped /\ Retention /\ NonceOrder
    OBVIOUS
  <2>1. PublishTyped
    BY PublishAssumption, IdleRecord
    DEF Init, State, NoPending, NoRecord, PublishTyped
  <2>2. Retention /\ NonceOrder
    BY IdleRecord DEF Init, State, Retention, NonceOrder
  <2> QED
    BY <2>1, <2>2
<1>2. PublishTyped /\ Retention /\ NonceOrder /\ [Next]_vars
      => (PublishTyped /\ Retention /\ NonceOrder)'
  BY TypedStep, RetentionStep, NonceOrderStep
<1> QED
  BY <1>1, <1>2, PTL DEF Spec

(***************************************************************************)
(* No crash, failed save or later card loses the key of pending mail: a    *)
(* card that is current at a relay, or will be when a late request gets    *)
(* there, is loaded and saved with its secret for as long as mail may      *)
(* arrive (publish_mail_card saves through persist_mail before its first   *)
(* request; prune_mail).                                                   *)
(***************************************************************************)
THEOREM PublishKeepsKeys == Spec => []KeysOutliveTheirCards
<1>1. PublishTyped /\ Retention => KeysOutliveTheirCards
  BY DEF PublishTyped, Retention, KeysOutliveTheirCards
<1> QED
  BY <1>1, PublishSafe, PTL

(***************************************************************************)
(* No two cards with one nonce ever reach the network, although a crash    *)
(* rewinds ClientNonceManager to the last save: what a crash forgets was   *)
(* never sent (publish_mail_card saves before it sends).                   *)
(***************************************************************************)
THEOREM PublishAttemptsDistinct == Spec => []AttemptsDistinct
<1>1. NonceOrder => AttemptsDistinct
  BY DEF NonceOrder, AttemptsDistinct
<1> QED
  BY <1>1, PublishSafe, PTL
-----------------------------------------------------------------------------
(***************************************************************************)
(* That no relay is left on an old card has an invariant of its own: what  *)
(* a relay may still take from a late request, and which relays a state of *)
(* the connector, loaded or saved, has to account for.                     *)
(***************************************************************************)

(* Cards are signed in the order of their nonces.                          *)
SignedInOrder ==
    LET all == sent \cup cards \cup saved.cards IN
    /\ \A c \in all : c.created_at \in 0..now
    /\ \A c, d \in all : c.nonce < d.nonce => c.created_at <= d.created_at

(* Relay r will not take the card c any more, should it have forgotten the *)
(* mailbox: the time window of c is over, or will be before the record of  *)
(* a nonce as great expires.                                               *)
Settled(r, c) ==
    \/ now > c.created_at + FUTURE_SKEW_MS
    \/ /\ c.nonce <= nonces[r].max_nonce
       /\ c.created_at + FUTURE_SKEW_MS <= nonces[r].expires_at

CurrentSettled == \A r \in Routes : current[r] # NoCard => Settled(r, current[r])

(* Relay r has the card c if c names it, no other card that names it, and  *)
(* no late request will give it one.                                       *)
Served(r, c) ==
    /\ Live(c) /\ r \in c.payload.routes => current[r] = c
    /\ current[r] \notin {NoCard, c} => r \notin current[r].payload.routes
    /\ \A d \in sent : <<r, d>> \in late /\ d # c /\ r \in d.payload.routes => Settled(r, d)

(* The same of the next state, for a card that is given.                   *)
SettledNext(r, c) ==
    \/ now' > c.created_at + FUTURE_SKEW_MS
    \/ /\ c.nonce <= nonces'[r].max_nonce
       /\ c.created_at + FUTURE_SKEW_MS <= nonces'[r].expires_at

ServedNext(r, c) ==
    /\ now' < c.payload.receive_until /\ r \in c.payload.routes => current'[r] = c
    /\ current'[r] \notin {NoCard, c} => r \notin current'[r].payload.routes
    /\ \A d \in sent' :
          <<r, d>> \in late' /\ d # c /\ r \in d.payload.routes => SettledNext(r, d)

(* A state of the connector, loaded or saved: no card on the network is    *)
(* newer than its latest, and relays that are not pending are served.      *)
Accounted(cs, p) ==
    IF cs = {} THEN p = NoPending
    ELSE /\ \A d \in sent : d.nonce <= Latest(cs).nonce
         /\ p # NoPending => p.card = Latest(cs)
         /\ \A r \in Routes \ p.routes : Served(r, Latest(cs))

AccountedNext(cs, p) ==
    IF cs = {} THEN p = NoPending
    ELSE /\ \A d \in sent' : d.nonce <= Latest(cs).nonce
         /\ p # NoPending => p.card = Latest(cs)
         /\ \A r \in Routes \ p.routes : ServedNext(r, Latest(cs))

(* A call is about the latest card; while it publishes, what is saved is   *)
(* what is loaded, and the relays it is through with are served.           *)
CallAccounted ==
    call.step # "idle" =>
        /\ call.card = Latest(cards)
        /\ call.step # "end_save" =>
              pending = [card |-> call.card, routes |-> call.targets]
        /\ call.step = "save" => call.todo = call.targets /\ call.failed = {}
        /\ call.step = "publish" =>
              /\ saved.cards = cards /\ saved.pending = pending
              /\ \A r \in Routes \ (call.todo \cup call.failed) : Served(r, call.card)

NobodyForgotten ==
    /\ SignedInOrder /\ CurrentSettled
    /\ Accounted(cards, pending) /\ Accounted(saved.cards, saved.pending)
    /\ CallAccounted
-----------------------------------------------------------------------------
(* The latest card of a set is one of it, and has its greatest nonce.      *)
LEMMA LatestCard ==
  ASSUME NEW cs \in SUBSET CardFields, cs # {}
  PROVE  Latest(cs) \in cs /\ \A d \in cs : d.nonce <= Latest(cs).nonce
<1> DEFINE T == {d.nonce : d \in cs}
<1>1. \A d \in cs : d.nonce \in 0..MAX_SAFE_NONCE
  BY NonceAssumption DEF CardFields
<1>2. MAX_SAFE_NONCE \in Nat /\ T \in SUBSET (0..MAX_SAFE_NONCE) /\ T # {}
  BY <1>1, NonceAssumption
<1>3. Max(T) \in T /\ \A y \in T : Max(T) >= y
  BY <1>2, MaxOfBounded
<1>4. PICK c \in cs : c.nonce = Max(T)
  BY <1>3
<1>5. \A d \in cs : d.nonce <= c.nonce
  BY <1>1, <1>3, <1>4
<1> QED
  BY <1>4, <1>5 DEF Latest

(* A card with a nonce beyond all others is the latest.                    *)
LEMMA LatestIs ==
  ASSUME NEW cs \in SUBSET CardFields, NEW c \in cs,
         \A d \in cs : d.nonce <= c.nonce /\ (d.nonce = c.nonce => d = c)
  PROVE  Latest(cs) = c
<1>1. Latest(cs) \in cs /\ c.nonce <= Latest(cs).nonce
  BY LatestCard
<1>2. c.nonce \in Nat /\ Latest(cs).nonce \in Nat
  BY <1>1, CardData
<1> QED
  BY <1>1, <1>2

(* Pruning keeps the latest card, or nothing.                              *)
LEMMA PrunedLatest ==
  ASSUME PublishTyped, NonceOrder
  PROVE  /\ PrunedCards \subseteq cards
         /\ PrunedCards # {} => /\ cards # {} /\ Latest(cards) \in PrunedCards
                               /\ Latest(PrunedCards) = Latest(cards)
                               /\ PrunedPending = pending
         /\ PrunedCards = {} => PrunedPending = NoPending
<1>1. PrunedCards \subseteq cards /\ cards \in SUBSET CardFields
  BY DEF PrunedCards, PublishTyped
<1>2. ASSUME PrunedCards # {}
      PROVE  /\ cards # {} /\ Latest(cards) \in PrunedCards
             /\ Latest(PrunedCards) = Latest(cards)
  <2>1. cards # {} /\ \E d \in cards : Live(d)
    BY <1>2 DEF PrunedCards
  <2>2. Latest(cards) \in cards /\ \A d \in cards : d.nonce <= Latest(cards).nonce
    BY <1>1, <2>1, LatestCard
  <2>3. Latest(cards) \in PrunedCards
    BY <2>1, <2>2 DEF PrunedCards
  <2>4. \A d \in cards : d.nonce = Latest(cards).nonce => d = Latest(cards)
    BY <2>2 DEF NonceOrder
  <2>5. PrunedCards \in SUBSET CardFields
    BY <1>1
  <2> HIDE DEF PrunedCards
  <2>6. Latest(PrunedCards) = Latest(cards)
    BY <1>1, <2>2, <2>3, <2>4, <2>5, LatestIs
  <2> QED
    BY <2>1, <2>3, <2>6
<1> QED
  BY <1>1, <1>2 DEF PrunedPending
-----------------------------------------------------------------------------
(* A relay that takes a card is inside its time window, and would not take *)
(* one that is settled.                                                    *)
LEMMA TakenCard ==
  ASSUME PublishTyped, NEW r \in Routes, NEW c \in CardFields, TakesAt(r, c)
  PROVE  /\ current[r] # NoCard => c.nonce > current[r].nonce
         /\ now <= c.created_at + FUTURE_SKEW_MS
         /\ NonceAllowed(nonces[r], c.nonce, now)
         /\ ~ Settled(r, c)
<1>1. /\ current[r] # NoCard => ~ (c.nonce <= current[r].nonce)
      /\ verify_timestamp(c.created_at, now, FUTURE_SKEW_MS)
      /\ NonceAllowed(nonces[r], c.nonce, now)
  BY DEF TakesAt, Verdict
<1>2. /\ c.nonce \in Nat /\ c.created_at \in Nat /\ now \in Nat /\ FUTURE_SKEW_MS \in Nat
      /\ nonces[r].max_nonce \in Nat /\ nonces[r].expires_at \in Nat
      /\ current[r] # NoCard => current[r].nonce \in Nat
  <2>1. current[r] # NoCard => current[r] \in CardFields
    BY DEF PublishTyped
  <2>2. c.created_at \in Nat /\ now \in Nat
    BY PublishAssumption DEF CardFields, PublishTyped
  <2> QED
    BY <2>1, <2>2, CardData, PublishAssumption DEF PublishTyped
<1>3. now <= c.created_at + FUTURE_SKEW_MS
  BY <1>1, <1>2 DEF verify_timestamp
<1>4. ~ Settled(r, c)
  BY <1>1, <1>2, <1>3 DEF Settled, NonceAllowed
<1> QED
  BY <1>1, <1>2, <1>3, <1>4

(* What is settled at a relay stays so.                                    *)
LEMMA SettledStays ==
  ASSUME PublishTyped, NEW r \in Routes, NEW D \in SUBSET CardFields, MovesAt(r, D),
         now' \in Nat, now <= now',
         NEW c \in CardFields, c.created_at <= now, Settled(r, c)
  PROVE  SettledNext(r, c)
<1>1. /\ c.nonce \in Nat /\ c.created_at \in Nat /\ now \in Nat /\ FUTURE_SKEW_MS \in Nat
      /\ nonces[r].max_nonce \in Nat /\ nonces[r].expires_at \in Nat
  BY PublishAssumption, CardData DEF CardFields, PublishTyped
<1>2. ASSUME NEW n \in Nat, NonceAllowed(nonces[r], n, now),
             nonces'[r] = UpdatedRecord(n, now, 2 * FUTURE_SKEW_MS)
      PROVE  SettledNext(r, c)
  <2>1. nonces'[r].max_nonce = n /\ nonces'[r].expires_at = now + 2 * FUTURE_SKEW_MS
    BY <1>2 DEF UpdatedRecord
  <2>2. nonces[r].expires_at < now \/ n > nonces[r].max_nonce
    BY <1>1, <1>2 DEF NonceAllowed
  <2>3. \/ now > c.created_at + FUTURE_SKEW_MS
        \/ /\ c.nonce <= nonces[r].max_nonce
           /\ c.created_at + FUTURE_SKEW_MS <= nonces[r].expires_at
    BY DEF Settled
  <2>4. \/ now' > c.created_at + FUTURE_SKEW_MS
        \/ /\ c.nonce <= nonces'[r].max_nonce
           /\ c.created_at + FUTURE_SKEW_MS <= nonces'[r].expires_at
    BY <1>1, <2>1, <2>2, <2>3
  <2> QED
    BY <2>4 DEF SettledNext
<1>3. CASE KeepsAt(r) \/ ForgetsAt(r)
  BY <1>1, <1>3 DEF KeepsAt, ForgetsAt, Settled, SettledNext
<1>4. CASE WritesAt(r)
  BY <1>2, <1>4 DEF WritesAt
<1>5. ASSUME NEW d \in D, TakesAt(r, d)
      PROVE  SettledNext(r, c)
  <2>1. d \in CardFields /\ d.nonce \in Nat
    BY CardData
  <2>2. NonceAllowed(nonces[r], d.nonce, now)
    BY <1>5, <2>1, TakenCard
  <2> QED
    BY <1>2, <1>5, <2>1, <2>2 DEF TakesAt
<1> QED
  BY <1>3, <1>4, <1>5 DEF MovesAt

(* The card a relay has is settled there.                                  *)
LEMMA CurrentStaysSettled ==
  ASSUME PublishTyped, CurrentSettled, SignedInOrder,
         NEW r \in Routes, NEW D \in SUBSET CardFields, MovesAt(r, D),
         \A d \in D : d.created_at <= now,
         now' \in Nat, now <= now', current'[r] # NoCard
  PROVE  SettledNext(r, current'[r])
<1>1. CASE current'[r] = current[r]
  <2>1. current[r] \in CardFields /\ current[r] \in sent /\ Settled(r, current[r])
    BY <1>1 DEF PublishTyped, CurrentSettled
  <2>2. current[r].created_at <= now
    BY <2>1, PublishAssumption DEF SignedInOrder, PublishTyped
  <2>3. \A c \in CardFields : c.created_at <= now /\ Settled(r, c) => SettledNext(r, c)
    BY SettledStays
  <2> QED
    BY <1>1, <2>1, <2>2, <2>3
<1>2. ASSUME NEW d \in D, TakesAt(r, d)
      PROVE  SettledNext(r, current'[r])
  <2>1. /\ d.created_at \in Nat /\ d.created_at <= now /\ FUTURE_SKEW_MS \in Nat /\ now \in Nat
        /\ d.nonce \in Nat
    BY PublishAssumption, CardData DEF CardFields, PublishTyped
  <2>2. /\ current'[r] = d /\ nonces'[r].max_nonce = d.nonce
        /\ nonces'[r].expires_at = now + 2 * FUTURE_SKEW_MS
    BY <1>2 DEF TakesAt, UpdatedRecord
  <2> QED
    BY <2>1, <2>2 DEF SettledNext
<1> QED
  BY <1>1, <1>2 DEF MovesAt, KeepsAt, ForgetsAt, WritesAt

(* A relay that has what it should keeps it, while no card on the network  *)
(* is newer.                                                               *)
LEMMA ServedStays ==
  ASSUME PublishTyped, SignedInOrder,
         NEW r \in Routes, NEW c \in CardFields, MovesAt(r, LateAt(r) \cup {c}),
         \A d \in sent : d.nonce <= c.nonce,
         now' \in Nat, now <= now',
         \A d \in sent' : <<r, d>> \in late' /\ d # c => d \in sent /\ <<r, d>> \in late,
         Served(r, c)
  PROVE  ServedNext(r, c)
<1>1. /\ now \in Nat /\ c.payload.receive_until \in Nat
      /\ now' < c.payload.receive_until => Live(c)
  BY PublishAssumption, CardData DEF PublishTyped, Live
<1>2. \A d \in LateAt(r) : d \in CardFields /\ d.nonce \in Nat /\ d.nonce <= c.nonce
                          /\ d.created_at <= now
  BY PublishAssumption, CardData DEF PublishTyped, LateAt, SignedInOrder
<1>3. c.nonce \in Nat
  BY CardData
<1>4. ASSUME NEW d \in LateAt(r), d # c, TakesAt(r, d)
      PROVE  current[r] # c /\ r \notin d.payload.routes
  <2>1. current[r] # NoCard => d.nonce > current[r].nonce
    BY <1>2, <1>4, TakenCard
  <2>2. ~ Settled(r, d)
    BY <1>2, <1>4, TakenCard
  <2>3. r \notin d.payload.routes
    BY <1>4, <2>2 DEF Served, LateAt
  <2>4. current[r] # c
    <3>1. SUFFICES ASSUME current[r] = c PROVE FALSE
      OBVIOUS
    <3>2. c # NoCard /\ c.nonce < d.nonce
      BY <2>1, <3>1, NoCardAssumption
    <3> QED
      BY <1>2, <1>3, <3>2
  <2> QED
    BY <2>3, <2>4
<1>5. now' < c.payload.receive_until /\ r \in c.payload.routes => current'[r] = c
  BY <1>1, <1>4 DEF MovesAt, KeepsAt, ForgetsAt, WritesAt, TakesAt, Served
<1>6. current'[r] \notin {NoCard, c} => r \notin current'[r].payload.routes
  BY <1>4 DEF MovesAt, KeepsAt, ForgetsAt, WritesAt, TakesAt, Served
<1>7. ASSUME NEW d \in sent', <<r, d>> \in late', d # c, r \in d.payload.routes
      PROVE  SettledNext(r, d)
  <2>1. d \in LateAt(r) /\ Settled(r, d)
    BY <1>7 DEF LateAt, Served
  <2>2. LateAt(r) \cup {c} \in SUBSET CardFields
    BY <1>2
  <2> QED
    BY <1>2, <2>1, <2>2, SettledStays
<1> QED
  BY <1>5, <1>6, <1>7 DEF ServedNext

(* A relay that has the newest card is served: no late request matters.    *)
LEMMA ServedAnswered ==
  ASSUME PublishTyped, SignedInOrder, NonceOrder,
         NEW r \in Routes, NEW c \in CardFields, current'[r] = c,
         c \in sent \cup cards \cup saved.cards,
         \A d \in sent : d.nonce <= c.nonce,
         now' = now, SettledNext(r, c),
         nonces'[r].max_nonce \in Nat, nonces'[r].expires_at \in Nat,
         \A d \in sent' : d # c => d \in sent
  PROVE  ServedNext(r, c)
<1>1. /\ c.nonce \in Nat /\ c.created_at \in Nat /\ now \in Nat /\ FUTURE_SKEW_MS \in Nat
  BY PublishAssumption, CardData DEF CardFields, PublishTyped
<1>2. ASSUME NEW d \in sent, d # c
      PROVE  SettledNext(r, d)
  <2>1. d.nonce \in Nat /\ d.created_at \in Nat
    BY CardData DEF CardFields, PublishTyped
  <2>2. d.nonce < c.nonce
    BY <1>1, <1>2, <2>1 DEF NonceOrder
  <2>3. d.created_at <= c.created_at
    BY <2>2 DEF SignedInOrder
  <2> QED
    BY <1>1, <2>1, <2>2, <2>3 DEF SettledNext
<1> QED
  BY <1>2 DEF ServedNext

(* A relay that neither the old nor the new card names is as well served   *)
(* by the new as by the old.                                               *)
LEMMA ServedByNext ==
  ASSUME NEW r \in Routes, NEW c, NEW d, ServedNext(r, c),
         r \notin c.payload.routes, r \notin d.payload.routes
  PROVE  ServedNext(r, d)
BY DEF ServedNext

(* Nothing happens at the relays and on the way to them.                   *)
Still == UNCHANGED <<now, relays, late, sent>>

(* Then a relay is as well served as before.                               *)
LEMMA StillServed ==
  ASSUME Still, NEW r, NEW c, Served(r, c)
  PROVE  ServedNext(r, c)
BY DEF Still, relays, Served, ServedNext, Settled, SettledNext, Live

(* Then each pair of retained cards and pending routes stays accounted     *)
(* for, be it in use or saved.                                             *)
LEMMA StillAccounted ==
  ASSUME Still, NEW cs, NEW p, Accounted(cs, p)
  PROVE  AccountedNext(cs, p)
BY StillServed DEF Still, Accounted, AccountedNext

(* The parts of the invariant in the next state.                           *)
LEMMA ForgottenNext ==
  ASSUME AccountedNext(cards', pending'), AccountedNext(saved'.cards, saved'.pending)
  PROVE  /\ Accounted(cards, pending)'
         /\ Accounted(saved.cards, saved.pending)'
<1>1. ASSUME NEW r \in Routes, ServedNext(r, Latest(cards'))
      PROVE  Served(r, Latest(cards))'
  BY <1>1 DEF Served, ServedNext, Settled, SettledNext, Live
<1>2. ASSUME NEW r \in Routes, ServedNext(r, Latest(saved'.cards))
      PROVE  Served(r, Latest(saved.cards))'
  BY <1>2 DEF Served, ServedNext, Settled, SettledNext, Live
<1>3. Accounted(cards, pending)'
  BY <1>1 DEF Accounted, AccountedNext
<1>4. Accounted(saved.cards, saved.pending)'
  BY <1>2 DEF Accounted, AccountedNext
<1> QED
  BY <1>3, <1>4
-----------------------------------------------------------------------------
(* No step breaks the order of signing.                                    *)
LEMMA SignedInOrderStep ==
  ASSUME PublishTyped, NonceOrder, SignedInOrder, [Next]_vars
  PROVE  SignedInOrder'
<1> DEFINE all == sent \cup cards \cup saved.cards
<1>1. \A c \in all : c \in CardFields /\ c.nonce \in Nat /\ c.nonce < next_nonce
                   /\ c.created_at \in Nat /\ c.created_at <= now
  <2>1. \A c \in all : c \in CardFields /\ c.nonce \in Nat
    BY CardData DEF PublishTyped
  <2>2. \A c \in all : c.nonce < next_nonce
    BY <2>1 DEF NonceOrder, PublishTyped
  <2>3. now \in Nat
    BY PublishAssumption DEF PublishTyped
  <2> QED
    BY <2>1, <2>2, <2>3 DEF SignedInOrder
<1>2. now \in Nat /\ next_nonce \in Nat
  BY PublishAssumption DEF PublishTyped
<1>3. ASSUME sent' \cup cards' \cup saved'.cards \subseteq all,
             now' \in Nat, now <= now'
      PROVE  SignedInOrder'
  BY <1>1, <1>2, <1>3 DEF SignedInOrder
<1>4. ASSUME NEW c \in CardFields, c.created_at = now, next_nonce <= c.nonce, now' = now,
             sent' \cup cards' \cup saved'.cards \subseteq all \cup {c}
      PROVE  SignedInOrder'
  <2>1. c.nonce \in Nat
    BY CardData
  <2>2. \A d \in all : d.created_at <= c.created_at /\ ~ (c.nonce < d.nonce)
    BY <1>1, <1>2, <1>4, <2>1
  <2> QED
    BY <1>1, <1>2, <1>4, <2>2 DEF SignedInOrder
<1> HIDE DEF all
<1>5. /\ all = sent \cup cards \cup saved.cards
      /\ PrunedCards \subseteq cards
  BY DEF all, PrunedCards
<1>6. CASE Quiet
  BY <1>3, <1>5, <1>6, PublishAssumption DEF Quiet, durable
<1>7. CASE Pruned
  BY <1>2, <1>3, <1>5, <1>7 DEF Pruned, KeepsLive, durable
<1>8. ASSUME NEW c \in CardFields, Published(c)
      PROVE  SignedInOrder'
  BY <1>4, <1>5, <1>8 DEF Published, durable
<1>9. CASE Resumed
  BY <1>2, <1>3, <1>5, <1>9 DEF Resumed, durable
<1>10. CASE Saves
  BY <1>2, <1>3, <1>5, <1>10 DEF Saves, KeepsLive, State
<1>11. CASE Crash
  BY <1>2, <1>3, <1>5, <1>11 DEF Crash, durable
<1>12. ASSUME NEW r \in Routes, Requested(r)
       PROVE  SignedInOrder'
  <2>1. /\ call.card \in all /\ sent' = sent \cup {call.card} /\ saved' = saved /\ now' = now
    BY <1>5, <1>12 DEF Requested, durable, PublishTyped
  <2>2. CASE cards' = cards
    BY <1>2, <1>3, <1>5, <2>1, <2>2
  <2>3. CASE \E d \in CardFields : /\ next_nonce <= d.nonce /\ d.created_at = now
                                  /\ cards' = cards \cup {d}
    BY <1>4, <1>5, <2>1, <2>3
  <2> QED
    BY <1>12, <2>2, <2>3 DEF Requested, Done
<1> QED
  BY <1>6, <1>7, <1>8, <1>9, <1>10, <1>11, <1>12, StepKinds

(* Nor the one of what relays have.                                        *)
LEMMA CurrentSettledStep ==
  ASSUME PublishTyped, NonceOrder, SignedInOrder, CurrentSettled, [Next]_vars
  PROVE  \A r \in Routes : current'[r] # NoCard => SettledNext(r, current'[r])
<1>1. /\ now \in Nat
      /\ \A d \in sent \cup cards : d \in CardFields /\ d.created_at <= now
  BY PublishAssumption DEF PublishTyped, SignedInOrder
<1>2. ASSUME NEW r \in Routes, NEW D \in SUBSET (sent \cup cards), MovesAt(r, D),
             now' \in Nat, now <= now', current'[r] # NoCard
      PROVE  SettledNext(r, current'[r])
  <2>1. D \in SUBSET CardFields /\ \A d \in D : d.created_at <= now
    BY <1>1
  <2> QED
    BY <1>2, <2>1, CurrentStaysSettled
<1>3. CASE Quiet
  <2>1. \A r \in Routes : LateAt(r) \in SUBSET (sent \cup cards)
    BY DEF LateAt
  <2>2. now' \in Nat /\ now <= now' /\ \A r \in Routes : MovesAt(r, LateAt(r))
    BY <1>3, PublishAssumption DEF Quiet
  <2> QED
    BY <1>2, <2>1, <2>2
<1>4. CASE UNCHANGED <<now, relays>>
  BY <1>4 DEF relays, CurrentSettled, Settled, SettledNext
<1>5. ASSUME NEW r \in Routes, Requested(r)
      PROVE  \A t \in Routes : current'[t] # NoCard => SettledNext(t, current'[t])
  <2>1. /\ {call.card} \in SUBSET (sent \cup cards) /\ now' = now
        /\ \A t \in Routes : MovesAt(t, {call.card})
    BY <1>5 DEF Requested, MovesAt, PublishTyped
  <2> QED
    BY <1>1, <1>2, <2>1
<1> QED
  BY <1>3, <1>4, <1>5, StepKinds DEF Pruned, Published, Resumed, Saves, Crash

(* Time, relays and late requests leave everything accounted for.          *)
LEMMA QuietAccounted ==
  ASSUME PublishTyped, NobodyForgotten, Quiet
  PROVE  /\ AccountedNext(cards', pending')
         /\ AccountedNext(saved'.cards, saved'.pending)
         /\ CallAccounted'
<1>1. ASSUME NEW c \in CardFields, \A d \in sent : d.nonce <= c.nonce,
             NEW r \in Routes, Served(r, c)
      PROVE  ServedNext(r, c)
  <2>1. MovesAt(r, LateAt(r) \cup {c})
    BY DEF Quiet, MovesAt
  <2>2. /\ now' \in Nat /\ now <= now'
        /\ \A d \in sent' : <<r, d>> \in late' /\ d # c => d \in sent /\ <<r, d>> \in late
    BY PublishAssumption DEF Quiet
  <2> QED
    BY <1>1, <2>1, <2>2, ServedStays DEF NobodyForgotten
<1>2. ASSUME NEW cs \in SUBSET CardFields, NEW p, Accounted(cs, p)
      PROVE  AccountedNext(cs, p)
  <2>1. CASE cs = {}
    BY <1>2, <2>1 DEF Accounted, AccountedNext
  <2>2. CASE cs # {}
    <3>1. Latest(cs) \in CardFields
      BY <2>2, LatestCard
    <3>2. \A d \in sent : d.nonce <= Latest(cs).nonce
      BY <1>2, <2>2 DEF Accounted
    <3>3. \A r \in Routes \ p.routes : ServedNext(r, Latest(cs))
      BY <1>1, <1>2, <2>2, <3>1, <3>2 DEF Accounted
    <3> QED
      BY <1>2, <2>2, <3>2, <3>3 DEF Accounted, AccountedNext, Quiet
  <2> QED
    BY <2>1, <2>2
<1>3. AccountedNext(cards', pending')
  BY <1>2 DEF Quiet, NobodyForgotten, PublishTyped
<1>4. AccountedNext(saved'.cards, saved'.pending)
  BY <1>2 DEF Quiet, durable, NobodyForgotten, PublishTyped
<1>5. call' = call /\ cards' = cards /\ pending' = pending /\ saved' = saved
  BY DEF Quiet, durable
<1>6. ASSUME call.step = "publish", NEW r \in Routes \ (call.todo \cup call.failed)
      PROVE  ServedNext(r, call.card)
  <2>1. /\ call.card \in cards /\ cards # {} /\ call.card \in CardFields
        /\ call.card = Latest(cards) /\ Served(r, call.card)
    BY <1>6 DEF PublishTyped, NobodyForgotten, CallAccounted
  <2>2. \A d \in sent : d.nonce <= call.card.nonce
    BY <2>1 DEF NobodyForgotten, Accounted
  <2> QED
    BY <1>1, <2>1, <2>2
<1>7. ASSUME NEW r, ServedNext(r, call.card)
      PROVE  Served(r, call.card)'
  BY <1>5, <1>7 DEF Served, ServedNext, Settled, SettledNext, Live
<1>8. CallAccounted'
  <2>1. CallAccounted
    BY DEF NobodyForgotten
  <2> QED
    BY <1>5, <1>6, <1>7, <2>1 DEF CallAccounted
<1> QED
  BY <1>3, <1>4, <1>8

(* Pruning leaves the latest card and what is pending, or nothing.         *)
LEMMA KeepsAccounted ==
  ASSUME PublishTyped, NonceOrder, Still, KeepsLive, Accounted(cards, pending)
  PROVE  AccountedNext(cards', pending')
<1>1. AccountedNext(cards, pending)
  BY StillAccounted
<1>2. CASE UNCHANGED <<cards, pending>>
  BY <1>1, <1>2
<1>3. CASE cards' = PrunedCards /\ pending' = PrunedPending
  <2>1. CASE PrunedCards = {}
    BY <1>3, <2>1, PrunedLatest DEF AccountedNext
  <2>2. CASE PrunedCards # {}
    <3>1. /\ cards # {} /\ Latest(PrunedCards) = Latest(cards) /\ PrunedPending = pending
      BY <2>2, PrunedLatest
    <3> QED
      BY <1>1, <1>3, <2>2, <3>1 DEF AccountedNext
  <2> QED
    BY <2>1, <2>2
<1> QED
  BY <1>2, <1>3 DEF KeepsLive

(* A new card goes to every relay that an earlier one that is kept names,  *)
(* and to those that are pending.                                          *)
LEMMA PublishedAccounted ==
  ASSUME PublishTyped, NonceOrder, NobodyForgotten, NEW c \in CardFields, Published(c)
  PROVE  /\ AccountedNext(cards', pending')
         /\ AccountedNext(saved'.cards, saved'.pending)
         /\ CallAccounted'
<1>1. /\ Still /\ saved' = saved /\ sent' = sent
      /\ cards' = PrunedCards \cup {c} /\ pending' = [card |-> c, routes |-> call'.targets]
      /\ call'.step = "save" /\ call'.card = c
      /\ call'.todo = call'.targets /\ call'.failed = {}
  BY DEF Published, StartsWith, AttemptStarts, Still, durable
<1>2. AccountedNext(saved'.cards, saved'.pending)
  BY <1>1, StillAccounted DEF NobodyForgotten
<1>3. \A d \in sent \cup cards : d.nonce \in Nat /\ d.nonce < c.nonce /\ d \in CardFields
  BY CardData DEF Published, NonceOrder, PublishTyped
<1>4. Latest(cards') = c
  <2>1. cards' \in SUBSET CardFields /\ c \in cards'
    BY <1>1, PrunedLatest DEF PublishTyped
  <2>2. \A d \in cards' : d.nonce <= c.nonce /\ (d.nonce = c.nonce => d = c)
    BY <1>1, <1>3, PrunedLatest, CardData
  <2> QED
    BY <2>1, <2>2, LatestIs
<1>5. ASSUME NEW r \in Routes \ call'.targets
      PROVE  ServedNext(r, c)
  <2>1. /\ r \notin c.payload.routes /\ r \notin RoutesOf(PrunedCards)
        /\ r \notin PrunedPending.routes
    BY DEF Published
  <2>2. CASE PrunedCards = {}
    <3>1. sent = {} /\ sent' = {} /\ current'[r] = NoCard
      BY <2>2 DEF Published, relays, PublishTyped
    <3> QED
      BY <2>1, <3>1 DEF ServedNext
  <2>3. CASE PrunedCards # {}
    <3>1. /\ cards # {} /\ Latest(cards) \in PrunedCards /\ PrunedPending = pending
      BY <2>3, PrunedLatest
    <3>2. ServedNext(r, Latest(cards))
      BY <1>1, <2>1, <3>1, StillServed DEF NobodyForgotten, Accounted
    <3>3. r \notin Latest(cards).payload.routes
      BY <2>1, <3>1 DEF RoutesOf
    <3> QED
      BY <2>1, <3>2, <3>3, ServedByNext
  <2> QED
    BY <2>2, <2>3
<1>6. AccountedNext(cards', pending')
  <2>1. \A d \in sent' : d.nonce <= c.nonce
    BY <1>1, <1>3, CardData
  <2> QED
    BY <1>1, <1>4, <1>5, <2>1 DEF AccountedNext
<1>7. CallAccounted'
  BY <1>1, <1>4 DEF CallAccounted
<1> QED
  BY <1>2, <1>6, <1>7

(* A sync goes on with the latest card, where it is pending.               *)
LEMMA ResumedAccounted ==
  ASSUME PublishTyped, NonceOrder, NobodyForgotten, Resumed
  PROVE  /\ AccountedNext(cards', pending')
         /\ AccountedNext(saved'.cards, saved'.pending)
         /\ CallAccounted'
<1>1. /\ Still /\ saved' = saved /\ cards' = cards
      /\ pending' = [card |-> pending.card, routes |-> call'.targets]
      /\ call'.targets = pending.routes /\ pending # NoPending
      /\ call'.step = "save" /\ call'.card = pending.card
      /\ call'.todo = call'.targets /\ call'.failed = {}
  BY DEF Resumed, StartsWith, AttemptStarts, Still, durable
<1>2. cards # {}
  BY DEF Resumed
<1>3. pending.card = Latest(cards)
  BY <1>1, <1>2 DEF NobodyForgotten, Accounted
<1>4. AccountedNext(saved'.cards, saved'.pending)
  BY <1>1, StillAccounted DEF NobodyForgotten
<1>5. AccountedNext(cards, pending)
  BY <1>1, StillAccounted DEF NobodyForgotten
<1>6. AccountedNext(cards', pending')
  BY <1>1, <1>2, <1>3, <1>5 DEF AccountedNext
<1>7. CallAccounted'
  BY <1>1, <1>3 DEF CallAccounted
<1> QED
  BY <1>4, <1>6, <1>7

(* A save takes over what is loaded; a crash goes back to what is saved.   *)
LEMMA SavedAccounted ==
  ASSUME PublishTyped, NonceOrder, NobodyForgotten, Saves
  PROVE  /\ AccountedNext(cards', pending')
         /\ AccountedNext(saved'.cards, saved'.pending)
         /\ CallAccounted'
<1>1. Still /\ KeepsLive
  BY DEF Saves, Still
<1>2. AccountedNext(cards', pending')
  BY <1>1, KeepsAccounted DEF NobodyForgotten
<1>3. AccountedNext(saved'.cards, saved'.pending)
  <2>1. CASE saved' = saved
    BY <1>1, <2>1, StillAccounted DEF NobodyForgotten
  <2>2. CASE saved' = State
    <3>1. saved'.cards = cards /\ saved'.pending = pending
      BY <2>2 DEF State
    <3> QED
      BY <1>1, <3>1, StillAccounted DEF NobodyForgotten
  <2> QED
    BY <2>1, <2>2 DEF Saves
<1>4. CASE call' = IdleCall
  BY <1>2, <1>3, <1>4, IdleRecord DEF CallAccounted
<1>5. CASE call' # IdleCall
  <2>1. /\ call'.card = call.card /\ call.step = "save" /\ call'.step = "publish"
        /\ call'.todo = call.todo /\ call'.failed = call.failed
        /\ call'.targets = call.targets /\ cards' = cards /\ pending' = pending
        /\ saved'.cards = cards /\ saved'.pending = pending
    BY <1>5 DEF Saves, State
  <2>2. /\ call.card = Latest(cards) /\ pending.routes = call.targets
        /\ pending = [card |-> call.card, routes |-> call.targets]
        /\ call.todo = call.targets /\ call.failed = {} /\ cards # {}
    BY <2>1 DEF NobodyForgotten, CallAccounted, PublishTyped
  <2>3. \A r \in Routes \ call.targets : Served(r, call.card)
    BY <2>2 DEF NobodyForgotten, Accounted
  <2>4. \A r \in Routes \ (call'.todo \cup call'.failed) : ServedNext(r, call'.card)
    BY <1>1, <2>1, <2>2, <2>3, StillServed
  <2>5. ASSUME NEW r, ServedNext(r, call'.card)
        PROVE  Served(r, call.card)'
    BY <2>5 DEF Served, ServedNext, Settled, SettledNext, Live
  <2>6. CallAccounted'
    BY <2>1, <2>2, <2>4, <2>5 DEF CallAccounted
  <2> QED
    BY <1>2, <1>3, <2>6
<1> QED
  BY <1>4, <1>5

(* A crash goes back to the saved cards and routes, which are accounted    *)
(* for as well, and ends the call.                                         *)
LEMMA CrashAccounted ==
  ASSUME PublishTyped, NobodyForgotten, Crash
  PROVE  /\ AccountedNext(cards', pending')
         /\ AccountedNext(saved'.cards, saved'.pending)
         /\ CallAccounted'
<1>1. /\ Still /\ cards' = saved.cards /\ pending' = saved.pending /\ saved' = saved
      /\ call' = IdleCall
  BY DEF Crash, Still, durable
<1> QED
  BY <1>1, StillAccounted, IdleRecord DEF NobodyForgotten, CallAccounted

(* A request serves its relay, or the relay stays pending; signing again   *)
(* starts over with every relay that a kept card names.                    *)
LEMMA RequestedAccounted ==
  ASSUME PublishTyped, NonceOrder, NobodyForgotten, NEW r \in Routes, Requested(r),
         \A t \in Routes : current'[t] # NoCard => SettledNext(t, current'[t])
  PROVE  /\ AccountedNext(cards', pending')
         /\ AccountedNext(saved'.cards, saved'.pending)
         /\ CallAccounted'
<1> DEFINE c == call.card
<1>1. /\ call.step = "publish" /\ sent' = sent \cup {c} /\ now' = now /\ saved' = saved
      /\ late' \subseteq late \cup {<<r, c>>}
      /\ \A t \in Routes : MovesAt(t, {c})
  BY DEF Requested, MovesAt, durable
<1>2. /\ c \in cards /\ c \in CardFields /\ cards # {} /\ c = Latest(cards)
      /\ pending = [card |-> c, routes |-> call.targets]
      /\ saved.cards = cards /\ saved.pending = pending
      /\ \A t \in Routes \ (call.todo \cup call.failed) : Served(t, c)
      /\ \A t \in Routes \ call.targets : Served(t, c)
  BY <1>1 DEF NobodyForgotten, CallAccounted, Accounted, PublishTyped
<1>3. \A d \in sent : d.nonce <= c.nonce
  BY <1>2 DEF NobodyForgotten, Accounted
<1>4. ASSUME NEW t \in Routes, Served(t, c)
      PROVE  ServedNext(t, c)
  <2>1. MovesAt(t, LateAt(t) \cup {c})
    BY <1>1 DEF MovesAt
  <2>2. /\ now' \in Nat /\ now <= now'
        /\ \A d \in sent' : <<t, d>> \in late' /\ d # c => d \in sent /\ <<t, d>> \in late
    BY <1>1, PublishAssumption DEF PublishTyped
  <2> QED
    BY <1>2, <1>3, <1>4, <2>1, <2>2, ServedStays DEF NobodyForgotten
<1>5. ASSUME current'[r] = c
      PROVE  ServedNext(r, c)
  <2>1. SettledNext(r, c)
    BY <1>2, <1>5, NoCardAssumption
  <2>2. /\ nonces'[r].max_nonce \in Nat /\ nonces'[r].expires_at \in Nat
        /\ c \in sent \cup cards \cup saved.cards
        /\ \A d \in sent' : d # c => d \in sent
    BY <1>1, <1>2 DEF Requested
  <2> QED
    BY <1>1, <1>2, <1>3, <1>5, <2>1, <2>2, ServedAnswered DEF NobodyForgotten
<1>6. \A d \in sent' : d.nonce <= c.nonce
  BY <1>1, <1>2, <1>3, CardData
<1>7. \A t \in Routes \ call.targets : ServedNext(t, c)
  BY <1>2, <1>4
<1>8. AccountedNext(cards, pending)
  BY <1>2, <1>6, <1>7 DEF AccountedNext
<1>9. AccountedNext(saved'.cards, saved'.pending)
  BY <1>1, <1>2, <1>8
<1> HIDE DEF c
<1>10. CASE Done(r)
  <2>1. /\ cards' = cards /\ call'.card = c /\ call'.targets = call.targets
        /\ call'.todo = call.todo \ {r}
        /\ \/ call'.failed = call.failed \cup {r}
           \/ call'.failed = call.failed /\ current'[r] = c
        /\ \/ call'.step = "publish" /\ pending' = pending
           \/ /\ call'.step = "end_save" /\ call'.todo = {}
              /\ pending' = IF call'.failed = {} THEN NoPending
                            ELSE [card |-> c, routes |-> call'.failed]
    BY <1>10 DEF Done, c
  <2>2. \A t \in Routes \ (call'.todo \cup call'.failed) : ServedNext(t, c)
    BY <1>2, <1>4, <1>5, <2>1
  <2>3. AccountedNext(cards', pending')
    <3>1. CASE pending' = pending
      BY <1>8, <2>1, <3>1
    <3>2. CASE /\ call'.todo = {}
               /\ pending' = IF call'.failed = {} THEN NoPending
                             ELSE [card |-> c, routes |-> call'.failed]
      <4>1. pending'.routes = call'.failed /\ (pending' # NoPending => pending'.card = c)
        BY <3>2 DEF NoPending
      <4> QED
        BY <1>2, <1>6, <2>1, <2>2, <3>2, <4>1 DEF AccountedNext
    <3> QED
      BY <2>1, <3>1, <3>2
  <2>4. ASSUME NEW t, ServedNext(t, call'.card)
        PROVE  Served(t, call.card)'
    BY <2>4 DEF Served, ServedNext, Settled, SettledNext, Live
  <2>5. CallAccounted'
    BY <1>1, <1>2, <2>1, <2>2, <2>4 DEF CallAccounted
  <2> QED
    BY <1>9, <2>3, <2>5
<1>11. CASE cards' = cards /\ pending' = pending /\ call' = IdleCall
  BY <1>8, <1>9, <1>11, IdleRecord DEF CallAccounted
<1>12. ASSUME NEW d \in CardFields,
              d.payload = c.payload, next_nonce <= d.nonce, cards' = cards \cup {d},
              StartsWith(d), call'.targets = call.targets \cup RoutesOf(cards)
       PROVE  AccountedNext(cards', pending') /\ CallAccounted'
  <2>1. /\ pending' = [card |-> d, routes |-> call'.targets]
        /\ call'.step = "save" /\ call'.card = d
        /\ call'.todo = call'.targets /\ call'.failed = {}
    BY <1>12 DEF StartsWith, AttemptStarts
  <2>2. \A e \in sent' \cup cards : e.nonce \in Nat /\ e.nonce < d.nonce /\ e \in CardFields
    BY <1>1, <1>2, <1>12, CardData DEF NonceOrder, PublishTyped
  <2>3. Latest(cards') = d
    <3>1. cards' \in SUBSET CardFields /\ d \in cards'
      BY <1>12, <2>2
    <3>2. \A e \in cards' : e.nonce <= d.nonce /\ (e.nonce = d.nonce => e = d)
      BY <1>12, <2>2, CardData
    <3> QED
      BY <3>1, <3>2, LatestIs
  <2>4. ASSUME NEW t \in Routes \ call'.targets
        PROVE  ServedNext(t, d)
    <3>1. t \notin c.payload.routes /\ t \notin d.payload.routes /\ t \notin call.targets
      BY <1>2, <1>12 DEF RoutesOf
    <3> QED
      BY <1>7, <3>1, ServedByNext
  <2>5. \A e \in sent' : e.nonce <= d.nonce
    BY <2>2, CardData
  <2>6. AccountedNext(cards', pending')
    BY <1>12, <2>1, <2>3, <2>4, <2>5 DEF AccountedNext
  <2>7. CallAccounted'
    BY <2>1, <2>3 DEF CallAccounted
  <2> QED
    BY <2>6, <2>7
<1> QED
  BY <1>9, <1>10, <1>11, <1>12 DEF Requested, c

(* No step leaves a relay behind: one case per kind of step.               *)
LEMMA NobodyForgottenStep ==
  ASSUME PublishTyped, NonceOrder, NobodyForgotten, [Next]_vars
  PROVE  NobodyForgotten'
<1>1. SignedInOrder'
  BY SignedInOrderStep DEF NobodyForgotten
<1>2. \A r \in Routes : current'[r] # NoCard => SettledNext(r, current'[r])
  BY CurrentSettledStep DEF NobodyForgotten
<1>3. CurrentSettled'
  BY <1>2 DEF CurrentSettled, Settled, SettledNext
<1>4. /\ AccountedNext(cards', pending')
      /\ AccountedNext(saved'.cards, saved'.pending)
      /\ CallAccounted'
  <2>1. CASE Pruned
    <3>1. /\ Still /\ saved' = saved /\ call' = IdleCall /\ KeepsLive
      BY <2>1 DEF Pruned, Still, durable
    <3> QED
      BY <3>1, KeepsAccounted, StillAccounted, IdleRecord DEF NobodyForgotten, CallAccounted
  <2> QED
    BY <1>2, <2>1, StepKinds, QuietAccounted, PublishedAccounted, ResumedAccounted,
       SavedAccounted, CrashAccounted, RequestedAccounted
<1> QED
  BY <1>1, <1>3, <1>4, ForgottenNext DEF NobodyForgotten

(* NobodyForgotten is invariant, next to the types and keys it needs.      *)
LEMMA NobodyIsForgotten == Spec => [](PublishTyped /\ NobodyForgotten)
<1>1. Init => NobodyForgotten
  BY IdleRecord
  DEF Init, State, NobodyForgotten, SignedInOrder, CurrentSettled, Accounted, CallAccounted
<1>2. PublishTyped /\ NonceOrder /\ NobodyForgotten /\ [Next]_vars => NobodyForgotten'
  BY NobodyForgottenStep
<1> QED
  BY <1>1, <1>2, PublishSafe, PTL DEF Spec

(***************************************************************************)
(* Between calls and after a restart every relay that should serve the     *)
(* latest card and does not is a pending route, over lost, late and        *)
(* refused requests, cards signed again and crashes: each card goes to the *)
(* relays of all the cards that are kept (mailbox_publish, re-signing in   *)
(* publish_mail_card), and a relay that is not pending takes no earlier    *)
(* card from a late request, which its nonce record or its time window     *)
(* refuses.                                                                *)
(***************************************************************************)
THEOREM PublishLeavesNoRelay == Spec => []NoRelayLeftBehind
<1>1. PublishTyped /\ NobodyForgotten => NoRelayLeftBehind
  <2> SUFFICES ASSUME PublishTyped, NobodyForgotten,
                      saved.cards # {}, Live(Latest(saved.cards)), NEW r \in Routes,
                      current[r] # Latest(saved.cards),
                      \/ r \in Latest(saved.cards).payload.routes
                      \/ current[r] # NoCard /\ r \in current[r].payload.routes
               PROVE  r \in saved.pending.routes
    BY DEF NoRelayLeftBehind
  <2>1. ~ Served(r, Latest(saved.cards))
    BY DEF Served
  <2> QED
    BY <2>1 DEF NobodyForgotten, Accounted
<1> QED
  BY <1>1, NobodyIsForgotten, PTL
=============================================================================
