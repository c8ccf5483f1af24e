------------------------------ MODULE ConnectorMail ------------------------------
(***************************************************************************)
(* ConnectorMail: a message on its way from the mail_send of one connector *)
(* to the inbox of another (local_connector/mail_tools.rs).  Each tool     *)
(* call runs alone in its connector; its requests are steps of their own,  *)
(* so relays, cards and the other connector move between them.  The host   *)
(* of a connector saves its state after a call; a crash brings the saved   *)
(* state back.                                                             *)
(*                                                                         *)
(* The cards of the one mailbox are 1, 2, ... in the order of their        *)
(* nonces; a card without routes is closed.  Relays keep what MailRelay    *)
(* says they keep.  What a message says, its reply fields and the sender's *)
(* choice of a deadline are left out.                                      *)
(***************************************************************************)
EXTENDS Naturals, Sequences, FiniteSets, SequencesExt, FiniteSetsExt

CONSTANTS
    Msgs,           \* messages the sender sends, each once
    expires_at,     \* [Msgs -> time]
    Relays,
    CardRoutes,     \* sequence: the routes of each card
    usable_until,   \* sequence: when each card expires
    pinned_until,   \* sequence: when the pin of each card is dropped, which
                    \* is created_at + MAX_TTL_MS + FUTURE_SKEW_MS
    receive_until,  \* sequence: the end of each card's receiving period
    Undecryptable,  \* packets at the relays that the recipient cannot open
    SYNC_MAX,       \* packets one sync reads of a route (pages times page size)
    MaxTime, MaxCrashes,
    None

NoCard == 0
Cards == DOMAIN CardRoutes

(* A packet: n tells the sealings of one message under one card apart.     *)
Packet == [m : Msgs, card : Cards, n : Nat]

(* Cards are valid for MAX_TTL_MS at most and follow each other in time:   *)
(* with a pin's time over, every card up to it has expired.                *)
ASSUME CardsInTimeOrder ==
    \A d \in Cards : \A c \in 1..d : usable_until[c] <= pinned_until[d]

(* A delivery in progress: where deliver is in its loops.                  *)
Delivery == [kind : {"send", "retry"}, m : Msgs, packet : Packet, card : Cards, i : Nat \ {0},
             transient : BOOLEAN, stale : BOOLEAN, refreshed : BOOLEAN, todo : SUBSET Msgs]

ASSUME ConnectorMailAssumption ==
    /\ CardRoutes \in Seq(Seq(Relays))
    /\ expires_at \in [Msgs -> Nat]
    /\ {usable_until, receive_until, pinned_until} \subseteq [Cards -> Nat]
    /\ \A c \in Cards : usable_until[c] <= receive_until[c]
    /\ \A r \in Relays : IsFiniteSet(Undecryptable[r]) /\ Undecryptable[r] \cap Packet = {}
    /\ {SYNC_MAX, MaxTime, MaxCrashes} \subseteq Nat /\ SYNC_MAX > 0
    /\ None \notin Msgs \cup Packet \cup Delivery

VARIABLES
    now, crashes,
    card,      \* [Relays -> the card each relay has]
    packets,   \* [Relays -> the packets it keeps, oldest first]
    taken,     \* [Relays -> the packets it ever accepted]
    sealed,    \* the packets ever sealed
    sender,    \* pin and messages of the sending connector
    call,      \* its mail_send or mail_sync in progress
    recipient, \* published card, messages and inbox of the receiving one
    poll,      \* its mail_sync in progress
    saved      \* what the hosts saved of the two

relays == <<card, packets, taken>>
vars == <<now, crashes, relays, sealed, sender, call, recipient, poll, saved>>

NoMessage == [status |-> "unsent", packet |-> None]

Init ==
    /\ now = 0 /\ crashes = 0
    /\ card = [r \in Relays |-> NoCard]
    /\ packets = [r \in Relays |-> SetToSeq(Undecryptable[r])]
    /\ taken = [r \in Relays |-> {}]
    /\ sealed = {}
    /\ sender = [pin |-> NoCard, messages |-> [m \in Msgs |-> NoMessage]]
    /\ recipient = [published |-> NoCard, messages |-> {}, notified |-> [m \in Msgs |-> 0]]
    /\ call = None /\ poll = None
    /\ saved = [sender |-> sender, recipient |-> recipient]

Tick ==
    /\ now < MaxTime
    /\ now' = now + 1
    /\ UNCHANGED <<crashes, relays, sealed, sender, call, recipient, poll, saved>>
-----------------------------------------------------------------------------
(* Cards: the recipient publishes a newer one; a relay on its routes, or   *)
(* on those of the card before, takes it sooner or later.                  *)

Publish ==
    /\ poll = None /\ recipient.published + 1 \in Cards
    /\ recipient' = [recipient EXCEPT !.published = @ + 1]
    /\ saved' = [saved EXCEPT !.recipient = recipient']
    /\ UNCHANGED <<now, crashes, relays, sealed, sender, call, poll>>

Targets(c) == ToSet(CardRoutes[c]) \cup (IF c > 1 THEN ToSet(CardRoutes[c - 1]) ELSE {})

RelayTakesCard(r) ==
    /\ saved.recipient.published > card[r]
    /\ r \in Targets(saved.recipient.published)
    /\ card' = [card EXCEPT ![r] = saved.recipient.published]
    /\ UNCHANGED <<now, crashes, packets, taken, sealed, sender, call, recipient, poll, saved>>

(* mail_card: the pin after reading the routes in order, and whether the   *)
(* card is usable.  Any read may fail, and one that shows an older card    *)
(* than the pin counts as failed; when all fail the pin itself is used.    *)
Usable(c) == c # NoCard /\ CardRoutes[c] # <<>> /\ now < usable_until[c]

(* fault: a usable pin is used without reading any route.                  *)
mail_card_PinFirst(pin, routes) ==
    {[pin |-> c, ok |-> Usable(c)] :
        c \in IF Usable(pin) THEN {pin}
              ELSE {pin} \cup {d \in {card[r] : r \in ToSet(routes)} : d > pin}}

mail_card(pin, routes) ==
    {[pin |-> c, ok |-> Usable(c)] :
        c \in {pin} \cup {d \in {card[r] : r \in ToSet(routes)} : d > pin}}
-----------------------------------------------------------------------------
(* Sending *)

(* encrypt_message: usable card, message neither expired nor outliving the *)
(* card's receiving period.                                                *)
Encryptable(m, c) == Usable(c) /\ now < expires_at[m] /\ expires_at[m] <= receive_until[c]

(* fault: a packet is sealed anew for each delivery.                       *)
PacketFor_Afresh(m, packet, c) ==
    [m |-> m, card |-> c, n |-> 1 + Cardinality({p \in sealed : p.m = m /\ p.card = c})]

(* The stored packet if it was sealed under this card, else a new one.     *)
PacketFor(m, packet, c) ==
    IF packet # None /\ packet.card = c THEN packet
    ELSE [m |-> m, card |-> c, n |-> 1 + Cardinality({p \in sealed : p.m = m /\ p.card = c})]

NeedsSealing(packet, c) == packet = None \/ packet.card # c

(* The state of deliver at the start of a round over the routes of c.      *)
Round(kind, m, packet, c, refreshed, todo) ==
    [kind |-> kind, m |-> m, packet |-> PacketFor(m, packet, c), card |-> c, i |-> 1,
     transient |-> FALSE, stale |-> FALSE, refreshed |-> refreshed, todo |-> todo]

(* Between two messages of a retry.                                        *)
Next_(todo) == [kind |-> "retry", m |-> None, todo |-> todo]

(* A message that cannot be encrypted is refused: a mail_send ends and     *)
(* keeps nothing, a retry goes on with the next message.                   *)
BeginRound(kind, m, packet, c, refreshed, todo) ==
    IF ~NeedsSealing(packet, c) \/ Encryptable(m, c)
    THEN /\ call' = Round(kind, m, packet, c, refreshed, todo)
         /\ sealed' = sealed \cup {call'.packet}
    ELSE /\ call' = IF kind = "send" THEN None ELSE Next_(todo)
         /\ UNCHANGED sealed

Unsent(m) == \A p \in sealed : p.m # m

(* mail_send to an address with the routes of some card, or with none.     *)
SendStart(m) ==
    /\ call = None /\ saved.sender = sender
    /\ sender.messages[m] = NoMessage /\ Unsent(m)
    /\ \E address \in 1..recipient.published :
       \E read \in mail_card(sender.pin, CardRoutes[address]) :
          /\ sender' = [sender EXCEPT !.pin = read.pin]
          /\ IF read.ok THEN BeginRound("send", m, None, read.pin, FALSE, {})
             ELSE UNCHANGED <<call, sealed>>
    /\ UNCHANGED <<now, crashes, relays, recipient, poll, saved>>

Queued(m) == sender.messages[m].status = "queued"

Unexpired(messages) ==
    [m \in Msgs |-> IF now < expires_at[m] THEN messages[m]
                    ELSE IF messages[m] = NoMessage THEN NoMessage
                    ELSE [status |-> "pruned", packet |-> None]]

PinHeld(pin) == pin # NoCard /\ now < pinned_until[pin]

(* Stale pins and expired messages are dropped; the messages of a dropped  *)
(* pin stay.                                                               *)
prune_mail(s) ==
    [pin |-> IF PinHeld(s.pin) THEN s.pin ELSE NoCard,
     messages |-> Unexpired(s.messages)]

(* mail_mailbox_publish, for a mailbox of the sender's own: it prunes, and *)
(* leaves the rest of what is modelled of the sender alone.                *)
PruneMail ==
    /\ call = None /\ saved.sender = sender
    /\ sender # prune_mail(sender)
    /\ sender' = prune_mail(sender)
    /\ UNCHANGED <<now, crashes, relays, sealed, call, recipient, poll, saved>>

(* The messages to retry, one after the other: RetryNext.  A sync that has *)
(* nothing to retry or prune changes nothing and is left out.              *)
SyncStart ==
    /\ call = None /\ saved.sender = sender
    /\ (\E m \in Msgs : Queued(m)) \/ sender # prune_mail(sender)
    /\ call' = Next_({m \in Msgs : Queued(m) /\ now < expires_at[m]})
    /\ UNCHANGED <<now, crashes, relays, sealed, sender, recipient, poll, saved>>

(* A message of a recipient without a pin is passed over and stays queued. *)
RetryNext ==
    /\ call # None /\ call.m = None
    /\ IF call.todo = {}
       THEN /\ sender' = prune_mail(sender)
            /\ call' = None /\ UNCHANGED sealed
       ELSE \E m \in call.todo :
            /\ IF sender.pin = NoCard
               THEN call' = Next_(call.todo \ {m}) /\ UNCHANGED sealed
               ELSE BeginRound("retry", m, sender.messages[m].packet, sender.pin,
                               FALSE, call.todo \ {m})
            /\ UNCHANGED sender
    /\ UNCHANGED <<now, crashes, relays, recipient, poll, saved>>

Routes == CardRoutes[call.card]
Delivering == call # None /\ call.m # None /\ call.i <= Len(Routes)

EndMessage(status, packet) ==
    /\ sender' = [sender EXCEPT !.messages[call.m] = [status |-> status, packet |-> packet]]
    /\ call' = IF call.kind = "send" THEN None ELSE Next_(call.todo)

(* A relay on the routes of its current card takes packets sealed under    *)
(* it, and answers one it took before again.  It answers stale_card to     *)
(* others, and under an expired card, only while it is on the routes.      *)
OnRoute(r) == card[r] # NoCard /\ r \in ToSet(CardRoutes[card[r]])

RelayAccepts(r, p) ==
    p \in taken[r] \/ (OnRoute(r) /\ card[r] = p.card /\ Usable(card[r]) /\ now < expires_at[p.m])

AnswersStale(r, p) == OnRoute(r) /\ (card[r] # p.card \/ ~Usable(card[r]))

RelayTakes(r, p) ==
    /\ RelayAccepts(r, p)
    /\ taken' = [taken EXCEPT ![r] = @ \cup {p}]
    /\ packets' = IF p \in taken[r] THEN packets ELSE [packets EXCEPT ![r] = Append(@, p)]
    /\ UNCHANGED card

DeliverAccepted ==
    /\ Delivering
    /\ RelayTakes(Routes[call.i], call.packet)
    /\ EndMessage("delivered", call.packet)
    /\ UNCHANGED <<now, crashes, sealed, recipient, poll, saved>>

(* No answer, whether the relay took the packet or not.                    *)
DeliverTransient ==
    /\ Delivering
    /\ RelayTakes(Routes[call.i], call.packet) \/ UNCHANGED relays
    /\ call' = [call EXCEPT !.i = @ + 1, !.transient = TRUE]
    /\ UNCHANGED <<now, crashes, sealed, sender, recipient, poll, saved>>

DeliverRefused ==
    /\ Delivering
    /\ ~RelayAccepts(Routes[call.i], call.packet)
    /\ call' = [call EXCEPT !.i = @ + 1,
                   !.stale = @ \/ AnswersStale(Routes[call.i], call.packet)]
    /\ UNCHANGED <<now, crashes, relays, sealed, sender, recipient, poll, saved>>

RoundOver == call # None /\ call.m # None /\ call.i > Len(Routes)

(* No route took it.  After stale_card the card is read again once, and a  *)
(* newer one gives a second round; a card that turns out unusable ends the *)
(* message with an error.                                                  *)
DeliverRefresh ==
    /\ RoundOver /\ call.stale /\ ~call.refreshed
    /\ \E read \in mail_card(sender.pin, Routes) :
          /\ sender' = [sender EXCEPT !.pin = read.pin,
                           !.messages[call.m].packet =
                               IF call.kind = "retry" THEN call.packet ELSE @]
          /\ IF ~read.ok
             THEN /\ call' = IF call.kind = "send" THEN None ELSE Next_(call.todo)
                  /\ UNCHANGED sealed
             ELSE IF read.pin = call.card
             THEN call' = [call EXCEPT !.refreshed = TRUE] /\ UNCHANGED sealed
             ELSE BeginRound(call.kind, call.m, call.packet, read.pin, TRUE, call.todo)
    /\ UNCHANGED <<now, crashes, relays, recipient, poll, saved>>

(* A transient failure queues the message; after others a mail_send keeps  *)
(* nothing, and a retry leaves the message queued.                         *)
DeliverFailed ==
    /\ RoundOver /\ (call.stale => call.refreshed)
    /\ IF call.kind = "send" /\ ~call.transient
       THEN call' = None /\ UNCHANGED sender
       ELSE EndMessage("queued", call.packet)
    /\ UNCHANGED <<now, crashes, relays, sealed, recipient, poll, saved>>
-----------------------------------------------------------------------------
(* Receiving *)

WithRoutes(routes, more) ==
    FoldLeft(LAMBDA rs, r : IF r \in ToSet(rs) THEN rs ELSE Append(rs, r), routes, more)

NewestFirst(n) == [i \in 1..n |-> n + 1 - i]

(* Every route of every retained card, each once, newer cards first.       *)
RoutesOf ==
    [cards \in SUBSET Cards |->
        FoldLeft(LAMBDA routes, c : IF c \in cards THEN WithRoutes(routes, CardRoutes[c])
                                    ELSE routes,
                 <<>>, NewestFirst(Len(CardRoutes)))]

Retained == {c \in 1..recipient.published : now < receive_until[c]}
PollRoutes == RoutesOf[Retained]

(* The rest of a sync; it ends with the last route.                        *)
Polling(todo) == IF todo = <<>> THEN None ELSE [todo |-> todo, deletions |-> <<>>]

PollStart ==
    /\ poll = None /\ saved.recipient = recipient
    /\ PollRoutes # <<>>
    /\ recipient' = [recipient EXCEPT !.messages = {m \in @ : now < expires_at[m]}]
    /\ poll' = Polling(PollRoutes)
    /\ UNCHANGED <<now, crashes, relays, sealed, sender, call, saved>>

(* fault: a copy of a stored message is stored again.                      *)
Disposition_AgainStored(p, messages) ==
    IF p \notin Packet THEN "keep"
    ELSE IF now >= expires_at[p.m] THEN "delete"
    ELSE "store"

(* accept_packet: what becomes of a packet, given the messages stored.     *)
Disposition(p, messages) ==
    IF p \notin Packet THEN "keep"
    ELSE IF now >= expires_at[p.m] \/ p.m \in messages THEN "delete"
    ELSE "store"

(* fault: the relay copy goes at once, before the message is saved.        *)
Accepted_DeleteAtOnce(listed, messages) ==
    FoldLeft(LAMBDA a, p :
                 CASE Disposition(p, a.messages) = "store" ->
                         [messages |-> a.messages \cup {p.m}, new |-> a.new \cup {p.m},
                          deletions |-> Append(a.deletions, p)]
                   [] Disposition(p, a.messages) = "delete" ->
                         [a EXCEPT !.deletions = Append(@, p)]
                   [] OTHER -> a,
             [messages |-> messages, new |-> {}, deletions |-> <<>>], listed)

(* The listed packets one by one: what is stored, what is to be deleted.   *)
Accepted(listed, messages) ==
    FoldLeft(LAMBDA a, p :
                 CASE Disposition(p, a.messages) = "store" ->
                         [a EXCEPT !.messages = @ \cup {p.m}, !.new = @ \cup {p.m}]
                   [] Disposition(p, a.messages) = "delete" ->
                         [a EXCEPT !.deletions = Append(@, p)]
                   [] OTHER -> a,
             [messages |-> messages, new |-> {}, deletions |-> <<>>], listed)

(* What a sync reads of a route in its bounded number of pages.            *)
Listed(r) == SubSeq(packets[r], 1, Min({Len(packets[r]), SYNC_MAX}))

BetweenRoutes == poll # None /\ poll.deletions = <<>>

(* The pages of a route are read before anything is deleted there.  Each   *)
(* message stored gets an inbox item.                                      *)
Accept(listed) ==
    LET a == Accepted(listed, recipient.messages)
    IN  /\ recipient' = [recipient EXCEPT
               !.messages = a.messages,
               !.notified = [m \in Msgs |-> IF m \in a.new THEN @[m] + 1 ELSE @[m]]]
        /\ poll' = IF a.deletions = <<>> THEN Polling(Tail(poll.todo))
                   ELSE [poll EXCEPT !.deletions = a.deletions]
        /\ UNCHANGED <<now, crashes, relays, sealed, sender, call, saved>>

PollRoute ==
    /\ BetweenRoutes
    /\ Accept(Listed(Head(poll.todo)))

(* A page that cannot be read ends the reading of the route.               *)
PollRouteFails ==
    /\ BetweenRoutes
    /\ \E n \in 0..(Len(Listed(Head(poll.todo))) - 1) : Accept(SubSeq(Listed(Head(poll.todo)), 1, n))

(* One DELETE, which may get lost, or its answer.                          *)
PollDelete ==
    /\ poll # None /\ poll.deletions # <<>>
    /\ LET p == Head(poll.deletions)  r == Head(poll.todo)
       IN  \/ packets' = [packets EXCEPT ![r] = RemoveFirst(@, p)]
           \/ UNCHANGED packets
    /\ poll' = IF Len(poll.deletions) = 1 THEN Polling(Tail(poll.todo))
               ELSE [poll EXCEPT !.deletions = Tail(@)]
    /\ UNCHANGED <<now, crashes, card, taken, sealed, sender, call, recipient, saved>>

-----------------------------------------------------------------------------
(* Hosts and crashes *)

SaveSender ==
    /\ call = None /\ saved.sender # sender
    /\ saved' = [saved EXCEPT !.sender = sender]
    /\ UNCHANGED <<now, crashes, relays, sealed, sender, call, recipient, poll>>

SaveRecipient ==
    /\ poll = None /\ saved.recipient # recipient
    /\ saved' = [saved EXCEPT !.recipient = recipient]
    /\ UNCHANGED <<now, crashes, relays, sealed, sender, call, recipient, poll>>

CrashSender ==
    /\ crashes < MaxCrashes
    /\ call # None \/ saved.sender # sender
    /\ crashes' = crashes + 1
    /\ sender' = saved.sender /\ call' = None
    /\ UNCHANGED <<now, relays, sealed, recipient, poll, saved>>

CrashRecipient ==
    /\ crashes < MaxCrashes
    /\ poll # None \/ saved.recipient # recipient
    /\ crashes' = crashes + 1
    /\ recipient' = saved.recipient /\ poll' = None
    /\ UNCHANGED <<now, relays, sealed, sender, call, saved>>

SenderStep ==
    \/ SyncStart \/ RetryNext \/ SaveSender
    \/ DeliverTransient \/ DeliverRefused \/ DeliverRefresh \/ DeliverFailed

RecipientStep == PollStart \/ PollRouteFails \/ PollDelete \/ SaveRecipient

Next ==
    \/ Tick \/ Publish
    \/ \E r \in Relays : RelayTakesCard(r)
    \/ \E m \in Msgs : SendStart(m)
    \/ PruneMail
    \/ SenderStep \/ DeliverAccepted
    \/ RecipientStep \/ PollRoute
    \/ CrashSender \/ CrashRecipient

(* What the two connectors are assumed to do: every mail_sync goes on, is  *)
(* followed by another and is saved, which the loop of an agent does; a    *)
(* route that could answer again and again answers at last.                *)
Answers(r) == Delivering /\ Routes[call.i] = r /\ (DeliverAccepted \/ DeliverRefused)
NewerCardRead == DeliverRefresh /\ sender'.pin # sender.pin
Deleted == PollDelete /\ packets' # packets
PollRouteAt(r) == BetweenRoutes /\ Head(poll.todo) = r /\ PollRoute

Fairness ==
    /\ WF_vars(\E r \in Relays : RelayTakesCard(r))
    /\ WF_vars(SenderStep) /\ WF_vars(RecipientStep)
    /\ SF_vars(NewerCardRead) /\ SF_vars(Deleted)
    /\ \A r \in Relays : SF_vars(Answers(r)) /\ SF_vars(PollRouteAt(r))

Spec == Init /\ [][Next]_vars
FairSpec == Spec /\ Fairness
-----------------------------------------------------------------------------
Taken(m) == \E r \in Relays : \E p \in taken[r] : p.m = m

(* A message that some relay accepted is not lost before it expires,       *)
(* wherever a connector crashes: it is in the state the recipient's host   *)
(* saved, or a relay the recipient still polls has a copy.  (deliver, then *)
(* poll_mailboxes, which deletes copies of messages stored earlier in the  *)
(* same, unsaved call.)                                                    *)
AcceptedNotLost ==
    \A m \in Msgs : Taken(m) /\ now < expires_at[m] =>
        \/ m \in saved.recipient.messages
        \/ \E r \in ToSet(PollRoutes) : \E p \in ToSet(packets[r]) : p \in Packet /\ p.m = m

(* However often a message was sealed and submitted, and through whichever *)
(* relays its copies come, its recipient is notified of it once.           *)
NotifiedOnce == \A m \in Msgs : recipient.notified[m] <= 1

(* Without a crash the sender never seals a message twice under one card:  *)
(* retries, also after a refresh of the card, submit the same packet.      *)
SealedOncePerCard ==
    crashes = 0 => \A p, q \in sealed : p.m = q.m /\ p.card = q.card => p = q

(* A queued message is received before it expires, whatever failures,      *)
(* crashes and new cards come in between, unless its recipient lets the    *)
(* mailbox go without a usable card (retry_queued, the refresh of deliver, *)
(* and a sync that makes room for the next page by deleting), or the       *)
(* sender's pin grows old first: prune_mail then drops it, and             *)
(* retry_queued passes the message over, usable card or not, until         *)
(* something pins one again.                                               *)
QueuedIsReceived ==
    \A m \in Msgs :
        saved.sender.messages[m].status = "queued" ~>
            \/ m \in saved.recipient.messages \/ now >= expires_at[m]
            \/ ~Usable(recipient.published)
            \/ sender.pin = NoCard
=============================================================================
