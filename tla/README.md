# Formal models of the Agent Protocols SDK

TLA+ models, TLC runs and TLAPS proofs about the Rust reference implementation
in `crates/agent-protocols` (the TypeScript and Python packages are ports of
the same rules). Paths below are relative to `crates/agent-protocols/src/`
unless they start with `docs/`.

    cd tla
    tlc -workers 2 -config LiveWrite.cfg MCLiveWrite   # a run: cfg and MC module
    tlapm LiveWriteProofs.tla                          # proofs: the modules named ...Proofs

`PROJECT.json` lists the components, the runs with what each shows, the line
ranges each definition translates, the hazards of the code with the properties
that cover them, the deliberate faults the properties detect, and the theorems.

## 1. The system and its parts

The repository defines six draft protocols over one identity layer, their SDK
state machines, and a *local connector* that lets an agent act through them.
No part is a daemon: SDK stores are libraries a host calls one operation at a
time, and the connector is a set of tools a host invokes and whose state it
snapshots after each call. Concurrency is between *parties*: several senders,
owners, readers and devices whose requests a service sees in any order, any
number of times, between its own prunes and restarts.

| Component | State | Operations | What is hard | What makes it correct |
|---|---|---|---|---|
| Agent Identity, live writes (`identity.rs`) | nonce record per actor, accepted hashes | `verify_live_envelope`, `verify_submission`, `check_and_update` | replays in any order around the expiry of a record; restarts that lose the cache | no envelope accepted twice; an actor's writes in nonce order; a retry is answered for ever |
| Client nonces (`identity.rs`) | next nonce | `next_nonce_at`, `observe_max_nonce` | a crash rewinds the sequence; other devices pass it | no two signed objects with one nonce; a refused write gets through in the end |
| Mail relay (`mail/state.rs`) | cards, packets, tombstones, quotas, blocked senders, nonce cache | publish, deliver, list, delete, block, prune, snapshot, restore | retries after delivery and deletion; paging during change; three retention times | a packet is stored once, kept until it expires or is deleted, and every retry gets the first answer |
| Mail ends (`mail/state.rs`, `mail/mod.rs`) | keyring, pinned cards, inbox | seal, open, pin, accept, prune | clocks that differ, old cards shown again, crashes before a save | what can be sealed can be opened; a message is received once; nobody seals for a card its owner replaced |
| Knowledge service (`knowledge/store.rs`) | records by hash and seq, hidden set | submit, hide, unhide, prune, query | cursors over a changing store | a reader's checkpoint never passes a record it has not been given |
| Knowledge consumer (`knowledge/store.rs`, `http_client.rs`, `local_connector/knowledge_tools.rs`) | page tracker, checkpoint | `query_all`, `knowledge_status` | pages straddle moderation; page budgets; lost answers | honest services are never refused; "complete" means complete; the reader catches up |
| Discourse rules (`discourse.rs`) | type registry | classes, head and base rules | custom types | which records move the head of a room |
| Discourse host (`discourse.rs`, `local_connector/history.rs`) | room state, roles, bans, registry, archive | permissions, joining, declarations, redaction, replay | sequences of legal calls, times that move the room without a record, declarations refused half way | a room never goes back; each record carries its authority; whoever replays the records arrives at the host's state; an archive verifies exactly when it is the room's |
| Delegation (`delegation.rs`, `local_connector.rs`) | principal document, records, credential | grant, revoke, materialize, verify, check, audit | authority over time, three reads for one check, clocks that differ | a credential is usable only if nothing newer was accepted; the verdict on its signatures is exact; an audit reproduces it |
| Profile (`profile.rs`) | newest document per agent | cache, succession | late documents | not modelled (section 8) |
| Connector, rooms (`local_connector.rs`, `projection.rs`, `state.rs`) | verified records, head, presented head, drafts | sync, read, write, hold, reject, re-base, create, join | others write between read, signing and acceptance | the agent speaks about what it has been shown; the head it reports is the head |
| Connector, publishing cards (`local_connector/mail_tools.rs`) | cards, keys, pending publication, saved state | `mail_mailbox_publish`, `mail_sync`, persistence | crash between any two saves; several relays; late requests | the secret of a served card is never lost; no relay stays on an old card unnoticed |
| Connector, sending and fetching mail (`local_connector/mail_tools.rs`) | pin, queued messages, stored messages, inbox items | `mail_send`, `mail_sync` (`deliver`, `retry_queued`, `poll_mailboxes`) | crashes before a save, lost answers, several relays, a card replaced on the way, bounded pages | what a relay accepted is not lost; it is received once; what is queued arrives |
| Ports, HTTP clients, schemas, views, errors | — | — | — | not modelled (section 8) |

Interactions: every service admits writes through the identity rules; the
connector is a client of relays, rooms and knowledge services; a card published
by the connector is what senders seal for and what the relay checks deliveries
against; a mail recipient's inbox and keyring are saved by the application that
embeds the SDK.

## 2. Modules

| Module | Models | Extends |
|---|---|---|
| `LiveWriteRules` | time window, nonce ranges, nonce cache entries (pure rules) | — |
| `LiveWrite` | a service that admits writes with the window and the cache, or with durable history too (`durable`) and restarts | `LiveWriteRules` |
| `LiveWriteProofs` | proofs about its `Spec` | `LiveWrite` |
| `MailRules` | cards, packets, their time bounds | `LiveWriteRules` |
| `MailRelay` | the relay of one origin | `MailRules` |
| `MailDelivery` | what a relay promises: each packet new, then held, then gone | — |
| `MailExchange` | a sender and a recipient with clocks of their own | `MailRules` |
| `MailRelayProofs` | proofs about the relay, the refinement of `MailDelivery` among them | `MailRelay` |
| `MailExchangeProofs` | proofs about the two ends | `MailExchange` |
| `ConnectorPublish` | the connector publishing the cards of a mailbox to several relays | `LiveWriteRules` |
| `ConnectorPublishProofs` | proofs about its `Spec` | `ConnectorPublish` |
| `KnowledgeStore` | the service repository and its cursors | — |
| `KnowledgeFollower` | `query_all` and `knowledge_status` against that service | `KnowledgeStore` |
| `KnowledgeProofs` | proofs about the repository and its consumer | `KnowledgeFollower` |
| `RoomRules` | record classes, head and base rules, type registry | — |
| `RoomConnector` | one room in the connector, with its host and the other members | `RoomRules` |
| `RoomPermissions` | who may do what in which state of a room; policies; the type registry of a host | — |
| `RoomArchive` | envelopes, records and their hashes, redaction, verification of chains and archives | `RoomPermissions` |
| `RoomHistory` | the replay of records to members, bans, contract, registry and head | `RoomArchive` |
| `RoomHost` | a room from its creation to its archive, at a host that applies these rules | `RoomHistory` |
| `RoomHostProofs` | proofs about its `Spec` | `RoomHost` |
| `DelegationRules` | controllers, ceilings, acceptance, credential, verification, audit (pure rules) | `LiveWriteRules` |
| `Delegation` | a principal's host, a delegation service, a connector that checks a credential | `DelegationRules` |
| `ConnectorProofs` | proofs about `Spec` of the room and `DelegationSpec` | `RoomConnector`, `Delegation` |
| `ConnectorMail` | a sending and a receiving connector with the relays between them | — |
| `ConnectorMailProofs` | proofs about its `Spec` | `ConnectorMail` |
| `MC...` | constants of the runs | the module they name |

### Correspondence

*Live writes.* `durable` tells which of the two services runs. `records` is `MemoryNonceStore.records`, `log` the accepted
envelopes in order. `VerifyLiveEnvelope` is `verify_live_envelope` up to the
recorded nonce; `VerifySubmission` is `verify_submission`, whose accepted-hash
lookup is `is_accepted`; `Restart` empties the cache. An envelope is the record
of its fields and stands for its hash; each may arrive at any time, any number
of times. `max_nonce = 0` stands for no record.

*Relay.* `current`, `last_seq`, `bytes`, `packets`, `tombstones`, `blocked` are
the fields of a `MailboxState`, `nonces` the relay's nonce store. `Publish`,
`Deliver`, `SetSenderBlocked`, `ListFirst`/`ListNext`, `Delete`, `Prune`, `Restart`
(snapshot and restore) are the methods of `MailRelayStore`. `DeliverRefused` is
a delivery that fails *after* `drop_expired` has run: it changes the state.
`reader` is the owner's enumeration with its cursor, not relay state.

*Mail ends.* `pins` is `MailCardCache`, `keyring` the cards whose secret
`MailKeyring` holds, `accepted`/`blocked` are `MailInbox`, `stored` what the
application took. `skew` is the difference of the two parties' clocks to the
true time. Encryption is "opens with the secret of the card it was sealed for".

*Publishing.* A tool call is a sequence of steps (`call.step`): `Attempt` retains
the card and its pending routes, `PersistMail` saves keys and then state, one
`RequestAnswered`/`RequestUnanswered` per relay, a save at the end. `late` holds
requests that reach the relay after the caller gave up. `Crash` goes back to
`saved_keys` and `saved`. The relays keep only what publishing needs.

*Knowledge.* `records`, `by_seq`, `hidden`, `seq` are the repository's fields.
`Serve` answers a request of the consumer's with `query`; `NextPage` feeds the
page to the tracker and sends the next cursor; `FinishQueryAll` moves the
persisted checkpoint `after`; `FinishStatus` gives the lifecycle report.

*Rooms.* `room` holds what `LocalRoomState` keeps of the room: the types the
local copy of the room resource has, the head, the last verified seq, the
oldest kept record and the presented head. The seq of a record stands for its
hash. `call` is the tool call in progress with its write; `start` and `shown`
record what the agent has been given to read. `StartSync`/`SyncRecord`/`Synced`
is `sync_room`, one record at a time so that others may write in between and any
request may fail. `Attempt`, `HoldDraft`, `RejectedHeadMismatch`, `HostAccepts`,
`HostRefuses`, `WriteSynced` are the loop of `submit_room_write` with
`apply_own_record`.

*Room host.* `discourse.rs` holds the rules a host applies, and no host. The
operators of `RoomPermissions` and `RoomArchive` are its functions, by their
names; the actions of `RoomHost` are the handlers the protocol document asks of
a host, each calling the rules the crate exports for it: `Write` is what all
have in common (`validate_room_path`, `validate_room_write`, then the record).
`contract` is the room's policy and times and how it was finished; a state is
computed from it and the clock (`StateAt`). `registry` is changed in place by
`apply`, with what an error leaves behind. The quota `max_speakers` is enforced by
the modelled host (`SetRole`), as the document demands of hosts: no function of
the crate does. `RoomHistory.replay` is `replay` of `history.rs`, which a reader
runs over remote records or an archive. A record's hash is the record without
the fields redaction removes; `kind` of a redacted record is not covered by it.

*Delegation.* `doc` is the document at the principal's URL, `FetchTimes` and
`DocumentAt` the copy of it the service may still use, `records` what it
accepted, `credential` the result of `materialize_delegation_credential` as
stored. `check` is `delegation_check` with its three reads as three steps.
`SubmitSigned` is `delegation_grant` of a connector, `OtherSubmits` anyone else
with a controller's key.

*Sending and fetching.* `call` is the sender's `mail_send` or `mail_sync` with
`deliver` in progress: `i` the route it tries, `refreshed`, `stale` and
`transient` its local variables, `todo` what `retry_queued` has left. `poll` is the
recipient's `mail_sync`: the routes still to read and the deletions of the
current one. `saved` is what each host saved after a call; `CrashSender` and
`CrashRecipient` go back to it. A relay's `taken` stands for packets and their
tombstones. `Undecryptable` packets are in front of a route's list from the start.

In every module an operation's guard is the code's conditions; a refused call
that changes nothing is a stuttering step and has no action.

## 3. Runs

All runs finish within two and a half minutes with two workers. None checks for
deadlock: clocks, sequences and lengths are bounded and every model stops at
its bounds.

| Run | Question | Bounds |
|---|---|---|
| `live_write` | Do the window and the nonce cache alone keep a service from accepting an envelope twice, and order an actor's writes? Is a retry answered for ever by one with durable history, across restarts that lose the cache? | one actor (actors do not interact), nonces to 3, one body, window 1, clock to 4, one restart: every record expires and is overwritten at least once |
| `mail_relay` | Does the relay keep its promise (`PromiseKept`, refinement of `MailDelivery`), its quotas and complete enumerations? | one identifier, three cards of two owners, four packets, quota of two packets and three bytes, page size 1, clock to 5, one restart |
| `mail_exchange` | Does a sealed message reach its reader once and only by its owner's newest card? | three cards (rotation, closing), three messages of which two share an identifier, clock skew of one either way, clock to 4, two packets sealed |
| `connector_publish` | Are keys, relays, pending routes and nonces consistent through crashes, failed saves and late requests? | two relays, three payloads (one, moved to the other with a new key, closed), three cards, one late request, clock to 3 |
| `connector_resync` | Does a pending publication get through (liveness)? | two relays, one payload, other writes with nonce 3, clock to 2 |
| `connector_mail` | Is an accepted message kept, received once, and a queued one received at last (liveness)? | one message, two relays, two cards (the second leaves the first relay), a packet that cannot be opened, two packets read per sync and route, one crash of either end, clock to 2; the first card's pin is dropped at time 1, before the message expires |
| `mail_moved` | the same liveness, with a second card that shares no relay with the first (section 6) | as above |
| `knowledge_follow` | Is no record lost between checkpoints, is a complete lifecycle report exact, and does the reader catch up (liveness)? | four events (question, retraction, a correction whose nonce is written as a decimal, a stranger's retraction), page size 1, two pages per call where three records may wait, two moderations, one failure |
| `room_connector` | Is the reported head the head, the presented head read, and does the agent write only about what it has read? | five records, a history of three, one draft, three attempts of `send_anyway`, one custom control and one custom signal type, every policy |
| `room_given_up` | Is the presented head always one the agent was shown in full? (It is not: section 6) | four records, none trimmed, three attempts, two drafts |
| `room_host` | Does every record carry its authority, does the room never go back, can its state be replayed and its archive be verified, redacted or not? | three agents, five records with the creation, two custom types and one pack, clock to 2; three rooms that differ in what they explore: requests and reviews (public), types and roles (private), joining, removal and times (restricted) |
| `delegation` | Is a credential reported usable only if nothing newer was accepted, and are verdict and audit exact? | two keys of which one is limited by a ceiling and registered late, one retired or compromised, two grants, three accepted events, clock to 2, a copy of the document one tick old, a skew of one |

What the properties say is stated before each of them in the modules. Bounds
are reached: the mail clock passes the end of every card and packet, quotas are
filled by size and by number, page budgets run out, held drafts collide with
others, histories hold as many records as a room may have, invalid packets fill
half a page.

Each property of these runs is paired in `PROJECT.json` with a fault of the
code it detects: an operator next to the definition it replaces, with the
comment `fault:`. `TypeOK` is checked in `live_write` and `mail_relay`; in the other
modules it documents the state.

In `room_connector` the attempts of `send_anyway` are the code's three, in a room of
five records: the loop runs out, and the history of three is trimmed under drafts,
bases and presented heads. In both cases a result presents a head although it
leaves heads out. `passed` records which: those after the base the agent wrote on
(`origin`) that the attempts were re-based over, or that `trim_history` dropped.
`PresentedIsRead` and `SpeaksAfterReading` allow these and no others, so the cause of
every head the agent is taken to know unread is one of the two. That the first of them
disagrees with the document is `room_given_up`; the second is what line 462 of the
document announces ("a held draft's `changes` start at the oldest kept item").

In `knowledge_follow` three records may wait where a call reads two: `query_all` then ends
in `PageLimitExceeded`, returns neither records nor a checkpoint, and repeating it never
gets further. `FollowerCatchesUp` excepts that state (`OverBudget`), and no other. No
assessment is among the events; that conjunct of `StatusExact` is covered by its
theorem alone.

## 4. Fairness

Four runs need it. `knowledge_follow`: the caller repeats `query_all`, the
service answers what it is asked and the client's loop runs on (`WF` on
`StartQueryAll`, `Serve`, `NextPage`, `FinishQueryAll`, `FinishStatus`,
`CallFails`). A caller that never calls again does not read; the loop of
`query_all` is sequential code. Nothing makes the service accept, hide or prune,
and calls may fail in transit, a bounded number of times.
`connector_resync`: the user calls `mail_sync` again (`WF`), saving succeeds if
tried again and again and a relay that is asked again and again answers (`SF` on
the saving of both files and on `RequestAnswered(r)`), as the retry of
pending publications in `mail_sync` presumes. The clock is not fair: a card may
be confirmed before it expires or expire.
`connector_mail` and `mail_moved`: both ends go on syncing and saving (`WF` on
`SenderStep` and `RecipientStep`, which may fail for ever), a published card
reaches the relays it is sent to (`WF`; `connector_resync` is about that), and what
is tried at one relay again and again succeeds at last: an answer to a delivery
(`SF` on `Answers(r)`), the reading of a route (`SF` on `PollRouteAt(r)`), a deletion,
the reading of a newer card (`SF` on `Deleted`, `NewerCardRead`). Nothing makes
anybody send, prune, publish or crash, and the clock is not fair: a message may expire.

## 5. Proofs

Every theorem is of a module's `Spec` as TLC checks it, for all values of the
constants that satisfy the module's assumptions. The
fold of a sum, the greatest element and the ascending page of a finite set, and the
fold of a sequence, are treated in lemmas at the head of the modules that need them.
Arguments by induction are made there on a least counterexample (the least of a set
of naturals, or a subset of least cardinality): the library's induction theorems
take an operator, which the provers cannot instantiate.

`LiveWriteProofs`, for both services, with any actors, bodies, window in `Nat`,
largest nonce, clock bound and number of restarts:

- `LiveTyping`: the type invariant. `AcceptsNew`: what either service accepts passed
  the live checks, and with history was not accepted before.
- `LiveReplayCovered`: `ReplayCovered` is invariant (until a restart, which empties
  the cache it speaks of). `AcceptedOnce` says nothing of the cache and is not
  inductive: a step could accept an envelope again from a state in which the
  record of its actor is lower or expired. `ReplayCovered` adds that an accepted
  write was inside its window, and that as long as it can still be inside
  (`2 * window` later at most, the lifetime of a record) the actor's record is
  alive and at least as high.
- `LiveAcceptedOnce`, `LiveNonceOrder`: no envelope is accepted twice; within the
  lifetime of a record an actor's writes are accepted in nonce order.
- `LiveStaysAnswered`: no step takes back the answer to an accepted envelope.

`MailRelayProofs`, for any cards, packets, quotas, page limit and restarts:

- `RelayTyping`: `StoreTyped`, the types of the maps of each mailbox (finite maps of
  packets); `RelayTypeOK`, which includes that the byte count is within the quota,
  needs `RelayQuotaHolds` as well.
- `RelayRetryAnswered` is inductive over `StoreTyped`. `RelayAcceptedRetained` needs it: an
  accepted packet keeps its place because, while it is unexpired, its tombstone
  answers what would store it again.
- `RelayMailStaysWithOwner`, `RelayCardNeverRollsBack`: a card for a registered mailbox must
  be of its owner and newer, and only a mailbox without unexpired mail is forgotten.
- `RelayQuotaHolds`: `bytes` is a counter kept apart from what it counts; it is shown
  to be the sum over the store (`SumWith`, `SumWithout`) through
  `drop_expired`, deliveries and deletions.
- `RelayEnumerationComplete` from `ReadersOnTrack`: what was due and is still there has
  been seen or is beyond the cursor. It needs that the packet has a tombstone: it
  would otherwise be delivered again under another number (`StoredIsTombstoned` for the start).
- `RelayKeepsPromise`: the refinement. The initial states map to initial states, and
  each step of the relay to a step of `MailDelivery` or a stutter
  (`StepKeepsPromise`, one case per kind of step).

`MailExchangeProofs`, for any cards, messages and skew of the two clocks:

- `MailOpens` from `SecretsRetained` (a signed card has its secret through its
  `receive_until`) and `SealedChecked` (what `Seal` checked of a packet).
- `SealsForNewest` from `NewestPinned`: the newest card the sender has seen of a mailbox
  is its pin, or was created so long ago that no earlier card can be accepted.
- `MailReceivedOnce` from `InboxesSound`: the inbox, and the snapshot a crash goes back
  to, remember each message until it expires, and messages under one identifier
  were taken in the order of their deadlines.

`ConnectorPublishProofs`, for any relays, payloads, crashes, failed saves and late requests:

- `PublishKeepsKeys`, `PublishAttemptsDistinct` from `PublishTyped`, `Retention` (what is
  live is retained and has its secret, in use and saved) and `NonceOrder` (cards
  that have been sent have nonces below the saved sequence).
- `PublishLeavesNoRelay` from `NobodyForgotten`. What is *saved* must account for every
  relay, for a crash goes back to it; so must what is in use and the call in
  progress. A relay outside the pending routes is `Served`: no late request can
  still give it an old card, because its nonce record covers that card for as long
  as its time window lasts (`Settled`). A relay may lose the record with the
  mailbox; hence the time windows, and hence `SignedInOrder`. The model is closed
  under these facts only because a new card goes to the relays of *every* kept card.

`KnowledgeProofs`, for every set of events, page size, budgets and moderations:

- `IndexStaysExact`: the map from events to records and the map from sequence
  numbers to events are inverse to each other.
- `FollowerAccepts`, `FollowerComplete` and `FollowerStatusExact` from `FollowerSound`: the
  store's invariant; the request of the call and its tracker agree with the cursor
  (`CallSound`); the answer on its way continues the tracker (`ResponseSound`); and what
  stayed visible since the checkpoint was fixed is among the pages taken, on the
  page in transit or beyond both (`SteadySound`).

`ConnectorProofs`, of `RoomConnector`, for every set of types, policies and order of reads, writes and
deliveries, any number of attempts and any length of the kept history. These three
theorems assume `Typed`, that room lists carry types; section 6 has what happens if not:

- `HeadStaysExact` from `ConnectorSound`: the types the copy knows suffice for the
  records it has, so the head of the copy is the head of the log up to there.
- `PresentedStaysRead` and `WritesSpeakAfterReading` from `ReadSound`: which heads have been
  shown, were in the starting view or were passed over, up to the presented head and
  up to each base in use, the `origin` of the write in progress among them. What a result
  then leaves out is what lies between that base and the first item it shows, and
  that is what `PassOver` records.

`ConnectorProofs`, of `Delegation`, for every set of keys, permissions, clients and time
bounds (`CredentialAssumption` keeps the two values that are not credentials apart
from those that are):

- `DelegationStaysSound`: the document at the principal's URL, every copy of it, the
  history, the credential and the reads of a check in progress are sound: a
  record was admitted at its time, a credential shows records of the history
  and, in it, the latest grant.
- `UsableShowsLatest`: a credential found usable shows the last event. The three
  reads of a check are not atomic; the proof is that the last of them repeats
  every event accepted until then, so that an older credential is found out.
- `VerdictStaysExact`: a usable or expired credential has a latest grant the
  document that was read gives authority for, a failed verification none.
- `AuditStaysExact`: an audit finds the service's credential or that a key lost its authority
  in between. The invariant (`ReplayAgrees`) says so of *every* sound document, not
  only of today's: a document may change at any time, the history only grows. The
  replay is a fold over the history; one more record is one more step of it
  (`ReplayAppend`), so the induction over the records is that over the service's steps.

`RoomHostProofs`, for every set of agents, contracts, updates, types and packs:

- `NeverGoesBack`: the order scheduled, active, ended or cancelled is never left
  backwards, a room that is over gets no record, and only a scheduled room is
  cancelled. The state is computed from the clock and the contract, so the proof
  has two parts: the clock alone only moves a room on (`States`), and of the updates
  a host accepts none takes it back (`UpdateGoesOn`, `FinishGoesOn`). The invariant
  needed is the type of clock and contract (`Timed`).
- `RegistryStaysExact`: the registry by which a host judges a write is what the records
  declare, of each type what the last declaration that covers it says, and no type ever
  changes its kind. The invariant (`RegistrySound`) adds that the log begins with the
  creation and holds nothing else of that type, and that every declaration in it is one
  of `TypeDeclaration`. The work is in two folds, over the types of a pack and over the
  declarations of a creation: `ImportExact` says what an import leaves of each type, with
  its selection, its overrides and the kinds the room had before, or that it is refused as a
  whole; `FromDeclarationsExact` says it of a list of declarations, and
  `ApplyExact` of one more. `PacksAssumption` (a pack names a type once) and
  `DeclarationsAssumption` are the shapes of `TypeDef` and `PackImport`, no more.
- `RecordsStayAuthorized`: every record was accepted with the authority its author had
  by the records before it. Authority is read from the records alone, so the
  invariant (`AuthoritySound`) says that the members, the bans and the policy the host
  keeps are what the records leave; that a request is known by its author
  and time, that what a review decides was asked and not decided before; and it rests on
  `RegistrySound` for who may write a type. A new record changes no earlier verdict,
  because each of these looks back from the place of the record it is about.
- `HistoryStaysReplayable`: whoever replays the records arrives at the host's state. The
  invariant (`HistorySound`) says so of *every* redacted copy of the records: its
  replay is a `SoundReplay`, whose room `Follows` the host's (members with their bans,
  contract, whether it was finished) and which, if nothing is redacted, has its registry
  and head as well. Replay and records are folds, and one more event is one more step of
  each (`ReplayGrows`, `RecordsGrow`), so each action of the host is met by one step of the
  reader. A lemma per kind of event says that its projection does to the
  reader's room what the action does to the host's (`MemberGoes`, `UpdateGoes`,
  `DefineGoes`, ...), collected in `Goes(e)`; another that the reader's checks pass whatever
  the host let through (`JoinAccepts`, `UpdateAccepts`, ..., collected in `Accepts(e)`):
  the host judges by its registry, bans and policy, the reader by those it
  replayed. That they agree is what `RegistrySound` and `AuthoritySound` give.
  `RolesAssumption` (the roles asked for and given are roles) and `MembersAssumption`
  (`Absent` is neither a role nor a member) type the constants.
- `ArchiveStaysExact`: a redacted copy verifies because a record's hash is taken over the
  hash of its envelope, which redaction leaves (`CopyVerifies`), and the reader then replays
  it as above. An archive with a record missing, swapped, moved in time, altered or
  rebuilt fails at that record or at its end: the chain names every record before
  it by value (`AtPlace`, `ForgedFails`).

`ConnectorMailProofs`, for any messages, cards, relays, routes, crashes and page bounds.
`ConnectorMailAssumption` types the constants and keeps `None` apart from what a
variable may hold otherwise; `CardsInTimeOrder` says that when the pin of a card is dropped
for its age every card up to it has expired, which follows from the longest life of a
card if their times of creation do not decrease (section 6):

- `MailTyping`: the types, and with them that a delivery in progress goes to the routes
  of the card its packet is sealed under.
- `SealsOncePerCard` from `SealingInv`: until the first crash a queued message has the packet of
  the last card it was sealed for, or the delivery in progress has it, and its cards were
  taken in the order of their publication: `deliver` never goes back to an older one. A
  dropped pin does not break this, for the cards it forgets are no longer usable
  (`SealedAtDrop`).
- `NotifiesOnce` from `NotifiedInv`: a message that was notified is stored or has expired,
  and what has expired is not stored again. A crash takes back the message and its
  notification together. `AcceptedExact` says what the loop over the packets of a
  listing (a fold) stores and what it deletes.
- `LosesNoMessage` from `LossInv`, whose core is `UnsavedIsKept`: of a message that was accepted and
  is not yet saved, some relay has a copy which the sync in progress *spares*. A sync does
  delete at one route the copies of what it has just stored from another, before
  anything is saved; the first copy stays, because a sync visits each route once
  (`PollSound`) and deletes nothing it stored from the same listing. A crash may then lose
  the sync but not the message. And that relay is still polled: the routes of
  every card are, as long as it may receive, which is at least as long as what was sealed
  for it lives (`PollRoutesExact`, `KeptIsPolled`).

Left to TLC:

- liveness under fairness (`PendingConfirmed`, `QueuedIsReceived`, `FollowerCatchesUp`): out
  of the prover's reach, as is `ENABLED`.

Every safety property that a passing run checks is a theorem.

## 6. Where code and documents differ

A run with expected result *violation*:

- `mail_moved` — `docs/protocols/agent-mail/1.0.md:115` has a relay that a mailbox
  left serve the new card, "whose routes tell senders where to deliver instead".
  `deliver` (`local_connector/mail_tools.rs:658` and `:669`) reads the card again only
  after `stale_card`, and such a relay answers `mailbox_unavailable` first
  (`mail/state.rs:436`). A queued message is refused by it at every `mail_sync` until
  it expires, unless a new `mail_send` to the mailbox happens to pin the new card.
  If one relay of the old card stays on the new one, it answers `stale_card` and
  the message arrives: `connector_mail` has the same property hold.
- `room_given_up` — `docs/mcp/local-connector/1.0.md:89` has the presented head be "the
  latest head for which the agent has been shown every head-advancing record". When
  `send_anyway` has used up its three attempts (`local_connector.rs:83`, `:1541`), the
  draft is held on the base of the last attempt (`:1543`, `:1547`). Its `changes` begin
  after that base, the heads the attempts were re-based over are in no result, and yet the
  head after them is presented (`:1879`). The next write with the policy `hold` is based on
  it and enters the room over heads its author was never shown. Line 505 allows the cap and
  says only that the draft is held.

Seen while modelling, in the model but without a run of their own:

- the owner's clock may be set back between two cards, so that a pin is dropped
  while an earlier card is usable: `sign_mail_card`
  (`local_connector/mail_tools.rs:551`) does not keep `created_at` from decreasing,
  as `docs/protocols/agent-mail/1.0.md:103` requires and `MailCardCache::prune`
  (`mail/state.rs:68`) relies on. In `mail_exchange` cards are in order of time.
- `projection.rs:355` takes inline type definitions only, so after a `type.define`
  that imports a pack a custom signal that is delivered live counts as advancing
  the head (`docs/mcp/local-connector/1.0.md:87`). `RoomConnector` has no imports.
- a queued message may outlive the pin of its mailbox: `prune_mail`
  (`local_connector/mail_tools.rs:934`) drops a pin at `created_at` + 30 days + skew
  (`mail/state.rs:69-74`), while the card's receiving period may last 30 days longer.
  `retry_queued` (`mail_tools.rs:715-723`) then passes the message over without an
  error, although it is unexpired and its recipient has a usable card, until some
  `mail_send` or `mail_resolve` pins one. `docs/mcp/local-connector/1.0.md:533` says of a
  message that is `queued` that "`agent_protocols_mail_sync` retries", and line 535 that the
  connector "retains each sent message with its latest packet until the message
  expires, retries with that packet byte-for-byte". `connector_mail` reaches this state;
  `QueuedIsReceived` excepts it (`sender.pin = NoCard`), and without the exception TLC
  shows it: the prune at time 1, after which the message stays queued.
- `knowledge_status` reads nonces with `as_u64` (`local_connector/knowledge_tools.rs:209-211`)
  where the service takes 3.0 for 3 (`knowledge_u64`, `knowledge/mod.rs:56`). A retraction or
  successor whose nonce is written as a decimal is accepted by the service and missing
  from a report that says `complete`. `StatusExact` excepts these events; the run has one.
- a late `inbox_ack` names no lease (`local_connector.rs:911`): it may defer an item
  that another session has handled meanwhile. The inbox is not modelled.
- `rejected_head_mismatch` (`local_connector.rs:1860`) presents the head;
  `docs/mcp/local-connector/1.0.md:89-95` lists the results that do and
  rejections are not among them.
- the first write of a session is signed on the head of the last sync
  (`local_connector.rs:1826`); the document (line 97) says the connector syncs.
- `observe_room` (`local_connector.rs:327`) replaces the room with the entry of
  a room list. If the entry carries no `types`, the types known before are lost
  and custom signals count as advancing the head (`Listings` with `FALSE`).

## 7. What the models leave out

Signatures, hashes, canonical JSON and encryption are identities of records or
the relation "opens". Messages and payloads are model values. `MailRelay` has
one reader per mailbox. In `RoomConnector` there is one room; the host's
permissions, membership, nonces, inbox and agent statuses are omitted, an
explicit base is a head the agent was shown, and the presented head persists
over restarts with the snapshot, as in the code. A lost answer is an error to
the agent, which may send again. In `ConnectorPublish` one mailbox is published
by one device; a closing card stays pending at a relay that never had the
mailbox, as the code has it. `KnowledgeFollower` leaves out full-text search.

In `RoomHost` a write is based on the latest record and the host is one process.
The texts of a room, limits on them and payload schemas of custom types are
omitted. In `Delegation` permissions are a set that contains the audience, a
document is fetched whole and signatures verify when made with the key. In
`ConnectorMail` tool calls of one connector do not overlap, as its `&mut self`
demands; replies, reply cards and blocked senders are left out, and relays have
no quota (`MailRelay` has). The prune at the end of a sync uses the time of that
step, the code the time the sync began: the model may drop at once what the code drops at
its next prune. `mail_resolve`, which reads cards and moves the pin, is
left out: a `mail_send` that ends without a packet moves the pin the same way. In
`Delegation` a connector's reads, signature and request are one step; a request that comes
late is one of `OtherSubmits`.

## 8. Not modelled

- The connector's inbox: leases, deferral and `trim_inbox`
  (`local_connector.rs:863-927`, `state.rs:175`).
- The profile cache and profile succession (`profile.rs`).
- Join requests awaiting approval and agent statuses in the connector;
  `room_connector` and `room_host` meet in the rules they share, not in one model:
  their product is beyond exhaustive checking.
- Schema validation, tool catalog, views, search, HTTP requests, error values,
  the protocol texts and vectors: pure functions or data.
- The TypeScript and Python packages port the same rules.

## 9. Plan

Built in this order: live writes with their proofs, the relay, the mail ends,
the knowledge service and its consumer, card publishing, rooms in the connector,
delegation, the room host with its archive and history, sending and fetching.

Models to come: the inbox with its leases; several devices with one signer.
