------------------------------- MODULE LiveWrite -------------------------------
(***************************************************************************)
(* A service that accepts live signed writes with the checks of            *)
(* identity.rs, in one of the two ways the crate offers:                   *)
(*                                                                         *)
(*   without durable history it admits with verify_live_envelope: only the *)
(*   time window and the in-memory nonce cache stand between a captured    *)
(*   envelope and a second acceptance;                                     *)
(*                                                                         *)
(*   with durable history it admits with verify_submission, which asks the *)
(*   store of accepted hashes first, and may restart and lose the cache.   *)
(*                                                                         *)
(* Signatures and hashes are abstracted: an envelope is the record of the  *)
(* fields the checks read plus a body that tells two events of one nonce   *)
(* apart, and every envelope may be submitted at any time any number of    *)
(* times (retries, duplicates, reordering, replays).                       *)
(***************************************************************************)
EXTENDS LiveWriteRules, Sequences

CONSTANTS
    Actors,   \* agent identities
    Bodies,   \* event contents
    MaxTime,      \* bound on the clock and on signed created_at values
    MaxRestarts   \* bound on the restarts of a service

ASSUME MaxTimeAssumption == MaxTime \in Nat
ASSUME MaxRestartsAssumption == MaxRestarts \in Nat

VARIABLES
    durable,   \* the service keeps a durable history of accepted writes
    restarts,  \* how often it restarted
    now,       \* its clock
    records,   \* MemoryNonceStore.records
    log        \* accepted writes in the order of acceptance

vars == <<durable, restarts, now, records, log>>

Envelope == [actor : Actors, nonce : 0..(MAX_SAFE_NONCE + 1),
             created_at : 0..MaxTime, body : Bodies]

AcceptedWrite == [envelope : Envelope, accepted_at : 0..MaxTime]

TypeOK ==
    /\ durable \in BOOLEAN
    /\ restarts \in 0..MaxRestarts
    /\ now \in 0..MaxTime
    /\ records \in [Actors -> NonceRecord]
    /\ log \in Seq(AcceptedWrite)

Init ==
    /\ durable \in BOOLEAN
    /\ restarts = 0
    /\ now = 0
    /\ records = [a \in Actors |-> NoRecord]
    /\ log = <<>>

Tick ==
    /\ now < MaxTime
    /\ now' = now + 1
    /\ UNCHANGED <<durable, restarts, records, log>>

is_accepted(e) == \E i \in DOMAIN log : log[i].envelope = e

LiveChecks(e) ==
    /\ verify_timestamp(e.created_at, now, DEFAULT_LIVE_WRITE_WINDOW_MS)
    /\ NonceAllowed(records[e.actor], e.nonce, now)

Admit(e) ==
    /\ records' = [records EXCEPT ![e.actor] =
                      UpdatedRecord(e.nonce, now, DEFAULT_NONCE_TTL_MS)]
    /\ log' = Append(log, [envelope |-> e, accepted_at |-> now])
    /\ UNCHANGED <<durable, restarts, now>>

(* A refused write changes nothing, so it is a stuttering step. *)
VerifyLiveEnvelope(e) ==
    /\ ~ durable
    /\ LiveChecks(e)
    /\ Admit(e)

SubmissionResult_ChecksFirst(e) ==  \* fault: window and nonce before history
    IF ~ LiveChecks(e) THEN "refused"
    ELSE IF is_accepted(e) THEN "Resubmission"
    ELSE "Accepted"

SubmissionResult(e) ==
    IF is_accepted(e) THEN "Resubmission"
    ELSE IF LiveChecks(e) THEN "Accepted"
    ELSE "refused"

VerifySubmission(e) ==
    /\ durable
    /\ SubmissionResult(e) = "Accepted"
    /\ Admit(e)

(* The nonce cache lives in memory; what was accepted is durable.  A       *)
(* service without durable history must outlive its windows: its restarts  *)
(* are a deployment error the crate cannot repair, and are not modelled.   *)
Restart ==
    /\ durable
    /\ restarts < MaxRestarts
    /\ restarts' = restarts + 1
    /\ records' = [a \in Actors |-> NoRecord]
    /\ UNCHANGED <<durable, now, log>>

Next ==
    \/ Tick
    \/ Restart
    \/ \E e \in Envelope : VerifyLiveEnvelope(e)
    \/ \E e \in Envelope : VerifySubmission(e)

Spec == Init /\ [][Next]_vars
-----------------------------------------------------------------------------
(***************************************************************************)
(* No envelope is accepted twice.  Without durable history nothing          *)
(* remembers an envelope: this rests on the cache outliving the last       *)
(* moment at which the envelope is inside the time window, both ends       *)
(* included.  With it, restarts and expired records change nothing.        *)
(***************************************************************************)
AcceptedOnce ==
    \A i, j \in DOMAIN log : log[i].envelope = log[j].envelope => i = j

(***************************************************************************)
(* Two writes of one actor accepted less than a cache lifetime apart were  *)
(* accepted in the order of their nonces, whatever was accepted between    *)
(* them, so check_and_update orders an actor's writes until a restart.     *)
(***************************************************************************)
AcceptedInNonceOrder ==
    restarts = 0 =>
    \A i, j \in DOMAIN log :
        ( /\ i < j
          /\ log[i].envelope.actor = log[j].envelope.actor
          /\ log[j].accepted_at <= log[i].accepted_at + DEFAULT_NONCE_TTL_MS )
        => log[i].envelope.nonce < log[j].envelope.nonce

(***************************************************************************)
(* A client that lost the answer may retry for ever: whatever happens      *)
(* after an envelope was accepted (its time window closes, higher nonces   *)
(* are accepted, the service restarts), it is answered as a resubmission.  *)
(***************************************************************************)
AcceptedStaysAnswered ==
    [][durable =>
          \A i \in DOMAIN log : SubmissionResult(log[i].envelope)' = "Resubmission"]_vars

(***************************************************************************)
(* The inductive invariant behind the two live-write properties: as long   *)
(* as an accepted write may still be replayed, its actor's record is alive *)
(* and at least as high, until a restart empties the cache.                *)
(***************************************************************************)
ReplayCovered ==
    restarts = 0 =>
    \A i \in DOMAIN log :
        LET e == log[i].envelope
            at == log[i].accepted_at
            r == records[e.actor]
        IN  /\ at <= now
            /\ verify_timestamp(e.created_at, at, DEFAULT_LIVE_WRITE_WINDOW_MS)
            /\ r.expires_at >= at + DEFAULT_NONCE_TTL_MS
            /\ now <= at + DEFAULT_NONCE_TTL_MS => e.nonce <= r.max_nonce
=============================================================================
