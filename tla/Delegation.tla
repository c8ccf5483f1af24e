------------------------------- MODULE Delegation -------------------------------
(***************************************************************************)
(* A credential from its grant to its use: the host of a principal that    *)
(* registers and retires controller keys, the delegation service that      *)
(* accepts grants and revocations against a copy of the principal document *)
(* that may be some time old, and a connector that checks the credential   *)
(* by reading the document, the credential and its history one after the   *)
(* other, and decides by a clock of its own.                               *)
(*                                                                         *)
(* Host and service are not part of the repository; they are held to the   *)
(* rules delegation.rs gives them.                                         *)
(***************************************************************************)
EXTENDS DelegationRules

CONSTANTS
    ConnectorKeys,   \* keys that sign through a connector; of the others
                     \* anybody may hold a copy, and they sign anything
    InitialKeys,     \* keys registered from the start
    RetiredKeys,     \* keys the host retires at some time
    audience,        \* the relying party's own
    MAX_DOCUMENT_AGE_MS,  \* how old the service's copy of the document may be
    MaxTime, MaxAccepted  \* bounds on the clock and on the accepted events

ASSUME DelegationBounds ==
    /\ MaxTime \in Nat /\ MaxAccepted \in Nat /\ MAX_DOCUMENT_AGE_MS \in Nat
    /\ MaxTime + STATUS_CLOCK_SKEW_MS < Never /\ ConnectorKeys \subseteq Keys /\ RetiredKeys \subseteq Keys
    /\ InitialKeys \subseteq Keys

VARIABLES
    now,         \* the clock of host and service
    doc,         \* the principal document at its canonical URL
    records,     \* the accepted records, in acceptance order
    credential,  \* what the service has materialized from them
    check        \* the delegation_check in progress

delegation_vars == <<now, doc, records, credential, check>>

NoCheck == [step |-> "none"]

DelegationInit ==
    /\ now = 0
    /\ doc = [controllers |->
                 [k \in Keys |-> IF k \in InitialKeys
                                 THEN [Unlisted EXCEPT !.listed = "current", !.valid_from = 0]
                                 ELSE Unlisted],
              updated_at |-> 0]
    /\ records = <<>>
    /\ credential = NoCredential
    /\ check = NoCheck

Tick ==
    /\ now < MaxTime
    /\ now' = now + 1
    /\ UNCHANGED <<doc, records, credential, check>>
-----------------------------------------------------------------------------
(* The principal's host *)

Publish(k, c) ==
    /\ doc' = [controllers |-> [doc.controllers EXCEPT ![k] = c], updated_at |-> now]
    /\ UNCHANGED <<now, records, credential, check>>

Register(k) ==
    /\ doc.controllers[k].listed = "no"
    /\ Publish(k, [Unlisted EXCEPT !.listed = "current", !.valid_from = now])

Retire(k) ==
    /\ k \in RetiredKeys
    /\ doc.controllers[k].listed = "current"
    /\ Publish(k, [doc.controllers[k] EXCEPT !.listed = "retired", !.retired_at = now])

(* A compromise found later: invalid_from appears or moves earlier.        *)
Compromise(k, t) ==
    LET c == doc.controllers[k]
    IN  /\ c.listed = "retired"
        /\ t \in c.valid_from..c.retired_at /\ t < c.invalid_from
        /\ Publish(k, [c EXCEPT !.invalid_from = t])
-----------------------------------------------------------------------------
(* The authoritative delegation service *)

is_accepted(e) == \E i \in DOMAIN records : records[i].event = e

(* The document as a copy fetched at time t has it, before what the host   *)
(* published later; t = now is a fresh read.                               *)
ControllerAt(c, t) ==
    IF c.valid_from > t THEN Unlisted
    ELSE IF c.retired_at # Never /\ c.retired_at >= t
    THEN [Unlisted EXCEPT !.listed = "current", !.valid_from = c.valid_from]
    ELSE c

DocumentAt(t) ==
    IF t = now THEN doc
    ELSE [controllers |-> [k \in Keys |-> ControllerAt(doc.controllers[k], t)],
          updated_at |-> t]

FetchTimes == {t \in 0..now : now <= t + MAX_DOCUMENT_AGE_MS}

(* An exact resubmission is answered and changes nothing; anything else    *)
(* must be live and authorized by a copy of the document that is not old.  *)
Accept(e) ==
    /\ Len(records) < MaxAccepted
    /\ ~ is_accepted(e)
    /\ verify_timestamp(e.created_at, now, DEFAULT_LIVE_WRITE_WINDOW_MS)
    /\ \E t \in FetchTimes : check_authority(e, DocumentAt(t), now, credential, FALSE)
    /\ credential' = materialize_delegation_credential(e, "active", now, credential)
    /\ credential' # Refused
    /\ records' = Append(records, [event |-> e, accepted_at |-> now])
    /\ UNCHANGED <<now, doc, check>>

(* The provider suspends a credential and lifts the suspension.            *)
SetStatus(from, to) ==
    /\ credential # NoCredential /\ credential.status = from
    /\ credential' = [credential EXCEPT !.status = to]
    /\ UNCHANGED <<now, doc, records, check>>

(* What a read returns: expiry is computed, and never hides a revocation.  *)
CredentialView ==
    [credential EXCEPT
        !.checked_at = now,
        !.status = IF @ # "revoked" /\ credential.grant.expires_at <= now
                   THEN "expired" ELSE @]
-----------------------------------------------------------------------------
(* Who signs *)

(* A connector reads the document and the credential, and signs only what  *)
(* they allow.  Its reads and its request are one step here: a request     *)
(* that comes late, after the document or the history moved on, is one of  *)
(* OtherSubmits, of a key that signs without looking.                      *)
SubmitSigned(e) ==
    /\ e.actor \in ConnectorKeys /\ e.created_at = now
    /\ doc.controllers[e.actor].listed = "current"
    /\ delegation[e.actor] # NoAuthority
    /\ check_authority(e, doc, now, credential, FALSE)
    /\ Accept(e)

OtherSubmits(e) ==
    /\ e.actor \notin ConnectorKeys
    /\ Accept(e)
-----------------------------------------------------------------------------
(* The relying party: delegation_check *)

ResolvePrincipal ==
    /\ check = NoCheck
    /\ validate_principal_document(doc)
    /\ check' = [step |-> "query", doc |-> doc]
    /\ UNCHANGED <<now, doc, records, credential>>

QueryDelegations ==
    /\ check.step = "query"
    /\ credential # NoCredential
    /\ check' = [step |-> "events", doc |-> check.doc, credential |-> CredentialView]
    /\ UNCHANGED <<now, doc, records, credential>>

(* The verdict if every page of the history is read now and the relying    *)
(* party's clock then shows the given time.                                *)
Verdict(clock) ==
    verify_delegation_credential(check.credential, records, check.doc, audience, clock)

(* The verdict, or that the history is not available, goes to the agent.   *)
AllDelegationEvents ==
    /\ check.step = "events"
    /\ check' = NoCheck
    /\ UNCHANGED <<now, doc, records, credential>>

DelegationNext ==
    \/ Tick
    \/ \E k \in Keys : Register(k) \/ Retire(k)
    \/ \E k \in Keys, t \in 0..MaxTime : Compromise(k, t)
    \/ \E e \in Event(0..now) : SubmitSigned(e) \/ OtherSubmits(e)
    \/ SetStatus("active", "suspended") \/ SetStatus("suspended", "active")
    \/ ResolvePrincipal \/ QueryDelegations
    \/ AllDelegationEvents

DelegationSpec == DelegationInit /\ [][DelegationNext]_delegation_vars
-----------------------------------------------------------------------------
(***************************************************************************)
(* A credential is reported usable only if no grant or revocation that the *)
(* service accepted by the time its history was read came after the one    *)
(* the credential shows, although document, credential and history are     *)
(* three reads and events may share a time; and the check of a single use  *)
(* then agrees, whatever allowed skew the relying party's clock has.       *)
(***************************************************************************)
UsableIsLatest ==
    check.step = "events" =>
        \A clock \in now..(now + STATUS_CLOCK_SKEW_MS) :
            Verdict(clock).usable =>
                /\ Last(records).event = check.credential.event_id
                /\ validate_delegation_use(check.credential, audience, clock)

(***************************************************************************)
(* The signatures of a credential verify exactly when its latest grant was *)
(* created and accepted while its key was valid, as the document read      *)
(* tells: retirement, replacement and revocation by another key do not     *)
(* unmake a grant, a compromise that reaches back does.                    *)
(***************************************************************************)
VerdictExact ==
    check.step = "events" =>
        LET g == check.credential.grant_event_id
            i == CHOOSE i \in DOMAIN records : records[i].event = g
        IN  Verdict(now).verified <=> Authorized(check.doc, g, records[i].accepted_at)

(***************************************************************************)
(* An auditor's replay of everything the service accepted reproduces the   *)
(* credential, unless an event lies outside its key's interval in today's  *)
(* document; then it is refused.                                           *)
(***************************************************************************)
AuditExact ==
    credential # NoCredential =>
        ( audit_delegation_history(credential, records, doc)
          <=> \A i \in DOMAIN records :
                  Authorized(doc, records[i].event, records[i].accepted_at) )
=============================================================================
