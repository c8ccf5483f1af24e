---------------------------- MODULE DelegationRules ----------------------------
(***************************************************************************)
(* The pure rules of Agent Delegation (delegation.rs): when a controller   *)
(* key of a principal may grant, replace and revoke a credential, how the  *)
(* credential follows from the accepted events, and what a relying party   *)
(* and an auditor conclude from what they have read.                       *)
(*                                                                         *)
(* One principal and one credential id are modelled; the credentials of a  *)
(* principal do not influence each other.  Signatures are perfect: an      *)
(* event is a record of the fields the rules read, and the record itself   *)
(* stands for its hash.  An optional end of an interval that is absent is  *)
(* Never, later than every clock, and an absent not_before is 0.           *)
(***************************************************************************)
EXTENDS LiveWriteRules, Sequences, SequencesExt

CONSTANTS
    Keys,        \* the controller keys of the principal
    delegation,  \* [Keys -> {NoAuthority, Unrestricted} or a set of permissions]
    Grants,      \* the bodies of grants
    Never,       \* "no such time"
    MAX_STATUS_AGE_MS,
    STATUS_CLOCK_SKEW_MS,
    NoAuthority, Unrestricted,
    NoCredential,
    Refused

ASSUME DelegationAssumption ==
    /\ Never \in Nat /\ MAX_STATUS_AGE_MS \in Nat /\ STATUS_CLOCK_SKEW_MS \in Nat
    /\ \A g \in Grants : g.permissions # {} /\ {g.not_before, g.expires_at} \subseteq 0..Never
-----------------------------------------------------------------------------
(* Principal documents *)

(* A controller record: where it is listed, and its authority interval.    *)
(* The permissions of a key never change once published.                   *)
Controller == [listed : {"no", "current", "retired"}, valid_from : 0..Never,
               retired_at : 0..Never, invalid_from : 0..Never]

Document == [controllers : [Keys -> Controller], updated_at : 0..Never]

Unlisted == [listed |-> "no", valid_from |-> Never, retired_at |-> Never,
             invalid_from |-> Never]

validate_controller(c) ==
    CASE c.listed = "retired" ->
            /\ c.retired_at \in c.valid_from..(Never - 1)
            /\ c.invalid_from = Never \/ c.invalid_from \in c.valid_from..c.retired_at
      [] c.listed = "current" -> c.retired_at = Never /\ c.invalid_from = Never
      [] OTHER -> TRUE

validate_principal_document(doc) ==
    \A k \in Keys :
        LET c == doc.controllers[k]
        IN  /\ validate_controller(c)
            /\ c.listed # "no" => c.valid_from <= doc.updated_at
            /\ c.listed = "retired" => c.retired_at <= doc.updated_at

(* Every scope and audience is within the key's ceiling.  Both match by    *)
(* equality and their names differ, so one set holds them all.             *)
within_ceiling(k, permissions) ==
    CASE delegation[k] = NoAuthority -> FALSE
      [] delegation[k] = Unrestricted -> TRUE
      [] OTHER -> permissions \subseteq delegation[k]

(* created_at and accepted_at both lie inside the authority interval.      *)
InsideInterval(c, t) == c.valid_from <= t /\ t < c.retired_at /\ t < c.invalid_from

Authorized(doc, e, accepted_at) ==
    \A t \in {e.created_at, accepted_at} : InsideInterval(doc.controllers[e.actor], t)
-----------------------------------------------------------------------------
(* Accepting events *)

(* A revocation names the credential and nothing of its content.           *)
Event(times) ==
    [kind : {"grant"}, actor : Keys, created_at : times, grant : Grants]
    \cup [kind : {"revoke"}, actor : Keys, created_at : times]

(* grant is what the latest grant says and grant_event_id the hash of that *)
(* grant; controller and event_id are of the latest event, a revocation    *)
(* included.                                                               *)
Credential == [grant : Grants, status : {"active", "suspended", "expired", "revoked"},
               controller : Keys, grant_event_id : Event(0..Never), event_id : Event(0..Never),
               accepted_at : 0..Never, checked_at : 0..Never]

ASSUME CredentialAssumption ==
    NoCredential # Refused /\ NoCredential \notin Credential /\ Refused \notin Credential

validate_delegation_grant_payload(g, created_at) ==
    g.expires_at > g.not_before /\ g.expires_at > created_at

check_previous(e, previous) ==
    IF previous = NoCredential
    THEN e.kind = "grant"
    ELSE e.kind = "grant" => e.grant.subject = previous.grant.subject

check_authority(e, doc, accepted_at, previous, historical) ==
    LET c == doc.controllers[e.actor]
    IN  /\ validate_principal_document(doc)
        /\ e.kind = "grant" => validate_delegation_grant_payload(e.grant, e.created_at)
        /\ c.listed = "current" \/ (historical /\ c.listed = "retired")
        /\ delegation[e.actor] # NoAuthority
        /\ Authorized(doc, e, accepted_at)
        /\ check_previous(e, previous)
        /\ previous # NoCredential =>
              /\ accepted_at >= previous.accepted_at
              /\ within_ceiling(e.actor, previous.grant.permissions)
        /\ e.kind = "grant" =>
              /\ e.grant.expires_at > accepted_at
              /\ within_ceiling(e.actor, e.grant.permissions)

(* The credential after the event.                                         *)
Materialized_Revoker(e, status, accepted_at, previous) ==  \* fault: as if granted anew
    IF e.kind = "revoke"
    THEN [previous EXCEPT !.controller = e.actor, !.status = "revoked",
                          !.event_id = e, !.grant_event_id = e,
                          !.accepted_at = accepted_at, !.checked_at = accepted_at]
    ELSE [grant |-> e.grant, status |-> status, controller |-> e.actor,
          grant_event_id |-> e, event_id |-> e,
          accepted_at |-> accepted_at, checked_at |-> accepted_at]

Materialized(e, status, accepted_at, previous) ==
    IF e.kind = "revoke"
    THEN [previous EXCEPT !.controller = e.actor, !.status = "revoked",
                          !.event_id = e,
                          !.accepted_at = accepted_at, !.checked_at = accepted_at]
    ELSE [grant |-> e.grant, status |-> status, controller |-> e.actor,
          grant_event_id |-> e, event_id |-> e,
          accepted_at |-> accepted_at, checked_at |-> accepted_at]

materialize_delegation_credential(e, status, accepted_at, previous) ==
    IF /\ check_previous(e, previous)
       /\ previous # NoCredential => accepted_at >= previous.accepted_at
       /\ e.kind = "grant" => e.grant.expires_at > accepted_at
    THEN Materialized(e, status, accepted_at, previous)
    ELSE Refused
-----------------------------------------------------------------------------
(* Relying on a credential *)

validate_status_freshness(credential, now) ==
    /\ credential.accepted_at <= credential.checked_at
    /\ credential.checked_at <= now + STATUS_CLOCK_SKEW_MS
    /\ now - credential.checked_at <= MAX_STATUS_AGE_MS

validate_delegation_use(credential, audience, now) ==
    /\ validate_status_freshness(credential, now)
    /\ credential.grant.not_before < credential.grant.expires_at
    /\ credential.status = "active"
    /\ audience \in credential.grant.permissions
    /\ credential.grant.not_before <= now /\ now < credential.grant.expires_at

(* The record of the latest grant is authorized and agrees with the        *)
(* credential.                                                             *)
latest_grant_matches(credential, records, doc) ==
    \E i \in DOMAIN records :
        LET r == records[i]
        IN  /\ r.event = credential.grant_event_id
            /\ check_authority(r.event, doc, r.accepted_at, NoCredential, TRUE)
            /\ r.event.kind = "grant"
            /\ r.event.grant = credential.grant
            /\ IF credential.event_id = credential.grant_event_id
               THEN /\ credential.accepted_at = r.accepted_at
                    /\ credential.controller = r.event.actor
                    /\ credential.status # "revoked"
               ELSE credential.status = "revoked"

(* The history supplied with the credential holds something newer.         *)
ConflictsWithHistory_Time(credential, records) ==  \* fault: ties are forgiven
    \E i \in DOMAIN records :
        /\ records[i].event # credential.event_id
        /\ records[i].accepted_at > credential.accepted_at

ConflictsWithHistory(credential, records) ==
    \E i \in DOMAIN records :
        /\ records[i].event # credential.event_id
        /\ \/ records[i].accepted_at > credential.accepted_at
           \/ \E at \in 1..(i - 1) : records[at].event = credential.event_id

verify_delegation_credential(credential, records, doc, audience, now) ==
    LET verified == latest_grant_matches(credential, records, doc)
    IN  [verified |-> verified,
         usable |-> /\ verified
                    /\ validate_status_freshness(credential, now)
                    /\ ~ ConflictsWithHistory(credential, records)
                    /\ credential.status = "active"
                    /\ audience \in credential.grant.permissions
                    /\ credential.grant.not_before <= now
                    /\ now < credential.grant.expires_at]

(* Every record is authorized under the credential replayed so far.        *)
Replayed(records, doc) ==
    FoldLeft(LAMBDA previous, r :
                IF /\ previous # Refused
                   /\ check_authority(r.event, doc, r.accepted_at, previous, TRUE)
                THEN materialize_delegation_credential(r.event, "active",
                                                       r.accepted_at, previous)
                ELSE Refused,
             NoCredential, records)

audit_delegation_history_Status(credential, records, doc) ==  \* fault: the status replayed
    LET r == Replayed(records, doc)
    IN  /\ records # <<>> /\ r # Refused
        /\ r.grant = credential.grant
        /\ r.event_id = credential.event_id
        /\ r.grant_event_id = credential.grant_event_id
        /\ r.controller = credential.controller
        /\ r.status = credential.status

audit_delegation_history(credential, records, doc) ==
    LET r == Replayed(records, doc)
    IN  /\ records # <<>> /\ r # Refused
        /\ r.grant = credential.grant
        /\ r.accepted_at = credential.accepted_at
        /\ r.event_id = credential.event_id
        /\ r.grant_event_id = credential.grant_event_id
        /\ r.controller = credential.controller
        /\ (r.status = "revoked") = (credential.status = "revoked")
=============================================================================
