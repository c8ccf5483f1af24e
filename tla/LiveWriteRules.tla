---------------------------- MODULE LiveWriteRules ----------------------------
(***************************************************************************)
(* The pure rules of Agent Identity for live signed writes: the time       *)
(* window, nonce ranges and the nonce cache of a service.  They carry no   *)
(* state of their own; LiveWrite, MailRelay and the connector modules      *)
(* apply them to theirs.                                                   *)
(***************************************************************************)
EXTENDS Integers

CONSTANTS
    DEFAULT_LIVE_WRITE_WINDOW_MS,  \* |created_at - now| a live write may have
    MAX_SAFE_NONCE                 \* the largest nonce of the wire format

ASSUME WindowAssumption == DEFAULT_LIVE_WRITE_WINDOW_MS \in Nat
ASSUME NonceAssumption == MAX_SAFE_NONCE \in Nat \ {0}

(***************************************************************************)
(* How long a nonce record is remembered after it is written.              *)
(***************************************************************************)
DEFAULT_NONCE_TTL_MS == 2 * DEFAULT_LIVE_WRITE_WINDOW_MS

validate_nonce_Above(nonce) == nonce \in 1..(MAX_SAFE_NONCE + 1)  \* fault: off by one

validate_nonce(nonce) == nonce \in 1..MAX_SAFE_NONCE

verify_timestamp(created_at, now, window) ==
    created_at - now \in (-window)..window

(***************************************************************************)
(* A MemoryNonceStore entry.  max_nonce = 0 stands for "no record": no     *)
(* write carries nonce 0, so the absent record refuses nothing.            *)
(***************************************************************************)
NonceRecord == [max_nonce : 0..MAX_SAFE_NONCE, expires_at : Nat]

NoRecord == [max_nonce |-> 0, expires_at |-> 0]

(***************************************************************************)
(* check_and_update refuses a nonce while an unexpired record carries one  *)
(* at least as high, and otherwise overwrites the record, so that the      *)
(* remembered maximum goes down when an expired record is replaced.        *)
(***************************************************************************)
NonceAllowed_ExpiresEarly(record, nonce, now) ==  \* fault: > for >=
    /\ validate_nonce(nonce)
    /\ ~ (record.expires_at > now /\ nonce <= record.max_nonce)

NonceAllowed_SameNonce(record, nonce, now) ==  \* fault: < for <=
    /\ validate_nonce(nonce)
    /\ ~ (record.expires_at >= now /\ nonce < record.max_nonce)

NonceAllowed(record, nonce, now) ==
    /\ validate_nonce(nonce)
    /\ ~ (record.expires_at >= now /\ nonce <= record.max_nonce)

UpdatedRecord_Window(nonce, now, ttl) ==  \* fault: half the lifetime
    [max_nonce |-> nonce, expires_at |-> now + ttl \div 2]

UpdatedRecord(nonce, now, ttl) ==
    [max_nonce |-> nonce, expires_at |-> now + ttl]
=============================================================================
