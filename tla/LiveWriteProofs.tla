---------------------------- MODULE LiveWriteProofs ----------------------------
(***************************************************************************)
(* The live-write rules admit no replay, for every window, clock bound,    *)
(* set of actors and set of events.                                        *)
(***************************************************************************)
EXTENDS LiveWrite, TLAPS

USE WindowAssumption, NonceAssumption, MaxTimeAssumption, MaxRestartsAssumption

(* A write is accepted, by either service, only if it passes the live      *)
(* checks and, with durable history, was not accepted before.              *)
Accepts(e) == VerifyLiveEnvelope(e) \/ VerifySubmission(e)

(* An accepted write passed the live checks, its nonce was admitted, and   *)
(* with durable history it was not accepted before.                        *)
LEMMA AcceptsNew ==
  ASSUME NEW e \in Envelope, Accepts(e)
  PROVE  LiveChecks(e) /\ Admit(e) /\ (durable => ~ is_accepted(e))
<1>1. CASE VerifyLiveEnvelope(e)
  BY <1>1 DEF VerifyLiveEnvelope
<1>2. CASE VerifySubmission(e)
  BY <1>2 DEF VerifySubmission, SubmissionResult
<1> QED
  BY <1>1, <1>2 DEF Accepts

(* Only a service with durable history has been restarted. *)
RestartedIsDurable == restarts = 0 \/ durable

(* A service that has been restarted keeps its history durably.            *)
LEMMA RestartsKeepHistory == Spec => []RestartedIsDurable
<1>1. Init => RestartedIsDurable
  BY DEF Init, RestartedIsDurable
<1>2. RestartedIsDurable /\ [Next]_vars => RestartedIsDurable'
  <2> SUFFICES ASSUME RestartedIsDurable, [Next]_vars PROVE RestartedIsDurable'
    OBVIOUS
  <2> USE DEF RestartedIsDurable
  <2>1. CASE Tick
    BY <2>1 DEF Tick
  <2>2. CASE Restart
    BY <2>2 DEF Restart
  <2>3. ASSUME NEW e \in Envelope, Accepts(e) PROVE RestartedIsDurable'
    BY <2>3, AcceptsNew DEF Admit
  <2>4. CASE UNCHANGED vars
    BY <2>4 DEF vars
  <2> QED
    BY <2>1, <2>2, <2>3, <2>4 DEF Next, Accepts
<1> QED
  BY <1>1, <1>2, PTL DEF Spec

(* The state of either service has its type: accepted writes carry nonces  *)
(* of the wire format, and a cache entry never one beyond it.              *)
THEOREM LiveTyping == Spec => []TypeOK
<1>1. Init => TypeOK
  BY DEF Init, TypeOK, NonceRecord, NoRecord
<1>2. TypeOK /\ [Next]_vars => TypeOK'
  <2> SUFFICES ASSUME TypeOK, [Next]_vars PROVE TypeOK'
    OBVIOUS
  <2> USE DEF TypeOK
  <2>1. CASE Tick
    BY <2>1 DEF Tick
  <2>4. CASE Restart
    BY <2>4 DEF Restart, NonceRecord, NoRecord
  <2>2. ASSUME NEW e \in Envelope, Accepts(e) PROVE TypeOK'
    <3>0. LiveChecks(e) /\ Admit(e)
      BY <2>2, AcceptsNew
    <3>1. UpdatedRecord(e.nonce, now, DEFAULT_NONCE_TTL_MS) \in NonceRecord
      BY <3>0 DEF LiveChecks, NonceAllowed, validate_nonce,
                  UpdatedRecord, NonceRecord, DEFAULT_NONCE_TTL_MS
    <3>2. [envelope |-> e, accepted_at |-> now] \in AcceptedWrite
      BY DEF AcceptedWrite
    <3>3. records' \in [Actors -> NonceRecord]
      BY <3>0, <3>1 DEF Admit
    <3>4. log' \in Seq(AcceptedWrite)
      BY <3>0, <3>2 DEF Admit
    <3> QED
      BY <3>0, <3>3, <3>4 DEF Admit
  <2>3. CASE UNCHANGED vars
    BY <2>3 DEF vars
  <2> QED
    BY <2>1, <2>2, <2>3, <2>4 DEF Next, Accepts
<1> QED
  BY <1>1, <1>2, PTL DEF Spec

(* A write already accepted is refused by the live checks while its window *)
(* is open: either the clock left the window or the cache still holds a    *)
(* nonce at least as high.                                                 *)
LEMMA ReplayRefused ==
  ASSUME TypeOK, ReplayCovered, restarts = 0, NEW i \in DOMAIN log,
         LiveChecks(log[i].envelope)
  PROVE  FALSE
<1> DEFINE e == log[i].envelope
           at == log[i].accepted_at
           w  == DEFAULT_LIVE_WRITE_WINDOW_MS
<1>1. log[i] \in AcceptedWrite
  BY DEF TypeOK
<1>2. /\ e.created_at \in Nat /\ at \in Nat /\ now \in Nat
      /\ e.nonce \in Nat /\ e.actor \in Actors
  BY <1>1 DEF TypeOK, AcceptedWrite, Envelope
<1>3. records[e.actor].expires_at \in Nat /\ records[e.actor].max_nonce \in Nat
  BY <1>2 DEF TypeOK, NonceRecord
<1>4. e.created_at - now >= -w /\ e.created_at - at <= w
  BY DEF ReplayCovered, LiveChecks, verify_timestamp
<1>5. now <= at + DEFAULT_NONCE_TTL_MS
  BY <1>2, <1>4 DEF DEFAULT_NONCE_TTL_MS
<1>6. /\ records[e.actor].expires_at >= now
      /\ e.nonce <= records[e.actor].max_nonce
  BY <1>2, <1>3, <1>5 DEF ReplayCovered, DEFAULT_NONCE_TTL_MS
<1> QED
  BY <1>6 DEF LiveChecks, NonceAllowed

(* Every accepted write stays covered by its actor's record. *)
LEMMA ReplayStaysCovered ==
  ASSUME TypeOK, ReplayCovered, [Next]_vars
  PROVE  ReplayCovered'
<1>0. \A i \in DOMAIN log :
        /\ log[i] \in AcceptedWrite
        /\ log[i].accepted_at \in Nat
        /\ log[i].envelope \in Envelope
        /\ log[i].envelope.nonce \in Nat
        /\ log[i].envelope.actor \in Actors
  <2> TAKE i \in DOMAIN log
  <2>1. log[i] \in AcceptedWrite
    BY DEF TypeOK
  <2> QED
    BY <2>1 DEF AcceptedWrite, Envelope
<1>1. CASE Tick
  BY <1>1, <1>0, SMTT(60) DEF Tick, ReplayCovered, TypeOK, NonceRecord, DEFAULT_NONCE_TTL_MS
<1>4. CASE Restart
  BY <1>4 DEF Restart, ReplayCovered, TypeOK
<1>2. ASSUME NEW e \in Envelope, Accepts(e) PROVE ReplayCovered'
  <2> DEFINE new == UpdatedRecord(e.nonce, now, DEFAULT_NONCE_TTL_MS)
  <2>1. /\ log' = Append(log, [envelope |-> e, accepted_at |-> now])
        /\ records' = [records EXCEPT ![e.actor] = new]
        /\ now' = now
        /\ verify_timestamp(e.created_at, now, DEFAULT_LIVE_WRITE_WINDOW_MS)
        /\ ~ (records[e.actor].expires_at >= now
              /\ e.nonce <= records[e.actor].max_nonce)
    BY <1>2, AcceptsNew DEF LiveChecks, NonceAllowed, Admit
  <2>2. new.expires_at = now + DEFAULT_NONCE_TTL_MS /\ new.max_nonce = e.nonce
    BY DEF UpdatedRecord
  <2>3. /\ now \in Nat /\ e.nonce \in Nat /\ e.actor \in Actors
        /\ DEFAULT_NONCE_TTL_MS \in Nat
    BY DEF TypeOK, Envelope, DEFAULT_NONCE_TTL_MS
  <2>4. log \in Seq(AcceptedWrite) /\ records \in [Actors -> NonceRecord]
    BY DEF TypeOK
  <2> SUFFICES ASSUME restarts' = 0, NEW i \in DOMAIN log'
               PROVE  /\ log'[i].accepted_at <= now'
                      /\ verify_timestamp(log'[i].envelope.created_at,
                            log'[i].accepted_at, DEFAULT_LIVE_WRITE_WINDOW_MS)
                      /\ records'[log'[i].envelope.actor].expires_at
                            >= log'[i].accepted_at + DEFAULT_NONCE_TTL_MS
                      /\ now' <= log'[i].accepted_at + DEFAULT_NONCE_TTL_MS
                            => log'[i].envelope.nonce
                                 <= records'[log'[i].envelope.actor].max_nonce
    BY DEF ReplayCovered
  <2>7. restarts = 0
    BY <1>2, AcceptsNew DEF Admit
  <2>5. CASE i = Len(log) + 1
    <3>1. log'[i] = [envelope |-> e, accepted_at |-> now]
      BY <2>1, <2>4, <2>5
    <3>2. records'[e.actor] = new
      BY <2>1, <2>3, <2>4
    <3> QED
      BY <3>1, <3>2, <2>1, <2>2, <2>3
  <2>6. CASE i \in DOMAIN log
    <3>1. log'[i] = log[i]
      BY <2>1, <2>4, <2>6
    <3> DEFINE r == records[log[i].envelope.actor]
               at == log[i].accepted_at
    <3>2. /\ r \in NonceRecord
          /\ r.expires_at \in Nat /\ r.max_nonce \in Nat
          /\ at \in Nat /\ log[i].envelope.nonce \in Nat
      BY <1>0, <2>4, <2>6 DEF NonceRecord
    <3>3. /\ at <= now
          /\ verify_timestamp(log[i].envelope.created_at, at,
                              DEFAULT_LIVE_WRITE_WINDOW_MS)
          /\ r.expires_at >= at + DEFAULT_NONCE_TTL_MS
          /\ now <= at + DEFAULT_NONCE_TTL_MS
               => log[i].envelope.nonce <= r.max_nonce
      BY <2>6, <2>7 DEF ReplayCovered
    <3>4. CASE log[i].envelope.actor = e.actor
      <4>1. records'[log[i].envelope.actor] = new
        BY <3>4, <2>1, <2>3, <2>4
      <4>2. now <= at + DEFAULT_NONCE_TTL_MS => log[i].envelope.nonce <= e.nonce
        <5>1. ~ (r.expires_at >= now /\ e.nonce <= r.max_nonce)
          BY <3>4, <2>1
        <5> HIDE DEF r, at
        <5> QED
          BY <5>1, <3>2, <3>3, <2>3
      <4> QED
        BY <4>1, <4>2, <3>1, <3>2, <3>3, <2>1, <2>2, <2>3
    <3>5. CASE log[i].envelope.actor # e.actor
      <4>1. records'[log[i].envelope.actor] = r
        BY <3>5, <2>1, <2>4, <1>0, <2>6
      <4> QED
        BY <4>1, <3>1, <3>3, <2>1
    <3> QED
      BY <3>4, <3>5
  <2> QED
    BY <2>1, <2>4, <2>5, <2>6
<1>3. CASE UNCHANGED vars
  BY <1>3 DEF vars, ReplayCovered
<1> QED
  BY <1>1, <1>2, <1>3, <1>4 DEF Next, Accepts

(* Until a service restarts every replayable write is covered by its       *)
(* actor's nonce record.                                                   *)
THEOREM LiveReplayCovered == Spec => []ReplayCovered
<1>1. Init => ReplayCovered
  BY DEF Init, ReplayCovered
<1>2. TypeOK /\ ReplayCovered /\ [Next]_vars => ReplayCovered'
  BY ReplayStaysCovered
<1> QED
  BY <1>1, <1>2, LiveTyping, PTL DEF Spec

(* No live write is accepted twice: DEFAULT_NONCE_TTL_MS = 2 * window is   *)
(* enough for verify_live_envelope, boundaries included, and durable       *)
(* history is enough for verify_submission whatever the cache forgot.      *)
THEOREM LiveAcceptedOnce == Spec => []AcceptedOnce
<1>1. Init => AcceptedOnce
  BY DEF Init, AcceptedOnce
<1>2. TypeOK /\ ReplayCovered /\ RestartedIsDurable /\ AcceptedOnce /\ [Next]_vars
        => AcceptedOnce'
  <2> SUFFICES ASSUME TypeOK, ReplayCovered, RestartedIsDurable, AcceptedOnce,
                      [Next]_vars
               PROVE  AcceptedOnce'
    OBVIOUS
  <2>1. CASE Tick
    BY <2>1 DEF Tick, AcceptedOnce
  <2>4. CASE Restart
    BY <2>4 DEF Restart, AcceptedOnce
  <2>2. ASSUME NEW e \in Envelope, Accepts(e) PROVE AcceptedOnce'
    <3>1. \A i \in DOMAIN log : log[i].envelope # e
      <4>1. CASE durable
        BY <4>1, <2>2, AcceptsNew DEF is_accepted
      <4>2. CASE ~ durable
        BY <4>2, <2>2, AcceptsNew, ReplayRefused DEF RestartedIsDurable
      <4> QED
        BY <4>1, <4>2
    <3>2. log' = Append(log, [envelope |-> e, accepted_at |-> now])
      BY <2>2, AcceptsNew DEF Admit
    <3>3. log \in Seq(AcceptedWrite)
      BY DEF TypeOK
    <3>4. /\ DOMAIN log' = DOMAIN log \cup {Len(log) + 1}
          /\ \A i \in DOMAIN log : log'[i] = log[i]
          /\ log'[Len(log) + 1].envelope = e
      BY <3>2, <3>3
    <3> QED
      BY <3>1, <3>4 DEF AcceptedOnce
  <2>3. CASE UNCHANGED vars
    BY <2>3 DEF vars, AcceptedOnce
  <2> QED
    BY <2>1, <2>2, <2>3, <2>4 DEF Next, Accepts
<1> QED
  BY <1>1, <1>2, LiveTyping, LiveReplayCovered, RestartsKeepHistory, PTL DEF Spec

(* Within one cache lifetime an actor's writes are accepted in the order   *)
(* of their nonces.                                                        *)
THEOREM LiveNonceOrder == Spec => []AcceptedInNonceOrder
<1>1. Init => AcceptedInNonceOrder
  BY DEF Init, AcceptedInNonceOrder
<1>2. TypeOK /\ ReplayCovered /\ AcceptedInNonceOrder /\ [Next]_vars
        => AcceptedInNonceOrder'
  <2> SUFFICES ASSUME TypeOK, ReplayCovered, AcceptedInNonceOrder, [Next]_vars
               PROVE  AcceptedInNonceOrder'
    OBVIOUS
  <2>1. CASE Tick
    BY <2>1 DEF Tick, AcceptedInNonceOrder
  <2>4. CASE Restart
    BY <2>4 DEF Restart, AcceptedInNonceOrder, TypeOK
  <2>2. ASSUME NEW e \in Envelope, Accepts(e)
        PROVE  AcceptedInNonceOrder'
    <3>1. /\ log' = Append(log, [envelope |-> e, accepted_at |-> now])
          /\ ~ (records[e.actor].expires_at >= now
                /\ e.nonce <= records[e.actor].max_nonce)
      BY <2>2, AcceptsNew DEF LiveChecks, NonceAllowed, Admit
    <3>2. log \in Seq(AcceptedWrite)
      BY DEF TypeOK
    <3>3. /\ DOMAIN log = 1..Len(log)
          /\ DOMAIN log' = 1..(Len(log) + 1)
          /\ Len(log) \in Nat
          /\ \A i \in DOMAIN log : log'[i] = log[i]
          /\ log'[Len(log) + 1] = [envelope |-> e, accepted_at |-> now]
      BY <3>1, <3>2
    <3>4. ASSUME NEW i \in DOMAIN log,
                 restarts = 0, log[i].envelope.actor = e.actor,
                 now <= log[i].accepted_at + DEFAULT_NONCE_TTL_MS
          PROVE  log[i].envelope.nonce < e.nonce
      <4> DEFINE r == records[e.actor]
                 n == log[i].envelope.nonce
                 at == log[i].accepted_at
      <4>1. log[i] \in AcceptedWrite /\ r \in NonceRecord
        BY <3>2 DEF TypeOK, Envelope
      <4>2. /\ r.expires_at \in Nat /\ r.max_nonce \in Nat /\ at \in Nat
            /\ n \in Nat /\ e.nonce \in Nat /\ now \in Nat
            /\ DEFAULT_NONCE_TTL_MS \in Nat
        <5>1. r.expires_at \in Nat /\ r.max_nonce \in Nat
          BY <4>1 DEF NonceRecord
        <5>2. at \in Nat /\ n \in Nat
          BY <4>1 DEF AcceptedWrite, Envelope
        <5>3. e.nonce \in Nat /\ now \in Nat /\ DEFAULT_NONCE_TTL_MS \in Nat
          BY DEF Envelope, TypeOK, DEFAULT_NONCE_TTL_MS
        <5> QED
          BY <5>1, <5>2, <5>3
      <4>3. r.expires_at >= at + DEFAULT_NONCE_TTL_MS /\ n <= r.max_nonce
        BY <3>4 DEF ReplayCovered
      <4>4. now <= at + DEFAULT_NONCE_TTL_MS
        BY <3>4
      <4>5. ~ (r.expires_at >= now /\ e.nonce <= r.max_nonce)
        BY <3>1
      <4> HIDE DEF r, n, at
      <4>6. n < e.nonce
        BY <4>2, <4>3, <4>4, <4>5
      <4> QED
        BY <4>6 DEF n
    <3>7. restarts' = restarts
      BY <2>2, AcceptsNew DEF Admit
    <3> SUFFICES ASSUME restarts' = 0, NEW i \in DOMAIN log', NEW j \in DOMAIN log', i < j,
                        log'[i].envelope.actor = log'[j].envelope.actor,
                        log'[j].accepted_at
                          <= log'[i].accepted_at + DEFAULT_NONCE_TTL_MS
                 PROVE  log'[i].envelope.nonce < log'[j].envelope.nonce
      BY DEF AcceptedInNonceOrder
    <3>5. CASE j \in DOMAIN log
      BY <3>5, <3>3, <3>7 DEF AcceptedInNonceOrder
    <3>6. CASE j = Len(log) + 1
      <4>1. i \in DOMAIN log
        BY <3>6, <3>3
      <4> QED
        BY <4>1, <3>3, <3>4, <3>6, <3>7
    <3> QED
      BY <3>3, <3>5, <3>6
  <2>3. CASE UNCHANGED vars
    BY <2>3 DEF vars, AcceptedInNonceOrder
  <2> QED
    BY <2>1, <2>2, <2>3, <2>4 DEF Next, Accepts
<1> QED
  BY <1>1, <1>2, LiveTyping, LiveReplayCovered, PTL DEF Spec

(* A client that lost the answer may retry for ever: no step of a service  *)
(* with durable history, a restart included, turns the answer to an        *)
(* accepted envelope into another one (verify_submission).                 *)
THEOREM LiveStaysAnswered == Spec => AcceptedStaysAnswered
<1> DEFINE Answered ==
      durable => \A i \in DOMAIN log :
                    SubmissionResult(log[i].envelope)' = "Resubmission"
<1>1. TypeOK /\ [Next]_vars => Answered
  <2> SUFFICES ASSUME TypeOK, [Next]_vars, NEW i \in DOMAIN log
               PROVE  is_accepted(log[i].envelope)'
    BY DEF SubmissionResult
  <2>1. CASE log' = log
    BY <2>1 DEF is_accepted
  <2>2. ASSUME NEW e \in Envelope, Accepts(e)
        PROVE  is_accepted(log[i].envelope)'
    <3>1. log' = Append(log, [envelope |-> e, accepted_at |-> now])
      BY <2>2, AcceptsNew DEF Admit
    <3>2. log \in Seq(AcceptedWrite)
      BY DEF TypeOK
    <3>3. i \in DOMAIN log' /\ log'[i] = log[i]
      BY <3>1, <3>2
    <3> QED
      BY <3>3 DEF is_accepted
  <2> QED
    BY <2>1, <2>2 DEF Next, Accepts, Tick, Restart, vars
<1>2. Answered => [Answered]_vars
  OBVIOUS
<1> QED
  BY <1>1, LiveTyping, PTL DEF Spec, AcceptedStaysAnswered
=============================================================================
