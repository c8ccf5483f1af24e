------------------------------ MODULE MailDelivery ------------------------------
(***************************************************************************)
(* What a mail relay promises a sender and an owner, whatever cards,       *)
(* quotas and restarts do inside it: every packet is new, then held, then  *)
(* gone, never goes back, is only taken in before its expiry and, before   *)
(* its expiry, only given up one at a time by its owner.                   *)
(***************************************************************************)
EXTENDS Integers

CONSTANTS Packets, MaxTime

VARIABLES now, status

Expired(p) == now >= p.expires_at

ExpiredHeld == {p \in Packets : status[p] = "held" /\ Expired(p)}

Init ==
    /\ now = 0
    /\ status = [p \in Packets |-> "new"]

(* A packet nobody delivered in time lapses. *)
Tick ==
    /\ now < MaxTime
    /\ now' = now + 1
    /\ status' = [p \in Packets |->
                     IF status[p] = "new" /\ now' >= p.expires_at
                     THEN "gone" ELSE status[p]]

(* Taking a packet in may throw expired ones out. *)
Accept(p) ==
    /\ status[p] = "new"
    /\ ~ Expired(p)
    /\ \E out \in SUBSET ExpiredHeld :
          status' = [q \in Packets |->
                        IF q = p THEN "held"
                        ELSE IF q \in out THEN "gone" ELSE status[q]]
    /\ UNCHANGED now

Release(p) ==
    /\ status[p] = "held"
    /\ status' = [status EXCEPT ![p] = "gone"]
    /\ UNCHANGED now

DropExpired ==
    /\ \E out \in SUBSET ExpiredHeld :
          status' = [q \in Packets |-> IF q \in out THEN "gone" ELSE status[q]]
    /\ UNCHANGED now

Next ==
    \/ Tick
    \/ DropExpired
    \/ \E p \in Packets : Accept(p) \/ Release(p)

Spec == Init /\ [][Next]_<<now, status>>
=============================================================================
