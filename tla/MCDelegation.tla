------------------------------ MODULE MCDelegation ------------------------------
(***************************************************************************)
(* An unrestricted key that is retired or compromised, and a key that may  *)
(* only grant reading to the app; a grant within the ceiling and one       *)
(* beyond it.                                                              *)
(***************************************************************************)
EXTENDS Delegation

Grant(subject, permissions, not_before, expires_at) ==
    [subject |-> subject, permissions |-> permissions,
     not_before |-> not_before, expires_at |-> expires_at]

MCdelegation ==
    [k \in Keys |-> IF k = "full" THEN Unrestricted ELSE {"read", "app"}]

MCGrants ==
    {Grant("bob", {"read", "app"}, 0, Never),
     Grant("bob", {"read", "write", "app"}, 0, 2)}
=============================================================================
