------------------------------ MODULE MCGateway ------------------------------
(* Gateway for an administrator and a manager.  One slot is used for every     *)
(* operation, the other for the logins and deletions that go on meanwhile.     *)
EXTENDS Gateway, TLC

CONSTANTS ada, max, s1, s2

MCRoleOf == ada :> "ADMIN" @@ max :> "MANAGER"
MCSends  == s1 :> Ops @@ s2 :> {"Login", "DeleteUsers"}
=============================================================================
