---------------------------- MODULE MCUserService ----------------------------
(* UserService with one default account, and names and addresses for one more. *)
EXTENDS UserService, TLC

CONSTANTS admin, ann

MCSeeds         == <<[name |-> admin, email |-> admin, role |-> "ADMIN"]>>
MCRegistrations == {[name |-> ann, email |-> ann]}
MCProfiles      == {[name |-> ann, email |-> Keep], [name |-> Keep, email |-> ann],
                    [name |-> Keep, email |-> Keep]}
=============================================================================
