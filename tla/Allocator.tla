------------------------------ MODULE Allocator ------------------------------
(***************************************************************************)
(* What Memory::Allocate and Memory::Release promise: a block is handed to *)
(* one user, and to the next only after it has been released.              *)
(***************************************************************************)
EXTENDS Naturals

CONSTANT Blocks
VARIABLE users          \* how many users each block has

Init == users = [b \in Blocks |-> 0]

Allocate(b) == users[b] = 0 /\ users' = [users EXCEPT ![b] = 1]

Release(b) == users[b] = 1 /\ users' = [users EXCEPT ![b] = 0]

Next == \E b \in Blocks : Allocate(b) \/ Release(b)

Spec == Init /\ [][Next]_users

=============================================================================
