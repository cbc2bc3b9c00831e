---------------------------- MODULE MCWriteQueue ----------------------------
(* Small instances of WriteQueue for TLC. *)
EXTENDS WriteQueueProperties, TLC

CONSTANTS t1, t2, t3,  \* tasks
          w1           \* a thread

AllOnOne == [t \in Tasks |-> w1]
TaskSymmetry == Permutations(Tasks)
=============================================================================
