-------------------------- MODULE MCLearningManager --------------------------
(* Learning tasks on small instances; tasks and users are interchangeable.    *)
EXTENDS LearningManager, TLC

CONSTANTS t1, t2, alice, bob

TaskSymmetry == Permutations(TaskId) \cup Permutations(User)
=============================================================================
