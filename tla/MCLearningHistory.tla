-------------------------- MODULE MCLearningHistory --------------------------
EXTENDS LearningHistory, TLC
CONSTANTS o1, o2, x1, x2, make, test, build
MIdentity == o1 :> make @@ o2 :> make @@ x1 :> test @@ x2 :> build
=============================================================================
