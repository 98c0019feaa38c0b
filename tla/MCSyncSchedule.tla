---------------------------- MODULE MCSyncSchedule ----------------------------
EXTENDS SyncSchedule, TLC

MCPhases == <<"library", "lb-similar">>
MCInterval == "library" :> 1 @@ "lb-similar" :> 2
MCMinInterval == "library" :> 0 @@ "lb-similar" :> 2
MCStartup == "library" :> 1 @@ "lb-similar" :> 1

Symmetry == Permutations(User)
=============================================================================
