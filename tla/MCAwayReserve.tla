---------------------------- MODULE MCAwayReserve ----------------------------
(* Two batteries, two Away windows and the reserves 0, 20 and 50, under a   *)
(* budget of disturbances given by the configuration.                       *)
EXTENDS AwayReserve, TLC

CONSTANTS MaxCrash, MaxFault, MaxChange, MaxExternal, MaxCommand

MCPercents == {0, 20, 50}
MCBudget == [kind \in Disturbances |->
               CASE kind = "crash" -> MaxCrash [] kind = "fault" -> MaxFault
                 [] kind = "change" -> MaxChange [] kind = "external" -> MaxExternal
                 [] kind = "command" -> MaxCommand]
Symmetry == Permutations(Hosts) \cup Permutations(Windows)
=============================================================================
