--------------------------- MODULE PresenceTrackerMC ---------------------------
(* Instances of PresenceTracker for TLC. *)
EXTENDS PresenceTracker, TLC

(* Clients differ in nothing, and neither do timers. *)
Symmetry == Permutations(Clients) \cup Permutations(Timers)

=============================================================================
