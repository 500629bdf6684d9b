------------------------------ MODULE MCEngine ------------------------------
(* Small instances of Engine for TLC. *)
EXTENDS Engine, TLC

LongOnly == {"long"}
BothDirections == {"long", "short"}
KillAndCloseAll == {"kill", "closeall"}
StopCommands == {"pause", "resume", "kill"}
(* the reads of get_positions that may answer [] for an error: not the gate's, *)
(* since a gate that sees nothing limits nothing                               *)
BlindLoops == {"kill", "manage", "operator"}
EveryRead == BlindLoops \cup {"gate"}
TicketSymmetry == Permutations(Tickets)
=============================================================================
