-------------------------- MODULE MCResidentDaemon --------------------------
(***************************************************************************)
(* A small instance of ResidentDaemon: all requests ask for one            *)
(* generation, so that its opening is shared.                              *)
(***************************************************************************)
EXTENDS ResidentDaemon

MCGeneration == [r \in Request |-> "g"]
=============================================================================
