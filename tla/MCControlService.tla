--------------------------- MODULE MCControlService ---------------------------
(***************************************************************************)
(* A small instance of ControlService for TLC.                             *)
(***************************************************************************)
EXTENDS ControlService, TLC

MCModels == {"StatusOnly", "DirectNormal", "SboNormal", "DirectEnhanced", "SboEnhanced"}
MCOperable == {"DirectNormal", "DirectEnhanced", "SboEnhanced"}
MCModes == {"on", "blocked"}
MCBars == {{}, {"Operate"}}
MCSymmetry == Permutations(Assoc)
=============================================================================
