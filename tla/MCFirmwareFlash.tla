---------------------------- MODULE MCFirmwareFlash ----------------------------
(***************************************************************************)
(* FirmwareFlash on two invocations and two devices.                       *)
(***************************************************************************)
EXTENDS FirmwareFlash, TLC

MCSymmetry == Permutations(Process)
==============================================================================
