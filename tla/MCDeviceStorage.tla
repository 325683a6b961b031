--------------------------- MODULE MCDeviceStorage ---------------------------
(***************************************************************************)
(* DeviceStorage with interchangeable keys.                                *)
(***************************************************************************)
EXTENDS DeviceStorage, TLC

ExchangeKeys == Permutations(Keys)
=============================================================================
