------------------------------ MODULE DevicesMC ------------------------------
(* Small instances of Devices. *)
EXTENDS Devices
=============================================================================
