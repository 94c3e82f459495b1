------------------------------ MODULE MCIpcSlot ------------------------------
(* Model checking of IpcSlot on small instances.                           *)
EXTENDS IpcSlot

\* One handler thread of each instance.
MCHandlers == {"api1", "api2"}
=============================================================================
