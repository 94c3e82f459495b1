------------------------------ MODULE MCStartup ------------------------------
(* Two runs of the coordinator, and in each of them two starts of the other *)
(* instance and one of boost-ipc's proxy: a restart of one of them, and a   *)
(* restart of all over what the first run left.                             *)
EXTENDS Startup

MCMaxStarts == [p \in Others |-> IF p = "proxy" THEN 1 ELSE 2]
=============================================================================
