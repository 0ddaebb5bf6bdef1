------------------------------ MODULE MCWorkers ------------------------------
(* A small instance of WorkerRegistry: bob may become the curator manager. *)
EXTENDS WorkerRegistry

CONSTANTS alice, bob, carol

SomePowers == {<<"manager", bob>>}
=============================================================================
