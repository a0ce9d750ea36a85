------------------------------ MODULE MCNotify ------------------------------
(* Three instances of a service, the smallest number in which a datagram   *)
(* can outlive two restarts.                                               *)
EXTENDS Notify
=============================================================================
