------------------------------- MODULE MCApps -------------------------------
(* Instances of Apps.                                                      *)
EXTENDS Apps

AnyDaemon == {"absent", "answering", "stuck", "trickling"}
=============================================================================
