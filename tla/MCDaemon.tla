------------------------------ MODULE MCDaemon ------------------------------
(* Both services under one service manager, with errors of accept that are    *)
(* waited out and one that is not.                                            *)
EXTENDS Daemon
MCErrors == {"mfile", "netdown", "bad_descriptor"}
=============================================================================
