------------------------ MODULE ConfirmationMonitorMC ------------------------
(* A small instance of ConfirmationMonitor: the poll loop beside a caller's *)
(* check_now().                                                             *)
EXTENDS ConfirmationMonitor

CONSTANTS poll_loop, check_now

MCCheck == {poll_loop, check_now}
=============================================================================
