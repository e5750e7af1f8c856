---------------------------- MODULE MCSendQueue -----------------------------
(* Model values for SendQueue: the session's thread and another one that   *)
(* writes lines, the console or a poller.                                  *)
EXTENDS SendQueue

CONSTANTS run, other

TwoWriters == {run, other}
=============================================================================
