------------------------------ MODULE MCH4Send ------------------------------
(* H4Send with the two threads that may call Send.                         *)
EXTENDS H4Send

CONSTANTS rpc, watcher

MCSenders == {rpc, watcher}
=============================================================================
