---------------------------- MODULE MCTcpServer -----------------------------
(***************************************************************************)
(* The two workers of main.cc and three clients.  Two of them may keep     *)
(* silent, so that workers are blocked, waiting and busy at once and may   *)
(* all be blocked; one of the two may also break off or end the process.   *)
(***************************************************************************)
EXTENDS TcpServer

=============================================================================
