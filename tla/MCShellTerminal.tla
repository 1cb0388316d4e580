--------------------------- MODULE MCShellTerminal ---------------------------
(* The shell under every interleaving of SIGINT, SIGTERM and SIGHUP.         *)
EXTENDS ShellTerminal
=============================================================================
