---------------------------- MODULE MCHttpClient ----------------------------
(* One client against every server.                                         *)
EXTENDS HttpClient
=============================================================================
