---------------------------- MODULE MCHttpClient ----------------------------
(* HttpClient for TLC: two goroutines and a breaker that opens early. *)
EXTENDS HttpClient

CONSTANTS c1, c2
=============================================================================
