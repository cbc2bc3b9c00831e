------------------------------- MODULE Models -------------------------------
(* The models of the server: the registry of their providers, the adapters   *)
(* of the remote ones and the local one.                                     *)
EXTENDS Registry, Adapter, Local

(* The model calls, remote and local: whatever is retried, rotated, shared,  *)
(* cut or stopped, an answer is of the request it was asked for.             *)
AnswersSound == AdapterSound /\ LocalSound
=============================================================================
