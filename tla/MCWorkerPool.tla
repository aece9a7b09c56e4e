---------------------------- MODULE MCWorkerPool -----------------------------
(* Two pools, one after the other, of up to four workers each; a client may  *)
(* ask for 0 to 3.                                                           *)
EXTENDS WorkerPool

MCIds == 0 .. 3
MCSizes == 0 .. 3
==============================================================================
