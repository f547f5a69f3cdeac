---------------------------- MODULE MCIOStartup ----------------------------
(* IOStartup on a small instance: the threads are ThreadStart's.           *)
EXTENDS IOStartup

MCThreads == Objects
=============================================================================
