--------------------------- MODULE MCWorkerGroup ---------------------------
(* Two workers: one asks for the configuration or renews the credentials      *)
(* while the other fails, queues for the lock or gives up.                    *)
EXTENDS WorkerGroup
=============================================================================
