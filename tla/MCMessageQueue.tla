--------------------------- MODULE MCMessageQueue ---------------------------
(* TLC instance of MessageQueue: the publisher of a batch and a task that   *)
(* broadcasts a message to several exchanges, on one shared queue.          *)
EXTENDS MessageQueue, TLC

CONSTANTS publisher, control

MCCaller == {publisher, control}

\* Two records in the batch, two exchanges in the broadcast.
MCMessages == (publisher :> 2) @@ (control :> 2)
=============================================================================
