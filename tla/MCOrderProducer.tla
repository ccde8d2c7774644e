--------------------------- MODULE MCOrderProducer ----------------------------
(***************************************************************************)
(* An instance of OrderProducer for TLC.  The partitions of a topic do not *)
(* share anything but the main thread: one of orders-raw, next to the one  *)
(* of the dead letters, shows every order of a batch and its retries.      *)
(***************************************************************************)
EXTENDS OrderProducer

MCOrderPartitions == {"orders-raw-0"}

=============================================================================
