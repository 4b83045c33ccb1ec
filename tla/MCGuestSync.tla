---------------------------- MODULE MCGuestSync ----------------------------
(* GuestSync on a small instance: both futex words share a bucket. *)
EXTENDS GuestSync

MCHash == [a \in Addrs |-> 1]
=============================================================================
