---------------------------- MODULE MCSocketCAN ----------------------------
(***************************************************************************)
(* SocketCAN with three descriptors, one of which another thread may have. *)
(***************************************************************************)
EXTENDS SocketCAN

ThreeDescriptors == 0..2

=============================================================================
