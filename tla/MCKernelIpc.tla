---------------------------- MODULE MCKernelIpc ----------------------------
(***************************************************************************)
(* The boot scenarios the runs start from: small versions of what main.rs  *)
(* grants its demo programs.                                               *)
(***************************************************************************)
EXTENDS KernelLoans, TLC

Disk            == Cap("BlockRange", 0, {"READ", "WRITE"})
Screen          == Cap("Framebuffer", 0, {"MAP"})
Ep(e, rights)   == Cap("Endpoint", e, rights)

\* "blkreclaim", "blkrelend": one process that owns a disk range and spawns.
DiskOwner == 0 :> <<Disk>>

\* "share demo", with a screen to lend as well as frames.
PairAndScreen == 0 :> <<Screen, Ep(0, {"SEND"})>> @@ 1 :> <<Ep(0, {"RECV"})>>

\* "rpc demo": one server and its clients.
Star(clients) ==
  0 :> <<Ep(0, {"RECV"})>> @@ [p \in clients |-> <<Ep(0, {"SEND"})>>]
TwoClients   == Star(1 .. 2)
ThreeClients == Star(1 .. 3)

\* A disk owner, and two programs that lend each other what they have.
OwnerAndPair ==
  0 :> <<Disk, Ep(0, {"SEND"})>> @@
  1 :> <<Ep(0, {"RECV"}), Ep(1, {"SEND", "RECV"})>> @@
  2 :> <<Ep(1, {"SEND", "RECV"})>>

============================================================================
