-------------------------- MODULE MCAuctionServer --------------------------
(***************************************************************************)
(* AuctionServer on small instances.  Users are interchangeable, and so    *)
(* are passwords; bid values, durations and aids are numbers and are not.  *)
(***************************************************************************)
EXTENDS AuctionServer, TLC

Symmetry == Permutations(Users) \cup Permutations(Passwords)

============================================================================
