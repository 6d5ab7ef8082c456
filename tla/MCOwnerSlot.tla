----------------------------- MODULE MCOwnerSlot -----------------------------
(* TLC instance of the thread-owner slot.                                  *)
EXTENDS OwnerSlotRefinement, TLC
=============================================================================
