---------------------------- MODULE MCCopyBuffer ----------------------------
EXTENDS CopyBuffer

\* Tensors of any element type, as broadcast and all_gather accept them.
MCByteCalls == 0 .. 18

(***************************************************************************)
(* The assertion of fifo_free (common.hpp) holds for every size, as tensors *)
(* of other than 4-byte elements are meant to be supported.                *)
(***************************************************************************)
AnySizeFreed == FifoFreeAsserts
=============================================================================
