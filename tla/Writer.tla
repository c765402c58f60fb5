--------------------------------- MODULE Writer ---------------------------------
(***************************************************************************)
(* The writers of src/lib/statsdcpp/output, template argument of all the    *)
(* statistics: a file descriptor, or a string.                              *)
(***************************************************************************)
VARIABLE
  fd    \* "open" or "closed" (-1); "string" if the writer is a string

Writers == {"open", "closed", "string"}

(* Mutant of Write: an error does not close the descriptor. *)
WriteStaysOpen(written) == UNCHANGED fd

(* write(): a string takes everything.  Nothing is written to a closed      *)
(* descriptor; an error or a short write closes it.  A short write may still*)
(* have contained what the reader is after.                                 *)
Write(written) ==
  \/ fd = "string" /\ written /\ UNCHANGED fd
  \/ fd = "open" /\ written /\ fd' \in {"open", "closed"}
  \/ fd # "string" /\ ~written /\ fd' = "closed"
=============================================================================
