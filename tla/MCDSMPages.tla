----------------------------- MODULE MCDSMPages -----------------------------
(***************************************************************************)
(* DSMPages for TLC: the lock calls of the instances, and the symmetry of  *)
(* the slaves where all of them make the same calls.                       *)
(***************************************************************************)
EXTENDS DSMPages, TLC

CONSTANTS reader, writers, page   \* named processes and page of an instance

SlaveSymmetry == Permutations(Slaves)

AllSlaves == Slaves \X Pages \X Access
AllNodes == Nodes \X Pages \X Access
MasterReads == ({Master} \X Pages \X {"read"})
          \cup (Slaves \X Pages \X {"readwrite"})

\* One process only reads, the others only write.
ReaderAndWriters == ({reader} \X Pages \X {"read"})
               \cup (writers \X Pages \X {"readwrite"})

\* One page is only written, the others are only read.
PagesApart == (Slaves \X {page} \X {"readwrite"})
         \cup (Slaves \X (Pages \ {page}) \X {"read"})
=============================================================================
