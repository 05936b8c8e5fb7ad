--------------------------- MODULE MCQuerySession ----------------------------
(***************************************************************************)
(* QuerySession for TLC.  The columns are the same but for what they are   *)
(* and hold, so that they can be exchanged.                                *)
(***************************************************************************)
EXTENDS QuerySession, TLC

Exchange == Permutations(Columns)

\* Columns that are not sorted hold only values that are asked for: there nothing
\* depends on which values are next to each other.
FewValues ==
  \A c \in Columns : kind[c] # "sorted" => \A p \in Rows : value[c][p] \in Constants

=============================================================================
