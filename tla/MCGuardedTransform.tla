------------------------- MODULE MCGuardedTransform -------------------------
(* Arguments and symmetry of the runs of GuardedTransform.                 *)
EXTENDS GuardedTransform, TLC

\* Commands that all apply their output to whole buffers.
WholeBuffers ==
    [target : Buffers \cup {Current}, span : {Rows}, preview : {FALSE}]

\* Every range and buffer up to a renaming of the rows and of the buffers, applied or not.
AnyArguments ==
    [target : {Current, CHOOSE b \in Buffers : TRUE},
     span : {Rows, {CHOOSE r \in Rows : TRUE}}, preview : BOOLEAN]

Interchangeable == Permutations(Commands) \cup Permutations(Rows)
=============================================================================
