------------------------------ MODULE MCAssurance ------------------------------
(* Small instances of candidate assurance. *)
EXTENDS Assurance, TLC

Escalating == {{}, Boundaries}

\* Nothing orders the commits.
Interchangeable == Permutations(Commits)
===============================================================================
