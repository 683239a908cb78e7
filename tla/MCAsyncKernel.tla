---------------------------- MODULE MCAsyncKernel ----------------------------
(* Model-checking instances of AsyncKernel; the bounds are in the cfg files. *)
EXTENDS AsyncKernel, TLC

\* The pages of the sound ring are interchangeable for the executor.
PageSymmetry == Permutations(Buffers)

=============================================================================
