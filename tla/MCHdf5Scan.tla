----------------------------- MODULE MCHdf5Scan -----------------------------
(* Two files; blocks of two rows (n_time 1) and of one row (n_time 2 and 3,*)
(* the latter wider than the target), and a file without rows.  Labels of  *)
(* one bit (U32 = 2): three gpus or three samples are more than they hold. *)
EXTENDS Hdf5Scan

MCFiles == <<"a.h5", "b.h5">>

MCShapes == {[n_gpu |-> 0, n_time |-> 1], [n_gpu |-> 3, n_time |-> 1],
             [n_gpu |-> 2, n_time |-> 2], [n_gpu |-> 2, n_time |-> 3]}
=============================================================================
