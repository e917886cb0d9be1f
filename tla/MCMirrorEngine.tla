--------------------------- MODULE MCMirrorEngine ---------------------------
(* Instances of MirrorEngine for TLC: files of TPC run 1, and TOF files      *)
(* under the run number 9.  The TOF file may grow after it was first closed. *)
EXTENDS MirrorEngine

File(r, k) == [run |-> r, rank |-> k]
OneEach == {File(1, 1), File(9, 1)}
Once == [f \in OneEach |-> 1]
TofGrows == [f \in OneEach |-> IF f.run = 9 THEN 2 ELSE 1]
Nothing == [f \in OneEach |-> 0]
TpcThere == [f \in OneEach |-> IF f.run = 9 THEN 0 ELSE 1]
=============================================================================
