---------------------------- MODULE MCWaveSlices ----------------------------
(***************************************************************************)
(* WaveSlices for TLC: every Ready subset of seven names, with counts and   *)
(* percentages on both sides of the fleet size.                             *)
(***************************************************************************)
EXTENDS WaveSlices, SequencesExt

MCWaveSizes == [percent : {FALSE}, val : 0 .. 8]
               \union [percent : {TRUE}, val : {1, 14, 15, 20, 33, 34, 50, 99, 100, 150}]

\* Sorted is the library's sorting.
ASSUME SortedIsSorting == \A S \in SUBSET Names : Sorted(S) = SetToSortSeq(S, <)
=============================================================================
