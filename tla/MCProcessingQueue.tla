------------------------- MODULE MCProcessingQueue -------------------------
(***************************************************************************)
(* Small instances of ProcessingQueue for TLC.                             *)
(***************************************************************************)
EXTENDS ProcessingQueue, TLC

(* A staged analysis and a transcription of different calls. *)
TwoCalls == {<<"analyze_call", "c1">>, <<"transcribe_call", "c2">>}

Names == Permutations(Goroutines) \cup Permutations(Workers) \cup Permutations(Batches)
=============================================================================
