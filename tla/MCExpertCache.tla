--------------------------- MODULE MCExpertCache ---------------------------
(***************************************************************************)
(* Instances of ExpertCache: slices of one, two and three bytes in a file  *)
(* of four, of which one is past the end of the shorter file.              *)
(***************************************************************************)
EXTENDS ExpertCache, TLC

CONSTANTS a, b, d, fileA, fileB, c1, c2

MCOffset == a :> 0 @@ b :> 1 @@ d :> 1
MCLength == a :> 1 @@ b :> 2 @@ d :> 3
MCFileSize == fileA :> 4 @@ fileB :> 2
=============================================================================
