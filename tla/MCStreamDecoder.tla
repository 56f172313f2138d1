---------------------------- MODULE MCStreamDecoder ----------------------------
(* StreamDecoder for TLC: a header of four bytes, one of them repeated, as in *)
(* "!DOORS:".                                                                *)
EXTENDS StreamDecoder

MCHeader == <<"!", "O", "O", ":">>
=============================================================================
