--------------------------- MODULE MCDecoderPool ---------------------------
(* DecoderPool on a small instance.                                        *)
EXTENDS DecoderPool, TLC

DecoderSymmetry == Permutations(Decoders)
=============================================================================
