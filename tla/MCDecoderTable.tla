--------------------------- MODULE MCDecoderTable ---------------------------
(* DecoderTable on a small instance.                                        *)
EXTENDS DecoderTable

CONSTANTS a1, c1   \* an aircraft, and the country it is registered in

\* One aircraft of a country the user may list, one that is never listed.
MCCountryOf == [a \in Aes |-> IF a = a1 THEN c1 ELSE "other"]
=============================================================================
