------------------------------- MODULE MCWire -------------------------------
(* Model-checking parameters for Wire.                                     *)
EXTENDS Wire

(* No key, the default: the hash reaches the namespace.                    *)
MCKey == <<>>
MCDigest == <<1, 2, 3, 4>>

(* None, one that fits, one of white space, one too long, one of which the *)
(* rest looks like data.                                                   *)
MCNamespaces == {<<>>, <<65>>, <<LF>>, <<65, 65>>, <<65, space, 65>>}

(* Around the largest number of three bytes.                               *)
MCCounts == {0, 1, 255, 256, 2621962, 16777214, 16777215, 16777216, 16777217}
=============================================================================
