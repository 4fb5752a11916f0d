---------------------------- MODULE MCMessageBuffer ----------------------------
(* An instance of MessageBuffer for TLC: messages of one, two and three    *)
(* bytes that can be told apart, in a buffer that takes four bytes.        *)
EXTENDS MessageBuffer

CONSTANTS a, b, c

MCBytes    == {a, b, c}
MCMessages == {<<a>>, <<b, c>>, <<c, a, b>>}
=============================================================================
