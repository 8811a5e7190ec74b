-------------------------------- MODULE Chains --------------------------------
(***************************************************************************)
(* Joining and filtering sequences.  They say what FlattenSeq and          *)
(* SelectSeq say, with a recursive function, about which the laws in       *)
(* ChainProofs can be proved.                                              *)
(***************************************************************************)
EXTENDS Integers, Sequences

\* The parts one after the other
Chain(parts) ==
  LET chain[n \in 0 .. Len(parts)] == IF n = 0 THEN <<>> ELSE chain[n - 1] \o parts[n]
  IN  chain[Len(parts)]

\* The members of the sequence that are in S, in order
Only(sequence, S) ==
  Chain([i \in 1 .. Len(sequence) |-> IF sequence[i] \in S THEN <<sequence[i]>> ELSE <<>>])

\* For assumptions about constants: a list, whatever its members are
IsSequence(s) == s \in Seq({s[i] : i \in DOMAIN s})
=============================================================================
