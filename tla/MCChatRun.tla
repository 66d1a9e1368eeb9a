----------------------------- MODULE MCChatRun -----------------------------
(***************************************************************************)
(* ChatRun on small instances: sizes of the messages for the byte bounds.  *)
(***************************************************************************)
EXTENDS ChatRunProps, TLC

\* Every turn has the same size: the asks are interchangeable.
EvenSize == [k \in Asks |-> 1]
AskSymmetry == Permutations(Asks)
=============================================================================
