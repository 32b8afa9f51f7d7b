----------------------------- MODULE MCRunLoop -----------------------------
(* Small instances of RunLoop for TLC.                                      *)
EXTENDS RunLoop, TLC

ClientSymmetry == Permutations(Clients)

\* A turn that answers, one that runs a command, one that writes and makes a
\* mistake, and one that reads.
ShortTurns == {<<>>, <<"command">>}
MixedTurns == {<<>>, <<"write", "bad">>, <<"read">>}
=============================================================================
