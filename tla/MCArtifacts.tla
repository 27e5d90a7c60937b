------------------------------ MODULE MCArtifacts ------------------------------
(***************************************************************************)
(* TLC instance of Artifacts.                                              *)
(***************************************************************************)
EXTENDS Artifacts

CONSTANTS e1, e2

TwoEditors == {e1, e2}

\* Lines 1 and 2; the longest text is read in part and not compared with the next.
FewTexts == {<<2, 1>>, <<1, 2, 1>>, <<2, 1, 2, 2>>}

OnlyMain == {Main}

\* One content to start from; the edits bring the others.
StartInit == Init /\ original = <<1, 2, 1>>
StartSpec == StartInit /\ [][Next]_vars
Editing == Permutations(TwoEditors)
=============================================================================
