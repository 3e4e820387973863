----------------------------- MODULE MCMemoEditor -----------------------------
\* The editors and the symmetry set for the TLC instance of MemoEditor.
EXTENDS MemoEditor, TLC

\* Home and comment have keys of their own: nothing that one does meets the other.
WithEdit == {{"home", "edit"}, {"comment", "edit"}}

Symmetric == Permutations(Tabs)
===============================================================================
