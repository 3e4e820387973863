------------------------------ MODULE MCMemoCache ------------------------------
\* The scenes and the symmetry set for the TLC instance of MemoCache.
EXTENDS MemoCache, TLC

\* Requests fail while only this page changes the memo, mutations the field that
\* edits leave alone; and nothing fails while all of them meet.
TwoScenes ==
  {[kinds |-> Kinds, fields |-> {"other"}, faults |-> TRUE],
   [kinds |-> Kinds \cup {"others"}, fields |-> Fields, faults |-> FALSE]}

Symmetric == Permutations(Calls)
===============================================================================
