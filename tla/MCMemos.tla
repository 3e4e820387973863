------------------------------- MODULE MCMemos -------------------------------
\* Inputs and the symmetry set for the TLC instance of Memos.
EXTENDS Memos, TLC

CONSTANTS m1

\* PROTECTED differs from PUBLIC only for visitors who are not signed in.
OpenAndPrivate == {<<"PUBLIC", "NORMAL">>, <<"PRIVATE", "NORMAL">>}

\* A memo is published, or hidden and taken out of the archive.
Changes == {<<"PUBLIC", None>>, <<"PRIVATE", "NORMAL">>}

\* Duplicates are one of the cases: the second INSERT fails.
RelationLists == {<<<<m1, "REFERENCE">>>>, <<<<m1, "COMMENT">>>>,
                  <<<<m1, "REFERENCE">>, <<m1, "REFERENCE">>>>}

SymmetricRequests == Permutations(Requests)
=============================================================================
