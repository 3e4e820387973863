------------------------ MODULE MCSettingDocuments ------------------------
EXTENDS SettingDocuments, TLC

(* Requests are alike, and so are the items named after them.              *)
Symmetry == Permutations(Requests)
=============================================================================
