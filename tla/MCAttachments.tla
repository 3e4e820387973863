---------------------------- MODULE MCAttachments ----------------------------
\* The symmetry set, lists of attachments and links for the TLC instances of Attachments.
EXTENDS Attachments, TLC

Nothing == {}
NoneOrOne == {<<>>} \cup {<<r>> : r \in Requests}

\* Links that are the key of an attachment.
Keys == {<<"key", r>> : r \in Requests}

\* Bound: one request is a batch or an external link.  A behaviour names no memo
\* when it has one of these, when the setting is changed in it, or when the URL of
\* an object could not be signed; one that links attachments to memos has single
\* deletes, usual references and one setting.  Links never read storages or
\* references.
Rare == {r \in Requests : arg[r].kind \in {"external", "batch"}}

Unusual == \/ switched \/ Rare # {}
           \/ \E i \in Requests : Exists(i) /\ file[i].store = "S3" /\ file[i].ref[1] = "key"

NotMixed ==
  /\ Cardinality(Rare) \in {0, 1}
  /\ Unusual => memo = Memos /\ \A r \in Requests : arg[r].memo = None /\ arg[r].kind # "patch"

SymmetricRequests == Permutations(Requests)
=============================================================================
