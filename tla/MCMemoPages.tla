---------------------------- MODULE MCMemoPages ----------------------------
(* The lists that are opened in the TLC instances of MemoPages.            *)
EXTENDS MemoPages

CONSTANTS a, b

List(state, viewer, filter) == [state |-> state, viewer |-> viewer, filter |-> filter]
Tagged == [kind |-> "tag", values |-> {a}]
Open2 == [kind |-> "visibility", values |-> {"public", "protected"}]
Has(w) == [kind |-> "has", values |-> {w}]
Word(w) == [kind |-> "word", values |-> {w}]

(* Home, paged in SQL; and on Explore a tag and two of the flags, paged in *)
(* memory.                                                                 *)
Opened == {List("NORMAL", "user", <<>>),
           List("NORMAL", "visitor", <<Tagged, Has(b), Has(a), Open2>>)}

(* A search for two words.                                                 *)
Search == {List("NORMAL", "user", <<Word(a), Word(b)>>)}

(* The tag is on two of the three memos at the beginning, not on the one   *)
(* between them; changes of memos lead to the other cases.                 *)
MixedInit == ListInit /\ \A m \in 1..(N - 1): memo[m].traits = IF m = 2 THEN {} ELSE Traits
MixedSpec == MixedInit /\ [][ListNext]_listVars
=============================================================================
