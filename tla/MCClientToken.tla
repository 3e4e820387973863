---------------------------- MODULE MCClientToken ----------------------------
\* The scenes of the TLC instance of ClientToken.
EXTENDS ClientToken

CONSTANTS t1

\* One tab while requests and answers get lost, and all tabs while they do not.
OneOrAll == {[tabs |-> {t1}, kinds |-> {"api", "focus"}, faults |-> TRUE],
             [tabs |-> {t1}, kinds |-> Kinds, faults |-> TRUE],
             [tabs |-> Tabs, kinds |-> Kinds, faults |-> FALSE]}
=============================================================================
