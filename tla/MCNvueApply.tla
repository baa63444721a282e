----------------------------- MODULE MCNvueApply -----------------------------
(* Small instances of NvueApply: the configuration is the set of changes in  *)
(* it, and the changes set and unset the same key or two different ones.      *)
EXTENDS NvueApply, FiniteSets

CONSTANTS set1, unset1, set2

OneKey == {set1, unset1}
TwoKeys == {set1, set2}
NoConfig == {{}}

MCMerge(c, t) == IF t = unset1 THEN c \ {set1} ELSE c \cup {t}

NoFaults == {}
AllFaults == Requests
=============================================================================
