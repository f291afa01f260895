---------------------------- MODULE MCObservation ----------------------------
(* Instances of ObservationStore for TLC: one store of one or two keys.        *)
EXTENDS ObservationProperties

\* A load and a watch in one scope; each may write the key that the other follows.
TwoKeysOf == [k \in {"region", "theme"} |-> "settings"]
BothFollow == [s \in {"models", "one"} |-> IF s = "models" THEN {"region"} ELSE {"theme"}]
BothScopeOf == [s \in {"models", "one"} |-> "catalog"]
Closing1 == {"closeStore", "closeScope", "throw"}

\* A load alone.
OneKeyOf == [k \in {"region"} |-> "settings"]
LoadFollows == [s \in {"models"} |-> {"region"}]
LoadScopeOf == [s \in {"models"} |-> "catalog"]
Closing2 == {"closeStore", "closeScope", "escalate"}
=============================================================================
