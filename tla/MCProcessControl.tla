-------------------------- MODULE MCProcessControl --------------------------
(***************************************************************************)
(* Instances of ProcessControl for TLC.                                    *)
(***************************************************************************)
EXTENDS ProcessControl

CONSTANTS p1, p2, p3, p4

NoPids == {}

\* An application on p1 and its worker on p2; p3 is free.
ThreePids == {p1, p2, p3}
OnePid == {p2}
AppBorn == [p \in ThreePids |-> IF p = p1 THEN 1 ELSE IF p = p2 THEN 2 ELSE 0]
AppParent == [p \in ThreePids |-> IF p = p2 THEN p1 ELSE NoPid]
AppKin == [p \in ThreePids |->
             IF p = p1 THEN {1} ELSE IF p = p2 THEN {1, 2} ELSE {}]

\* The application alone.
LoneBorn == [p \in ThreePids |-> IF p = p1 THEN 1 ELSE 0]
LoneParent == [p \in ThreePids |-> NoPid]
LoneKin == [p \in ThreePids |-> IF p = p1 THEN {1} ELSE {}]

\* A terminal on p1 that DrainTracer (p2) and an application (p3) were
\* started from; p4 is free.
FourPids == {p1, p2, p3, p4}
Terminal == {p1, p2}
TerminalBorn == [p \in FourPids |->
                   IF p = p1 THEN 1 ELSE IF p = p2 THEN 2 ELSE IF p = p3 THEN 3 ELSE 0]
TerminalParent == [p \in FourPids |-> IF p \in {p2, p3} THEN p1 ELSE NoPid]
TerminalKin == [p \in FourPids |->
                  IF p = p1 THEN {1} ELSE IF p = p2 THEN {1, 2}
                  ELSE IF p = p3 THEN {1, 3} ELSE {}]

=============================================================================
