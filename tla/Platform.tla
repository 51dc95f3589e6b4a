------------------------------ MODULE Platform ------------------------------
(***************************************************************************)
(* What goes by the clock of the process that serves it: the session a      *)
(* request is admitted with, the parameters in force, the listings that are *)
(* open.  Processes come and go; the database and the browser stay.         *)
(***************************************************************************)
EXTENDS Parameters, Sessions, Browsing

vars == <<clockVars, parameterVars, sessionVars, browsingVars>>

PlatformTypeOK == ClockTypeOK /\ ParametersTypeOK /\ SessionsTypeOK /\ BrowsingTypeOK

Init == ClockInit /\ ParametersInit /\ SessionsInit /\ BrowsingInit

(* Both providers read the database before the process serves anything.      *)
Restart(p) ==
    /\ StartClock(p) /\ StartRegistry(p)
    /\ UNCHANGED <<sessionVars, browsingVars>>

Next ==
    \/ ClockStep /\ UNCHANGED <<parameterVars, sessionVars, browsingVars>>
    \/ ParametersStep /\ UNCHANGED <<clockVars, sessionVars, browsingVars>>
    \/ SessionsStep /\ UNCHANGED <<clockVars, parameterVars, browsingVars>>
    \/ BrowsingStep /\ UNCHANGED <<clockVars, parameterVars, sessionVars>>
    \/ \E p \in Processes : Restart(p)

Spec == Init /\ [][Next]_vars
=============================================================================
