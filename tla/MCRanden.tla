------------------------------ MODULE MCRanden ------------------------------
(* The engine, and its text streams, one of the two at a time: live names   *)
(* it.                                                                      *)
EXTENDS Randen, MCStreamIO

VARIABLE live

MCInit ==
    /\ live \in {"engine", "streams"}
    /\ Init /\ (live = "streams" => state_ = [e \in Engine |-> Filled(0)])
    /\ IOInit /\ (live = "engine" => engine = CHOOSE e \in Saved : TRUE)

MCNext ==
    \/ live = "engine" /\ Next /\ UNCHANGED <<live, ioVars>>
    \/ live = "streams" /\ IONext /\ UNCHANGED <<live, vars>>

\* A call of discard that has been entered goes on.
MCSpec ==
    /\ MCInit /\ [][MCNext]_<<live, vars, ioVars>>
    /\ \A e \in Engine :
         WF_<<live, vars, ioVars>>(DiscardStep(e) /\ UNCHANGED <<live, ioVars>>)
=============================================================================
