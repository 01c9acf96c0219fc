---------------------------- MODULE MCBenchmark ----------------------------
(* The benchmark's programs, and the sampling that times them, one of the   *)
(* two at a time: live names it.                                            *)
EXTENDS Programs, SampleUntilStable

VARIABLE live

programs == <<vars, programVars>>

MCInit ==
    /\ live \in {"programs", "sampling"}
    /\ ProgramInit
    /\ SInit /\ (live = "programs" => at = "idle")

MCNext ==
    \/ live = "programs" /\ ProgramNext /\ UNCHANGED <<live, svars>>
    \/ live = "sampling" /\ SNext /\ UNCHANGED <<live, programs>>

\* Sampling that has begun goes on.
MCSpec ==
    /\ MCInit /\ [][MCNext]_<<live, programs, svars>>
    /\ WF_<<live, programs, svars>>(Step /\ UNCHANGED <<live, programs>>)

\* The zero tolerance of Overhead, and another one.
MCTolerances == {<<0, 1>>, <<1, 4>>}
=============================================================================
