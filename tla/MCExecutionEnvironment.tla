----------------------- MODULE MCExecutionEnvironment -----------------------
(* Instances of ExecutionEnvironment, checked as it stands.                    *)
EXTENDS ExecutionEnvironment
=============================================================================
