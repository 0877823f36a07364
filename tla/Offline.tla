------------------------------ MODULE Offline ------------------------------
(***************************************************************************)
(* The programs that run beside the server (scripts/): one ingests files,  *)
(* the other evaluates.  They share no state; the one not run is at rest.  *)
(***************************************************************************)
EXTENDS IngestRun, Evaluation

\* There is something to ingest, and something to evaluate.
ASSUME OfflineAssumption == Disks # {} /\ Setups # {}

VARIABLE program

OfflineInit ==
    /\ IngestBegin /\ EvaluationBegin
    /\ \/ program = "ingest" /\ disk \in Disks /\ setup = CHOOSE s \in Setups : TRUE
       \/ program = "evaluate" /\ setup \in Setups /\ disk = CHOOSE d \in Disks : TRUE

OfflineNext ==
    /\ UNCHANGED program
    /\ \/ program = "ingest" /\ IngestNext /\ UNCHANGED evaluationVars
       \/ program = "evaluate" /\ EvaluationNext /\ UNCHANGED ingestVars

OfflineSpec == OfflineInit /\ [][OfflineNext]_<<program, ingestVars, evaluationVars>>

\* Both programs keep the types of their state; the evaluation's scores stay
\* between 0 and 1 whatever the judge replies.
TypesOK == IngestTypeOK /\ EvaluationTypeOK
=============================================================================
