-------------------------------- MODULE Job --------------------------------
(***************************************************************************)
(* A job object (src/job.c): its identifier, its parent and name, and its     *)
(* progress.  Of an identifier only its validity is kept: the code compares   *)
(* nothing else (cluster_job_id_valid_()).  The state of a job (WAIT, ACTIVE, *)
(* COMPLETE, FAIL) is only logged by this code, and has no variable.         *)
(***************************************************************************)
EXTENDS Integers

CONSTANT JobLimit   \* bound: the largest total or progress in a call

ASSUME JobLimitAssumption == JobLimit \in Nat \ {0}

Ids == {"valid", "short", "long"}   \* by strlen(): 2..32, below, above

VARIABLES
  id,         \* job->id
  parent,     \* job->parent, "none" for the empty string
  name,       \* job->name, "none" for the empty string
  jobTotal,   \* job->total
  progress    \* job->progress

jobVars == <<id, parent, name, jobTotal, progress>>

-----------------------------------------------------------------------------
cluster_job_id_valid(s) == s = "valid"

\* strncpy() of at most CLUSTER_JOB_ID_LEN characters makes a long one valid.
Copied(s) == IF s = "long" THEN "valid" ELSE s

\* cluster_job_create_id(), with a given identifier or with a new UUID.
JobInit ==
  /\ id = "valid"
  /\ parent = "none"
  /\ name = "none"
  /\ jobTotal = 1
  /\ progress = 0

(***************************************************************************)
(* cluster_job_set_parent_id() and cluster_job_set_parent_job(); the latter   *)
(* with NULL clears the parent and then uses the NULL pointer, which ends the  *)
(* process and is left out.                                                  *)
(***************************************************************************)
SetParent_Unchecked(s) ==  \* mutant: the identifier is not validated
  /\ parent' = Copied(s)
  /\ UNCHANGED <<id, name, jobTotal, progress>>

SetParent(s) ==
  /\ cluster_job_id_valid(s)
  /\ parent' = Copied(s)
  /\ UNCHANGED <<id, name, jobTotal, progress>>

ClearParent ==
  /\ parent' = "none"
  /\ UNCHANGED <<id, name, jobTotal, progress>>

\* cluster_job_set_id(): "!newid || cluster_job_id_valid_(newid)" refuses.
SetId(s) ==
  /\ ~cluster_job_id_valid(s)
  /\ id' = Copied(s)
  /\ UNCHANGED <<parent, name, jobTotal, progress>>

(***************************************************************************)
(* cluster_job_set_total() starts over when the job has got further than the *)
(* new total.                                                               *)
(***************************************************************************)
SetJobTotal_KeepsProgress(t) ==  \* mutant: the progress is not reset
  /\ jobTotal # t
  /\ jobTotal' = t
  /\ UNCHANGED <<id, parent, name, progress>>

SetJobTotal(t) ==
  /\ jobTotal # t
  /\ jobTotal' = t
  /\ progress' = IF t < progress THEN 0 ELSE progress
  /\ UNCHANGED <<id, parent, name>>

(***************************************************************************)
(* cluster_job_set_progress() raises the total when the job has got further. *)
(***************************************************************************)
SetProgress(p) ==
  /\ progress' = p
  /\ jobTotal' = IF p > jobTotal THEN p ELSE jobTotal
  /\ UNCHANGED <<id, parent, name>>

\* cluster_job_set_name() is refused for a job without a parent.
SetName(s) ==
  /\ parent # "none"
  /\ name' = s
  /\ UNCHANGED <<id, parent, jobTotal, progress>>

\* cluster_job_destroy() and the creation of the next job.
Recreate ==
  /\ id' = "valid"
  /\ parent' = "none"
  /\ name' = "none"
  /\ jobTotal' = 1
  /\ progress' = 0

JobNext ==
  \/ \E s \in Ids : SetParent(s) \/ SetId(s)
  \/ ClearParent
  \/ SetName("name")
  \/ \E i \in 0..JobLimit : SetJobTotal(i) \/ SetProgress(i)
  \/ Recreate

JobSpec == JobInit /\ [][JobNext]_jobVars

-----------------------------------------------------------------------------
\* The ranges of the fields; a parent is an identifier that passed the test.
JobTypeOK ==
  /\ id \in {"valid", "short"}
  /\ parent \in {"none", "valid"}
  /\ name \in {"none", "name"}
  /\ jobTotal \in 0..JobLimit
  /\ progress \in 0..JobLimit

(***************************************************************************)
(* A job is never further than its total, in whatever order                  *)
(* cluster_job_set_total() and cluster_job_set_progress() are called with     *)
(* natural numbers: one resets the progress, the other raises the total.     *)
(***************************************************************************)
ProgressWithinTotal == progress <= jobTotal
=============================================================================
