------------------------------ MODULE DataServices ------------------------------
(***************************************************************************)
(* Firestore, Datastore, Bigtable and the evaluation of queries, side by   *)
(* side.  Each has its backends and its worker threads to itself, so a     *)
(* behavior is one of a single service, the subject, chosen at the start.  *)
(***************************************************************************)
EXTENDS Firestore, Datastore, Bigtable, Queries

VARIABLE subject

Subjects == {"firestore", "datastore", "bigtable", "queries"}

DataInit ==
  /\ subject \in Subjects
  /\ FirestoreInit /\ DatastoreInit /\ BigtableInit
  /\ IF subject = "queries" THEN QueriesInit
     ELSE entries = <<>> /\ query = <<>> /\ rows = <<>> /\ qpc = "none"

DataNext ==
  /\ UNCHANGED subject
  /\ \/ subject = "firestore" /\ FirestoreNext /\ UNCHANGED <<dsVars, btVars, qyVars>>
     \/ subject = "datastore" /\ DatastoreNext /\ UNCHANGED <<fsVars, btVars, qyVars>>
     \/ subject = "bigtable"  /\ BigtableNext  /\ UNCHANGED <<fsVars, dsVars, qyVars>>
     \/ subject = "queries"   /\ QueriesNext   /\ UNCHANGED <<fsVars, dsVars, btVars>>

DataSpec == DataInit /\ [][DataNext]_<<subject, fsVars, dsVars, btVars, qyVars>>

(* The type invariant of every service. *)
TypeOK == /\ subject \in Subjects
          /\ FirestoreTypeOK /\ DatastoreTypeOK /\ BigtableTypeOK
          /\ subject = "queries" => QueriesTypeOK
==============================================================================
