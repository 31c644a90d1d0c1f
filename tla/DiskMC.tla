------------------------------- MODULE DiskMC -------------------------------
(* The updater and the spool.  They share no state: a behaviour is one of  *)
(* the updater with the spool at rest or one of the spool with the updater *)
(* at rest.                                                                *)
EXTENDS SpoolMC, UpdaterMC

ASSUME PlainAssumption == NamesArePlain

VARIABLE acts   \* whose behaviour it is

MCInit == acts \in {"updater", "spool"} /\ Init /\ SpoolInit

MCNext ==
  /\ UNCHANGED acts
  /\ \/ acts = "updater" /\ Next /\ UNCHANGED spoolVars
     \/ acts = "spool" /\ SpoolNext /\ UNCHANGED vars

MCSpec ==
  /\ MCInit /\ [][MCNext]_<<acts, vars, spoolVars>>
  /\ WF_vars(acts = "updater" /\ Step)
=============================================================================
