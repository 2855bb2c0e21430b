------------------------------ MODULE DataLoop -------------------------------
(***************************************************************************)
(* The data-loop container of deploy/Dockerfile.data-loop: the sample      *)
(* cleaner in the background and the training trigger in the foreground,   *)
(* which share the samples file.  The container lives as long as the       *)
(* trigger: when the trigger is gone the cleaner is killed with it and     *)
(* both are started anew.  A cleaner that is gone stays away until then.   *)
(***************************************************************************)
EXTENDS SampleCleaner

CONSTANTS Threshold, MaxSamples, BatchSize

VARIABLES alive, at, archive, archives, trainings

TT == INSTANCE TrainingTrigger

ASSUME DataLoopAssumption == TT!TriggerConstants

triggerVars == <<alive, at, archive, archives, trainings>>
loopVars == <<vars, triggerVars>>

LoopTypeOK == TypeOK /\ TT!TriggerTypeOK

------------------------------------------------------------------------------
LoopInit == Init /\ TT!Init

CleanerRuns == Step /\ UNCHANGED triggerVars

(* With MaxFaults = 0 nobody stops anything. *)
CleanerAside ==
    /\ AutoCommit \/ (MaxFaults > 0 /\ Signal) \/ \E b \in Bid : Age(b)
    /\ UNCHANGED triggerVars

TriggerRuns ==
    \/ TT!Run /\ UNCHANGED vars
    \/ TT!Archive /\ UNCHANGED <<kafka, process, faults, history>>

(* Stops of the trigger, of both kinds, count against MaxFaults. *)
TriggerSignal ==
    /\ faults < MaxFaults
    /\ faults' = faults + 1
    /\ TT!Signal
    /\ UNCHANGED <<kafka, process, disk, history>>

ContainerKilled ==
    /\ at # "off"
    /\ faults < MaxFaults
    /\ faults' = faults + 1
    /\ Kill
    /\ TT!Kill

(* The trigger has left: the end of the foreground process is the end of the
   container. *)
ContainerEnds ==
    /\ at = "off"
    /\ pc # "off"
    /\ Kill
    /\ TT!Kill
    /\ UNCHANGED faults

ContainerStarts ==
    /\ at = "off"
    /\ pc = "off"
    /\ Start
    /\ TT!Launch

Container == ContainerEnds \/ ContainerStarts

LoopNext ==
    \/ CleanerRuns \/ CleanerAside \/ TriggerRuns \/ TriggerSignal
    \/ ContainerKilled \/ Container

LoopSpec == LoopInit /\ [][LoopNext]_loopVars

(* Both processes are scheduled, pretrain.py ends, and the container is
   restarted.  The consumer gets the messages there are, if it asks. *)
LoopFairness ==
    /\ WF_loopVars((Consume \/ Flush) /\ UNCHANGED triggerVars)
    /\ WF_loopVars(TriggerRuns)
    /\ WF_loopVars(Container)

FairLoopSpec == LoopSpec /\ LoopFairness

------------------------------------------------------------------------------
(* No archive is trained on twice, through kills between the rename, the
   training and its end.  (An impression read again after a restart may have a
   line in each of two archives; that is the cleaner's doing.) *)
TrainedAtMostOnce ==
    \A i, j \in DOMAIN trainings : trainings[i].file = trainings[j].file => i = j

(* A training never starts on fewer samples than the threshold, although the
   lines are counted, the file is renamed and the archive is read in three
   steps and a writer comes between them. *)
TrainingWaitsForThreshold ==
    \A i \in DOMAIN trainings :
        trainings[i].lines >= IF Threshold < MaxSamples THEN Threshold ELSE MaxSamples

(* The cleaner may have had the file open when it was renamed.  What it still
   writes there is one buffer and no more: from then on it opens the new
   file. *)
AtMostOneLateFlush ==
    \A i \in DOMAIN archives : Len(files[archives[i].file]) - archives[i].lines <= Batch

(* Enough samples are not left lying, whatever the cleaner does: they are
   archived for training, after restarts if need be. *)
FullFileIsArchived == (TT!count_lines >= Threshold) ~> (path = 0)

(* training_trigger.py:4-5 says that with enough samples the trigger "invokes
   gpr/train/pretrain.py as a subprocess and archives the consumed samples",
   and gpr_model.py:207 promises a ranking loss over any batch: nothing in the
   samples themselves should make a training fail. *)
ConsumedSamplesAreTrainedOn == \A i \in DOMAIN trainings : trainings[i].result # "failed"
=============================================================================
