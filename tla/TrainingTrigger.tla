--------------------------- MODULE TrainingTrigger ---------------------------
(***************************************************************************)
(* The training trigger of data/flink/training_trigger.py: it counts the   *)
(* lines of the samples file, and when there are enough renames the file   *)
(* and runs gpr/train/pretrain.py on the archive, waiting for its end.     *)
(* The file belongs to the sample cleaner too; see DataLoop.               *)
(***************************************************************************)
EXTENDS Integers, Sequences

CONSTANTS
    Threshold,      \* --threshold
    MaxSamples,     \* --max-samples of pretrain.py
    BatchSize       \* --batch-size

TriggerConstants ==
    /\ Threshold \in Nat \ {0}
    /\ MaxSamples \in Nat \ {0}
    /\ BatchSize \in Nat \ {0}

VARIABLES
    files,          \* the contents of every file ever made
    path,           \* the file under the data file's name, 0 if none
    alive,          \* _RUNNING
    at,             \* where the process is
    archive,        \* the archive being trained on, 0 if none
    archives,       \* history: every archive with its lines when it was renamed
    trainings       \* history: every run of pretrain.py that read its data

triggerVars == <<alive, at, archive, archives, trainings>>

Archived == [file : Nat, lines : Nat]
Training == [file : Nat, lines : Nat, result : {"running", "done", "failed", "broken"}]

TriggerTypeOK ==
    /\ alive \in BOOLEAN
    /\ at \in {"off", "count", "rename", "train", "wait", "sleep"}
    /\ archive \in 0..Len(files)
    /\ archives \in Seq(Archived)
    /\ trainings \in Seq(Training)

Init ==
    /\ alive = TRUE
    /\ at = "off"
    /\ archive = 0
    /\ archives = <<>>
    /\ trainings = <<>>

------------------------------------------------------------------------------
count_lines == IF path = 0 THEN 0 ELSE Len(files[path])

Launch ==
    /\ at = "off"
    /\ at' = "count"
    /\ alive' = TRUE
    /\ UNCHANGED <<archive, archives, trainings>>

\* Mutant: the threshold itself is waited for.
MutantCountExactly ==
    /\ at = "count"
    /\ at' = IF count_lines = Threshold THEN "rename" ELSE "sleep"
    /\ UNCHANGED <<alive, archive, archives, trainings>>

\* Mutant: any sample will do.
MutantCountAny ==
    /\ at = "count"
    /\ at' = IF count_lines > 0 THEN "rename" ELSE "sleep"
    /\ UNCHANGED <<alive, archive, archives, trainings>>

Count ==
    /\ at = "count"
    /\ at' = IF count_lines >= Threshold THEN "rename" ELSE "sleep"
    /\ UNCHANGED <<alive, archive, archives, trainings>>

\* Mutant: the file is linked under the archive's name and kept.
MutantArchive ==
    /\ at = "rename"
    /\ archive' = path
    /\ archives' = Append(archives, [file |-> path, lines |-> Len(files[path])])
    /\ at' = "train"
    /\ UNCHANGED <<files, path, alive, trainings>>

(* archive_data_file: a rename; a file open under the old name stays open. *)
Archive ==
    /\ at = "rename"
    /\ archive' = path
    /\ archives' = Append(archives, [file |-> path, lines |-> Len(files[path])])
    /\ path' = 0
    /\ at' = "train"
    /\ UNCHANGED <<files, alive, trainings>>

(* pretrain.py reads its data once, at its start, and no more than
   --max-samples lines of it. *)
Train ==
    /\ at = "train"
    /\ LET n == Len(files[archive])
       IN  trainings' = Append(trainings, [file |-> archive,
                                           lines |-> IF n < MaxSamples THEN n ELSE MaxSamples,
                                           result |-> "running"])
    /\ at' = "wait"
    /\ UNCHANGED <<alive, archive, archives>>

(* MultiTaskLoss compares the first half of a batch with the rest of it, and
   the comparison raises unless both have the same length or one of them is a
   single score; a batch of one is not compared. *)
RankLossRuns(n) ==
    LET half == n \div 2
    IN  half \in {0, 1} \/ half = n - half

(* The DataLoader's batches are full but for the last one, which it keeps. *)
Trainable(lines) ==
    /\ lines >= BatchSize => RankLossRuns(BatchSize)
    /\ lines % BatchSize # 0 => RankLossRuns(lines % BatchSize)

TrainReturns(result) ==
    /\ at = "wait"
    /\ trainings' = [trainings EXCEPT ![Len(trainings)].result = result]
    /\ archive' = 0
    /\ at' = "sleep"
    /\ UNCHANGED <<alive, archives>>

(* The loop tests _RUNNING after its sleep. *)
Wake ==
    /\ at = "sleep"
    /\ at' = IF alive THEN "count" ELSE "off"
    /\ UNCHANGED <<alive, archive, archives, trainings>>

Signal ==
    /\ at # "off"
    /\ alive' = FALSE
    /\ UNCHANGED <<at, archive, archives, trainings>>

Kill ==
    /\ at' = "off"
    /\ archive' = 0
    /\ UNCHANGED <<alive, archives, trainings>>

(* pretrain.py gets to its end, or to a batch that raises.  Whatever the exit
   code is, it is logged. *)
TrainEnds == TrainReturns(IF Trainable(trainings[Len(trainings)].lines) THEN "done" ELSE "failed")

(* Its surroundings fail it: no tokenizer, no memory, no disk for the model. *)
TrainBreaks == TrainReturns("broken")

(* Steps that only read the files. *)
Run == Count \/ Train \/ TrainEnds \/ TrainBreaks \/ Wake
=============================================================================
