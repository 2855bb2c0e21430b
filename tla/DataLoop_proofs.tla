--------------------------- MODULE DataLoop_proofs ----------------------------
(***************************************************************************)
(* Proofs about the data loop, for any topics, buffer, threshold and       *)
(* number of faults: however the cleaner and the trigger interleave, stop  *)
(* and start again, no archive is trained on twice or on fewer samples     *)
(* than the threshold, and a rename splits one buffer at most.             *)
(***************************************************************************)
EXTENDS DataLoop, SampleCleaner_proofs

(* A file that was renamed is not the data file any more.  The one write it
   may still see is that of a cleaner which had it open. *)
Aside(f, n) ==
    /\ f \in DOMAIN files
    /\ f # path
    /\ n <= Len(files[f])
    /\ Len(files[f]) <= n + Batch
    /\ handle = f => Len(files[f]) = n

Renamed == \A i \in DOMAIN archives : Aside(archives[i].file, archives[i].lines)

(* What the trigger knows at each place: the lines it counted are still there
   when it renames the file and when it trains, and nothing was trained on the
   archive yet. *)
Place ==
    /\ at = "rename" => path # 0 /\ Len(files[path]) >= Threshold
    /\ at = "train" => /\ archive # 0
                       /\ archive # path
                       /\ Len(files[archive]) >= Threshold
                       /\ \A i \in DOMAIN trainings : trainings[i].file # archive
    /\ at = "wait" => Len(trainings) # 0
    /\ \A i \in DOMAIN trainings : trainings[i].file \in DOMAIN files /\ trainings[i].file # path

Trained == TrainedAtMostOnce /\ TrainingWaitsForThreshold

LoopInv == Inv /\ TT!TriggerTypeOK /\ Renamed /\ Place /\ Trained

(* What any step but the rename does to the files: names stay, lines are kept,
   and what was made is made under a new number. *)
FilesGrow ==
    /\ Len(files) <= Len(files')
    /\ \A f \in DOMAIN files : Len(files[f]) <= Len(files'[f])
    /\ path' = path \/ (path = 0 /\ path' = Len(files) + 1)

------------------------------------------------------------------------------
LEMMA Lengths ==
    ASSUME TypeOK
    PROVE  /\ Len(files) \in Nat /\ DOMAIN files = 1..Len(files)
           /\ \A f \in DOMAIN files : files[f] \in Seq(Line) /\ Len(files[f]) \in Nat
           /\ buffer \in Seq(Line) /\ Len(buffer) \in Nat
  BY LenProperties, ElementOfSeq DEF TypeOK

(* The cleaner's own steps, in the loop. *)
LEMMA OpenGrows ==
    ASSUME Inv, OpenFile
    PROVE  FilesGrow
  <1>1. Len(files) \in Nat /\ DOMAIN files = 1..Len(files)
        /\ \A f \in DOMAIN files : Len(files[f]) \in Nat
    BY Lengths DEF Inv
  <1>2. CASE path = 0
    <2>1. files' = Append(files, <<>>) /\ path' = Len(files) + 1
      BY <1>2 DEF OpenFile
    <2>2. Len(files') = Len(files) + 1 /\ \A f \in 1..Len(files) : files'[f] = files[f]
      BY <2>1, AppendProperties, EmptySeq DEF Inv, TypeOK
    <2> QED
      BY <1>1, <1>2, <2>1, <2>2 DEF FilesGrow
  <1>3. CASE path # 0
    <2>1. files' = files /\ path' = path
      BY <1>3 DEF OpenFile, disk
    <2> QED
      BY <1>1, <2>1 DEF FilesGrow
  <1> QED
    BY <1>2, <1>3

LEMMA WriteIs ==
    ASSUME Inv, WriteFile
    PROVE  /\ handle \in DOMAIN files /\ path' = path
           /\ DOMAIN files' = DOMAIN files /\ Len(files') = Len(files)
           /\ \A f \in DOMAIN files :
                 Len(files'[f]) = Len(files[f]) + (IF f = handle THEN Len(buffer) ELSE 0)
  <1>1. handle \in DOMAIN files /\ path' = path
    BY Lengths DEF Inv, Phase, TypeOK, WriteFile
  <1>2. files[handle] \in Seq(Line) /\ buffer \in Seq(Line)
    BY <1>1, Lengths DEF Inv
  <1>3. Len(files[handle] \o buffer) = Len(files[handle]) + Len(buffer)
        /\ files[handle] \o buffer \in Seq(Line)
    BY <1>2, ConcatProperties
  <1>4. files' = [files EXCEPT ![handle] = files[handle] \o buffer]
    BY DEF WriteFile
  <1>5. files \in Seq(Seq(Line))
    BY DEF Inv, TypeOK
  <1>6. files' \in Seq(Seq(Line)) /\ Len(files') = Len(files) /\ DOMAIN files' = DOMAIN files
    BY <1>1, <1>3, <1>4, <1>5, ExceptSeq
  <1> QED
    BY <1>1, <1>3, <1>4, <1>6, Lengths DEF Inv

LEMMA WriteGrows ==
    ASSUME Inv, WriteFile
    PROVE  FilesGrow
  BY WriteIs, Lengths DEF FilesGrow, Inv

(* Every step of the cleaner, and the end of the process, keeps the files or
   is one of the two above. *)
LEMMA CleanerSteps ==
    ASSUME Inv, Step \/ AutoCommit \/ Signal \/ (\E b \in Bid : Age(b)) \/ Kill \/ Start
    PROVE  OpenFile \/ WriteFile \/ (UNCHANGED disk /\ handle' \in {handle, 0})
  <1>1. CASE Consume
    BY <1>1 DEF Consume, OnImpression, OnClick, OnConversion, Raise, OnNoId, StopOnMessage
  <1>2. CASE IdleExit
    BY <1>2 DEF IdleExit
  <1>3. CASE Flush
    BY <1>3 DEF Flush, FlushSample, LoopDone, Close
  <1>4. CASE AutoCommit \/ Signal \/ (\E b \in Bid : Age(b)) \/ Kill \/ Start
    BY <1>4 DEF AutoCommit, process, Signal, Age, Kill, Start
  <1> QED
    BY <1>1, <1>2, <1>3, <1>4 DEF Step

LEMMA CleanerGrows ==
    ASSUME Inv, OpenFile \/ WriteFile \/ (UNCHANGED disk /\ handle' \in {handle, 0})
    PROVE  FilesGrow
  <1>1. CASE UNCHANGED disk
    BY <1>1, Lengths DEF disk, FilesGrow, Inv
  <1> QED
    BY <1>1, OpenGrows, WriteGrows

LEMMA AsideStays ==
    ASSUME Inv, NEW f, NEW n \in Nat, Aside(f, n),
           OpenFile \/ WriteFile \/ (UNCHANGED disk /\ handle' \in {handle, 0})
    PROVE  Aside(f, n)'
  <1>1. f \in DOMAIN files /\ f # path /\ n <= Len(files[f]) /\ Len(files[f]) <= n + Batch
        /\ (handle = f => Len(files[f]) = n)
    BY DEF Aside
  <1>2. /\ Len(files) \in Nat /\ DOMAIN files = 1..Len(files) /\ Len(files[f]) \in Nat
        /\ Len(buffer) \in Nat /\ Len(buffer) <= Batch /\ Batch \in Nat
    BY <1>1, Lengths, CleanerAssumption DEF Inv, TypeOK, CleanerConstants
  <1>4. CASE UNCHANGED disk /\ handle' \in {handle, 0}
    <2>1. files' = files /\ path' = path
      BY <1>4 DEF disk
    <2>2. handle' = f => handle = f
      BY <1>1, <1>2, <1>4
    <2> QED
      BY <1>1, <2>1, <2>2 DEF Aside
  <1>5. CASE OpenFile
    <2>1. files' = files \/ files' = Append(files, <<>>)
      BY <1>5 DEF OpenFile, disk
    <2>2. f \in DOMAIN files' /\ files'[f] = files[f]
      BY <1>1, <1>2, <2>1, AppendProperties, EmptySeq DEF Inv, TypeOK
    <2>3. f # path' /\ handle' = path'
      BY <1>1, <1>2, <1>5 DEF OpenFile, disk
    <2> QED
      BY <1>1, <2>2, <2>3 DEF Aside
  <1>6. CASE WriteFile
    <2>1. /\ path' = path /\ DOMAIN files' = DOMAIN files
          /\ Len(files'[f]) = Len(files[f]) + (IF f = handle THEN Len(buffer) ELSE 0)
      BY <1>1, <1>6, WriteIs
    <2>2. handle' # f
      BY <1>1, <1>2, <1>6 DEF WriteFile
    <2>3. n <= Len(files'[f]) /\ Len(files'[f]) <= n + Batch
      <3>1. CASE f = handle
        BY <1>1, <1>2, <2>1, <3>1
      <3>2. CASE f # handle
        BY <1>1, <1>2, <2>1, <3>2
      <3> QED
        BY <3>1, <3>2
    <2> QED
      BY <1>1, <2>1, <2>2, <2>3 DEF Aside
  <1> QED
    BY <1>4, <1>5, <1>6

LEMMA ArchivesType ==
    ASSUME LoopInv, NEW i \in DOMAIN archives
    PROVE  archives[i].file \in Nat /\ archives[i].lines \in Nat
  <1>1. archives[i] \in TT!Archived
    BY ElementOfSeq DEF LoopInv, TT!TriggerTypeOK
  <1> QED
    BY <1>1 DEF TT!Archived

LEMMA CleanerRenamed ==
    ASSUME LoopInv, UNCHANGED archives,
           OpenFile \/ WriteFile \/ (UNCHANGED disk /\ handle' \in {handle, 0})
    PROVE  Renamed'
  <1>1. ASSUME NEW i \in DOMAIN archives
        PROVE  Aside(archives[i].file, archives[i].lines)'
    <2>1. /\ Aside(archives[i].file, archives[i].lines)
          /\ archives[i].file \in Nat /\ archives[i].lines \in Nat
      BY ArchivesType DEF LoopInv, Renamed
    <2>2. ASSUME NEW f, NEW n \in Nat, f = archives[i].file, n = archives[i].lines
          PROVE  Aside(f, n)'
      BY <2>1, <2>2, AsideStays DEF LoopInv
    <2> QED
      BY <2>1, <2>2 DEF Aside
  <1> QED
    BY <1>1 DEF Renamed

(* What the trigger knows stays true while the cleaner works. *)
LEMMA CleanerPlace ==
    ASSUME LoopInv, Inv', FilesGrow, UNCHANGED triggerVars
    PROVE  TT!TriggerTypeOK' /\ Place' /\ Trained'
  <1>1. /\ alive' = alive /\ at' = at /\ archive' = archive
        /\ archives' = archives /\ trainings' = trainings
    BY DEF triggerVars
  <1>2. /\ Len(files) \in Nat /\ DOMAIN files = 1..Len(files)
        /\ \A f \in DOMAIN files : Len(files[f]) \in Nat
        /\ Len(files) <= Len(files')
        /\ path \in 0..Len(files) /\ archive \in 0..Len(files) /\ Threshold \in Nat
    BY Lengths, DataLoopAssumption
    DEF LoopInv, Inv, TypeOK, TT!TriggerTypeOK, TT!TriggerConstants, FilesGrow
  <1>3. /\ Len(files') \in Nat /\ DOMAIN files' = 1..Len(files')
        /\ \A f \in DOMAIN files' : Len(files'[f]) \in Nat
        /\ \A f \in DOMAIN files : Len(files[f]) <= Len(files'[f])
    BY LenProperties, ElementOfSeq DEF Inv, TypeOK, FilesGrow
  <1>4. TT!TriggerTypeOK'
    <2>1. alive' \in BOOLEAN
      BY <1>1, Zenon DEF LoopInv, TT!TriggerTypeOK
    <2> QED
      BY <1>1, <1>2, <1>3, <2>1 DEF LoopInv, TT!TriggerTypeOK
  <1>5. \A i \in DOMAIN trainings : trainings[i].file \in DOMAIN files' /\ trainings[i].file # path'
    BY <1>2, <1>3 DEF LoopInv, Place, FilesGrow
  <1>6. at = "rename" => path' # 0 /\ Len(files'[path']) >= Threshold
    <2>1. at = "rename" => path' = path /\ path \in DOMAIN files /\ Len(files[path]) >= Threshold
      BY <1>2 DEF LoopInv, Place, FilesGrow
    <2> QED
      BY <1>2, <1>3, <2>1
  <1>7. at = "train" => archive # path' /\ Len(files'[archive]) >= Threshold
    <2>1. at = "train" => archive # path' /\ archive \in DOMAIN files /\ Len(files[archive]) >= Threshold
      BY <1>2 DEF LoopInv, Place, FilesGrow
    <2> QED
      BY <1>2, <1>3, <2>1
  <1>8. Place'
    BY <1>1, <1>5, <1>6, <1>7 DEF LoopInv, Place
  <1>9. Trained'
    BY <1>1 DEF LoopInv, Trained, TrainedAtMostOnce, TrainingWaitsForThreshold
  <1> QED
    BY <1>4, <1>8, <1>9

------------------------------------------------------------------------------
(* The container's kill is a crash that is counted elsewhere. *)
LEMMA KillInv ==
    ASSUME Inv, Kill, faults' \in 0..MaxFaults
    PROVE  Inv'
  <1> USE DEF kafka, disk, history
  <1>1. running' \in BOOLEAN
    BY Zenon DEF Kill, Inv, TypeOK
  <1>2. buffer' \in Seq(Line) /\ Len(buffer') = 0 /\ Len(files) \in Nat /\ Batch \in Nat \ {0}
    BY EmptySeq, Lengths, CleanerAssumption DEF Kill, Inv, CleanerConstants
  <1>3. TypeOK'
    BY <1>1, <1>2 DEF Kill, Inv, TypeOK
  <1>4. Phase'
    BY <1>2 DEF Kill, Phase
  <1> QED
    BY <1>3, <1>4 DEF Inv

(* A step that leaves the cleaner alone, but for the name of its file and the
   count of faults. *)
LEMMA OthersInv ==
    ASSUME Inv, UNCHANGED <<kafka, process, files, history>>, path' \in {path, 0},
           faults' \in 0..MaxFaults
    PROVE  Inv'
  <1> USE DEF kafka, process, samples, history
  <1>1. running' \in BOOLEAN
    BY Zenon DEF Inv, TypeOK
  <1>2. Len(files) \in Nat
    BY Lengths DEF Inv
  <1>3. TypeOK'
    BY <1>1, <1>2 DEF Inv, TypeOK
  <1>4. Phase'
    BY DEF Inv, Phase
  <1> QED
    BY <1>3, <1>4 DEF Inv

LEMMA CleanerLoop ==
    ASSUME LoopInv, CleanerRuns \/ CleanerAside
    PROVE  LoopInv'
  <1>1. UNCHANGED triggerVars /\ (Step \/ AutoCommit \/ Signal \/ \E b \in Bid : Age(b))
    BY DEF CleanerRuns, CleanerAside
  <1>2. Inv'
    BY <1>1, ConsumeInv, FlushInv, AsideInv DEF LoopInv, Step
  <1>3. OpenFile \/ WriteFile \/ (UNCHANGED disk /\ handle' \in {handle, 0})
    BY <1>1, CleanerSteps DEF LoopInv
  <1>4. FilesGrow
    BY <1>3, CleanerGrows DEF LoopInv
  <1>5. Renamed'
    BY <1>1, <1>3, CleanerRenamed DEF triggerVars
  <1> QED
    BY <1>1, <1>2, <1>4, <1>5, CleanerPlace DEF LoopInv

------------------------------------------------------------------------------
(* The trigger's own steps.  All but the rename leave the cleaner alone. *)
LEMMA Quiet ==
    ASSUME LoopInv, UNCHANGED <<vars, archives>>
    PROVE  Inv' /\ Renamed'
  <1> USE DEF vars, process, disk
  <1>1. Inv'
    BY OthersInv DEF LoopInv, Inv, TypeOK
  <1>2. Renamed'
    BY CleanerRenamed
  <1> QED
    BY <1>1, <1>2

LEMMA LoopNumbers ==
    ASSUME LoopInv
    PROVE  /\ Len(files) \in Nat /\ DOMAIN files = 1..Len(files)
           /\ \A f \in DOMAIN files : Len(files[f]) \in Nat
           /\ path \in 0..Len(files) /\ archive \in 0..Len(files)
           /\ Threshold \in Nat \ {0} /\ MaxSamples \in Nat \ {0}
           /\ trainings \in Seq(TT!Training) /\ DOMAIN trainings = 1..Len(trainings)
           /\ Len(trainings) \in Nat
  BY Lengths, LenProperties, DataLoopAssumption
  DEF LoopInv, Inv, TypeOK, TT!TriggerTypeOK, TT!TriggerConstants

(* The process moves on, and neither a file nor a training is touched. *)
LEMMA MovesInv ==
    ASSUME LoopInv, UNCHANGED <<vars, archives, trainings>>,
           alive' \in BOOLEAN,
           at' \in {"off", "count", "rename", "sleep", at},
           archive' \in {archive, 0}, at' = at => archive' = archive,
           at' = "rename" => at = "rename" \/ TT!count_lines >= Threshold
    PROVE  LoopInv'
  <1>1. Inv' /\ Renamed'
    BY Quiet
  <1>2. files' = files /\ path' = path
    BY DEF vars, disk
  <1>3. TT!TriggerTypeOK'
    BY <1>2, LoopNumbers DEF LoopInv, TT!TriggerTypeOK
  <1>4. at' = "rename" => path # 0 /\ Len(files[path]) >= Threshold
    BY LoopNumbers DEF LoopInv, Place, TT!count_lines
  <1>5. Place'
    BY <1>2, <1>4 DEF LoopInv, Place
  <1>6. Trained'
    BY DEF LoopInv, Trained, TrainedAtMostOnce, TrainingWaitsForThreshold
  <1> QED
    BY <1>1, <1>3, <1>5, <1>6 DEF LoopInv

LEMMA TrainLoop ==
    ASSUME LoopInv, TT!Train, UNCHANGED vars
    PROVE  LoopInv'
  <1> DEFINE n == Len(files[archive])
             lines == IF n < MaxSamples THEN n ELSE MaxSamples
             t == [file |-> archive, lines |-> lines, result |-> "running"]
  <1>1. Inv' /\ Renamed' /\ files' = files /\ path' = path
    BY Quiet DEF TT!Train, vars, disk
  <1>2. archive \in DOMAIN files /\ archive # path /\ n \in Nat /\ n >= Threshold
        /\ \A i \in DOMAIN trainings : trainings[i].file # archive
    BY LoopNumbers DEF LoopInv, Place, TT!Train
  <1>3. lines \in Nat /\ lines >= IF Threshold < MaxSamples THEN Threshold ELSE MaxSamples
    BY <1>2, LoopNumbers
  <1>4. t \in TT!Training /\ t.file = archive /\ t.lines = lines
    BY <1>2, <1>3, LoopNumbers DEF TT!Training
  <1>5. trainings' = Append(trainings, t)
    BY DEF TT!Train
  <1> HIDE DEF n, lines, t
  <1>6. /\ trainings' \in Seq(TT!Training) /\ Len(trainings') = Len(trainings) + 1
        /\ DOMAIN trainings' = 1..(Len(trainings) + 1)
        /\ \A i \in DOMAIN trainings : trainings'[i] = trainings[i]
        /\ trainings'[Len(trainings) + 1] = t
    BY <1>4, <1>5, LoopNumbers, AppendProperties, LenProperties
  <1>7. \A i \in DOMAIN trainings' : i \in DOMAIN trainings \/ i = Len(trainings) + 1
    BY <1>6, LoopNumbers
  <1>8. TT!TriggerTypeOK'
    <2>1. alive' \in BOOLEAN
      BY Zenon DEF LoopInv, TT!TriggerTypeOK, TT!Train
    <2> QED
      BY <1>1, <1>6, <2>1 DEF LoopInv, TT!TriggerTypeOK, TT!Train
  <1>9. Place'
    BY <1>1, <1>2, <1>4, <1>6, <1>7, LoopNumbers DEF LoopInv, Place, TT!Train
  <1>10. TrainedAtMostOnce'
    BY <1>2, <1>4, <1>6, <1>7 DEF LoopInv, Trained, TrainedAtMostOnce
  <1>11. TrainingWaitsForThreshold'
    BY <1>3, <1>4, <1>6, <1>7 DEF LoopInv, Trained, TrainingWaitsForThreshold
  <1> QED
    BY <1>1, <1>8, <1>9, <1>10, <1>11 DEF LoopInv, Trained

LEMMA ReturnsLoop ==
    ASSUME LoopInv, NEW result \in {"done", "failed", "broken"}, TT!TrainReturns(result),
           UNCHANGED vars
    PROVE  LoopInv'
  <1> DEFINE last == Len(trainings)
             t == [trainings[last] EXCEPT !.result = result]
  <1>1. Inv' /\ Renamed' /\ files' = files /\ path' = path
    BY Quiet DEF TT!TrainReturns, vars, disk
  <1>2. last \in DOMAIN trainings
    BY LoopNumbers DEF LoopInv, Place, TT!TrainReturns
  <1>3. trainings[last] \in TT!Training
    BY <1>2, LoopNumbers, ElementOfSeq
  <1>4. t \in TT!Training /\ t.file = trainings[last].file /\ t.lines = trainings[last].lines
    BY <1>3 DEF TT!Training
  <1>5. trainings' = [trainings EXCEPT ![last] = t]
    BY DEF TT!TrainReturns
  <1> HIDE DEF last, t
  <1>6. /\ trainings' \in Seq(TT!Training) /\ DOMAIN trainings' = DOMAIN trainings
        /\ Len(trainings') = Len(trainings)
    BY <1>2, <1>4, <1>5, LoopNumbers, ExceptSeq
  <1>7. \A i \in DOMAIN trainings :
            trainings'[i].file = trainings[i].file /\ trainings'[i].lines = trainings[i].lines
    BY <1>2, <1>4, <1>5, LoopNumbers
  <1>8. TT!TriggerTypeOK'
    <2>1. alive' \in BOOLEAN
      BY Zenon DEF LoopInv, TT!TriggerTypeOK, TT!TrainReturns
    <2> QED
      BY <1>1, <1>6, <2>1, LoopNumbers DEF LoopInv, TT!TriggerTypeOK, TT!TrainReturns
  <1>9. Place'
    BY <1>1, <1>6, <1>7 DEF LoopInv, Place, TT!TrainReturns
  <1>10. Trained'
    BY <1>6, <1>7 DEF LoopInv, Trained, TrainedAtMostOnce, TrainingWaitsForThreshold
  <1> QED
    BY <1>1, <1>8, <1>9, <1>10 DEF LoopInv

(* The rename: the file is full enough, nobody trained on it while it was the
   data file, and a cleaner that has it open has not written to it since. *)
LEMMA ArchiveLoop ==
    ASSUME LoopInv, TT!Archive, UNCHANGED <<kafka, process, faults, history>>
    PROVE  LoopInv'
  <1> DEFINE a == [file |-> path, lines |-> Len(files[path])]
  <1>1. path \in DOMAIN files /\ Len(files[path]) >= Threshold /\ Len(files[path]) \in Nat
    BY LoopNumbers DEF LoopInv, Place, TT!Archive
  <1>2. files' = files /\ path' = 0 /\ archive' = path /\ handle' = handle
        /\ trainings' = trainings /\ at' = "train"
    BY DEF TT!Archive, process
  <1>3. Inv'
    BY <1>2, OthersInv DEF LoopInv, Inv, TypeOK
  <1>4. a \in TT!Archived /\ a.file = path /\ a.lines = Len(files[path])
    BY <1>1, LoopNumbers DEF TT!Archived
  <1>5. archives' = Append(archives, a) /\ archives \in Seq(TT!Archived)
    BY DEF TT!Archive, LoopInv, TT!TriggerTypeOK
  <1> HIDE DEF a
  <1>6. /\ archives' \in Seq(TT!Archived)
        /\ DOMAIN archives' = 1..(Len(archives) + 1) /\ DOMAIN archives = 1..Len(archives)
        /\ Len(archives) \in Nat
        /\ \A i \in DOMAIN archives : archives'[i] = archives[i]
        /\ archives'[Len(archives) + 1] = a
    BY <1>4, <1>5, AppendProperties, LenProperties
  <1>7. TT!TriggerTypeOK'
    <2>1. alive' \in BOOLEAN
      BY Zenon DEF LoopInv, TT!TriggerTypeOK, TT!Archive
    <2> QED
      BY <1>2, <1>6, <2>1, LoopNumbers DEF LoopInv, TT!TriggerTypeOK
  <1>8. Renamed'
    <2>1. ASSUME NEW i \in DOMAIN archives
          PROVE  Aside(archives[i].file, archives[i].lines)'
      <3>1. Aside(archives[i].file, archives[i].lines)
        BY DEF LoopInv, Renamed
      <3> QED
        BY <1>2, <1>6, <3>1, LoopNumbers DEF Aside
    <2>2. ASSUME NEW i \in DOMAIN archives', i \notin DOMAIN archives
          PROVE  archives'[i] = a
      BY <1>6, <2>2
    <2>3. ASSUME NEW i \in DOMAIN archives
          PROVE  archives'[i] = archives[i]
      BY <1>6
    <2> QED
      BY <1>1, <1>2, <1>4, <2>1, <2>2, <2>3, LoopNumbers, CleanerAssumption
      DEF Renamed, Aside, CleanerConstants
  <1>9. Place'
    BY <1>1, <1>2, LoopNumbers DEF LoopInv, Place
  <1>10. Trained'
    BY <1>2 DEF LoopInv, Trained, TrainedAtMostOnce, TrainingWaitsForThreshold
  <1> QED
    BY <1>3, <1>7, <1>8, <1>9, <1>10 DEF LoopInv

LEMMA TriggerLoop ==
    ASSUME LoopInv, TriggerRuns
    PROVE  LoopInv'
  <1>1. CASE TT!Archive /\ UNCHANGED <<kafka, process, faults, history>>
    BY <1>1, ArchiveLoop
  <1>2. CASE (TT!Count \/ TT!Wake) /\ UNCHANGED vars
    <2>1. alive' \in BOOLEAN
      BY <1>2, Zenon DEF TT!Count, TT!Wake, LoopInv, TT!TriggerTypeOK
    <2> QED
      BY <1>2, <2>1, MovesInv DEF TT!Count, TT!Wake
  <1>3. CASE TT!Train /\ UNCHANGED vars
    BY <1>3, TrainLoop
  <1>4. CASE (TT!TrainEnds \/ TT!TrainBreaks) /\ UNCHANGED vars
    <2>1. \E result \in {"done", "failed", "broken"} : TT!TrainReturns(result)
      BY <1>4 DEF TT!TrainEnds, TT!TrainBreaks
    <2> QED
      BY <1>4, <2>1, ReturnsLoop
  <1> QED
    BY <1>1, <1>2, <1>3, <1>4 DEF TriggerRuns, TT!Run

(* The container's steps, a signal to the trigger, and a step that changes
   nothing: the process is stopped or started, the files stay. *)
LEMMA StopLoop ==
    ASSUME LoopInv, Inv', UNCHANGED <<disk, archives, trainings>>, handle' \in {handle, 0},
           alive' \in BOOLEAN, at' \in {"off", "count", at}, archive' \in {archive, 0},
           at' = at => archive' = archive \/ at = "off"
    PROVE  LoopInv'
  <1>1. Renamed'
    BY CleanerRenamed
  <1>2. files' = files /\ path' = path
    BY DEF disk
  <1>3. TT!TriggerTypeOK'
    BY <1>2, LoopNumbers DEF LoopInv, TT!TriggerTypeOK
  <1>4. Place'
    BY <1>2 DEF LoopInv, Place
  <1>5. Trained'
    BY DEF LoopInv, Trained, TrainedAtMostOnce, TrainingWaitsForThreshold
  <1> QED
    BY <1>1, <1>3, <1>4, <1>5 DEF LoopInv

LEMMA LoopStep == LoopInv /\ [LoopNext]_loopVars => LoopInv'
  <1> SUFFICES ASSUME LoopInv, [LoopNext]_loopVars PROVE LoopInv'
    OBVIOUS
  <1>1. alive \in BOOLEAN /\ faults \in 0..MaxFaults /\ MaxFaults \in Nat
    BY CleanerAssumption DEF LoopInv, Inv, TypeOK, TT!TriggerTypeOK, CleanerConstants
  <1>2. CASE CleanerRuns \/ CleanerAside
    BY <1>2, CleanerLoop
  <1>3. CASE TriggerRuns
    BY <1>3, TriggerLoop
  <1>4. CASE TriggerSignal
    <2>1. alive' \in BOOLEAN
      BY <1>4, Zenon DEF TriggerSignal, TT!Signal
    <2>2. faults' \in 0..MaxFaults
      BY <1>1, <1>4 DEF TriggerSignal
    <2>3. Inv'
      BY <1>4, <2>2, OthersInv DEF TriggerSignal, LoopInv, disk
    <2> QED
      BY <1>4, <2>1, <2>3, StopLoop DEF TriggerSignal, TT!Signal, process
  <1>5. CASE ContainerKilled \/ ContainerEnds
    <2>1. Kill /\ TT!Kill /\ faults' \in 0..MaxFaults
      BY <1>1, <1>5 DEF ContainerKilled, ContainerEnds
    <2>2. alive' \in BOOLEAN
      BY <1>1, <2>1, Zenon DEF TT!Kill
    <2>3. Inv'
      BY <2>1, KillInv DEF LoopInv
    <2>4. at' = "off" /\ archive' = 0
      BY <2>1 DEF TT!Kill
    <2> QED
      BY <2>1, <2>2, <2>3, <2>4, StopLoop DEF Kill, TT!Kill
  <1>6. CASE ContainerStarts
    <2>1. Inv'
      BY <1>6, AsideInv DEF ContainerStarts, LoopInv
    <2>2. UNCHANGED disk /\ handle' = handle
      BY <1>6 DEF ContainerStarts, Start
    <2>3. alive' = TRUE /\ at' = "count" /\ at = "off" /\ UNCHANGED <<archive, archives, trainings>>
      BY <1>6 DEF ContainerStarts, TT!Launch
    <2>4. alive' \in BOOLEAN
      BY <2>3, Zenon
    <2> QED
      BY <2>1, <2>2, <2>3, <2>4, StopLoop
  <1>7. CASE UNCHANGED loopVars
    <2>1. alive' \in BOOLEAN
      BY <1>1, <1>7, Zenon DEF loopVars, triggerVars
    <2> QED
      BY <1>7, <2>1, MovesInv DEF loopVars, triggerVars
  <1> QED
    BY <1>2, <1>3, <1>4, <1>5, <1>6, <1>7 DEF LoopNext, Container

LEMMA LoopStarts == LoopInit => LoopInv
  <1> SUFFICES ASSUME LoopInit PROVE LoopInv
    OBVIOUS
  <1>1. Inv
    BY InitInv DEF LoopInit
  <1>2. DOMAIN archives = {} /\ DOMAIN trainings = {} /\ archives \in Seq(TT!Archived)
        /\ trainings \in Seq(TT!Training)
    BY EmptySeq DEF LoopInit, TT!Init
  <1>3. Len(files) \in Nat
    BY <1>1, Lengths DEF Inv
  <1>4. TT!TriggerTypeOK
    BY <1>2, <1>3 DEF LoopInit, TT!Init, TT!TriggerTypeOK
  <1>5. Renamed /\ Place /\ Trained
    BY <1>2 DEF LoopInit, TT!Init, Renamed, Place, Trained, TrainedAtMostOnce,
                TrainingWaitsForThreshold
  <1> QED
    BY <1>1, <1>4, <1>5 DEF LoopInv

LEMMA AlwaysLoop == LoopSpec => []LoopInv
  BY LoopStarts, LoopStep, PTL DEF LoopSpec

------------------------------------------------------------------------------
(* LoopTypeOK: the trigger's archive is a file there is, and the cleaner's
   variables keep their types beside a process that renames its file. *)
THEOREM LoopTyped == LoopSpec => []LoopTypeOK
  <1>1. LoopInv => LoopTypeOK
    BY DEF LoopInv, Inv, LoopTypeOK
  <1> QED
    BY <1>1, AlwaysLoop, PTL

(* TrainedAtMostOnce: no archive is given to pretrain.py twice, wherever the
   trigger or the container was stopped (training_trigger.py:96-107). *)
THEOREM TrainedOnce == LoopSpec => []TrainedAtMostOnce
  <1>1. LoopInv => TrainedAtMostOnce
    BY DEF LoopInv, Trained
  <1> QED
    BY <1>1, AlwaysLoop, PTL

(* TrainingWaitsForThreshold: the count, the rename and the training are three
   steps with a writer between them, and the samples counted are still there
   at the last (training_trigger.py:96-107). *)
THEOREM WaitsForThreshold == LoopSpec => []TrainingWaitsForThreshold
  <1>1. LoopInv => TrainingWaitsForThreshold
    BY DEF LoopInv, Trained
  <1> QED
    BY <1>1, AlwaysLoop, PTL

(* AtMostOneLateFlush: the cleaner's open file is the only way into an archive
   and is closed by the write it allows (sample_cleaner.py flush,
   training_trigger.py archive_data_file). *)
THEOREM LateFlushIsOne == LoopSpec => []AtMostOneLateFlush
  <1>1. ASSUME LoopInv, NEW i \in DOMAIN archives
        PROVE  Len(files[archives[i].file]) - archives[i].lines <= Batch
    <2>1. Aside(archives[i].file, archives[i].lines)
      BY <1>1 DEF LoopInv, Renamed
    <2> QED
      BY <1>1, <2>1, ArchivesType, LoopNumbers, CleanerAssumption DEF Aside, CleanerConstants
  <1>2. LoopInv => AtMostOneLateFlush
    BY <1>1 DEF AtMostOneLateFlush
  <1> QED
    BY <1>2, AlwaysLoop, PTL

------------------------------------------------------------------------------
(* What the cleaner promises on its own it still promises in the container.
   A step of the loop is one of the cleaner's, or kills it, or leaves it alone
   but for the name of its file. *)
LEMMA LoopSteps ==
    ASSUME [LoopNext]_loopVars
    PROVE  [Next]_vars \/ Kill \/ UNCHANGED <<kafka, process, files, history>>
  <1>1. CASE CleanerRuns \/ CleanerAside
    BY <1>1 DEF CleanerRuns, CleanerAside, Next
  <1>2. CASE TriggerRuns \/ TriggerSignal
    BY <1>2 DEF TriggerRuns, TriggerSignal, TT!Archive, disk
  <1>3. CASE ContainerKilled \/ ContainerEnds
    BY <1>3 DEF ContainerKilled, ContainerEnds
  <1>4. CASE ContainerStarts
    BY <1>4 DEF ContainerStarts, Next
  <1>5. CASE UNCHANGED loopVars
    BY <1>5 DEF loopVars
  <1> QED
    BY <1>1, <1>2, <1>3, <1>4, <1>5 DEF LoopNext, Container

LEMMA EarnedLoop == LoopInv /\ Earned /\ [LoopNext]_loopVars => Earned'
  <1> SUFFICES ASSUME LoopInv, Earned, [LoopNext]_loopVars PROVE Earned'
    OBVIOUS
  <1>1. CASE [Next]_vars
    BY <1>1, EarnedStep DEF LoopInv
  <1>2. CASE Kill
    <2>1. DOMAIN buffer' = {} /\ pending' = {} /\ clicked' = {} /\ converted' = {}
      BY <1>2 DEF Kill
    <2>2. UNCHANGED <<log, high, files>>
      BY <1>2 DEF Kill, kafka, disk, history
    <2> QED
      BY <2>1, <2>2 DEF Earned, EarnedLine, ReadEvents
  <1>3. CASE UNCHANGED <<kafka, process, files, history>>
    BY <1>3 DEF Earned, EarnedLine, ReadEvents, kafka, process, samples, history
  <1> QED
    BY <1>1, <1>2, <1>3, LoopSteps

LEMMA CountLoop == LoopInv /\ CountInv /\ [LoopNext]_loopVars => CountInv'
  <1> SUFFICES ASSUME LoopInv, CountInv, [LoopNext]_loopVars PROVE CountInv'
    OBVIOUS
  <1>1. CASE [Next]_vars
    BY <1>1, CountStep DEF LoopInv
  <1>2. CASE Kill
    BY <1>2, KillCount DEF LoopInv
  <1>3. CASE UNCHANGED <<kafka, process, files, history>>
    BY <1>3 DEF CountInv, Copies, Written, LinesOf, process, samples, history
  <1> QED
    BY <1>1, <1>2, <1>3, LoopSteps

LEMMA LoopCounted == LoopSpec => [](LoopInv /\ Earned /\ CountInv)
  <1>1. LoopInit => Earned /\ CountInv
    <2>1. LoopInit => Init
      BY DEF LoopInit
    <2> QED
      BY <2>1, EarnedStarts, CountStarts
  <1> QED
    BY <1>1, LoopStarts, LoopStep, EarnedLoop, CountLoop, PTL DEF LoopSpec

(* LabelsHaveEvents, in the container: renaming the file under the cleaner and
   killing it with the trigger put no label into a file, nor into an archive,
   that no event stands for. *)
THEOREM LoopLabelsAreEarned == LoopSpec => []LabelsHaveEvents
  <1>1. Earned => LabelsHaveEvents
    BY DEF Earned, EarnedLine, LabelsHaveEvents
  <1> QED
    BY <1>1, LoopCounted, PTL

(* AtMostOneLinePerJoin, in the container: over the data file and all archives
   together there are never more lines of a bid than joins of it; a rename
   between two flushes writes nothing twice. *)
THEOREM LoopLinesAreJoins == LoopSpec => []AtMostOneLinePerJoin
  <1>1. CountInv => AtMostOneLinePerJoin
    BY DEF CountInv, AtMostOneLinePerJoin
  <1> QED
    BY <1>1, LoopCounted, PTL

(* In the container a sample is lost to a kill, or because the trigger has left
   and the container ends with it (Dockerfile.data-loop: the cleaner is not
   told to flush); all else keeps every sample, as OnlyKillsLoseSamples. *)
LoopKeepsSamples ==
    [][ContainerKilled \/ ContainerEnds \/ \A b \in Bid : Kept(b)]_loopVars

(* LoopKeepsSamples: the trigger's steps lose no sample, the rename between the
   cleaner's open and its write included, and the trigger's leaving is the only
   way to lose one without a kill. *)
THEOREM LoopLosesOnlyAtEnd == LoopSpec => LoopKeepsSamples
  <1>1. ASSUME LoopInv, CountInv, [LoopNext]_loopVars, ~ContainerKilled, ~ContainerEnds,
               NEW b \in Bid
        PROVE  Kept(b)
    <2>1. CASE CleanerRuns \/ CleanerAside \/ ContainerStarts \/ UNCHANGED loopVars
      <3>1. Step \/ AutoCommit \/ (\E c \in Bid : Age(c)) \/ Signal \/ Start \/ UNCHANGED vars
        BY <2>1 DEF CleanerRuns, CleanerAside, ContainerStarts, loopVars
      <3> QED
        BY <1>1, <3>1, KeptStep DEF LoopInv
    <2>2. CASE TriggerRuns \/ TriggerSignal
      <3>1. UNCHANGED <<files, buffer, pending, joined>>
        BY <2>2 DEF TriggerRuns, TriggerSignal, TT!Archive, vars, process, samples, disk, history
      <3> QED
        BY <1>1, <3>1, CopiesStay DEF LoopInv
    <2> QED
      BY <1>1, <2>1, <2>2 DEF LoopNext, Container
  <1>2. LoopInv /\ CountInv /\ [LoopNext]_loopVars =>
          [ContainerKilled \/ ContainerEnds \/ \A b \in Bid : Kept(b)]_loopVars
    BY <1>1
  <1> QED
    BY <1>2, LoopCounted, PTL DEF LoopSpec, LoopKeepsSamples
=============================================================================
