------------------------ MODULE SampleCleaner_proofs -------------------------
(***************************************************************************)
(* Proofs about SampleCleaner, for any topics, bids and buffer size: its   *)
(* state is well typed, what it joined is lost only by a kill, and every   *)
(* label in a file stands for an event.                                    *)
(***************************************************************************)
EXTENDS SampleCleaner, FiniteSetTheorems, SequenceTheorems, TLAPS

(* What each place of the process knows: only a full buffer is being written,
   a process that leaves leaves nothing pending, and one that is gone has no
   samples. *)
Phase ==
    /\ pc \in {"off", "poll", "flush"} => Len(buffer) < Batch
    /\ pc = "write" => handle # 0
    /\ pc \notin {"off", "poll"} /\ mode = "stop" => leaving = pending
    /\ pc = "off" => pending = {} /\ buffer = <<>>

Inv == TypeOK /\ Phase

(* A line, written or not, whose labels stand for events that were read. *)
EarnedLine(line) ==
    /\ line.bid \in ReadEvents("ad_impressions")
    /\ line.clicked => line.bid \in ReadEvents("ad_clicks")
    /\ line.converted => line.bid \in ReadEvents("ad_conversions")

(* The same after a step, of a line before it. *)
EarnedNext(line) ==
    /\ line.bid \in ReadEvents("ad_impressions")'
    /\ line.clicked => line.bid \in ReadEvents("ad_clicks")'
    /\ line.converted => line.bid \in ReadEvents("ad_conversions")'

Earned ==
    /\ pending \subseteq ReadEvents("ad_impressions")
    /\ clicked \subseteq ReadEvents("ad_clicks")
    /\ converted \subseteq ReadEvents("ad_conversions")
    /\ \A i \in DOMAIN buffer : EarnedLine(buffer[i])
    /\ \A f \in DOMAIN files : \A i \in DOMAIN files[f] : EarnedLine(files[f][i])

------------------------------------------------------------------------------
LEMMA LogsAreSequences ==
    ASSUME TypeOK
    PROVE  /\ \A t \in Topic : Len(log[t]) \in Nat
           /\ Topic = {"ad_impressions", "ad_clicks", "ad_conversions"}
  <1>1. log \in [Topic -> Seq(Bid \cup {NoId})]
    BY CleanerAssumption DEF TypeOK, CleanerConstants
  <1> QED
    BY <1>1, LenProperties DEF Topic

LEMMA LineType ==
    ASSUME NEW b \in Bid, NEW c \in BOOLEAN, NEW d \in BOOLEAN
    PROVE  [bid |-> b, clicked |-> c, converted |-> d] \in Line
  BY DEF Line

LEMMA InitInv == Init => Inv
  <1> SUFFICES ASSUME Init PROVE Inv
    OBVIOUS
  <1>1. \A t \in Topic : Len(log[t]) \in Nat
    BY CleanerAssumption, LenProperties DEF Init, CleanerConstants
  <1>2. buffer \in Seq(Line) /\ files \in Seq(Seq(Line)) /\ Len(buffer) = 0 /\ Len(files) = 0
    BY EmptySeq DEF Init
  <1>3. TypeOK
    BY <1>1, <1>2, CleanerAssumption DEF Init, TypeOK, CleanerConstants, Offsets
  <1>4. Phase
    BY <1>2, CleanerAssumption DEF Init, Phase, CleanerConstants
  <1> QED
    BY <1>3, <1>4 DEF Inv

(* The next message moves a position, and the furthest one with it. *)
LEMMA ReadType ==
    ASSUME TypeOK, NEW t \in Topic, Read(t), kafka' = kafka
    PROVE  /\ pos' \in Offsets /\ high' \in Offsets
           /\ log' \in Logs /\ committed' \in Offsets
           /\ \A u \in Topic : /\ committed'[u] <= high'[u] /\ pos'[u] <= high'[u]
                               /\ high'[u] <= Len(log'[u]) /\ high[u] <= high'[u]
  <1>1. \A u \in Topic : Len(log[u]) \in Nat
    BY LogsAreSequences
  <1>2. pos' \in Offsets /\ high' \in Offsets
    BY DEF Read, TypeOK, Offsets
  <1>3. log' \in Logs /\ committed' \in Offsets
    BY DEF kafka, TypeOK
  <1>4. ASSUME NEW u \in Topic
        PROVE  /\ committed'[u] <= high'[u] /\ pos'[u] <= high'[u]
               /\ high'[u] <= Len(log'[u]) /\ high[u] <= high'[u]
    <2>1. CASE u = t
      BY <1>1, <2>1 DEF Read, TypeOK, Offsets, kafka
    <2>2. CASE u # t
      BY <1>1, <2>2 DEF Read, TypeOK, Offsets, kafka
    <2> QED
      BY <2>1, <2>2
  <1> QED
    BY <1>2, <1>3, <1>4

(* A step that reads a message and keeps the buffer and the files. *)
LEMMA ReadInv ==
    ASSUME Inv, NEW t \in Topic, Read(t),
           UNCHANGED <<kafka, buffer, handle, running, disk, faults>>,
           pending' \subseteq Bid, clicked' \subseteq pending', converted' \subseteq pending',
           stale' \subseteq pending', leaving' \subseteq pending',
           joined' \in [Bid -> Nat],
           \/ mode' \in {"convert", "expire"} /\ pc' \in {"poll", "flush"}
           \/ mode' = "stop" /\ pc' = "flush" /\ leaving' = pending'
    PROVE  Inv'
  <1>1. TypeOK'
    <2>1. /\ pos' \in Offsets /\ high' \in Offsets
          /\ log' \in Logs /\ committed' \in Offsets
          /\ \A u \in Topic : /\ committed'[u] <= high'[u] /\ pos'[u] <= high'[u]
                              /\ high'[u] <= Len(log'[u])
      BY ReadType DEF Inv
    <2>2. running' \in BOOLEAN
      BY Zenon DEF Inv, TypeOK
    <2> QED
      BY <2>1, <2>2 DEF Inv, TypeOK, disk
  <1>2. Phase'
    BY DEF Inv, Phase, Read
  <1> QED
    BY <1>1, <1>2 DEF Inv

LEMMA ConsumeInv == Inv /\ Consume => Inv'
  <1> SUFFICES ASSUME Inv, Consume PROVE Inv'
    OBVIOUS
  <1> USE DEF ExpireLoop, Shutdown, samples, Inv, TypeOK
  <1>1. ASSUME NEW b \in Bid, OnImpression(b) PROVE Inv'
    <2>1. joined' \in [Bid -> Nat]
      BY <1>1 DEF OnImpression
    <2>2. Read("ad_impressions") /\ "ad_impressions" \in Topic
      BY <1>1 DEF OnImpression, Topic
    <2>3. /\ pending' \subseteq Bid /\ clicked' \subseteq pending' /\ converted' \subseteq pending'
          /\ stale' \subseteq pending' /\ leaving' \subseteq pending'
      BY <1>1 DEF OnImpression
    <2> QED
      BY <1>1, <2>1, <2>2, <2>3, ReadInv DEF OnImpression
  <1>2. ASSUME NEW b \in Bid, OnClick(b) PROVE Inv'
    <2>1. Read("ad_clicks") /\ "ad_clicks" \in Topic
      BY <1>2 DEF OnClick, Topic
    <2>2. /\ pending' \subseteq Bid /\ clicked' \subseteq pending' /\ converted' \subseteq pending'
          /\ stale' \subseteq pending' /\ leaving' \subseteq pending' /\ joined' = joined
      BY <1>2 DEF OnClick
    <2> QED
      BY <1>2, <2>1, <2>2, ReadInv DEF OnClick
  <1>3. ASSUME NEW b \in Bid, OnConversion(b) PROVE Inv'
    <2>1. Read("ad_conversions") /\ "ad_conversions" \in Topic
      BY <1>3 DEF OnConversion, Topic
    <2>2. /\ pending' \subseteq Bid /\ clicked' \subseteq pending' /\ converted' \subseteq pending'
          /\ stale' \subseteq pending' /\ leaving' \subseteq pending' /\ joined' = joined
      BY <1>3 DEF OnConversion
    <2> QED
      BY <1>3, <2>1, <2>2, ReadInv DEF OnConversion
  <1>4. ASSUME NEW b \in Bid, Raise(b) PROVE Inv'
    <2>1. Read("ad_impressions") /\ "ad_impressions" \in Topic
      BY <1>4 DEF Raise, Topic
    <2> QED
      BY <1>4, <2>1, ReadInv DEF Raise
  <1>5. ASSUME NEW t \in Topic, OnNoId(t) PROVE Inv'
    BY <1>5, ReadInv DEF OnNoId
  <1>6. ASSUME NEW t \in Topic, StopOnMessage(t) PROVE Inv'
    BY <1>6, ReadInv DEF StopOnMessage
  <1> QED
    BY <1>1, <1>2, <1>3, <1>4, <1>5, <1>6 DEF Consume

LEMMA FlushInv == Inv /\ Flush => Inv'
  <1> SUFFICES ASSUME Inv, Flush PROVE Inv'
    OBVIOUS
  <1> USE DEF kafka, samples, disk, history
  <1>1. ASSUME NEW b \in Bid, FlushSample(b) PROVE Inv'
    <2> DEFINE line == [bid |-> b, clicked |-> b \in clicked, converted |-> b \in converted]
    <2>1. line \in Line
      <3>1. (b \in clicked) \in BOOLEAN /\ (b \in converted) \in BOOLEAN
        OBVIOUS
      <3> QED
        BY <3>1, LineType
    <2>2. buffer' = Append(buffer, line) /\ buffer \in Seq(Line)
      BY <1>1 DEF FlushSample, Inv, TypeOK
    <2> HIDE DEF line
    <2>3. buffer' \in Seq(Line) /\ Len(buffer') = Len(buffer) + 1
      BY <2>1, <2>2, AppendProperties
    <2>4. Len(buffer) \in Nat /\ Len(buffer) < Batch /\ Batch \in Nat
      BY <1>1, <2>2, LenProperties, CleanerAssumption
         DEF FlushSample, Inv, Phase, CleanerConstants
    <2>5. running' \in BOOLEAN
      BY <1>1, Zenon DEF FlushSample, Inv, TypeOK
    <2>6. TypeOK'
      BY <1>1, <2>3, <2>4, <2>5 DEF FlushSample, Inv, TypeOK
    <2>7. Phase'
      BY <1>1, <2>3, <2>4 DEF FlushSample, Inv, Phase
    <2> QED
      BY <2>6, <2>7 DEF Inv
  <1>2. CASE LoopDone
    <2>1. running' \in BOOLEAN
      BY <1>2, Zenon DEF LoopDone, Inv, TypeOK
    <2>2. /\ leaving' \subseteq pending /\ mode' \in {"convert", "expire", "stop"}
          /\ pc' \in {"poll", "flush", "open"}
          /\ mode' = "stop" => leaving' = pending
      BY <1>2 DEF LoopDone, ExpireLoop, Inv, TypeOK, Phase
    <2>3. TypeOK'
      BY <1>2, <2>1, <2>2 DEF LoopDone, Inv, TypeOK
    <2>4. Phase'
      BY <1>2, <2>2 DEF LoopDone, Inv, Phase
    <2> QED
      BY <2>3, <2>4 DEF Inv
  <1>3. CASE OpenFile
    <2>1. running' \in BOOLEAN
      BY <1>3, Zenon DEF OpenFile, Inv, TypeOK
    <2>2. /\ files' \in Seq(Seq(Line)) /\ Len(files') \in Nat
          /\ path' \in 0..Len(files') /\ path' # 0
      <3>1. files \in Seq(Seq(Line)) /\ Len(files) \in Nat
        BY LenProperties DEF Inv, TypeOK
      <3>2. CASE path = 0
        <4>1. files' = Append(files, <<>>) /\ path' = Len(files) + 1
          BY <1>3, <3>2 DEF OpenFile
        <4>2. <<>> \in Seq(Line)
          BY EmptySeq
        <4>3. files' \in Seq(Seq(Line)) /\ Len(files') = Len(files) + 1
          BY <3>1, <4>1, <4>2, AppendProperties
        <4> QED
          BY <3>1, <4>1, <4>3
      <3>3. CASE path # 0
        BY <1>3, <3>1, <3>3 DEF OpenFile, Inv, TypeOK
      <3> QED
        BY <3>2, <3>3
    <2>3. TypeOK'
      BY <1>3, <2>1, <2>2 DEF OpenFile, Inv, TypeOK
    <2>4. Phase'
      BY <1>3, <2>2 DEF OpenFile, Inv, Phase
    <2> QED
      BY <2>3, <2>4 DEF Inv
  <1>4. CASE WriteFile
    <2>1. running' \in BOOLEAN
      BY <1>4, Zenon DEF WriteFile, Inv, TypeOK
    <2>2. files' \in Seq(Seq(Line)) /\ Len(files') = Len(files) /\ Len(files) \in Nat
      <3>1. files \in Seq(Seq(Line)) /\ handle \in 1..Len(files) /\ buffer \in Seq(Line)
        BY <1>4, LenProperties DEF WriteFile, Inv, TypeOK, Phase
      <3>2. files[handle] \o buffer \in Seq(Line)
        <4>1. files[handle] \in Seq(Line)
          BY <3>1, ElementOfSeq
        <4> QED
          BY <3>1, <4>1, ConcatProperties
      <3>3. files' = [files EXCEPT ![handle] = files[handle] \o buffer]
        BY <1>4 DEF WriteFile
      <3> QED
        BY <3>1, <3>2, <3>3, ExceptSeq, LenProperties
    <2>3. buffer' = <<>> /\ buffer' \in Seq(Line) /\ Len(buffer') = 0
      BY <1>4, EmptySeq DEF WriteFile
    <2>4. TypeOK'
      BY <1>4, <2>1, <2>2, <2>3, CleanerAssumption DEF WriteFile, Inv, TypeOK, CleanerConstants
    <2>5. Phase'
      BY <1>4, <2>3, CleanerAssumption DEF WriteFile, Inv, Phase, CleanerConstants
    <2> QED
      BY <2>4, <2>5 DEF Inv
  <1>5. CASE Close
    <2>1. running' \in BOOLEAN
      BY <1>5, Zenon DEF Close, Inv, TypeOK
    <2>2. committed' \in Offsets /\ \A t \in Topic : committed'[t] <= high'[t]
      BY <1>5 DEF Close, Commit, Inv, TypeOK
    <2>3. faults' \in 0..MaxFaults
      BY <1>5, CleanerAssumption DEF Close, Commit, Inv, TypeOK, CleanerConstants
    <2>4. TypeOK'
      BY <1>5, <2>1, <2>2, <2>3 DEF Close, Inv, TypeOK
    <2>5. Phase'
      BY <1>5 DEF Close, Inv, Phase
    <2> QED
      BY <2>4, <2>5 DEF Inv
  <1> QED
    BY <1>1, <1>2, <1>3, <1>4, <1>5 DEF Flush

(* The other ends of the process, the broker and the clock. *)
LEMMA AsideInv ==
    Inv /\ (IdleExit \/ AutoCommit \/ (\E b \in Bid : Age(b)) \/ Signal \/ Crash \/ Start) => Inv'
  <1> SUFFICES ASSUME Inv,
                      IdleExit \/ AutoCommit \/ (\E b \in Bid : Age(b)) \/ Signal \/ Crash \/ Start
               PROVE  Inv'
    OBVIOUS
  <1> USE DEF kafka, samples, disk, history, process
  <1>1. running' \in BOOLEAN
    BY Zenon DEF IdleExit, AutoCommit, Age, Signal, Crash, Kill, Start, Inv, TypeOK
  <1>2. Batch \in Nat \ {0}
    BY CleanerAssumption DEF CleanerConstants
  <1>3. CASE IdleExit
    BY <1>1, <1>3 DEF IdleExit, Shutdown, Inv, TypeOK, Phase
  <1>4. CASE AutoCommit
    BY <1>1, <1>4 DEF AutoCommit, Inv, TypeOK, Phase
  <1>5. ASSUME NEW b \in Bid, Age(b) PROVE Inv'
    BY <1>1, <1>5 DEF Age, Inv, TypeOK, Phase
  <1>6. CASE Signal
    BY <1>1, <1>6 DEF Signal, Inv, TypeOK, Phase
  <1>7. CASE Crash
    <2>1. faults' \in 0..MaxFaults
      BY <1>7, CleanerAssumption DEF Crash, Inv, TypeOK, CleanerConstants
    <2>2. buffer' \in Seq(Line) /\ Len(buffer') = 0 /\ Len(files) \in Nat
      <3>1. buffer' = <<>> /\ files \in Seq(Seq(Line))
        BY <1>7 DEF Crash, Kill, Inv, TypeOK
      <3> QED
        BY <3>1, EmptySeq, LenProperties
    <2>3. TypeOK'
      BY <1>1, <1>2, <1>7, <2>1, <2>2 DEF Crash, Kill, Inv, TypeOK
    <2>4. Phase'
      BY <1>2, <1>7, <2>2 DEF Crash, Kill, Phase
    <2> QED
      BY <2>3, <2>4 DEF Inv
  <1>8. CASE Start
    BY <1>1, <1>8 DEF Start, Inv, TypeOK, Phase
  <1> QED
    BY <1>3, <1>4, <1>5, <1>6, <1>7, <1>8

LEMMA StepInv == Inv /\ [Next]_vars => Inv'
  <1> SUFFICES ASSUME Inv, [Next]_vars PROVE Inv'
    OBVIOUS
  <1>1. CASE UNCHANGED vars
    <2>1. running' \in BOOLEAN
      BY <1>1, Zenon DEF vars, process, Inv, TypeOK
    <2> QED
      BY <1>1, <2>1 DEF vars, kafka, process, samples, disk, history, Inv, TypeOK, Phase
  <1>2. CASE Next
    BY <1>2, ConsumeInv, FlushInv, AsideInv DEF Next, Step
  <1> QED
    BY <1>1, <1>2

LEMMA AlwaysInv == Spec => []Inv
  <1> QED
    BY InitInv, StepInv, PTL DEF Spec

(* TypeOK: offsets never pass what was produced, the buffer never outgrows a
   batch, and a loop flushes open samples only, through every interleaving of
   messages, timeouts, signals and kills. *)
THEOREM TypeCorrect == Spec => []TypeOK
  <1>1. Inv => TypeOK
    BY DEF Inv
  <1> QED
    BY <1>1, AlwaysInv, PTL

------------------------------------------------------------------------------
(* What was read stays read. *)
LEMMA EventsStay ==
    ASSUME Inv, [Next]_vars, NEW t \in Topic
    PROVE  ReadEvents(t) \subseteq ReadEvents(t)'
  <1> USE DEF kafka, samples, disk, history, process
  <1>1. high[t] \in Nat
    BY DEF Inv, TypeOK, Offsets
  <1>2. log' = log /\ high[t] <= high'[t]
    <2>1. ASSUME NEW u \in Topic, Read(u), kafka' = kafka PROVE log' = log /\ high[t] <= high'[t]
      BY <2>1, ReadType DEF Inv
    <2>2. CASE Consume
      BY <2>1, <2>2
         DEF Consume, OnImpression, OnClick, OnConversion, Raise, OnNoId, StopOnMessage, Topic
    <2>3. CASE Flush
      <3>1. CASE \E b \in Bid : FlushSample(b)
        BY <1>1, <3>1 DEF FlushSample
      <3>2. CASE LoopDone \/ OpenFile \/ WriteFile
        BY <1>1, <3>2 DEF LoopDone, OpenFile, WriteFile
      <3>3. CASE Close
        BY <1>1, <3>3 DEF Close
      <3> QED
        BY <2>3, <3>1, <3>2, <3>3 DEF Flush
    <2>4. CASE IdleExit \/ AutoCommit \/ Signal \/ Crash \/ Start
      BY <1>1, <2>4 DEF IdleExit, AutoCommit, Signal, Crash, Kill, Start
    <2>5. CASE \E b \in Bid : Age(b)
      BY <1>1, <2>5 DEF Age
    <2>6. CASE UNCHANGED vars
      BY <1>1, <2>6 DEF vars
    <2> QED
      BY <2>2, <2>3, <2>4, <2>5, <2>6 DEF Next, Step
  <1>3. high'[t] \in Nat
    BY StepInv DEF Inv, TypeOK, Offsets
  <1> QED
    BY <1>1, <1>2, <1>3 DEF ReadEvents

LEMMA EarnedStays ==
    ASSUME Inv, [Next]_vars, NEW line, EarnedLine(line)
    PROVE  EarnedNext(line)
  BY EventsStay DEF EarnedLine, EarnedNext, Topic

(* A message that is handled has been read. *)
LEMMA ReadIsEvent ==
    ASSUME TypeOK, NEW t \in Topic, Read(t), kafka' = kafka
    PROVE  Message(t) \in ReadEvents(t)'
  <1>1. pos[t] \in Nat /\ high[t] \in Nat /\ pos[t] <= high[t]
    BY DEF TypeOK, Offsets
  <1>2. high'[t] = IF pos[t] < high[t] THEN high[t] ELSE high[t] + 1
    BY DEF Read, TypeOK, Offsets
  <1>3. pos[t] + 1 \in 1..high'[t]
    BY <1>1, <1>2
  <1> QED
    BY <1>3 DEF Message, ReadEvents, kafka

LEMMA EarnedStep == Inv /\ Earned /\ [Next]_vars => Earned'
  <1> SUFFICES ASSUME Inv, Earned, [Next]_vars PROVE Earned'
    OBVIOUS
  <1> USE DEF kafka, samples, disk, history, process
  <1> DEFINE Impressions == ReadEvents("ad_impressions")
             Clicks == ReadEvents("ad_clicks")
             Conversions == ReadEvents("ad_conversions")
             Open == /\ pending' \subseteq Impressions'
                     /\ clicked' \subseteq Clicks'
                     /\ converted' \subseteq Conversions'
             Buffer == \A i \in DOMAIN buffer' : EarnedNext(buffer'[i])
             Files == \A f \in DOMAIN files' : \A i \in DOMAIN files'[f] : EarnedNext(files'[f][i])
  <1>1. /\ pending \subseteq Impressions' /\ clicked \subseteq Clicks'
        /\ converted \subseteq Conversions'
    BY EventsStay DEF Earned, Topic
  <1>2. /\ \A i \in DOMAIN buffer : EarnedNext(buffer[i])
        /\ \A f \in DOMAIN files : \A i \in DOMAIN files[f] : EarnedNext(files[f][i])
    BY EarnedStays DEF Earned
  <1>3. Open /\ Buffer /\ Files => Earned'
    BY DEF Earned, EarnedLine, EarnedNext
  <1>4. UNCHANGED buffer => Buffer
    BY <1>2
  <1>5. UNCHANGED files => Files
    BY <1>2
  <1> HIDE DEF Impressions, Clicks, Conversions, Buffer, Files
  <1>6. pending' \subseteq pending /\ clicked' \subseteq clicked /\ converted' \subseteq converted => Open
    BY <1>1
  <1>7. ASSUME NEW b \in Bid, OnImpression(b) PROVE Open
    <2>1. b \in Impressions'
      BY <1>7, ReadIsEvent DEF OnImpression, Impressions, Inv, Topic
    <2> QED
      BY <1>1, <1>7, <2>1 DEF OnImpression
  <1>8. ASSUME NEW b \in Bid, OnClick(b) PROVE Open
    <2>1. b \in Clicks'
      BY <1>8, ReadIsEvent DEF OnClick, Clicks, Inv, Topic
    <2> QED
      BY <1>1, <1>8, <2>1 DEF OnClick
  <1>9. ASSUME NEW b \in Bid, OnConversion(b) PROVE Open
    <2>1. b \in Conversions'
      BY <1>9, ReadIsEvent DEF OnConversion, Conversions, Inv, Topic
    <2> QED
      BY <1>1, <1>9, <2>1 DEF OnConversion
  <1>10. CASE Consume
    <2>1. buffer' = buffer /\ files' = files
      BY <1>10 DEF Consume, OnImpression, OnClick, OnConversion, Raise, OnNoId, StopOnMessage
    <2>2. Open
      BY <1>6, <1>7, <1>8, <1>9, <1>10 DEF Consume, Raise, OnNoId, StopOnMessage
    <2> QED
      BY <1>3, <1>4, <1>5, <2>1, <2>2
  <1>11. ASSUME NEW b \in Bid, FlushSample(b) PROVE Earned'
    <2> DEFINE line == [bid |-> b, clicked |-> b \in clicked, converted |-> b \in converted]
    <2>1. line \in Line
      <3>1. (b \in clicked) \in BOOLEAN /\ (b \in converted) \in BOOLEAN
        OBVIOUS
      <3> QED
        BY <3>1, LineType
    <2>2. EarnedNext(line)
      <3>1. b \in pending
        BY <1>11 DEF FlushSample, Inv, TypeOK
      <3>2. /\ b \in Impressions'
            /\ b \in clicked => b \in Clicks'
            /\ b \in converted => b \in Conversions'
        BY <1>1, <3>1
      <3>3. line.bid = b /\ (line.clicked <=> b \in clicked) /\ (line.converted <=> b \in converted)
        OBVIOUS
      <3> HIDE DEF line
      <3> QED
        BY <3>2, <3>3, Zenon DEF EarnedNext, Impressions, Clicks, Conversions
    <2>3. buffer' = Append(buffer, line) /\ buffer \in Seq(Line)
      BY <1>11 DEF FlushSample, Inv, TypeOK
    <2> HIDE DEF line
    <2>4. Buffer
      <3>1. /\ Len(buffer) \in Nat /\ DOMAIN buffer = 1..Len(buffer)
            /\ DOMAIN buffer' = 1..(Len(buffer) + 1)
            /\ buffer'[Len(buffer) + 1] = line
            /\ \A i \in 1..Len(buffer) : buffer'[i] = buffer[i]
        BY <2>1, <2>3, AppendProperties, LenProperties
      <3>2. \A i \in DOMAIN buffer' : i \in DOMAIN buffer \/ i = Len(buffer) + 1
        BY <3>1
      <3>3. ASSUME NEW i \in DOMAIN buffer' PROVE EarnedNext(buffer'[i])
        <4>1. CASE i \in DOMAIN buffer
          BY <1>2, <3>1, <4>1
        <4>2. CASE i = Len(buffer) + 1
          BY <2>2, <3>1, <4>2
        <4> QED
          BY <3>2, <4>1, <4>2
      <3> QED
        BY <3>3 DEF Buffer
    <2>5. Open /\ Files
      BY <1>5, <1>6, <1>11 DEF FlushSample
    <2> QED
      BY <1>3, <2>4, <2>5
  <1>12. CASE OpenFile
    <2>1. Open /\ Buffer
      BY <1>4, <1>6, <1>12 DEF OpenFile
    <2>2. CASE files' = files
      BY <1>3, <1>5, <2>1, <2>2
    <2>3. CASE files' = Append(files, <<>>)
      <3>1. files \in Seq(Seq(Line)) /\ <<>> \in Seq(Line)
        BY EmptySeq DEF Inv, TypeOK
      <3>2. /\ Len(files) \in Nat /\ DOMAIN files = 1..Len(files)
            /\ DOMAIN files' = 1..(Len(files) + 1)
            /\ files'[Len(files) + 1] = <<>>
            /\ \A f \in 1..Len(files) : files'[f] = files[f]
        BY <2>3, <3>1, AppendProperties, LenProperties
      <3>3. ASSUME NEW f \in DOMAIN files', NEW i \in DOMAIN files'[f]
            PROVE  EarnedNext(files'[f][i])
        <4>1. f \in DOMAIN files \/ f = Len(files) + 1
          BY <3>2
        <4>2. CASE f \in DOMAIN files
          BY <1>2, <3>2, <4>2
        <4>3. CASE f = Len(files) + 1
          BY <3>2, <4>3
        <4> QED
          BY <4>1, <4>2, <4>3
      <3>4. Files
        BY <3>3 DEF Files
      <3> QED
        BY <1>3, <2>1, <3>4
    <2> QED
      BY <1>12, <2>2, <2>3 DEF OpenFile
  <1>13. CASE WriteFile
    <2>1. Open
      BY <1>6, <1>13 DEF WriteFile
    <2>2. Buffer
      <3>1. DOMAIN buffer' = {}
        BY <1>13 DEF WriteFile
      <3> QED
        BY <3>1 DEF Buffer
    <2>3. /\ files \in Seq(Seq(Line)) /\ handle \in 1..Len(files) /\ buffer \in Seq(Line)
          /\ DOMAIN files = 1..Len(files)
      BY <1>13, LenProperties DEF WriteFile, Inv, TypeOK, Phase
    <2>4. files[handle] \in Seq(Line)
      BY <2>3, ElementOfSeq
    <2> DEFINE n == Len(files[handle])
               all == files[handle] \o buffer
    <2>5. /\ all \in Seq(Line) /\ Len(all) = n + Len(buffer)
          /\ \A k \in 1..Len(all) : all[k] = IF k <= n THEN files[handle][k] ELSE buffer[k - n]
      BY <2>3, <2>4, ConcatProperties
    <2>6. /\ n \in Nat /\ Len(buffer) \in Nat /\ DOMAIN all = 1..Len(all)
          /\ DOMAIN files[handle] = 1..n /\ DOMAIN buffer = 1..Len(buffer)
      BY <2>3, <2>4, <2>5, LenProperties
    <2>7. /\ DOMAIN files' = DOMAIN files /\ files'[handle] = all
          /\ \A f \in DOMAIN files : f # handle => files'[f] = files[f]
      BY <1>13, <2>3 DEF WriteFile
    <2> HIDE DEF n, all
    <2>8. ASSUME NEW i \in DOMAIN all PROVE EarnedNext(all[i])
      <3>1. CASE i <= n
        <4>1. i \in DOMAIN files[handle] /\ all[i] = files[handle][i]
          BY <2>5, <2>6, <3>1
        <4> QED
          BY <1>2, <2>3, <4>1
      <3>2. CASE ~(i <= n)
        <4>1. i - n \in DOMAIN buffer /\ all[i] = buffer[i - n]
          BY <2>5, <2>6, <3>2
        <4> QED
          BY <1>2, <4>1
      <3> QED
        BY <3>1, <3>2
    <2>9. ASSUME NEW f \in DOMAIN files', NEW i \in DOMAIN files'[f]
          PROVE  EarnedNext(files'[f][i])
      <3>1. CASE f = handle
        BY <2>7, <2>8, <3>1
      <3>2. CASE f # handle
        BY <1>2, <2>7, <3>2
      <3> QED
        BY <3>1, <3>2
    <2> QED
      BY <1>3, <2>1, <2>2, <2>9 DEF Files
  <1>14. CASE LoopDone \/ Close \/ IdleExit \/ AutoCommit \/ (\E b \in Bid : Age(b))
               \/ Signal \/ Start
    <2>1. UNCHANGED <<samples, buffer, files>> \/ \E b \in Bid : Age(b)
      BY <1>14 DEF LoopDone, Close, IdleExit, AutoCommit, Age, Signal, Start
    <2>2. UNCHANGED <<pending, clicked, converted, buffer, files>>
      BY <2>1 DEF Age
    <2> QED
      BY <1>3, <1>4, <1>5, <1>6, <2>2
  <1>15. CASE Crash
    <2>1. Open /\ Files
      BY <1>5, <1>6, <1>15 DEF Crash, Kill
    <2>2. DOMAIN buffer' = {}
      BY <1>15 DEF Crash, Kill
    <2> QED
      BY <1>3, <2>1, <2>2 DEF Buffer
  <1>16. CASE UNCHANGED vars
    BY <1>3, <1>4, <1>5, <1>6, <1>16 DEF vars
  <1> QED
    BY <1>10, <1>11, <1>12, <1>13, <1>14, <1>15, <1>16 DEF Next, Step, Flush

LEMMA EarnedStarts == Init => Earned
  <1> SUFFICES ASSUME Init PROVE Earned
    OBVIOUS
  <1>1. DOMAIN buffer = {} /\ DOMAIN files = {}
    BY DEF Init
  <1> QED
    BY <1>1 DEF Init, Earned

(* LabelsHaveEvents: however the events of three topics are read, reread and
   joined, a click or a conversion in a file is one that was read. *)
THEOREM LabelsAreEarned == Spec => []LabelsHaveEvents
  <1>1. Spec => [](Inv /\ Earned)
    BY EarnedStarts, InitInv, StepInv, EarnedStep, PTL DEF Spec
  <1>2. Earned => LabelsHaveEvents
    BY DEF Earned, EarnedLine, LabelsHaveEvents
  <1> QED
    BY <1>1, <1>2, PTL
------------------------------------------------------------------------------
(* Counting lines.                                                         *)

Written(b) == UNION {{f} \X LinesOf(b, files[f]) : f \in DOMAIN files}

Pending(b) == IF b \in pending THEN 1 ELSE 0

CountInv == \A b \in Bid : IsFiniteSet(Written(b)) /\ Copies(b) <= joined[b]

LEMMA CopiesAre ==
    ASSUME NEW b
    PROVE  /\ Copies(b) = Cardinality(Written(b)) + Cardinality(LinesOf(b, buffer)) + Pending(b)
           /\ Copies(b)' = Cardinality(Written(b)') + Cardinality(LinesOf(b, buffer)') + Pending(b)'
  BY DEF Copies, Written, Pending

LEMMA BufferCount ==
    ASSUME NEW list \in Seq(Line), NEW b
    PROVE  IsFiniteSet(LinesOf(b, list)) /\ Cardinality(LinesOf(b, list)) \in Nat
  <1>1. DOMAIN list = 1..Len(list) /\ Len(list) \in Nat
    BY LenProperties
  <1>2. IsFiniteSet(DOMAIN list)
    BY <1>1, FS_Interval
  <1>3. LinesOf(b, list) \in SUBSET DOMAIN list
    BY DEF LinesOf
  <1>4. IsFiniteSet(LinesOf(b, list))
    BY <1>2, <1>3, FS_Subset
  <1> QED
    BY <1>4, FS_CardinalityType

(* A line that is appended is a line more of its bid and of no other.      *)
LEMMA AppendedLine ==
    ASSUME NEW list \in Seq(Line), NEW line \in Line, NEW b
    PROVE  Cardinality(LinesOf(b, Append(list, line))) =
              Cardinality(LinesOf(b, list)) + (IF line.bid = b THEN 1 ELSE 0)
  <1> DEFINE n == Len(list) + 1
  <1>1. /\ DOMAIN Append(list, line) = 1..n /\ DOMAIN list = 1..Len(list) /\ Len(list) \in Nat
        /\ Append(list, line)[n] = line
        /\ \A i \in 1..Len(list) : Append(list, line)[i] = list[i]
    BY AppendProperties, LenProperties
  <1>2. CASE line.bid = b
    <2>1. LinesOf(b, Append(list, line)) = LinesOf(b, list) \cup {n}
      BY <1>1, <1>2 DEF LinesOf
    <2>2. n \notin LinesOf(b, list)
      BY <1>1 DEF LinesOf
    <2> HIDE DEF n
    <2>3. Cardinality(LinesOf(b, list) \cup {n}) = Cardinality(LinesOf(b, list)) + 1
      BY <2>2, BufferCount, FS_AddElement
    <2> QED
      BY <1>2, <2>1, <2>3
  <1>3. CASE line.bid # b
    <2>1. LinesOf(b, Append(list, line)) = LinesOf(b, list)
      BY <1>1, <1>3 DEF LinesOf
    <2> QED
      BY <1>3, <2>1, BufferCount
  <1> QED
    BY <1>2, <1>3

LEMMA LineWritten ==
    ASSUME NEW b, NEW p
    PROVE  p \in Written(b) <=>
              \E f \in DOMAIN files : \E i \in DOMAIN files[f] :
                  p = <<f, i>> /\ files[f][i].bid = b
  BY DEF Written, LinesOf

LEMMA LineWrittenNext ==
    ASSUME NEW b, NEW p
    PROVE  p \in Written(b)' <=>
              \E f \in DOMAIN files' : \E i \in DOMAIN files'[f] :
                  p = <<f, i>> /\ files'[f][i].bid = b
  BY DEF Written, LinesOf

(* An open file is empty before it is written to for the first time.       *)
LEMMA OpenedCount ==
    ASSUME Inv, OpenFile, NEW b
    PROVE  Written(b)' = Written(b)
  <1>1. files \in Seq(Seq(Line)) /\ DOMAIN files = 1..Len(files) /\ Len(files) \in Nat
    BY LenProperties DEF Inv, TypeOK
  <1>2. CASE path = 0
    <2>1. /\ DOMAIN files' = 1..(Len(files) + 1)
          /\ \A f \in DOMAIN files : files'[f] = files[f]
          /\ files'[Len(files) + 1] = <<>>
      <3>1. files' = Append(files, <<>>) /\ <<>> \in Seq(Line)
        BY <1>2, EmptySeq DEF OpenFile
      <3> QED
        BY <1>1, <3>1, AppendProperties, LenProperties
    <2>2. DOMAIN files'[Len(files) + 1] = {}
      BY <2>1
    <2>3. \A f \in DOMAIN files' : DOMAIN files'[f] # {} =>
              f \in DOMAIN files /\ files'[f] = files[f]
      BY <1>1, <2>1, <2>2
    <2>4. ASSUME NEW p \in Written(b)'
          PROVE  p \in Written(b)
      BY <2>3, <2>4, LineWritten, LineWrittenNext
    <2>5. ASSUME NEW p \in Written(b)
          PROVE  p \in Written(b)'
      <3>1. DOMAIN files \subseteq DOMAIN files'
        BY <1>1, <2>1
      <3> QED
        BY <2>1, <2>5, <3>1, LineWritten, LineWrittenNext
    <2> QED
      BY <2>4, <2>5
  <1>3. CASE path # 0
    BY <1>3 DEF OpenFile, disk, Written
  <1> QED
    BY <1>2, <1>3

(* The lines of a file and those of the buffer appended to it are as many  *)
(* as both had.                                                            *)
LEMMA WrittenCount ==
    ASSUME Inv, WriteFile, NEW b \in Bid, IsFiniteSet(Written(b))
    PROVE  /\ IsFiniteSet(Written(b)')
           /\ Cardinality(Written(b)') = Cardinality(Written(b)) + Cardinality(LinesOf(b, buffer))
  <1> DEFINE L == LinesOf(b, buffer)
  <1> DEFINE T == Written(b) \cup ({0} \X L)
  <1> DEFINE n == Len(files[handle])
  <1>1. /\ files \in Seq(Seq(Line)) /\ DOMAIN files = 1..Len(files) /\ Len(files) \in Nat
        /\ handle \in DOMAIN files /\ buffer \in Seq(Line)
    BY LenProperties DEF WriteFile, Inv, TypeOK, Phase
  <1>2. files[handle] \in Seq(Line)
    BY <1>1, ElementOfSeq
  <1>3. /\ DOMAIN files' = DOMAIN files
        /\ files'[handle] = files[handle] \o buffer
        /\ \A f \in DOMAIN files \ {handle} : files'[f] = files[f]
    BY <1>1 DEF WriteFile
  <1>4. /\ DOMAIN files[handle] = 1..n /\ n \in Nat /\ DOMAIN buffer = 1..Len(buffer)
        /\ Len(buffer) \in Nat /\ DOMAIN files'[handle] = 1..(n + Len(buffer))
        /\ \A i \in 1..n : files'[handle][i] = files[handle][i]
        /\ \A i \in (n + 1)..(n + Len(buffer)) : files'[handle][i] = buffer[i - n]
    BY <1>1, <1>2, <1>3, ConcatProperties, LenProperties
  <1> HIDE DEF n
  <1> DEFINE New(p) == p[1] = handle /\ p[2] > n
  <1> DEFINE g == [p \in Written(b)' |-> IF New(p) THEN <<0, p[2] - n>> ELSE p]
  <1>5. ASSUME NEW p \in Written(b)'
        PROVE  IF New(p) THEN p = <<handle, p[2]>> /\ p[2] \in Int /\ p[2] - n \in L
                         ELSE p \in Written(b)
    <2>0. PICK f \in DOMAIN files' : \E i \in DOMAIN files'[f] :
              p = <<f, i>> /\ files'[f][i].bid = b
      BY LineWrittenNext
    <2>1. PICK i \in DOMAIN files'[f] : p = <<f, i>> /\ files'[f][i].bid = b
      BY <2>0
    <2>2. CASE f # handle
      <3>1. i \in DOMAIN files[f] /\ files[f][i].bid = b /\ f \in DOMAIN files
        BY <1>3, <2>1, <2>2
      <3> QED
        BY <2>1, <2>2, <3>1, LineWritten
    <2>3. CASE f = handle /\ i \in 1..n
      <3>1. i \in DOMAIN files[f] /\ files[f][i].bid = b /\ f \in DOMAIN files
        BY <1>1, <1>4, <2>1, <2>3
      <3>2. ~New(p)
        BY <1>4, <2>1, <2>3
      <3> QED
        BY <2>1, <3>1, <3>2, LineWritten
    <2>4. CASE f = handle /\ i \in (n + 1)..(n + Len(buffer))
      <3>1. i \in Int /\ i > n /\ i - n \in DOMAIN buffer
        BY <1>4, <2>4
      <3>2. buffer[i - n].bid = b
        BY <1>4, <2>1, <2>4
      <3> QED
        BY <2>1, <2>4, <3>1, <3>2 DEF LinesOf
    <2> QED
      BY <1>4, <2>1, <2>2, <2>3, <2>4
  <1>6. \A p \in Written(b) : \E f \in DOMAIN files : \E i : p = <<f, i>>
    BY LineWritten
  <1> HIDE DEF L
  <1>7. g \in [Written(b)' -> T]
    BY <1>5
  <1>8. \A p, q \in Written(b)' : g[p] = g[q] => p = q
    <2> SUFFICES ASSUME NEW p \in Written(b)', NEW q \in Written(b)', g[p] = g[q]
                 PROVE  p = q
      BY Zenon
    <2>1. \A x \in Written(b) : x[1] # 0
      BY <1>1, <1>6
    <2>2. CASE New(p) /\ New(q)
      <3>1. p[2] - n = q[2] - n
        BY <2>2
      <3> QED
        BY <1>4, <1>5, <2>2, <3>1
    <2>3. CASE New(p) /\ ~New(q)
      BY <1>5, <2>1, <2>3
    <2>4. CASE ~New(p) /\ New(q)
      BY <1>5, <2>1, <2>4
    <2>5. CASE ~New(p) /\ ~New(q)
      BY <2>5
    <2> QED
      BY <2>2, <2>3, <2>4, <2>5
  <1>9. IsFiniteSet(L) /\ Cardinality(L) \in Nat
    BY <1>1, BufferCount DEF L
  <1>10. IsFiniteSet({0} \X L) /\ Cardinality({0} \X L) = Cardinality(L)
    <2>1. IsFiniteSet({0}) /\ Cardinality({0}) = 1
      BY FS_Singleton
    <2>2. IsFiniteSet({0} \X L) /\ Cardinality({0} \X L) = Cardinality({0}) * Cardinality(L)
      BY <1>9, <2>1, FS_Product
    <2> QED
      BY <1>9, <2>1, <2>2
  <1>11. IsFiniteSet(T) /\ Cardinality(T) = Cardinality(Written(b)) + Cardinality(L)
    <2>1. Written(b) \cap ({0} \X L) = {}
      BY <1>1, <1>6
    <2>2. /\ IsFiniteSet(T)
          /\ Cardinality(T) = Cardinality(Written(b)) + Cardinality({0} \X L) - 0
      BY <1>10, <2>1, FS_Union, FS_EmptySet
    <2>3. Cardinality(Written(b)) \in Nat
      BY FS_CardinalityType
    <2> HIDE DEF T
    <2> QED
      BY <1>9, <1>10, <2>2, <2>3
  <1>12. \A t \in T : \E p \in Written(b)' : g[p] = t
    <2>1. ASSUME NEW t \in Written(b)
          PROVE  t \in Written(b)' /\ ~New(t)
      <3>1. PICK f \in DOMAIN files : \E i \in DOMAIN files[f] :
                t = <<f, i>> /\ files[f][i].bid = b
        BY LineWritten
      <3>2. PICK i \in DOMAIN files[f] : t = <<f, i>> /\ files[f][i].bid = b
        BY <3>1
      <3>3. f \in DOMAIN files' /\ i \in DOMAIN files'[f] /\ files'[f][i] = files[f][i]
        <4>1. CASE f = handle
          BY <1>1, <1>3, <1>4, <3>2, <4>1
        <4>2. CASE f # handle
          BY <1>3, <3>2, <4>2
        <4> QED
          BY <4>1, <4>2
      <3>4. ~New(t)
        BY <1>4, <3>2
      <3> QED
        BY <3>2, <3>3, <3>4, LineWrittenNext
    <2>2. ASSUME NEW j \in L
          PROVE  <<handle, n + j>> \in Written(b)' /\ New(<<handle, n + j>>) /\ (n + j) - n = j
      <3>1. j \in DOMAIN buffer /\ buffer[j].bid = b
        BY DEF L, LinesOf
      <3>2. /\ n + j \in (n + 1)..(n + Len(buffer)) /\ (n + j) - n = j /\ n + j > n
            /\ n + j \in DOMAIN files'[handle]
        BY <1>4, <3>1
      <3>3. files'[handle][n + j].bid = b /\ handle \in DOMAIN files'
        BY <1>1, <1>3, <1>4, <3>1, <3>2
      <3> QED
        BY <3>2, <3>3, LineWrittenNext
    <2>3. ASSUME NEW t \in {0} \X L
          PROVE  \E p \in Written(b)' : g[p] = t
      <3>1. PICK j \in L : t = <<0, j>>
        BY <2>3
      <3> DEFINE k == n + j
      <3>2. <<handle, k>> \in Written(b)' /\ New(<<handle, k>>) /\ k - n = j
        BY <2>2
      <3> HIDE DEF k, New
      <3> DEFINE x == <<handle, k>>
      <3>3. g[x] = <<0, k - n>>
        BY <3>2
      <3> HIDE DEF x
      <3>4. g[x] = t
        BY <3>1, <3>2, <3>3
      <3> HIDE DEF g
      <3> QED
        BY <3>2, <3>4 DEF x
    <2>4. ASSUME NEW t \in Written(b)
          PROVE  \E p \in Written(b)' : g[p] = t
      BY <2>1
    <2> QED
      BY <2>3, <2>4
  <1> HIDE DEF g, T
  <1>13. g \in Injection(Written(b)', T)
    BY <1>7, <1>8 DEF Injection, IsInjective
  <1>14. g \in Surjection(Written(b)', T)
    BY <1>7, <1>12 DEF Surjection
  <1>15. IsFiniteSet(Written(b)') /\ Cardinality(Written(b)') = Cardinality(T)
    BY <1>11, <1>13, <1>14, FS_Injection
  <1> QED
    BY <1>11, <1>15 DEF L

LEMMA CountTypes ==
    ASSUME Inv, CountInv, NEW b \in Bid
    PROVE  /\ IsFiniteSet(Written(b)) /\ Cardinality(Written(b)) \in Nat
           /\ Cardinality(LinesOf(b, buffer)) \in Nat
           /\ joined[b] \in Nat
  BY BufferCount, FS_CardinalityType DEF CountInv, Inv, TypeOK

(* Steps that touch neither a line nor which samples are open. *)
LEMMA CopiesStay ==
    ASSUME Inv, CountInv, NEW b \in Bid, UNCHANGED <<files, buffer, pending, joined>>
    PROVE  IsFiniteSet(Written(b)') /\ Kept(b)
  <1>1. Written(b)' = Written(b) /\ LinesOf(b, buffer)' = LinesOf(b, buffer)
        /\ Pending(b)' = Pending(b)
    BY DEF Written, LinesOf, Pending
  <1>2. /\ IsFiniteSet(Written(b)) /\ Pending(b) \in Nat
        /\ Cardinality(Written(b)) \in Nat /\ Cardinality(LinesOf(b, buffer)) \in Nat
        /\ joined[b] \in Nat
    BY CountTypes DEF Pending
  <1> QED
    BY <1>1, <1>2, CopiesAre DEF Kept

(* Every step but a kill: an impression opens a sample or replaces one, a
   flush moves the sample to the buffer, and a write the buffer to the file;
   when the consumer is closed there is nothing left. *)
LEMMA KeptStep ==
    ASSUME Inv, CountInv, NEW b \in Bid,
           Step \/ AutoCommit \/ (\E c \in Bid : Age(c)) \/ Signal \/ Start \/ UNCHANGED vars
    PROVE  IsFiniteSet(Written(b)') /\ Kept(b)
  <1> USE DEF kafka, samples, disk, history, process
  <1>1. /\ IsFiniteSet(Written(b)) /\ Cardinality(Written(b)) \in Nat
        /\ Cardinality(LinesOf(b, buffer)) \in Nat /\ joined[b] \in Nat
        /\ Pending(b) \in Nat /\ Pending(b)' \in Nat
    BY CountTypes DEF Pending
  <1>2. ASSUME NEW c \in Bid, OnImpression(c) PROVE IsFiniteSet(Written(b)') /\ Kept(b)
    <2>1. Written(b)' = Written(b) /\ LinesOf(b, buffer)' = LinesOf(b, buffer)
      BY <1>2 DEF OnImpression, Written, LinesOf
    <2>2. Pending(b)' = Pending(b) + (IF b \in pending THEN 0 ELSE joined'[b] - joined[b])
      BY <1>2 DEF OnImpression, Pending, Inv, TypeOK
    <2>3. joined'[b] \in Nat
      BY <1>1, <1>2 DEF OnImpression, Inv, TypeOK
    <2> QED
      BY <1>1, <2>1, <2>2, <2>3, CopiesAre DEF Kept
  <1>3. ASSUME NEW c \in Bid, OnClick(c) \/ OnConversion(c) \/ Raise(c)
        PROVE  IsFiniteSet(Written(b)') /\ Kept(b)
    BY <1>3, CopiesStay DEF OnClick, OnConversion, Raise
  <1>4. ASSUME NEW t \in Topic, OnNoId(t) \/ StopOnMessage(t)
        PROVE  IsFiniteSet(Written(b)') /\ Kept(b)
    BY <1>4, CopiesStay DEF OnNoId, StopOnMessage
  <1>5. ASSUME NEW c \in Bid, FlushSample(c) PROVE IsFiniteSet(Written(b)') /\ Kept(b)
    <2> DEFINE line == [bid |-> c, clicked |-> c \in clicked, converted |-> c \in converted]
    <2>1. line \in Line /\ line.bid = c
      <3>1. (c \in clicked) \in BOOLEAN /\ (c \in converted) \in BOOLEAN
        OBVIOUS
      <3> QED
        BY <3>1, LineType
    <2>2. buffer' = Append(buffer, line) /\ buffer \in Seq(Line)
      BY <1>5 DEF FlushSample, Inv, TypeOK
    <2> HIDE DEF line
    <2>3. Cardinality(LinesOf(b, buffer')) =
              Cardinality(LinesOf(b, buffer)) + (IF c = b THEN 1 ELSE 0)
      BY <2>1, <2>2, AppendedLine
    <2>4. Pending(b)' = Pending(b) - (IF c = b THEN 1 ELSE 0)
      BY <1>5 DEF FlushSample, Pending, Inv, TypeOK
    <2>5. Written(b)' = Written(b) /\ joined' = joined
      BY <1>5 DEF FlushSample, Written
    <2>6. LinesOf(b, buffer)' = LinesOf(b, buffer')
      BY DEF LinesOf
    <2> QED
      BY <1>1, <2>3, <2>4, <2>5, <2>6, CopiesAre DEF Kept
  <1>6. CASE OpenFile
    <2>1. Written(b)' = Written(b) /\ LinesOf(b, buffer)' = LinesOf(b, buffer)
          /\ Pending(b)' = Pending(b) /\ joined' = joined
      BY <1>6, OpenedCount DEF OpenFile, LinesOf, Pending
    <2> QED
      BY <1>1, <2>1, CopiesAre DEF Kept
  <1>7. CASE WriteFile
    <2>1. /\ IsFiniteSet(Written(b)')
          /\ Cardinality(Written(b)') = Cardinality(Written(b)) + Cardinality(LinesOf(b, buffer))
      BY <1>1, <1>7, WrittenCount
    <2>2. Cardinality(LinesOf(b, buffer)') = 0
      <3>1. LinesOf(b, buffer)' = {}
        BY <1>7 DEF WriteFile, LinesOf
      <3> QED
        BY <3>1, FS_EmptySet
    <2>3. Pending(b)' = Pending(b) /\ joined' = joined
      BY <1>7 DEF WriteFile, Pending
    <2> QED
      BY <1>1, <2>1, <2>2, <2>3, CopiesAre DEF Kept
  <1>8. CASE LoopDone \/ Close \/ IdleExit
    BY <1>8, CopiesStay DEF LoopDone, Close, IdleExit
  <1>9. CASE AutoCommit \/ (\E c \in Bid : Age(c)) \/ Signal \/ Start
    BY <1>9, CopiesStay DEF AutoCommit, Age, Signal, Start
  <1>10. CASE UNCHANGED vars
    BY <1>10, CopiesStay DEF vars
  <1> QED
    BY <1>2, <1>3, <1>4, <1>5, <1>6, <1>7, <1>8, <1>9, <1>10 DEF Step, Consume, Flush

(* A kill leaves what is written, and nothing else. *)
LEMMA KillCount ==
    ASSUME Inv, CountInv, Kill
    PROVE  CountInv'
  <1> SUFFICES ASSUME NEW b \in Bid
               PROVE  IsFiniteSet(Written(b)') /\ Copies(b)' <= joined'[b]
    BY DEF CountInv
  <1>1. /\ Written(b)' = Written(b) /\ LinesOf(b, buffer)' = {} /\ Pending(b)' = 0
        /\ joined' = joined
    BY DEF Kill, Written, LinesOf, Pending, disk, history
  <1>2. IsFiniteSet(Written(b)) /\ Copies(b) <= joined[b] /\ Pending(b) \in Nat
    BY DEF CountInv, Pending
  <1>3. /\ Cardinality(Written(b)) \in Nat /\ Cardinality(LinesOf(b, buffer)) \in Nat
        /\ joined[b] \in Nat /\ Cardinality({}) = 0
    BY CountTypes, FS_EmptySet
  <1>4. Copies(b) = Cardinality(Written(b)) + Cardinality(LinesOf(b, buffer)) + Pending(b)
    BY CopiesAre
  <1>5. Copies(b)' = Cardinality(Written(b)') + Cardinality(LinesOf(b, buffer)') + Pending(b)'
    BY CopiesAre
  <1>6. Copies(b)' = Cardinality(Written(b))
    BY <1>1, <1>3, <1>5
  <1> QED
    BY <1>1, <1>2, <1>3, <1>4, <1>6

LEMMA JoinedGrows ==
    ASSUME Inv, [Next]_vars, NEW b \in Bid
    PROVE  joined[b] <= joined'[b] /\ joined'[b] \in Nat
  <1>1. joined[b] \in Nat
    BY DEF Inv, TypeOK
  <1>2. ASSUME NEW c \in Bid, OnImpression(c) PROVE joined[b] <= joined'[b]
    BY <1>1, <1>2 DEF OnImpression, Inv, TypeOK
  <1>3. joined' = joined \/ \E c \in Bid : OnImpression(c)
    <2>1. CASE Consume
      BY <2>1 DEF Consume, OnClick, OnConversion, Raise, OnNoId, StopOnMessage
    <2>2. CASE Flush
      BY <2>2 DEF Flush, FlushSample, LoopDone, OpenFile, WriteFile, Close, history
    <2>3. CASE IdleExit \/ AutoCommit \/ (\E c \in Bid : Age(c)) \/ Signal \/ Crash \/ Start
      BY <2>3 DEF IdleExit, AutoCommit, Age, Signal, Crash, Kill, Start, history
    <2>4. CASE UNCHANGED vars
      BY <2>4 DEF vars, history
    <2> QED
      BY <2>1, <2>2, <2>3, <2>4 DEF Next, Step
  <1>4. joined'[b] \in Nat
    BY StepInv DEF Inv, TypeOK
  <1> QED
    BY <1>1, <1>2, <1>3, <1>4

LEMMA CountStep == Inv /\ CountInv /\ [Next]_vars => CountInv'
  <1> SUFFICES ASSUME Inv, CountInv, [Next]_vars PROVE CountInv'
    OBVIOUS
  <1>1. CASE Crash
    BY <1>1, KillCount DEF Crash
  <1>2. CASE ~Crash
    <2> SUFFICES ASSUME NEW b \in Bid
                 PROVE  IsFiniteSet(Written(b)') /\ Copies(b)' <= joined'[b]
      BY DEF CountInv
    <2>1. IsFiniteSet(Written(b)') /\ Kept(b)
      BY <1>2, KeptStep DEF Next
    <2>2. joined[b] \in Nat /\ joined[b] <= joined'[b] /\ joined'[b] \in Nat
      BY JoinedGrows DEF Inv, TypeOK
    <2>3. Copies(b) \in Nat /\ Copies(b) <= joined[b]
      BY CountTypes, CopiesAre DEF CountInv, Pending
    <2> QED
      BY <2>1, <2>2, <2>3 DEF Kept
  <1> QED
    BY <1>1, <1>2

LEMMA CountStarts == Init => CountInv
  <1> SUFFICES ASSUME Init, NEW b \in Bid
               PROVE  IsFiniteSet(Written(b)) /\ Copies(b) <= joined[b]
    BY DEF CountInv
  <1>1. Written(b) = {} /\ LinesOf(b, buffer) = {} /\ Pending(b) = 0 /\ joined[b] = 0
    BY DEF Init, Written, LinesOf, Pending
  <1> QED
    BY <1>1, CopiesAre, FS_EmptySet

LEMMA AlwaysCounted == Spec => [](Inv /\ CountInv)
  BY CountStarts, CountStep, InitInv, StepInv, PTL DEF Spec

(* OnlyKillsLoseSamples: every joined sample is kept and reaches a file on
   every way out of the process but a kill, each as one line, for buffers of
   every size; what a second impression of an open id replaces is the only
   other loss. *)
THEOREM SamplesSurviveStops == Spec => OnlyKillsLoseSamples
  <1>1. Inv /\ CountInv /\ [Next]_vars => [Crash \/ \A b \in Bid : Kept(b)]_vars
    BY KeptStep DEF Next
  <1> QED
    BY <1>1, AlwaysCounted, PTL DEF Spec, OnlyKillsLoseSamples

(* AtMostOneLinePerJoin: no expiry, conversion, shutdown or restart makes  *)
(* two lines of one joined impression, written, buffered or open.          *)
THEOREM LinesAreJoins == Spec => []AtMostOneLinePerJoin
  <1>1. CountInv => AtMostOneLinePerJoin
    BY DEF CountInv, AtMostOneLinePerJoin
  <1> QED
    BY <1>1, AlwaysCounted, PTL
=============================================================================
