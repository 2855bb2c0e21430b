---------------------------- MODULE SampleCleaner ----------------------------
(***************************************************************************)
(* The sample cleaner of data/flink/sample_cleaner.py: it reads            *)
(* impressions, clicks and conversions from three Kafka topics, joins them *)
(* in memory by bid id, and appends a line per impression to the samples   *)
(* file.  Offsets are committed on their own, by the consumer's poll and   *)
(* close, and say nothing about what is still in memory.                   *)
(*                                                                         *)
(* The log is whatever the topics will ever hold; an event not yet read    *)
(* may as well not have been produced.  A line is told by the bid it came  *)
(* from and its two labels.  Files are numbered in the order they were     *)
(* made; path is the one the data file's name stands for, 0 if none does.  *)
(***************************************************************************)
EXTENDS Integers, Sequences, FiniteSets

CONSTANTS
    Bid,            \* bid ids
    NoId,           \* the value of a message without a bid_id
    Unreadable,     \* bids whose impression carries no number as its eCPM
    Logs,           \* what the topics may hold
    Batch,          \* lines that make the buffer be flushed, 100
    MaxFaults       \* bound on kills and failed last commits

Topic == {"ad_impressions", "ad_clicks", "ad_conversions"}

CleanerConstants ==
    /\ NoId \notin Bid
    /\ Unreadable \subseteq Bid
    /\ Logs \subseteq [Topic -> Seq(Bid \cup {NoId})]
    /\ Batch \in Nat \ {0}
    /\ MaxFaults \in Nat

ASSUME CleanerAssumption == CleanerConstants

VARIABLES
    log,            \* Kafka: the messages of each topic
    committed,      \* Kafka: the group's offset in each topic
    pos,            \* the consumer's position in each topic
    pending,        \* bids with an open sample
    clicked,        \* open samples with "clicked"
    converted,      \* open samples with "converted"
    stale,          \* open samples received TTL_SECONDS ago
    buffer,         \* lines not yet written
    leaving,        \* bids a loop is about to flush
    mode,           \* what that loop belongs to
    handle,         \* the open file, 0 if none
    running,        \* _running
    pc,             \* where the process is
    files,          \* the contents of every file ever made
    path,           \* the file under the data file's name
    faults,         \* how often it was killed or its last commit failed
    high,           \* history: the furthest position read in each topic
    joined          \* history: how often each bid's impression was joined

kafka == <<log, committed>>
samples == <<pending, clicked, converted, stale>>
disk == <<files, path>>
history == <<high, joined>>
process == <<pos, samples, buffer, leaving, mode, handle, running, pc>>
vars == <<kafka, process, disk, faults, history>>

Line == [bid : Bid, clicked : BOOLEAN, converted : BOOLEAN]
Offsets == [Topic -> Nat]

TypeOK ==
    /\ log \in Logs
    /\ committed \in Offsets
    /\ pos \in Offsets
    /\ \A t \in Topic : committed[t] <= high[t] /\ pos[t] <= high[t] /\ high[t] <= Len(log[t])
    /\ pending \subseteq Bid
    /\ clicked \subseteq pending
    /\ converted \subseteq pending
    /\ stale \subseteq pending
    /\ buffer \in Seq(Line)
    /\ Len(buffer) <= Batch
    /\ leaving \subseteq pending
    /\ mode \in {"convert", "expire", "stop"}
    /\ handle \in 0..Len(files)
    /\ running \in BOOLEAN
    /\ pc \in {"off", "poll", "flush", "open", "write"}
    /\ files \in Seq(Seq(Line))
    /\ path \in 0..Len(files)
    /\ faults \in 0..MaxFaults
    /\ high \in Offsets
    /\ joined \in [Bid -> Nat]

------------------------------------------------------------------------------
(* The iterator hands out the next message of a topic. *)
Read(t) ==
    /\ pc = "poll"
    /\ pos[t] < Len(log[t])
    /\ pos' = [pos EXCEPT ![t] = @ + 1]
    /\ high' = [high EXCEPT ![t] = IF pos[t] < @ THEN @ ELSE @ + 1]

Message(t) == log[t][pos[t] + 1]

(* The loop over the expired samples, which follows every message. *)
ExpireLoop(old) ==
    /\ leaving' = old
    /\ mode' = "expire"
    /\ pc' = IF old = {} THEN "poll" ELSE "flush"

OnImpression(b) ==
    /\ running
    /\ Read("ad_impressions")
    /\ Message("ad_impressions") = b
    /\ b \notin Unreadable
    /\ pending' = pending \cup {b}
    /\ clicked' = clicked \ {b}
    /\ converted' = converted \ {b}
    /\ stale' = stale \ {b}
    /\ joined' = [joined EXCEPT ![b] = @ + 1]
    /\ ExpireLoop(stale')
    /\ UNCHANGED <<kafka, buffer, handle, running, disk, faults>>

OnClick(b) ==
    /\ running
    /\ Read("ad_clicks")
    /\ Message("ad_clicks") = b
    /\ clicked' = IF b \in pending THEN clicked \cup {b} ELSE clicked
    /\ ExpireLoop(stale)
    /\ UNCHANGED <<kafka, pending, converted, stale, buffer, handle, running, disk, faults, joined>>

(* A conversion closes its sample at once. *)
OnConversion(b) ==
    /\ running
    /\ Read("ad_conversions")
    /\ Message("ad_conversions") = b
    /\ IF b \in pending
       THEN /\ converted' = converted \cup {b}
            /\ leaving' = {b}
            /\ mode' = "convert"
            /\ pc' = "flush"
       ELSE /\ converted' = converted
            /\ ExpireLoop(stale)
    /\ UNCHANGED <<kafka, pending, clicked, stale, buffer, handle, running, disk, faults, joined>>

OnNoId(t) ==
    /\ running
    /\ Read(t)
    /\ Message(t) = NoId
    /\ ExpireLoop(stale)
    /\ UNCHANGED <<kafka, samples, buffer, handle, running, disk, faults, joined>>

(* _shutdown: flush every open sample, then the buffer, then close. *)
Shutdown ==
    /\ leaving' = pending
    /\ mode' = "stop"
    /\ pc' = "flush"

(* The message that arrives after the signal ends the loop and is dropped;
   its offset counts as read. *)
StopOnMessage(t) ==
    /\ ~running
    /\ Read(t)
    /\ Shutdown
    /\ UNCHANGED <<kafka, samples, buffer, handle, running, disk, faults, joined>>

(* float() raises in _on_impression: the message is lost, the rest is saved. *)
Raise(b) ==
    /\ running
    /\ Read("ad_impressions")
    /\ Message("ad_impressions") = b
    /\ b \in Unreadable
    /\ Shutdown
    /\ UNCHANGED <<kafka, samples, buffer, handle, running, disk, faults, joined>>

(* consumer_timeout_ms: a second without a message ends the iteration, and
   with it the process. *)
IdleExit ==
    /\ pc = "poll"
    /\ Shutdown
    /\ UNCHANGED <<kafka, pos, samples, buffer, handle, running, disk, faults, history>>

------------------------------------------------------------------------------
\* Mutant: the buffer is flushed when it has more than Batch lines.
MutantLateFlush(b) ==
    /\ pc = "flush"
    /\ b \in leaving
    /\ buffer' = Append(buffer, [bid |-> b, clicked |-> b \in clicked, converted |-> b \in converted])
    /\ pending' = pending \ {b}
    /\ clicked' = clicked \ {b}
    /\ converted' = converted \ {b}
    /\ stale' = stale \ {b}
    /\ leaving' = leaving \ {b}
    /\ pc' = IF Len(buffer) + 1 > Batch THEN "open" ELSE "flush"
    /\ UNCHANGED <<kafka, pos, mode, handle, running, disk, faults, history>>

\* Mutant: a conversion counts as a click.
MutantLabels(b) ==
    /\ pc = "flush"
    /\ b \in leaving
    /\ buffer' = Append(buffer, [bid |-> b, clicked |-> b \in clicked \cup converted,
                                converted |-> b \in converted])
    /\ pending' = pending \ {b}
    /\ clicked' = clicked \ {b}
    /\ converted' = converted \ {b}
    /\ stale' = stale \ {b}
    /\ leaving' = leaving \ {b}
    /\ pc' = IF Len(buffer) + 1 >= Batch THEN "open" ELSE "flush"
    /\ UNCHANGED <<kafka, pos, mode, handle, running, disk, faults, history>>

(* _flush_sample, and the buffer when it is full. *)
FlushSample(b) ==
    /\ pc = "flush"
    /\ b \in leaving
    /\ buffer' = Append(buffer, [bid |-> b, clicked |-> b \in clicked, converted |-> b \in converted])
    /\ pending' = pending \ {b}
    /\ clicked' = clicked \ {b}
    /\ converted' = converted \ {b}
    /\ stale' = stale \ {b}
    /\ leaving' = leaving \ {b}
    /\ pc' = IF Len(buffer) + 1 >= Batch THEN "open" ELSE "flush"
    /\ UNCHANGED <<kafka, pos, mode, handle, running, disk, faults, history>>

(* The end of a loop: after a conversion come the expired samples, after those
   the next message. *)
LoopDone ==
    /\ pc = "flush"
    /\ leaving = {}
    /\ \/ /\ mode = "convert"
          /\ ExpireLoop(stale)
       \/ /\ mode = "expire"
          /\ pc' = "poll"
          /\ UNCHANGED <<leaving, mode>>
       \/ /\ mode = "stop"
          /\ buffer # <<>>
          /\ pc' = "open"
          /\ UNCHANGED <<leaving, mode>>
    /\ UNCHANGED <<kafka, pos, samples, buffer, handle, running, disk, faults, history>>

(* open(output_file, "a") makes the file if there is none under that name. *)
OpenFile ==
    /\ pc = "open"
    /\ IF path = 0
       THEN files' = Append(files, <<>>) /\ path' = Len(files) + 1
       ELSE UNCHANGED disk
    /\ handle' = path'
    /\ pc' = "write"
    /\ UNCHANGED <<kafka, pos, samples, buffer, leaving, mode, running, faults, history>>

\* Mutant: buffer.clear() is missing.
MutantWriteFile ==
    /\ pc = "write"
    /\ files' = [files EXCEPT ![handle] = @ \o buffer]
    /\ handle' = 0
    /\ pc' = "flush"
    /\ UNCHANGED <<kafka, pos, samples, buffer, leaving, mode, running, path, faults, history>>

(* The lines reach the file when it is closed, whatever its name is by then. *)
WriteFile ==
    /\ pc = "write"
    /\ files' = [files EXCEPT ![handle] = @ \o buffer]
    /\ buffer' = <<>>
    /\ handle' = 0
    /\ pc' = "flush"
    /\ UNCHANGED <<kafka, pos, samples, leaving, mode, running, path, faults, history>>

(* The consumer's close commits what it has read, if the broker lets it. *)
Commit ==
    \/ committed' = pos /\ UNCHANGED faults
    \/ faults < MaxFaults /\ faults' = faults + 1 /\ UNCHANGED committed

\* Mutant: _shutdown does not flush the buffer.
MutantClose ==
    /\ pc = "flush"
    /\ leaving = {}
    /\ mode = "stop"
    /\ buffer' = <<>>
    /\ Commit
    /\ pc' = "off"
    /\ UNCHANGED <<log, pos, samples, leaving, mode, handle, running, disk, history>>

(* _shutdown has written everything and closes the consumer. *)
Close ==
    /\ pc = "flush"
    /\ leaving = {}
    /\ mode = "stop"
    /\ buffer = <<>>
    /\ Commit
    /\ pc' = "off"
    /\ UNCHANGED <<log, pos, samples, buffer, leaving, mode, handle, running, disk, history>>

------------------------------------------------------------------------------
(* enable_auto_commit: a poll now and then commits the positions so far. *)
AutoCommit ==
    /\ pc = "poll"
    /\ committed' = pos
    /\ UNCHANGED <<log, process, disk, faults, history>>

(* Time: an open sample becomes TTL_SECONDS old. *)
Age(b) ==
    /\ b \in pending
    /\ stale' = stale \cup {b}
    /\ UNCHANGED <<kafka, pos, pending, clicked, converted, buffer, leaving, mode, handle,
                   running, pc, disk, faults, history>>

Signal ==
    /\ pc # "off"
    /\ running' = FALSE
    /\ UNCHANGED <<kafka, pos, samples, buffer, leaving, mode, handle, pc, disk, faults, history>>

Kill ==
    /\ pending' = {}
    /\ clicked' = {}
    /\ converted' = {}
    /\ stale' = {}
    /\ buffer' = <<>>
    /\ leaving' = {}
    /\ handle' = 0
    /\ pc' = "off"
    /\ UNCHANGED <<kafka, pos, mode, running, disk, history>>

Crash ==
    /\ pc # "off"
    /\ faults < MaxFaults
    /\ faults' = faults + 1
    /\ Kill

(* A new process resumes at the committed offsets, or at the earliest. *)
Start ==
    /\ pc = "off"
    /\ pos' = committed
    /\ running' = TRUE
    /\ pc' = "poll"
    /\ UNCHANGED <<kafka, samples, buffer, leaving, mode, handle, disk, faults, history>>

Init ==
    /\ log \in Logs
    /\ committed = [t \in Topic |-> 0]
    /\ pos = [t \in Topic |-> 0]
    /\ pending = {}
    /\ clicked = {}
    /\ converted = {}
    /\ stale = {}
    /\ buffer = <<>>
    /\ leaving = {}
    /\ mode = "expire"
    /\ handle = 0
    /\ running = TRUE
    /\ pc = "off"
    /\ files = <<>>
    /\ path = 0
    /\ faults = 0
    /\ high = [t \in Topic |-> 0]
    /\ joined = [b \in Bid |-> 0]

Consume ==
    \/ \E b \in Bid : OnImpression(b) \/ OnClick(b) \/ OnConversion(b) \/ Raise(b)
    \/ \E t \in Topic : OnNoId(t) \/ StopOnMessage(t)

Flush == (\E b \in Bid : FlushSample(b)) \/ LoopDone \/ OpenFile \/ WriteFile \/ Close

Step == Consume \/ IdleExit \/ Flush

Next == Step \/ AutoCommit \/ (\E b \in Bid : Age(b)) \/ Signal \/ Crash \/ Start

Spec == Init /\ [][Next]_vars

------------------------------------------------------------------------------
LinesOf(b, list) == {i \in DOMAIN list : list[i].bid = b}

(* The samples there are of a bid: written to any file, buffered and open. *)
Copies(b) ==
    Cardinality(UNION {{f} \X LinesOf(b, files[f]) : f \in DOMAIN files})
      + Cardinality(LinesOf(b, buffer))
      + (IF b \in pending THEN 1 ELSE 0)

(* An impression makes one sample more, unless a sample of its id is still
   open: _on_impression puts the new one, without labels, in its place
   (self.pending[bid_id] = ...).  Nothing else changes how many there are. *)
Kept(b) == Copies(b)' = Copies(b) + (IF b \in pending THEN 0 ELSE joined'[b] - joined[b])

(* Every sample that was joined stays in memory or reaches a file, one line
   each, through every loop, flush, expiry and exit of the process: only a kill
   loses some, and only a second impression of the same id replaces one.
   _shutdown runs on the signal, on the idle timeout and on an exception. *)
OnlyKillsLoseSamples == [][Crash \/ \A b \in Bid : Kept(b)]_vars

(* No step writes a sample twice: however often the process stops and resumes,
   there are never more lines, buffered or written or open, than joins.  An
   impression read again after a kill is joined again and may make a second
   line; the lines do not tell. *)
AtMostOneLinePerJoin == \A b \in Bid : Copies(b) <= joined[b]

(* A label in a file stands for an event that was read. *)
ReadEvents(t) == {log[t][i] : i \in 1..high[t]}

LabelsHaveEvents ==
    \A f \in DOMAIN files : \A i \in DOMAIN files[f] :
        LET line == files[f][i]
        IN  /\ line.bid \in ReadEvents("ad_impressions")
            /\ line.clicked => line.bid \in ReadEvents("ad_clicks")
            /\ line.converted => line.bid \in ReadEvents("ad_conversions")
=============================================================================
