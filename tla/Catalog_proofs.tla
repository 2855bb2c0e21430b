--------------------------- MODULE Catalog_proofs ----------------------------
(***************************************************************************)
(* Proofs about Catalog, for any creatives, seed file and bounds.  The     *)
(* invariant says, for every place the updater may be in, where the text   *)
(* of a creative that met no race is: in the index, in the rows about to   *)
(* be upserted, or in the table with a time the next query will pass.      *)
(***************************************************************************)
EXTENDS Catalog, TLAPS

(* The agent's counters. *)
Quota ==
    /\ agent = "off" => rejected_count = 0
    /\ agent = "embed" => held \in Ad /\ results < Count
    /\ left <= MaxRaw - rejected_count
    /\ inserted = results + unsure + (IF agent = "embed" THEN 1 ELSE 0)

(* A vector still on its way is of the first text, or overtaken. *)
OnItsWay ==
    held \in Ad => /\ table[held] # 0
                   /\ table[held] = 1 \/ held \in exposed

(* What a pass carries. *)
Carried ==
    /\ \A a \in DOMAIN rows : a \in Ad /\ 1 <= rows[a] /\ rows[a] <= table[a]
    /\ \A p \in late : \A a \in DOMAIN p : a \in Ad /\ 1 <= p[a] /\ p[a] <= table[a]
    /\ \A a \in Ad : index[a] <= table[a] \/ index[a] = Seed
    /\ \A a \in Rows : stampOf[a] >= 1
    /\ now >= 1
    /\ updater = "opened" => stateFile = Torn

(* Where the text of a creative is, as the pass goes on. *)
Indexed(a) == index[a] = table[a]

Placed ==
    \A a \in Rows \ exposed :
        /\ updater \in {"off", "poll"} => Indexed(a) \/ stampOf[a] > stateFile
        /\ updater = "put" => /\ Indexed(a) \/ stampOf[a] > stateFile
                              /\ IF a \in DOMAIN rows THEN rows[a] = table[a] ELSE Indexed(a)
        /\ updater = "upserted" => Indexed(a)
        /\ updater = "opened" => Indexed(a) \/ stampOf[a] > new_ts

Inv == TypeOK /\ Quota /\ OnItsWay /\ Carried /\ Placed

USE CatalogAssumption
USE DEF None, Seed, Torn, Epoch, Time, Rows, Indexed, Inv

------------------------------------------------------------------------------
LEMMA NoRowsIsBatch == NoRows \in Batch /\ DOMAIN NoRows = {}
  <1>1. NoRows \in [{} -> 1..MaxVersion]
    BY DEF NoRows
  <1> QED
    BY <1>1 DEF Batch, NoRows

LEMMA BatchDomain ==
    ASSUME NEW r \in Batch
    PROVE  /\ DOMAIN r \subseteq Ad
           /\ \A a \in DOMAIN r : r[a] \in 1..MaxVersion
  BY DEF Batch

LEMMA UseIsTyped ==
    ASSUME TypeOK, NEW k \in {"runs", "seeds", "faults"}, MayUse(k)
    PROVE  used' \in [DOMAIN Limit -> Nat]
  <1>1. k \in DOMAIN Limit
    BY DEF Limit
  <1> QED
    BY <1>1 DEF MayUse, TypeOK

(* A PUT that is given up leaves the index and the PUTs on their way typed,
   and puts nothing there but what it carries. *)
LEMMA GivenUpIs ==
    ASSUME TypeOK, NEW p \in Batch, GivenUp(p)
    PROVE  /\ index' = index \/ Put(p)
           /\ late' \subseteq late \cup {p} /\ late' \subseteq Batch
           /\ index' \in [Ad -> {None, Seed} \cup 1..MaxVersion]
           /\ used' \in [DOMAIN Limit -> Nat]
  <1>1. index' = index \/ Put(p)
    BY DEF GivenUp
  <1>2. late' \subseteq late \cup {p} /\ late' \subseteq Batch
    BY DEF GivenUp, TypeOK
  <1>3. index' \in [Ad -> {None, Seed} \cup 1..MaxVersion]
    BY <1>1, BatchDomain DEF Put, TypeOK
  <1>4. used' \in [DOMAIN Limit -> Nat]
    BY UseIsTyped DEF GivenUp, TypeOK
  <1> QED
    BY <1>1, <1>2, <1>3, <1>4

LEMMA HeldIsBatch ==
    ASSUME TypeOK, held \in Ad
    PROVE  [a \in {held} |-> 1] \in Batch
  <1>1. [a \in {held} |-> 1] \in [{held} -> 1..MaxVersion]
    OBVIOUS
  <1> QED
    BY <1>1 DEF Batch

LEMMA InitInv == Init => Inv
  <1> SUFFICES ASSUME Init PROVE Inv
    OBVIOUS
  <1> USE NoRowsIsBatch DEF Init
  <1>1. TypeOK
    <2>1. used \in [DOMAIN Limit -> Nat]
      OBVIOUS
    <2>2. table \in [Ad -> 0..MaxVersion] /\ stampOf \in [Ad -> Time]
      OBVIOUS
    <2>3. index \in [Ad -> {None, Seed} \cup 1..MaxVersion]
      OBVIOUS
    <2>4. rows \in Batch
      OBVIOUS
    <2>5. /\ now \in Time /\ stateFile \in Time \cup {Torn} /\ new_ts \in Time
          /\ left \in 0..MaxRaw /\ rejected_count \in 0..MaxRaw /\ results \in 0..Count
      OBVIOUS
    <2> QED
      BY <2>1, <2>2, <2>3, <2>4, <2>5 DEF TypeOK
  <1>2. Quota /\ OnItsWay /\ Carried /\ Placed
    BY DEF Quota, OnItsWay, Carried, Placed
  <1> QED
    BY <1>1, <1>2

(* A row that is written is either exposed or late enough for the next query. *)
LEMMA WritingKeepsPlaces ==
    ASSUME Inv, NEW a \in Ad, NEW oddTags \in BOOLEAN, WriteRow(a, oddTags),
           UNCHANGED <<vectors, now, updaterVars>>
    PROVE  Carried' /\ Placed'
  <1> USE DEF vectors, updaterVars
  <1>1. Carried'
    <2>1. \A b \in DOMAIN rows : b \in Ad /\ 1 <= rows'[b] /\ rows'[b] <= table'[b]
      BY BatchDomain DEF WriteRow, TypeOK, Carried
    <2>2. \A b \in Ad : index'[b] <= table'[b] \/ index'[b] = Seed
      BY DEF WriteRow, TypeOK, Carried
    <2>4. \A p \in late : \A b \in DOMAIN p : b \in Ad /\ 1 <= p[b] /\ p[b] <= table'[b]
      BY BatchDomain DEF WriteRow, TypeOK, Carried
    <2>3. \A b \in Rows' : stampOf'[b] >= 1
      BY DEF WriteRow, TypeOK, Carried
    <2> QED
      BY <2>1, <2>2, <2>3, <2>4 DEF Carried
  <1>2. Placed'
    BY DEF WriteRow, Racing, TypeOK, Carried, Placed
  <1> QED
    BY <1>1, <1>2

LEMMA UpdaterInv ==
    ASSUME Inv, \/ Launch \/ load_state_fails \/ Pass \/ UpdaterDies \/ RemoveState
    PROVE  Inv'
  <1> USE NoRowsIsBatch DEF tableVars, agentVars, vectors
  <1>1. CASE Launch
    BY <1>1 DEF Launch, TypeOK, Quota, OnItsWay, Carried, Placed
  <1>2. CASE load_state_fails
    BY <1>2 DEF load_state_fails, TypeOK, Quota, OnItsWay, Carried, Placed
  <1>3. CASE query_new_creatives
    <2>1. rows' \in Batch
      <3>1. ASSUME rows' = [a \in Due |-> table[a]]
            PROVE  rows' \in [Due -> 1..MaxVersion] /\ Due \subseteq Ad
        BY <3>1 DEF Due, TypeOK
      <3> QED
        BY <3>1, <1>3 DEF query_new_creatives, Batch
    <2>2. TypeOK'
      BY <1>3, <2>1 DEF query_new_creatives, TypeOK
    <2>3. Quota' /\ OnItsWay'
      BY <1>3 DEF query_new_creatives, Quota, OnItsWay
    <2>4. Carried' /\ Placed'
      BY <1>3 DEF query_new_creatives, TypeOK, Carried, Placed, Due
    <2> QED
      BY <2>2, <2>3, <2>4
  <1>4. CASE upsert_to_qdrant
    <2>1. rows \in Batch
      BY DEF TypeOK
    <2>2. TypeOK'
      BY <1>4, <2>1, BatchDomain DEF upsert_to_qdrant, Put, TypeOK
    <2>3. Quota' /\ OnItsWay'
      BY <1>4 DEF upsert_to_qdrant, Quota, OnItsWay
    <2>4. Carried' /\ Placed'
      BY <1>4 DEF upsert_to_qdrant, Put, TypeOK, Carried, Placed
    <2> QED
      BY <2>2, <2>3, <2>4
  <1>5. CASE upsert_to_qdrant_fails
    <2>1. rows \in Batch
      BY DEF TypeOK
    <2>2. TypeOK'
      <3>1. /\ index' \in [Ad -> {None, Seed} \cup 1..MaxVersion] /\ late' \subseteq Batch
            /\ used' \in [DOMAIN Limit -> Nat]
        BY <1>5, <2>1, GivenUpIs DEF upsert_to_qdrant_fails
      <3>3. rows' \in Batch /\ updater' \in {"off", "poll"}
        BY <1>5 DEF upsert_to_qdrant_fails
      <3>4. UNCHANGED <<tableVars, collection, now, stateFile, new_ts, agentVars, seeding, exposed>>
        BY <1>5 DEF upsert_to_qdrant_fails
      <3> QED
        BY <3>1, <3>3, <3>4 DEF TypeOK
    <2>3. Quota' /\ OnItsWay'
      BY <1>5 DEF upsert_to_qdrant_fails, Quota, OnItsWay
    <2>5. (index' = index \/ Put(rows)) /\ late' \subseteq late \cup {rows}
      BY <1>5, <2>1, GivenUpIs DEF upsert_to_qdrant_fails
    <2>6. UNCHANGED <<tableVars, now, stateFile, new_ts, exposed>>
          /\ updater = "put" /\ updater' \in {"poll", "off"} /\ rows' = NoRows
      BY <1>5 DEF upsert_to_qdrant_fails
    <2>4. Carried' /\ Placed'
      <3>1. \A p \in late' : \A a \in DOMAIN p : a \in Ad /\ 1 <= p[a] /\ p[a] <= table[a]
        BY <2>5 DEF Carried
      <3>2. \A a \in Ad : index'[a] = index[a] \/ (a \in DOMAIN rows /\ index'[a] = rows[a])
        BY <2>5 DEF Put
      <3>3. Carried'
        BY <2>6, <3>1, <3>2 DEF Carried
      <3>4. Placed'
        BY <2>6, <3>2 DEF Placed
      <3> QED
        BY <3>3, <3>4
    <2> QED
      BY <2>2, <2>3, <2>4
  <1>6. CASE save_state_opens
    BY <1>6 DEF save_state_opens, TypeOK, Quota, OnItsWay, Carried, Placed
  <1>7. CASE save_state
    BY <1>7 DEF save_state, TypeOK, Quota, OnItsWay, Carried, Placed
  <1>8. CASE UpdaterDies
    <2>1. TypeOK'
      <3>1. used' \in [DOMAIN Limit -> Nat]
        BY <1>8, UseIsTyped DEF UpdaterDies, TypeOK
      <3> QED
        BY <3>1, <1>8 DEF UpdaterDies, TypeOK
    <2>2. Quota' /\ OnItsWay' /\ Carried' /\ Placed'
      BY <1>8 DEF UpdaterDies, TypeOK, Quota, OnItsWay, Carried, Placed
    <2> QED
      BY <2>1, <2>2
  <1>9. CASE RemoveState
    BY <1>9 DEF RemoveState, TypeOK, Quota, OnItsWay, Carried, Placed
  <1> QED
    BY <1>1, <1>2, <1>3, <1>4, <1>5, <1>6, <1>7, <1>8, <1>9 DEF Pass

LEMMA AgentInv ==
    ASSUME Inv, AgentStart \/ AgentStep \/ AgentDies
    PROVE  Inv'
  <1> USE DEF tableVars, updaterVars, vectors
  <1>1. CASE AgentStart
    <2>1. TypeOK'
      <3>1. used' \in [DOMAIN Limit -> Nat]
        BY <1>1, UseIsTyped DEF AgentStart, TypeOK
      <3> QED
        BY <3>1, <1>1 DEF AgentStart, TypeOK
    <2>2. /\ left' \in 0..MaxRaw /\ agent' = "next" /\ rejected_count' = 0
          /\ inserted' = results' + unsure' + 0
      BY <1>1 DEF AgentStart, Quota, TypeOK
    <2>3. Quota'
      <3>1. agent' # "off" /\ agent' # "embed"
        BY <2>2
      <3>2. left' <= MaxRaw - rejected_count'
        BY <2>2
      <3>3. inserted' = results' + unsure' + (IF agent' = "embed" THEN 1 ELSE 0)
        BY <2>2
      <3> QED
        BY <3>1, <3>2, <3>3 DEF Quota
    <2>4. OnItsWay' /\ Carried' /\ Placed'
      BY <1>1 DEF AgentStart, OnItsWay, Carried, Placed
    <2> QED
      BY <2>1, <2>3, <2>4
  <1>2. CASE Reject
    BY <1>2 DEF Reject, TakeCandidate, Going, TypeOK, Quota, OnItsWay, Carried, Placed
  <1>3. CASE InsertFails
    BY <1>3 DEF InsertFails, TakeCandidate, Going, TypeOK, Quota, OnItsWay, Carried, Placed
  <1>4. ASSUME NEW a \in Ad, _insert_to_mysql(a)
        PROVE  Inv'
    <2>1. PICK oddTags \in BOOLEAN : WriteRow(a, oddTags)
      BY <1>4 DEF _insert_to_mysql, InsertRow, Candidate
    <2>2. TypeOK'
      BY <1>4, <2>1 DEF _insert_to_mysql, InsertRow, WriteRow, TakeCandidate, Going, TypeOK
    <2>3. Quota' /\ OnItsWay'
      BY <1>4, <2>1 DEF _insert_to_mysql, InsertRow, WriteRow, TakeCandidate, Going, TypeOK, Quota, OnItsWay
    <2>4. Carried' /\ Placed'
      BY <1>4, <2>1, WritingKeepsPlaces DEF _insert_to_mysql
    <2> QED
      BY <2>2, <2>3, <2>4
  <1>5. ASSUME NEW a \in Ad, InsertIsUnsure(a)
        PROVE  Inv'
    <2>1. PICK oddTags \in BOOLEAN : WriteRow(a, oddTags)
      BY <1>5 DEF InsertIsUnsure, InsertRow, Candidate
    <2>2. TypeOK'
      <3>1. used' \in [DOMAIN Limit -> Nat]
        BY <1>5, UseIsTyped DEF InsertIsUnsure, TypeOK
      <3> QED
        BY <3>1, <1>5, <2>1 DEF InsertIsUnsure, InsertRow, WriteRow, TakeCandidate, Going, TypeOK
    <2>3. Quota' /\ OnItsWay'
      BY <1>5, <2>1 DEF InsertIsUnsure, InsertRow, WriteRow, TakeCandidate, Going, TypeOK, Quota, OnItsWay
    <2>4. Carried' /\ Placed'
      BY <1>5, <2>1, WritingKeepsPlaces DEF InsertIsUnsure
    <2> QED
      BY <2>2, <2>3, <2>4
  <1>6. CASE _upsert_to_qdrant
    <2>1. TypeOK'
      BY <1>6 DEF _upsert_to_qdrant, Keep, Put, TypeOK, Quota
    <2>2. Quota' /\ OnItsWay'
      BY <1>6 DEF _upsert_to_qdrant, Keep, TypeOK, Quota, OnItsWay
    <2>3. held \in Ad /\ table[held] \in Nat \ {0}
      BY <1>6 DEF _upsert_to_qdrant, Keep, TypeOK, Quota, OnItsWay
    <2>4. \A a \in Ad : index'[a] = IF a = held THEN 1 ELSE index[a]
      BY <1>6 DEF _upsert_to_qdrant, Put
    <2>5. Carried'
      BY <1>6, <2>3, <2>4 DEF _upsert_to_qdrant, TypeOK, Carried
    <2>6. table[held] = 1 \/ held \in exposed'
      BY <1>6, <2>3 DEF _upsert_to_qdrant, OnItsWay
    <2>7. \A a \in Rows \ exposed' : a \in DOMAIN rows /\ Indexed(a)' /\ a = held => rows[a] = table[a]
      <3> SUFFICES ASSUME held \in DOMAIN rows, held \notin exposed' PROVE rows[held] = table[held]
        OBVIOUS
      <3>1. rows[held] \in Nat /\ 1 <= rows[held] /\ rows[held] <= table[held]
        BY <2>3, BatchDomain DEF TypeOK, Carried
      <3>2. table[held] = 1
        BY <1>6, <2>3 DEF _upsert_to_qdrant, OnItsWay
      <3> QED
        BY <3>1, <3>2
    <2>8. \A a \in Rows \ exposed' : a = held \/ a \notin exposed
      BY <1>6 DEF _upsert_to_qdrant
    <2>9. Placed'
      <3>0. UNCHANGED <<table, stampOf, stateFile, updater, rows, new_ts>>
        BY <1>6 DEF _upsert_to_qdrant
      <3> SUFFICES ASSUME NEW a \in Rows \ exposed'
                   PROVE  /\ updater \in {"off", "poll"} => Indexed(a)' \/ stampOf[a] > stateFile
                          /\ updater = "put" => /\ Indexed(a)' \/ stampOf[a] > stateFile
                                                /\ IF a \in DOMAIN rows THEN rows[a] = table[a] ELSE Indexed(a)'
                          /\ updater = "upserted" => Indexed(a)'
                          /\ updater = "opened" => Indexed(a)' \/ stampOf[a] > new_ts
        BY <3>0 DEF Placed
      <3>1. CASE a = held
        <4>1. Indexed(a)'
          BY <3>0, <3>1, <2>4, <2>6
        <4> QED
          BY <4>1, <3>1, <2>7
      <3>2. CASE a # held
        <4>1. a \in Rows \ exposed /\ index'[a] = index[a] /\ table' = table
          BY <3>2, <2>8, <2>4, <1>6 DEF _upsert_to_qdrant
        <4> QED
          BY <4>1 DEF Placed
      <3> QED
        BY <3>1, <3>2
    <2> QED
      BY <2>1, <2>2, <2>5, <2>9
  <1>7. CASE UpsertFails
    <2> DEFINE p == [a \in {held} |-> 1]
    <2>0. held \in Ad /\ table[held] >= 1 /\ (table[held] = 1 \/ held \in exposed)
      BY <1>7 DEF UpsertFails, Keep, Quota, OnItsWay, TypeOK
    <2>4. p \in Batch /\ DOMAIN p = {held} /\ p[held] = 1 /\ GivenUp(p)
      BY <1>7, <2>0, HeldIsBatch DEF UpsertFails
    <2> HIDE DEF p
    <2>5. /\ index' \in [Ad -> {None, Seed} \cup 1..MaxVersion] /\ late' \subseteq Batch
          /\ used' \in [DOMAIN Limit -> Nat]
          /\ index' = index \/ Put(p)
          /\ late' \subseteq late \cup {p}
      BY <2>4, GivenUpIs
    <2>1. TypeOK'
      BY <2>5, <1>7 DEF UpsertFails, Keep, TypeOK, Quota
    <2>2. Quota' /\ OnItsWay'
      BY <1>7 DEF UpsertFails, Keep, TypeOK, Quota, OnItsWay
    <2>3. Carried' /\ Placed'
      <3>0. UNCHANGED <<tableVars, now, updaterVars, exposed>>
        BY <1>7 DEF UpsertFails
      <3>1. \A q \in late' : \A a \in DOMAIN q : a \in Ad /\ 1 <= q[a] /\ q[a] <= table[a]
        BY <2>0, <2>4, <2>5 DEF Carried
      <3>2. \A a \in Ad : index'[a] = index[a] \/ (a = held /\ index'[a] = 1)
        BY <2>4, <2>5 DEF Put
      <3>3. Carried'
        BY <2>0, <3>0, <3>1, <3>2 DEF Carried
      <3>4. Placed'
        BY <2>0, <3>0, <3>2 DEF Placed
      <3> QED
        BY <3>3, <3>4
    <2> QED
      BY <2>1, <2>2, <2>3
  <1>8. CASE AgentEnd
    BY <1>8 DEF AgentEnd, AgentIsGone, TypeOK, Quota, OnItsWay, Carried, Placed
  <1>9. CASE AgentDies
    <2>1. TypeOK'
      <3>1. used' \in [DOMAIN Limit -> Nat]
        BY <1>9, UseIsTyped DEF AgentDies, TypeOK
      <3> QED
        BY <3>1, <1>9 DEF AgentDies, AgentIsGone, TypeOK
    <2>2. Quota' /\ OnItsWay' /\ Carried' /\ Placed'
      BY <1>9 DEF AgentDies, AgentIsGone, TypeOK, Quota, OnItsWay, Carried, Placed
    <2> QED
      BY <2>1, <2>2
  <1> QED
    BY <1>1, <1>2, <1>3, <1>4, <1>5, <1>6, <1>7, <1>8, <1>9 DEF AgentStep

LEMMA OtherInv ==
    ASSUME Inv, \/ delete_collection \/ create_collection \/ SeedUpsert \/ SeedingFails
                \/ \E points \in late : LatePut(points)
                \/ \E a \in Ad : Edit(a)
                \/ Tick
    PROVE  Inv'
  <1> USE DEF updaterVars, agentVars
  <1>1. CASE delete_collection
    <2>1. TypeOK'
      <3>1. used' \in [DOMAIN Limit -> Nat]
        BY <1>1, UseIsTyped DEF delete_collection, TypeOK
      <3> QED
        BY <3>1, <1>1 DEF delete_collection, tableVars, TypeOK
    <2>2. Quota' /\ OnItsWay' /\ Carried' /\ Placed'
      BY <1>1 DEF delete_collection, tableVars, TypeOK, Quota, OnItsWay, Carried, Placed
    <2> QED
      BY <2>1, <2>2
  <1>2. CASE create_collection
    BY <1>2 DEF create_collection, tableVars, TypeOK, Quota, OnItsWay, Carried, Placed
  <1>3. CASE SeedUpsert
    BY <1>3 DEF SeedUpsert, Put, tableVars, TypeOK, Quota, OnItsWay, Carried, Placed
  <1>4. CASE SeedingFails
    <2>1. TypeOK'
      <3>1. used' \in [DOMAIN Limit -> Nat]
        BY <1>4, UseIsTyped DEF SeedingFails, TypeOK
      <3> QED
        BY <3>1, <1>4 DEF SeedingFails, tableVars, vectors, TypeOK
    <2>2. Quota' /\ OnItsWay' /\ Carried' /\ Placed'
      BY <1>4 DEF SeedingFails, tableVars, vectors, TypeOK, Quota, OnItsWay, Carried, Placed
    <2> QED
      BY <2>1, <2>2
  <1>5. ASSUME NEW a \in Ad, Edit(a)
        PROVE  Inv'
    <2>1. PICK oddTags \in BOOLEAN : WriteRow(a, oddTags)
      BY <1>5 DEF Edit
    <2>2. TypeOK'
      BY <1>5, <2>1 DEF Edit, WriteRow, vectors, TypeOK
    <2>3. Quota' /\ OnItsWay'
      BY <1>5, <2>1 DEF Edit, WriteRow, TypeOK, Quota, OnItsWay
    <2>4. Carried' /\ Placed'
      BY <1>5, <2>1, WritingKeepsPlaces DEF Edit
    <2> QED
      BY <2>2, <2>3, <2>4
  <1>6. CASE Tick
    BY <1>6 DEF Tick, tableVars, vectors, TypeOK, Quota, OnItsWay, Carried, Placed
  <1>7. ASSUME NEW p \in late, LatePut(p)
        PROVE  Inv'
    <2>0. /\ UNCHANGED <<tableVars, now, stateFile, updater, rows, new_ts>> /\ late' \subseteq late
          /\ \/ Put(p) /\ exposed' = exposed \cup Overtaken(p)
             \/ UNCHANGED <<index, exposed>>
      BY <1>7 DEF LatePut
    <2>1. p \in Batch /\ \A a \in DOMAIN p : a \in Ad /\ p[a] \in 1..MaxVersion /\ p[a] <= table[a]
      BY BatchDomain DEF TypeOK, Carried
    <2>2. TypeOK'
      <3>1. index' \in [Ad -> {None, Seed} \cup 1..MaxVersion]
        BY <2>0, <2>1 DEF Put, TypeOK
      <3>2. exposed' \subseteq Ad
        BY <2>0, <2>1 DEF Overtaken, TypeOK
      <3> QED
        BY <1>7, <2>0, <3>1, <3>2 DEF LatePut, tableVars, TypeOK
    <2>3. Quota' /\ OnItsWay'
      BY <1>7, <2>0 DEF LatePut, tableVars, Quota, OnItsWay
    <2>4. \A a \in Ad : index'[a] = index[a] \/ (a \in DOMAIN p /\ index'[a] = p[a])
      BY <2>0 DEF Put
    <2>5. Carried'
      BY <2>0, <2>1, <2>4 DEF tableVars, Carried
    <2>6. \A a \in Rows \ exposed' :
              /\ a \notin exposed
              /\ \/ index'[a] = index[a] \/ index'[a] = table[a]
                 \/ updater \in {"off", "poll"} /\ stampOf[a] > stateFile
      BY <2>0, <2>4 DEF Overtaken, Put, Due
    <2>7. Placed'
      BY <2>0, <2>6 DEF tableVars, Placed
    <2> QED
      BY <2>2, <2>3, <2>5, <2>7
  <1> QED
    BY <1>1, <1>2, <1>3, <1>4, <1>5, <1>6, <1>7

LEMMA StutterInv == Inv /\ UNCHANGED vars => Inv'
  BY DEF vars, tableVars, vectors, updaterVars, agentVars, TypeOK, Quota, OnItsWay, Carried, Placed

THEOREM Invariance == Spec => []Inv
  <1>1. Inv /\ [Next]_vars => Inv'
    BY UpdaterInv, AgentInv, OtherInv, StutterInv DEF Next
  <1> QED
    BY InitInv, <1>1, PTL DEF Spec

------------------------------------------------------------------------------
(* The variables keep their types.  (vector_updater.py:215-241,
   creative_agent.py:119-181, seed_ads.py:52-100) *)
THEOREM Typing == Spec => []TypeOK
  BY Invariance, PTL

(* Only races lose a text: for any creatives, any seconds and any number of
   faults, one that met none is in the index or due.
   (vector_updater.py:117-142, 215-241) *)
THEOREM NoEditIsLost == Spec => []EditsAreNotLost
  <1>1. Inv => EditsAreNotLost
    BY DEF EditsAreNotLost, Placed, TypeOK, Carried, Due
  <1> QED
    BY <1>1, Invariance, PTL

(* Neither failed vectors nor rejected candidates make the agent insert more
   than it was asked for.  (creative_agent.py:119-181) *)
THEOREM TheQuotaIsKept == Spec => []AgentKeepsItsQuota
  <1>1. Inv => AgentKeepsItsQuota
    BY DEF AgentKeepsItsQuota, Quota, TypeOK
  <1> QED
    BY <1>1, Invariance, PTL

(* The updater, the agent, the operators and the seeding together implement
   the index recall relies on.  (vector_updater.py:145-195,
   creative_agent.py:163-179, seed_ads.py:56-100) *)
THEOREM ImplementsIndex == Spec => IndexContract
  <1>1. Init => CI!Init
    BY DEF Init, CI!Init
  <1>2. Inv /\ [Next]_vars => [CI!Next]_(CI!vars)
    <2> SUFFICES ASSUME Inv, Next, ~UNCHANGED <<table, index>>
                 PROVE  CI!Next
      BY DEF vars, tableVars, vectors, CI!vars
    <2>1. ASSUME NEW a \in Ad, NEW oddTags \in BOOLEAN, WriteRow(a, oddTags), UNCHANGED index
          PROVE  CI!Next
      BY <2>1 DEF WriteRow, CI!Next, CI!Commit
    <2>2. ASSUME NEW r, r \in Batch, \A a \in DOMAIN r : r[a] <= table[a], Put(r), UNCHANGED table
          PROVE  CI!Next
      <3>1. CI!Put(DOMAIN r)
        BY <2>2, BatchDomain DEF Put, CI!Put, TypeOK
      <3> QED
        BY <3>1, <2>2, BatchDomain DEF CI!Next
    <2>3. CASE delete_collection
      BY <2>3 DEF delete_collection, tableVars, CI!Next, CI!Recreate
    <2>4. CASE SeedUpsert
      BY <2>4 DEF SeedUpsert, Put, tableVars, CI!Next, CI!Sow
    <2>5. CASE upsert_to_qdrant \/ upsert_to_qdrant_fails
      <3>1. (UNCHANGED index \/ Put(rows)) /\ UNCHANGED table
        BY <2>5, GivenUpIs DEF upsert_to_qdrant, upsert_to_qdrant_fails, tableVars, TypeOK
      <3> QED
        BY <2>2, <3>1 DEF TypeOK, Carried
    <2>6. CASE _upsert_to_qdrant \/ UpsertFails
      <3>1. held \in Ad /\ table[held] >= 1
        BY <2>6 DEF _upsert_to_qdrant, UpsertFails, Keep, Quota, OnItsWay, TypeOK
      <3>2. [a \in {held} |-> 1] \in Batch
        BY <3>1, HeldIsBatch
      <3>3. (UNCHANGED index \/ Put([a \in {held} |-> 1])) /\ UNCHANGED table
        BY <2>6, <3>2, GivenUpIs DEF _upsert_to_qdrant, UpsertFails, tableVars
      <3> QED
        BY <2>2, <3>1, <3>2, <3>3
    <2>8. ASSUME NEW p \in late, LatePut(p)
          PROVE  CI!Next
      BY <2>2, <2>8 DEF LatePut, tableVars, TypeOK, Carried
    <2>7. ASSUME NEW a \in Ad, Edit(a) \/ _insert_to_mysql(a) \/ InsertIsUnsure(a)
          PROVE  CI!Next
      BY <2>1, <2>7 DEF Edit, _insert_to_mysql, InsertIsUnsure, InsertRow, Candidate, vectors
    <2> QED
      BY <2>3, <2>4, <2>5, <2>6, <2>7, <2>8
      DEF Next, Launch, load_state_fails, Pass, query_new_creatives, save_state_opens, save_state,
          UpdaterDies, RemoveState, AgentStart, AgentStep, Reject, InsertFails, AgentEnd, AgentDies,
          create_collection, SeedingFails, Tick, tableVars, vectors
  <1> QED
    BY <1>1, <1>2, Invariance, PTL DEF Spec, IndexContract, CI!Spec
==============================================================================
