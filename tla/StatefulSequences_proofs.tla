----------------------- MODULE StatefulSequences_proofs -----------------------
(***************************************************************************)
(* Proofs about the sequences of a stateful model version, for any number  *)
(* of requests, sequence ids and streams.                                  *)
(***************************************************************************)
EXTENDS StatefulSequences, FiniteSetTheorems, WellFoundedInduction, TLAPS

Steps == {"new", "prepare", "process", "lockSequence", "getStream", "pre", "infer",
          "post", "release", "remove", "unwind", "destroy", "done"}

SequenceType == [terminated : BOOLEAN, idle : BOOLEAN,
                 mem : Seq(Requests) \cup {Unset}, lock : Requests \cup {Nobody}]

SequencesType == /\ sequences \in [Live -> SequenceType]
                 /\ Live \subseteq Ids
                 /\ IsFiniteSet(Live)

Types ==
  /\ SequencesType
  /\ sequenceIdCounter \in Ids
  /\ pc \in [Requests -> Steps]
  /\ spec \in [Requests -> [id : Nat, control : Controls]]
  /\ scan \in {"off", "next", "visit"}

\* A request that has passed prepare and owns the mutex of its sequence.
Holds(r) == Inside(r) /\ pc[r] # "lockSequence"

\* The manager's mutex is held while a sequence is looked up and waited for,
\* and during a scan.
MutexHeld ==
  /\ \A r \in Requests : pc[r] \in {"process", "lockSequence"} => managerMutex = r
  /\ scan # "off" => managerMutex = Cleaner

\* The sequence of a request is there and, once locked, its own.
PointersValid ==
  \A r \in Requests : Inside(r) =>
    /\ spec[r].id \in Live
    /\ Holds(r) => sequences[spec[r].id].lock = r

\* A request that has terminated its sequence and will remove it.
Ending(r) == spec[r].control = "SEQUENCE_END" /\ (Inside(r) \/ pc[r] = "remove")

\* The sequence that a request ends stays until this request removes it, and
\* once the request has locked it nobody else uses it or comes to use it.
EndsAlone ==
  \A r \in Requests : Ending(r) =>
    /\ spec[r].id \in Live
    /\ sequences[spec[r].id].terminated
    /\ \A q \in Requests \ {r} : spec[q].id = spec[r].id =>
         /\ ~Ending(q)
         /\ Inside(q) => pc[r] = "lockSequence"

OnlyEndsRemove == \A r \in Requests : pc[r] = "remove" => spec[r].control = "SEQUENCE_END"

\* The cleaner looks at a sequence that nobody ends and nobody uses.
VisitsAlone ==
  scan = "visit" =>
    /\ visiting \in Live
    /\ ~sequences[visiting].terminated
    /\ \A r \in Requests : Inside(r) => spec[r].id # visiting

\* The inductive invariant behind SequenceNotErasedInUse.
UseInv == /\ Types /\ MutexHeld /\ PointersValid /\ EndsAlone /\ OnlyEndsRemove
          /\ VisitsAlone

\* A scan goes over sequences that are there, each once.
ScanOfLive ==
  scan # "off" => toVisit \subseteq Live /\ (scan = "visit" => visiting \notin toVisit)

\* A stream is owned by one request.
StreamsOwned ==
  /\ stream \in [Requests -> Streams \cup {NoStream}]
  /\ memory \in [Streams -> Seq(Requests)]
  /\ \A r \in Requests : pc[r] \in {"pre", "infer", "post"} => stream[r] \in Streams
  /\ \A r, q \in Requests : r # q /\ stream[r] # NoStream => stream[q] # stream[r]

\* A memory state that requests at steps p with specs sp have built for the
\* sequence s, of which the first has started it.
Built(mem, s, p, sp) ==
  /\ mem \in Seq(Requests)
  /\ \A k \in 1..Len(mem) :
       /\ p[mem[k]] \notin {"new", "prepare", "process"}
       /\ sp[mem[k]].id = s
       /\ sp[mem[k]].control = "SEQUENCE_START" <=> k = 1

\* The saved state of a sequence.
SavedBuilt ==
  \A s \in Live : sequences[s].mem # Unset =>
    Built(sequences[s].mem, s, pc, spec) /\ sequences[s].mem # <<>>

\* The state in the stream of a request that infers.
RunningBuilt ==
  \A r \in Requests :
    LET mem == memory[stream[r]] IN
    /\ pc[r] = "infer" => /\ Built(mem, spec[r].id, pc, spec)
                          /\ mem = <<>> <=> spec[r].control = "SEQUENCE_START"
    /\ pc[r] = "post" => Built(mem, spec[r].id, pc, spec) /\ mem # <<>>

\* The inductive invariant behind both properties.
IInv == UseInv /\ ScanOfLive /\ StreamsOwned /\ SavedBuilt /\ RunningBuilt

-----------------------------------------------------------------------------
\* lemmas about the map of sequences

\* A set of natural numbers has a least element.
LEMMA LeastOfNaturals ==
  ASSUME NEW S, S \subseteq Nat, S # {}
  PROVE  Min(S) \in S
<1> DEFINE Less == {p \in Nat \X Nat : p[1] < p[2]}
<1>1. OpToRel(<, Nat) = Less
  BY Zenon DEF OpToRel
<1>2. IsWellFoundedOn(Less, Nat)
  BY <1>1, NatLessThanWellFounded, Zenon
<1> HIDE DEF Less
<1>3. PICK x \in S : \A y \in S : ~(<<y, x>> \in Less)
  BY <1>2, WFMin
<1>4. ASSUME NEW y \in S PROVE x <= y
  <2>1. x \in Nat /\ y \in Nat /\ ~(<<y, x>> \in Less)
    BY <1>3
  <2>2. <<y, x>> \in Nat \X Nat /\ <<y, x>>[1] = y /\ <<y, x>>[2] = x
    BY <2>1
  <2>3. ~(y < x)
    BY <2>1, <2>2, Zenon DEF Less
  <2> QED BY <2>1, <2>3
<1> QED BY <1>4 DEF Min

\* The search of getUniqueSequenceId finds an id that is not in use.
LEMMA UniqueIdUnused ==
  ASSUME Types, Cardinality(Live) < maxSequenceNumber
  PROVE  UniqueId \in Ids /\ UniqueId \notin Live
<1> DEFINE I == sequenceIdCounter .. sequenceIdCounter + maxSequenceNumber
           F == {i \in I : i \notin Live}
<1>1. IsFiniteSet(I) /\ Cardinality(I) = maxSequenceNumber + 1
  BY FS_Interval, ConstantsAssumption DEF Types, Ids
<1>2. ~(I \subseteq Live)
  <2> SUFFICES ASSUME I \subseteq Live PROVE FALSE
    OBVIOUS
  <2>1. Cardinality(I) <= Cardinality(Live)
    BY FS_Subset DEF Types, SequencesType
  <2>2. Cardinality(Live) \in Nat
    BY FS_CardinalityType DEF Types, SequencesType
  <2> QED BY <1>1, <2>1, <2>2, ConstantsAssumption
<1>3. F # {} /\ F \subseteq Ids
  BY <1>2, ConstantsAssumption DEF Types, Ids
<1>4. F \subseteq Nat
  BY <1>3 DEF Ids
<1> HIDE DEF F
<1>5. Min(F) \in F
  BY <1>3, <1>4, LeastOfNaturals
<1>6. UniqueId = Min(F)
  BY DEF UniqueId, F
<1> QED BY <1>5, <1>6, <1>3 DEF F

\* A new sequence changes no other one ...
LEMMA PutSequence ==
  ASSUME SequencesType, NEW s \in Ids, NEW q \in SequenceType, sequences' = Put(s, q)
  PROVE  /\ SequencesType' /\ Live' = Live \cup {s}
         /\ sequences'[s] = q /\ \A i \in Live \ {s} : sequences'[i] = sequences[i]
<1>1. Live' = Live \cup {s}
  BY DEF Put, Live
<1>2. IsFiniteSet(Live')
  BY <1>1, FS_AddElement DEF SequencesType
<1>3. sequences' \in [Live \cup {s} -> SequenceType]
  BY DEF Put, SequencesType
<1>4. sequences'[s] = q /\ \A i \in Live \ {s} : sequences'[i] = sequences[i]
  BY DEF Put
<1> QED BY <1>1, <1>2, <1>3, <1>4 DEF SequencesType

\* ... nor does the end of one.
LEMMA EraseSequence ==
  ASSUME SequencesType, NEW s, sequences' = Erase(s)
  PROVE  /\ SequencesType' /\ Live' = Live \ {s}
         /\ \A i \in Live \ {s} : sequences'[i] = sequences[i]
<1>1. Live' = Live \ {s}
  BY DEF Erase, Live
<1>2. IsFiniteSet(Live')
  BY <1>1, FS_RemoveElement DEF SequencesType
<1>3. sequences' \in [Live \ {s} -> SequenceType]
  BY DEF Erase, SequencesType
<1>4. \A i \in Live \ {s} : sequences'[i] = sequences[i]
  BY DEF Erase
<1> QED BY <1>1, <1>2, <1>3, <1>4 DEF SequencesType

\* A sequence is changed in place.
LEMMA ChangeSequence ==
  ASSUME SequencesType, NEW s \in Live, NEW q \in SequenceType,
         sequences' = [sequences EXCEPT ![s] = q]
  PROVE  /\ SequencesType' /\ Live' = Live
         /\ sequences'[s] = q /\ \A i \in Live \ {s} : sequences'[i] = sequences[i]
<1>1. Live' = Live
  BY DEF Live
<1>2. sequences' \in [Live -> SequenceType]
  BY DEF SequencesType
<1> QED BY <1>1, <1>2 DEF SequencesType

\* Its mutex is locked or unlocked.
LEMMA LockChanges ==
  ASSUME SequencesType, NEW r, spec[r].id \in Live, NEW o \in Requests \cup {Nobody},
         sequences' = Locked(r, o)
  PROVE  /\ SequencesType' /\ Live' = Live
         /\ sequences'[spec[r].id] = [sequences[spec[r].id] EXCEPT !.lock = o]
         /\ \A i \in Live \ {spec[r].id} : sequences'[i] = sequences[i]
<1> DEFINE s == spec[r].id
           q == [sequences[s] EXCEPT !.lock = o]
<1>1. sequences[s] \in SequenceType
  BY DEF SequencesType
<1>2. q \in SequenceType
  BY <1>1 DEF SequenceType
<1>3. sequences' = [sequences EXCEPT ![s] = q]
  BY DEF Locked
<1> QED BY <1>2, <1>3, ChangeSequence
-----------------------------------------------------------------------------
\* the steps

\* Steps that touch neither sequences nor mutexes.
LEMMA QuietStep ==
  ASSUME UseInv, NEW r \in Requests, NEW l \in Steps, Goto(r, l),
         UNCHANGED <<sequences, sequenceIdCounter, managerMutex, spec, cleanerVars>>,
         \/ pc[r] = "new" /\ l = "prepare"
         \/ pc[r] = "process" /\ l = "destroy"
         \/ pc[r] = "getStream" /\ l = "pre"
         \/ pc[r] = "pre" /\ l \in {"infer", "unwind"}
         \/ pc[r] = "infer" /\ l \in {"post", "unwind"}
         \/ pc[r] = "post" /\ l = "release"
         \/ pc[r] = "unwind" /\ l = "destroy"
  PROVE  UseInv'
<1>0. /\ sequences' = sequences /\ spec' = spec /\ managerMutex' = managerMutex
      /\ sequenceIdCounter' = sequenceIdCounter
      /\ scan' = scan /\ toVisit' = toVisit /\ visiting' = visiting
  BY DEF cleanerVars
<1>1. pc' \in [Requests -> Steps] /\ pc'[r] = l
  BY DEF Goto, UseInv, Types
<1>2. \A q \in Requests \ {r} : pc'[q] = pc[q]
  BY DEF Goto, UseInv, Types
<1>3. Live' = Live
  BY DEF Live
<1>4. Types'
  BY <1>1, <1>3 DEF UseInv, Types, SequencesType, cleanerVars
<1> USE <1>0, <1>1, <1>2, <1>3 DEF Inside, Holds, Ending, UseInv
<1>5. MutexHeld'
  BY DEF MutexHeld
<1>6. PointersValid'
  BY DEF PointersValid
<1>7. EndsAlone'
  BY DEF EndsAlone
<1>8. OnlyEndsRemove'
  BY DEF OnlyEndsRemove
<1>9. VisitsAlone'
  BY DEF VisitsAlone
<1> QED BY <1>4, <1>5, <1>6, <1>7, <1>8, <1>9

\* The manager's mutex is taken by a request.
LEMMA LockManagerStep ==
  ASSUME UseInv, NEW r \in Requests, LockManager(r) PROVE UseInv'
<1>1. /\ pc' = [pc EXCEPT ![r] = "process"] /\ pc[r] = "prepare"
      /\ managerMutex = Nobody /\ managerMutex' = r
      /\ sequences' = sequences /\ spec' = spec /\ sequenceIdCounter' = sequenceIdCounter
      /\ scan' = scan /\ toVisit' = toVisit /\ visiting' = visiting
  BY DEF LockManager, Goto, cleanerVars
<1>2. Live' = Live
  BY <1>1 DEF Live
<1>3. Types'
  BY <1>1, <1>2 DEF UseInv, Types, SequencesType, Steps
<1> USE <1>1, <1>2, ConstantsAssumption DEF Inside, Holds, Ending, UseInv, Types, Nobody, Cleaner
<1>4. MutexHeld'
  BY DEF MutexHeld
<1>5. PointersValid'
  BY DEF PointersValid
<1>6. EndsAlone'
  BY DEF EndsAlone
<1>7. OnlyEndsRemove'
  BY DEF OnlyEndsRemove
<1>8. VisitsAlone'
  BY DEF VisitsAlone
<1> QED BY <1>3, <1>4, <1>5, <1>6, <1>7, <1>8

\* processRequestedSpec under the manager's mutex.
LEMMA ProcessStep ==
  ASSUME UseInv, NEW r \in Requests, Process(r) PROVE UseInv'
<1>1. /\ pc' = [pc EXCEPT ![r] = "lockSequence"] /\ pc[r] = "process"
      /\ managerMutex' = managerMutex
      /\ scan' = scan /\ toVisit' = toVisit /\ visiting' = visiting
  BY DEF Process, Goto, cleanerVars
<1>2. managerMutex = r /\ scan = "off" /\ \A q \in Requests \ {r} : pc[q] \notin {"process", "lockSequence"}
  BY <1>1, ConstantsAssumption DEF UseInv, MutexHeld, Types, Cleaner
<1> DEFINE s == spec'[r].id
<1>3. /\ spec' \in [Requests -> [id : Nat, control : Controls]]
      /\ spec'[r].control = spec[r].control
      /\ \A q \in Requests \ {r} : spec'[q] = spec[q]
      /\ sequenceIdCounter' \in Ids
      /\ SequencesType' /\ Live' = Live \cup {s}
      /\ \A i \in Live : sequences'[i].lock = sequences[i].lock
      /\ \A i \in Live \ {s} : sequences'[i] = sequences[i]
  <2>1. CASE CreateUnique(r)
    <3>1. UniqueId \in Ids /\ UniqueId \notin Live
      BY <2>1, UniqueIdUnused DEF CreateUnique, UseInv
    <3>2. NewSequence \in SequenceType
      BY DEF NewSequence, SequenceType
    <3>3. /\ SequencesType' /\ Live' = Live \cup {UniqueId}
          /\ \A i \in Live \ {UniqueId} : sequences'[i] = sequences[i]
      BY <2>1, <3>1, <3>2, PutSequence DEF CreateUnique, UseInv, Types
    <3>4. /\ spec' \in [Requests -> [id : Nat, control : Controls]]
          /\ spec'[r].control = spec[r].control /\ s = UniqueId
          /\ \A q \in Requests \ {r} : spec'[q] = spec[q]
      BY <2>1, <3>1 DEF CreateUnique, UseInv, Types, Ids
    <3> QED BY <2>1, <3>1, <3>3, <3>4 DEF CreateUnique
  <2>2. CASE CreateWithId(r)
    <3>1. s = spec[r].id /\ s \in Ids /\ s \notin Live /\ spec' = spec
      BY <2>2 DEF CreateWithId, UseInv, Types, Ids
    <3>2. NewSequence \in SequenceType
      BY DEF NewSequence, SequenceType
    <3>3. /\ SequencesType' /\ Live' = Live \cup {s}
          /\ \A i \in Live \ {s} : sequences'[i] = sequences[i]
      BY <2>2, <3>1, <3>2, PutSequence DEF CreateWithId, UseInv, Types
    <3> QED BY <2>2, <3>1, <3>3 DEF CreateWithId, UseInv, Types
  <2>3. CASE Terminate(r)
    <3>1. s = spec[r].id /\ s \in Live /\ spec' = spec
      BY <2>3 DEF Terminate, HasSequence
    <3>2. [sequences[s] EXCEPT !.terminated = TRUE] \in SequenceType
      BY <3>1 DEF UseInv, Types, SequencesType, SequenceType
    <3>3. sequences' = [sequences EXCEPT ![s] = [sequences[s] EXCEPT !.terminated = TRUE]]
      BY <2>3, <3>1 DEF Terminate
    <3>4. /\ SequencesType' /\ Live' = Live
          /\ sequences'[s] = [sequences[s] EXCEPT !.terminated = TRUE]
          /\ \A i \in Live \ {s} : sequences'[i] = sequences[i]
      BY <3>1, <3>2, <3>3, ChangeSequence DEF UseInv, Types
    <3>5. sequences'[s].lock = sequences[s].lock
      BY <3>1, <3>4 DEF UseInv, Types, SequencesType, SequenceType
    <3> QED BY <2>3, <3>1, <3>4, <3>5 DEF Terminate, UseInv, Types
  <2>4. CASE HasSequence(spec[r].id) /\ UNCHANGED <<sequences, sequenceIdCounter, spec>>
    BY <2>4 DEF HasSequence, UseInv, Types, SequencesType, Live
  <2> QED BY <2>1, <2>2, <2>3, <2>4 DEF Process
\* Nobody has ended the sequence before, and it is marked if this request does.
<1>4. /\ spec[r].control # "SEQUENCE_START" => spec' = spec /\ s \in Live /\ ~sequences[s].terminated
      /\ spec[r].control = "SEQUENCE_START" => s \notin Live
      /\ spec[r].control = "SEQUENCE_END" => sequences'[s].terminated
  <2>1. CASE spec[r].control = "SEQUENCE_START" /\ (CreateUnique(r) \/ CreateWithId(r))
    BY <2>1, <1>3, UniqueIdUnused DEF CreateUnique, CreateWithId, UseInv, Types
  <2>2. CASE spec[r].control = "NO_CONTROL_INPUT" /\ HasSequence(spec[r].id) /\ UNCHANGED <<sequences, sequenceIdCounter, spec>>
    BY <2>2 DEF HasSequence
  <2>3. CASE spec[r].control = "SEQUENCE_END" /\ Terminate(r)
    <3>1. s = spec[r].id /\ s \in Live /\ ~sequences[s].terminated /\ spec' = spec
      BY <2>3 DEF Terminate, HasSequence
    <3>2. sequences' = [sequences EXCEPT ![s].terminated = TRUE]
      BY <2>3, <3>1 DEF Terminate
    <3>3. sequences'[s].terminated
      BY <3>1, <3>2 DEF UseInv, Types, SequencesType, SequenceType
    <3> QED BY <2>3, <3>1, <3>3
  <2> QED BY <2>1, <2>2, <2>3 DEF Process
<1>5. Types'
  BY <1>1, <1>3 DEF UseInv, Types, Steps
<1> HIDE DEF s
<1> USE <1>1, <1>2, <1>3, <1>4 DEF Inside, Holds, Ending, UseInv, Types
<1>6. MutexHeld'
  BY DEF MutexHeld
<1>7. PointersValid'
  BY DEF PointersValid, s
<1>8. EndsAlone'
  BY DEF EndsAlone, s
<1>9. OnlyEndsRemove'
  BY DEF OnlyEndsRemove
<1>10. VisitsAlone'
  BY DEF VisitsAlone
<1> QED BY <1>5, <1>6, <1>7, <1>8, <1>9, <1>10

\* The request gets the mutex of its sequence and gives up the manager's.
LEMMA LockSequenceStep ==
  ASSUME UseInv, NEW r \in Requests, LockSequence(r) PROVE UseInv'
<1> DEFINE s == spec[r].id
<1>1. /\ pc' = [pc EXCEPT ![r] = "getStream"] /\ pc[r] = "lockSequence"
      /\ managerMutex' = Nobody /\ sequences[s].lock = Nobody
      /\ sequences' = Locked(r, r)
      /\ spec' = spec /\ sequenceIdCounter' = sequenceIdCounter
      /\ scan' = scan /\ toVisit' = toVisit /\ visiting' = visiting
  BY DEF LockSequence, Goto, cleanerVars
<1>2. managerMutex = r /\ scan = "off" /\ \A q \in Requests \ {r} : pc[q] \notin {"process", "lockSequence"}
  BY <1>1, ConstantsAssumption DEF UseInv, MutexHeld, Types, Cleaner
<1>3. s \in Live
  BY <1>1 DEF UseInv, PointersValid, Inside
<1>4. /\ SequencesType' /\ Live' = Live
      /\ sequences'[s] = [sequences[s] EXCEPT !.lock = r]
      /\ \A i \in Live \ {s} : sequences'[i] = sequences[i]
  BY <1>1, <1>3, LockChanges DEF UseInv, Types
<1>5. sequences'[s].lock = r /\ sequences'[s].terminated = sequences[s].terminated
  BY <1>3, <1>4 DEF UseInv, Types, SequencesType, SequenceType
<1>6. Types'
  BY <1>1, <1>4 DEF UseInv, Types, Steps
<1>12. /\ Live' = Live /\ \A i \in Live : sequences'[i].terminated = sequences[i].terminated
       /\ \A i \in Live \ {s} : sequences'[i].lock = sequences[i].lock
  BY <1>4, <1>5
<1>13. pc'[r] = "getStream" /\ \A q \in Requests \ {r} : pc'[q] = pc[q]
  BY <1>1 DEF UseInv, Types
<1>14. \A q \in Requests \ {r} : Inside(q) => spec[q].id # s
  BY <1>1, <1>2, ConstantsAssumption DEF UseInv, PointersValid, Inside, Holds, Nobody
<1>15. /\ managerMutex' = Nobody /\ spec' = spec /\ pc[r] = "lockSequence"
       /\ scan' = scan /\ visiting' = visiting /\ sequences'[s].lock = r
  BY <1>1, <1>5
<1> USE <1>2, <1>3, <1>12, <1>13, <1>14, <1>15 DEF Inside, Holds, Ending, UseInv
<1>7. MutexHeld'
  BY DEF MutexHeld
<1>8. PointersValid'
  BY DEF PointersValid
<1>9. EndsAlone'
  BY DEF EndsAlone
<1>10. OnlyEndsRemove'
  BY DEF OnlyEndsRemove
<1>11. VisitsAlone'
  BY DEF VisitsAlone
<1> QED BY <1>6, <1>7, <1>8, <1>9, <1>10, <1>11

\* The state of the sequence is saved.
LEMMA PostStep ==
  ASSUME UseInv, NEW r \in Requests, Post(r), memory[stream[r]] \in Seq(Requests)
  PROVE  UseInv'
<1> DEFINE s == spec[r].id
<1>1. /\ pc' = [pc EXCEPT ![r] = "release"] /\ pc[r] = "post"
      /\ managerMutex' = managerMutex
      /\ spec' = spec /\ sequenceIdCounter' = sequenceIdCounter
      /\ scan' = scan /\ toVisit' = toVisit /\ visiting' = visiting
  BY DEF Post, Goto, cleanerVars
<1>2. s \in Live
  BY <1>1 DEF UseInv, PointersValid, Inside
<1>3. /\ SequencesType' /\ Live' = Live
      /\ \A i \in Live : /\ sequences'[i].lock = sequences[i].lock
                          /\ sequences'[i].terminated = sequences[i].terminated
  <2>1. CASE sequences' = sequences
    BY <2>1 DEF UseInv, Types, SequencesType, Live
  <2>2. CASE sequences' = [sequences EXCEPT ![s].mem = memory[stream[r]], ![s].idle = FALSE]
    <3> DEFINE q == [sequences[s] EXCEPT !.mem = memory[stream[r]], !.idle = FALSE]
    <3>1. sequences[s] \in SequenceType
      BY <1>2 DEF UseInv, Types, SequencesType
    <3>2. q \in SequenceType /\ q.lock = sequences[s].lock /\ q.terminated = sequences[s].terminated
      BY <3>1 DEF SequenceType
    <3>3. sequences' = [sequences EXCEPT ![s] = q]
      BY <2>2, <1>2, <3>1 DEF UseInv, Types, SequencesType, SequenceType
    <3> HIDE DEF q, s
    <3>4. /\ SequencesType' /\ Live' = Live
          /\ sequences'[s] = q /\ \A i \in Live \ {s} : sequences'[i] = sequences[i]
      BY <1>2, <3>2, <3>3, ChangeSequence DEF UseInv, Types
    <3> QED BY <3>2, <3>4
  <2> QED BY <2>1, <2>2 DEF Post
<1>4. Types'
  BY <1>1, <1>3 DEF UseInv, Types, Steps
<1> USE <1>1, <1>2, <1>3 DEF Inside, Holds, Ending, UseInv, Types
<1>5. MutexHeld'
  BY DEF MutexHeld
<1>6. PointersValid'
  BY DEF PointersValid
<1>7. EndsAlone'
  BY DEF EndsAlone
<1>8. OnlyEndsRemove'
  BY DEF OnlyEndsRemove
<1>9. VisitsAlone'
  BY DEF VisitsAlone
<1> QED BY <1>4, <1>5, <1>6, <1>7, <1>8, <1>9

\* release unlocks the sequence: the request that ends it is then the only one
\* left that may remove it.
LEMMA ReleaseStep ==
  ASSUME UseInv, NEW r \in Requests, Release(r) PROVE UseInv'
<1> DEFINE s == spec[r].id
<1>1. /\ pc' = [pc EXCEPT ![r] = IF spec[r].control = "SEQUENCE_END" THEN "remove" ELSE "unwind"]
      /\ pc[r] = "release" /\ managerMutex' = managerMutex
      /\ sequences' = Locked(r, Nobody)
      /\ spec' = spec /\ sequenceIdCounter' = sequenceIdCounter
      /\ scan' = scan /\ toVisit' = toVisit /\ visiting' = visiting
  BY DEF Release, Goto, cleanerVars
<1>2. s \in Live /\ sequences[s].lock = r
  BY <1>1 DEF UseInv, PointersValid, Inside, Holds
<1>3. /\ SequencesType' /\ Live' = Live
      /\ sequences'[s] = [sequences[s] EXCEPT !.lock = Nobody]
      /\ \A i \in Live \ {s} : sequences'[i] = sequences[i]
  BY <1>1, <1>2, LockChanges DEF UseInv, Types
<1>4. sequences'[s].terminated = sequences[s].terminated
  BY <1>2, <1>3 DEF UseInv, Types, SequencesType, SequenceType
<1>5. Types'
  BY <1>1, <1>3 DEF UseInv, Types, Steps
<1>11. /\ Live' = Live /\ \A i \in Live : sequences'[i].terminated = sequences[i].terminated
       /\ \A i \in Live \ {s} : sequences'[i].lock = sequences[i].lock
  BY <1>3, <1>4
<1>12. /\ pc'[r] = IF spec[r].control = "SEQUENCE_END" THEN "remove" ELSE "unwind"
       /\ \A q \in Requests \ {r} : pc'[q] = pc[q]
  BY <1>1 DEF UseInv, Types
<1>13. \A q \in Requests \ {r} : Holds(q) => spec[q].id # s
  BY <1>2 DEF UseInv, PointersValid, Holds
<1>14. /\ managerMutex' = managerMutex /\ spec' = spec /\ pc[r] = "release"
       /\ scan' = scan /\ visiting' = visiting
  BY <1>1
<1> USE <1>2, <1>11, <1>12, <1>13, <1>14 DEF Inside, Holds, Ending, UseInv
<1>6. MutexHeld'
  BY DEF MutexHeld
<1>7. PointersValid'
  BY DEF PointersValid
<1>8. EndsAlone'
  BY DEF EndsAlone
<1>9. OnlyEndsRemove'
  BY DEF OnlyEndsRemove
<1>10. VisitsAlone'
  BY DEF VisitsAlone
<1> QED BY <1>5, <1>6, <1>7, <1>8, <1>9, <1>10

\* The sequence that is removed is used by nobody.
LEMMA RemoveStep ==
  ASSUME UseInv, NEW r \in Requests, Remove(r) PROVE UseInv'
<1> DEFINE s == spec[r].id
<1>1. /\ pc' = [pc EXCEPT ![r] = "unwind"] /\ pc[r] = "remove"
      /\ managerMutex = Nobody /\ managerMutex' = r
      /\ sequences' = Erase(s)
      /\ spec' = spec /\ sequenceIdCounter' = sequenceIdCounter
      /\ scan' = scan /\ toVisit' = toVisit /\ visiting' = visiting
  BY DEF Remove, Goto, cleanerVars
<1>2. scan = "off" /\ \A q \in Requests : pc[q] \notin {"process", "lockSequence"}
  BY <1>1, ConstantsAssumption DEF UseInv, MutexHeld, Types, Cleaner, Nobody
<1>3. /\ SequencesType' /\ Live' = Live \ {s}
      /\ \A i \in Live \ {s} : sequences'[i] = sequences[i]
  BY <1>1, EraseSequence DEF UseInv, Types
<1>4. spec[r].control = "SEQUENCE_END"
  BY <1>1 DEF UseInv, OnlyEndsRemove
<1>5. \A q \in Requests \ {r} : Inside(q) \/ Ending(q) => spec[q].id # s
  BY <1>1, <1>2, <1>4 DEF UseInv, EndsAlone, Ending, Inside
<1>6. Types'
  BY <1>1, <1>3 DEF UseInv, Types, Steps
<1> USE <1>1, <1>2, <1>3, <1>4, <1>5, ConstantsAssumption
        DEF Inside, Holds, Ending, UseInv, Types
<1>7. MutexHeld'
  BY DEF MutexHeld
<1>8. PointersValid'
  BY DEF PointersValid
<1>9. EndsAlone'
  BY DEF EndsAlone
<1>10. OnlyEndsRemove'
  BY DEF OnlyEndsRemove
<1>11. VisitsAlone'
  BY DEF VisitsAlone
<1> QED BY <1>6, <1>7, <1>8, <1>9, <1>10, <1>11

\* A request that ends unlocks what it still holds.
LEMMA DestroyStep ==
  ASSUME UseInv, NEW r \in Requests, Destroy(r) PROVE UseInv'
<1>1. /\ pc' = [pc EXCEPT ![r] = "done"] /\ pc[r] = "destroy"
      /\ managerMutex' = IF managerMutex = r THEN Nobody ELSE managerMutex
      /\ sequences' = IF HoldsSequence(r) THEN Locked(r, Nobody) ELSE sequences
      /\ spec' = spec /\ sequenceIdCounter' = sequenceIdCounter
      /\ scan' = scan /\ toVisit' = toVisit /\ visiting' = visiting
  BY DEF Destroy, Goto, cleanerVars
<1>2. /\ SequencesType' /\ Live' = Live
      /\ \A i \in Live : sequences'[i].terminated = sequences[i].terminated
      /\ \A i \in Live : sequences[i].lock # r => sequences'[i].lock = sequences[i].lock
  <2>1. CASE HoldsSequence(r)
    <3>1. /\ SequencesType' /\ Live' = Live
          /\ sequences'[spec[r].id] = [sequences[spec[r].id] EXCEPT !.lock = Nobody]
          /\ \A i \in Live \ {spec[r].id} : sequences'[i] = sequences[i]
      BY <1>1, <2>1, LockChanges DEF UseInv, Types, HoldsSequence
    <3>2. sequences'[spec[r].id].terminated = sequences[spec[r].id].terminated
      BY <2>1, <3>1 DEF UseInv, Types, SequencesType, SequenceType, HoldsSequence
    <3> QED BY <2>1, <3>1, <3>2 DEF HoldsSequence
  <2>2. CASE ~HoldsSequence(r)
    BY <1>1, <2>2 DEF UseInv, Types, SequencesType, Live
  <2> QED BY <2>1, <2>2
<1>3. Types'
  BY <1>1, <1>2 DEF UseInv, Types, Steps
<1>4. pc'[r] = "done" /\ \A q \in Requests \ {r} : pc'[q] = pc[q]
  BY <1>1 DEF UseInv, Types
<1>5. scan # "off" => managerMutex' = Cleaner
  BY <1>1, ConstantsAssumption DEF UseInv, MutexHeld, Cleaner
<1> USE <1>1, <1>2, <1>4, <1>5 DEF Inside, Holds, Ending, UseInv
<1>6. MutexHeld'
  BY DEF MutexHeld
<1>7. PointersValid'
  BY DEF PointersValid
<1>8. EndsAlone'
  BY DEF EndsAlone
<1>9. OnlyEndsRemove'
  BY DEF OnlyEndsRemove
<1>10. VisitsAlone'
  BY DEF VisitsAlone
<1> QED BY <1>3, <1>6, <1>7, <1>8, <1>9, <1>10

\* A scan starts when nobody is between prepare and the lock of its sequence.
LEMMA StartScanStep ==
  ASSUME UseInv, StartScan PROVE UseInv'
<1>1. /\ managerMutex = Nobody /\ managerMutex' = Cleaner
      /\ scan' = "next" /\ sequences' = sequences /\ pc' = pc /\ spec' = spec
      /\ sequenceIdCounter' = sequenceIdCounter
  BY DEF StartScan
<1>2. Live' = Live
  BY <1>1 DEF Live
<1>3. Types'
  BY <1>1, <1>2 DEF UseInv, Types, SequencesType
<1> USE <1>1, <1>2, ConstantsAssumption DEF Inside, Holds, Ending, UseInv, Nobody, Cleaner
<1>4. MutexHeld'
  BY DEF MutexHeld
<1>5. PointersValid'
  BY DEF PointersValid
<1>6. EndsAlone'
  BY DEF EndsAlone
<1>7. OnlyEndsRemove'
  BY DEF OnlyEndsRemove
<1>8. VisitsAlone'
  BY DEF VisitsAlone
<1> QED BY <1>3, <1>4, <1>5, <1>6, <1>7, <1>8

\* A sequence whose mutex is free and that is not terminated is used by nobody
\* while the cleaner holds the manager's mutex.
LEMMA TryLockStep ==
  ASSUME UseInv, NEW s \in toVisit, TryLock(s), toVisit \subseteq Live PROVE UseInv'
<1>1. /\ managerMutex' = managerMutex /\ scan = "next"
      /\ sequences' = sequences /\ pc' = pc /\ spec' = spec
      /\ sequenceIdCounter' = sequenceIdCounter
      /\ \/ scan' = "visit" /\ visiting' = s /\ ~sequences[s].terminated /\ sequences[s].lock = Nobody
         \/ scan' = scan /\ visiting' = visiting
  BY DEF TryLock
<1>2. Live' = Live /\ s \in Live
  BY <1>1 DEF Live
<1>3. Types'
  BY <1>1, <1>2 DEF UseInv, Types, SequencesType
<1>9. managerMutex = Cleaner
  BY <1>1 DEF UseInv, MutexHeld
<1> USE <1>1, <1>2, <1>9, ConstantsAssumption
        DEF Inside, Holds, Ending, UseInv, Cleaner
<1>4. MutexHeld'
  BY DEF MutexHeld
<1>5. PointersValid'
  BY DEF PointersValid
<1>6. EndsAlone'
  BY DEF EndsAlone
<1>7. OnlyEndsRemove'
  BY DEF OnlyEndsRemove
<1>8. VisitsAlone'
  BY DEF VisitsAlone, PointersValid, MutexHeld, Nobody
<1> QED BY <1>3, <1>4, <1>5, <1>6, <1>7, <1>8

\* The sequence that the cleaner erases or marks is used by nobody.
LEMMA CheckIdleStep ==
  ASSUME UseInv, CheckIdle PROVE UseInv'
<1>1. /\ managerMutex' = managerMutex /\ scan = "visit" /\ scan' = "next"
      /\ pc' = pc /\ spec' = spec /\ sequenceIdCounter' = sequenceIdCounter
      /\ \/ sequences' = Erase(visiting)
         \/ sequences' = [sequences EXCEPT ![visiting].idle = TRUE]
  BY DEF CheckIdle
<1>2. /\ visiting \in Live /\ ~sequences[visiting].terminated
      /\ \A r \in Requests : Inside(r) => spec[r].id # visiting
  BY <1>1 DEF UseInv, VisitsAlone
<1>3. /\ SequencesType'
      /\ \A i \in Live \ {visiting} : i \in Live' /\ sequences'[i] = sequences[i]
  <2>1. CASE sequences' = Erase(visiting)
    BY <2>1, EraseSequence DEF UseInv, Types
  <2>2. CASE sequences' = [sequences EXCEPT ![visiting].idle = TRUE]
    <3> DEFINE q == [sequences[visiting] EXCEPT !.idle = TRUE]
    <3>1. sequences[visiting] \in SequenceType
      BY <1>2 DEF UseInv, Types, SequencesType
    <3>2. q \in SequenceType /\ sequences' = [sequences EXCEPT ![visiting] = q]
      BY <2>2, <3>1 DEF SequenceType
    <3> HIDE DEF q
    <3> QED BY <1>2, <3>2, ChangeSequence DEF UseInv, Types
  <2> QED BY <1>1, <2>1, <2>2
<1>4. Types'
  BY <1>1, <1>3 DEF UseInv, Types
<1>5. \A r \in Requests : Ending(r) => spec[r].id # visiting
  BY <1>2 DEF UseInv, EndsAlone
<1>11. \A r \in Requests : Inside(r) \/ Ending(r) =>
         spec[r].id \in Live' /\ (spec[r].id \in Live => sequences'[spec[r].id] = sequences[spec[r].id])
  BY <1>2, <1>3, <1>5 DEF UseInv, PointersValid, EndsAlone
<1> USE <1>1, <1>2, <1>5, <1>11 DEF Inside, Holds, Ending, UseInv
<1>6. MutexHeld'
  BY DEF MutexHeld
<1>7. PointersValid'
  BY DEF PointersValid
<1>8. EndsAlone'
  BY DEF EndsAlone
<1>9. OnlyEndsRemove'
  BY DEF OnlyEndsRemove
<1>10. VisitsAlone'
  BY DEF VisitsAlone
<1> QED BY <1>4, <1>6, <1>7, <1>8, <1>9, <1>10

\* The scan ends with the manager's mutex unlocked.
LEMMA EndScanStep ==
  ASSUME UseInv, EndScan PROVE UseInv'
<1>1. /\ managerMutex' = Nobody /\ scan = "next" /\ scan' = "off"
      /\ sequences' = sequences /\ pc' = pc /\ spec' = spec
      /\ sequenceIdCounter' = sequenceIdCounter
  BY DEF EndScan
<1>2. Live' = Live
  BY <1>1 DEF Live
<1>3. Types'
  BY <1>1, <1>2 DEF UseInv, Types, SequencesType
<1> USE <1>1, <1>2, ConstantsAssumption DEF Inside, Holds, Ending, UseInv, Cleaner
<1>4. MutexHeld'
  BY DEF MutexHeld
<1>5. PointersValid'
  BY DEF PointersValid
<1>6. EndsAlone'
  BY DEF EndsAlone
<1>7. OnlyEndsRemove'
  BY DEF OnlyEndsRemove
<1>8. VisitsAlone'
  BY DEF VisitsAlone
<1> QED BY <1>3, <1>4, <1>5, <1>6, <1>7, <1>8

-----------------------------------------------------------------------------
\* lemmas about memory states

Early == {"new", "prepare", "process"}

\* What a request asks for is settled once it has passed processRequestedSpec.
LEMMA SpecSettled ==
  ASSUME UseInv, [Next]_vars, NEW q \in Requests, pc[q] \notin Early
  PROVE  pc'[q] \notin Early /\ spec'[q] = spec[q]
<1>1. CASE UNCHANGED vars
  BY <1>1 DEF vars
<1>2. CASE CleanerStep
  BY <1>2 DEF CleanerStep, StartScan, TryLock, CheckIdle, EndScan
<1>3. ASSUME NEW r \in Requests, Arrive(r) \/ RequestStep(r)
      PROVE  pc'[q] \notin Early /\ spec'[q] = spec[q]
  <2> USE <1>3 DEF UseInv, Types, Goto, Early
  <2>1. CASE q # r
    <3>1. CASE Process(r)
      BY <2>1, <3>1 DEF Process, CreateUnique, CreateWithId, Terminate
    <3>2. CASE ~Process(r)
      BY <2>1, <3>2 DEF Arrive, RequestStep, LockManager, Refuse, LockSequence, GetStream, Pre,
           Infer, InferFails, Post, SaveFails, Release, Remove, Unwind, Destroy
    <3> QED BY <3>1, <3>2
  <2>2. CASE q = r
    BY <2>2 DEF Arrive, RequestStep, LockManager, Process, Refuse, LockSequence, GetStream, Pre,
         Infer, InferFails, Post, SaveFails, Release, Remove, Unwind, Destroy
  <2> QED BY <2>1, <2>2
<1> QED BY <1>1, <1>2, <1>3 DEF Next

\* So a state that was built stays well built.
LEMMA BuiltStays ==
  ASSUME UseInv, [Next]_vars
  PROVE  \A mem, s : Built(mem, s, pc, spec) => Built(mem, s, pc', spec')
<1>1. \A q \in Requests : pc[q] \notin Early => pc'[q] \notin Early /\ spec'[q] = spec[q]
  BY SpecSettled
<1> SUFFICES ASSUME NEW mem, NEW s, Built(mem, s, pc, spec)
             PROVE  Built(mem, s, pc', spec')
  OBVIOUS
<1>2. mem \in Seq(Requests)
  BY DEF Built
<1>3. ASSUME NEW k \in 1..Len(mem)
      PROVE  /\ pc'[mem[k]] \notin Early
             /\ spec'[mem[k]].id = s
             /\ spec'[mem[k]].control = "SEQUENCE_START" <=> k = 1
  <2>1. mem[k] \in Requests
    BY <1>2, <1>3
  <2>2. pc[mem[k]] \notin Early /\ spec[mem[k]].id = s
        /\ (spec[mem[k]].control = "SEQUENCE_START" <=> k = 1)
    BY <1>3 DEF Built, Early
  <2>3. pc'[mem[k]] \notin Early /\ spec'[mem[k]] = spec[mem[k]]
    BY <1>1, <2>1, <2>2
  <2> QED BY <2>2, <2>3
<1> QED BY <1>2, <1>3 DEF Built, Early

\* A request of the sequence goes on with it.
LEMMA BuiltAppend ==
  ASSUME NEW mem, NEW s, NEW p, NEW sp, NEW r \in Requests,
         Built(mem, s, p, sp), p[r] \notin Early, sp[r].id = s,
         mem = <<>> <=> sp[r].control = "SEQUENCE_START"
  PROVE  Built(Append(mem, r), s, p, sp) /\ Append(mem, r) # <<>>
<1>1. mem \in Seq(Requests)
  BY DEF Built
<1>2. /\ Append(mem, r) \in Seq(Requests) /\ Len(Append(mem, r)) = Len(mem) + 1
      /\ Append(mem, r)[Len(mem) + 1] = r
      /\ \A k \in 1..Len(mem) : Append(mem, r)[k] = mem[k]
      /\ Append(mem, r) # <<>>
  BY <1>1
<1>3. ASSUME NEW k \in 1..Len(Append(mem, r))
      PROVE  /\ p[Append(mem, r)[k]] \notin Early
             /\ sp[Append(mem, r)[k]].id = s
             /\ sp[Append(mem, r)[k]].control = "SEQUENCE_START" <=> k = 1
  <2>1. CASE k \in 1..Len(mem)
    BY <1>2, <2>1 DEF Built, Early
  <2>2. CASE k = Len(mem) + 1
    <3>1. k = 1 <=> mem = <<>>
      BY <1>1, <2>2
    <3> QED BY <1>2, <2>2, <3>1
  <2>3. k \in 1..Len(mem) \/ k = Len(mem) + 1
    BY <1>1, <1>2, <1>3
  <2> QED BY <2>1, <2>2, <2>3
<1> QED BY <1>2, <1>3 DEF Built, Early

\* A fresh memory state belongs to any sequence.
LEMMA BuiltEmpty == \A s, p, sp : Built(<<>>, s, p, sp)
BY DEF Built

-----------------------------------------------------------------------------
\* the memory states after a step

\* A step that saves nothing.
LEMMA SavedKept ==
  ASSUME IInv, [Next]_vars,
         \A s \in Live' : \/ sequences'[s].mem = Unset
                          \/ s \in Live /\ sequences'[s].mem = sequences[s].mem
  PROVE  SavedBuilt'
BY BuiltStays DEF IInv, SavedBuilt

\* The requests other than r keep what their streams hold.
LEMMA RunningKept ==
  ASSUME IInv, [Next]_vars, NEW r \in Requests,
         \A q \in Requests \ {r} :
            pc'[q] \in {"infer", "post"} => /\ pc[q] = pc'[q]
                                            /\ memory'[stream'[q]] = memory[stream[q]],
         pc'[r] = "infer" => /\ Built(memory'[stream'[r]], spec'[r].id, pc', spec')
                             /\ memory'[stream'[r]] = <<>> <=> spec'[r].control = "SEQUENCE_START",
         pc'[r] = "post" => /\ Built(memory'[stream'[r]], spec'[r].id, pc', spec')
                            /\ memory'[stream'[r]] # <<>>
  PROVE  RunningBuilt'
<1> SUFFICES ASSUME NEW q \in Requests \ {r}
             PROVE  /\ pc'[q] = "infer" =>
                         /\ Built(memory'[stream'[q]], spec'[q].id, pc', spec')
                         /\ memory'[stream'[q]] = <<>> <=> spec'[q].control = "SEQUENCE_START"
                    /\ pc'[q] = "post" => /\ Built(memory'[stream'[q]], spec'[q].id, pc', spec')
                                          /\ memory'[stream'[q]] # <<>>
  BY DEF RunningBuilt
<1>1. CASE pc'[q] \notin {"infer", "post"}
  BY <1>1
<1>2. CASE pc'[q] \in {"infer", "post"}
  <2>1. pc[q] = pc'[q] /\ memory'[stream'[q]] = memory[stream[q]]
    BY <1>2
  <2>2. spec'[q] = spec[q]
    BY <1>2, <2>1, SpecSettled DEF IInv, Early
  <2>3. Built(memory[stream[q]], spec[q].id, pc, spec)
    BY <1>2, <2>1 DEF IInv, RunningBuilt
  <2>4. Built(memory[stream[q]], spec[q].id, pc', spec')
    BY <2>3, BuiltStays DEF IInv
  <2>5. /\ pc[q] = "infer" => (memory[stream[q]] = <<>> <=> spec[q].control = "SEQUENCE_START")
        /\ pc[q] = "post" => memory[stream[q]] # <<>>
    BY DEF IInv, RunningBuilt
  <2> QED BY <2>1, <2>2, <2>4, <2>5
<1> QED BY <1>1, <1>2

\* A step of r that touches no stream and no memory.
LEMMA MemoryUntouched ==
  ASSUME IInv, [Next]_vars, NEW r \in Requests, NEW l \in Steps \ {"pre", "infer", "post"},
         pc' = [pc EXCEPT ![r] = l] \/ pc' = pc, UNCHANGED <<stream, memory>>
  PROVE  StreamsOwned' /\ RunningBuilt'
<1>1. /\ \A q \in Requests : pc'[q] \in {"pre", "infer", "post"} => pc[q] = pc'[q]
      /\ stream' = stream /\ memory' = memory
  BY DEF IInv, UseInv, Types
<1>2. StreamsOwned'
  BY <1>1 DEF IInv, StreamsOwned
<1>3. \A q \in Requests : pc'[q] \in {"infer", "post"} =>
         /\ pc[q] = pc'[q] /\ memory'[stream'[q]] = memory[stream[q]]
  BY <1>1
<1>4. ASSUME pc'[r] \in {"infer", "post"}
      PROVE  /\ Built(memory'[stream'[r]], spec'[r].id, pc', spec')
             /\ pc'[r] = "infer" => (memory'[stream'[r]] = <<>> <=> spec'[r].control = "SEQUENCE_START")
             /\ pc'[r] = "post" => memory'[stream'[r]] # <<>>
  <2>1. pc[r] = pc'[r]
    BY <1>3, <1>4
  <2>2. spec'[r] = spec[r]
    BY <1>4, <2>1, SpecSettled DEF IInv, Early
  <2>3. /\ Built(memory[stream[r]], spec[r].id, pc, spec)
        /\ pc[r] = "infer" => (memory[stream[r]] = <<>> <=> spec[r].control = "SEQUENCE_START")
        /\ pc[r] = "post" => memory[stream[r]] # <<>>
    BY <1>4, <2>1 DEF IInv, RunningBuilt
  <2>4. Built(memory[stream[r]], spec[r].id, pc', spec')
    BY <2>3, BuiltStays DEF IInv
  <2> QED BY <1>1, <2>1, <2>2, <2>3, <2>4
<1>5. RunningBuilt'
  BY <1>3, <1>4, RunningKept
<1> QED BY <1>2, <1>5

-----------------------------------------------------------------------------
\* the invariant and the theorems

\* The sequences and the scan while a request makes a step.
LEMMA ScanKept ==
  ASSUME IInv, UNCHANGED cleanerVars, scan # "off" => Live \subseteq Live'
  PROVE  ScanOfLive'
BY DEF IInv, ScanOfLive, cleanerVars

\* The actions that touch neither the sequences nor the manager's mutex.
LEMMA QuietActions ==
  ASSUME IInv, [Next]_vars, NEW r \in Requests,
         Arrive(r) \/ Refuse(r) \/ GetStream(r) \/ Pre(r) \/ Infer(r) \/ InferFails(r)
           \/ SaveFails(r) \/ Unwind(r)
  PROVE  UseInv' /\ ScanOfLive' /\ SavedBuilt'
<1>1. UNCHANGED <<sequences, sequenceIdCounter, managerMutex, cleanerVars, spec>>
  BY DEF Arrive, Refuse, GetStream, Pre, Infer, InferFails, SaveFails, Unwind
<1>2. \E l \in Steps : Goto(r, l) /\
        (\/ pc[r] = "new" /\ l = "prepare"
         \/ pc[r] = "process" /\ l = "destroy"
         \/ pc[r] = "getStream" /\ l = "pre"
         \/ pc[r] = "pre" /\ l \in {"infer", "unwind"}
         \/ pc[r] = "infer" /\ l \in {"post", "unwind"}
         \/ pc[r] = "post" /\ l = "release"
         \/ pc[r] = "unwind" /\ l = "destroy")
  BY DEF Arrive, Refuse, GetStream, Pre, Infer, InferFails, SaveFails, Unwind, Steps
<1>3. UseInv'
  BY <1>1, <1>2, QuietStep DEF IInv
<1>4. sequences' = sequences /\ Live' = Live
  BY <1>1 DEF Live
<1>5. ScanOfLive'
  BY <1>1, <1>4, ScanKept
<1>6. SavedBuilt'
  BY <1>4, SavedKept
<1> QED BY <1>3, <1>5, <1>6

\* The actions that change streams or what they hold.
LEMMA StreamActions ==
  ASSUME IInv, [Next]_vars, NEW r \in Requests,
         GetStream(r) \/ Pre(r) \/ Infer(r) \/ InferFails(r) \/ Post(r) \/ Unwind(r)
  PROVE  StreamsOwned' /\ RunningBuilt'
<1> DEFINE m == stream[r]
<1>0. /\ stream \in [Requests -> Streams \cup {NoStream}]
      /\ memory \in [Streams -> Seq(Requests)] /\ pc \in [Requests -> Steps]
      /\ spec' = spec
  BY DEF IInv, StreamsOwned, UseInv, Types, GetStream, Pre, Infer, InferFails, Post, Unwind
<1>1. CASE GetStream(r)
  <2>1. PICK s \in Streams : /\ \A q \in Requests : stream[q] # s
                             /\ stream' = [stream EXCEPT ![r] = s]
    BY <1>1 DEF GetStream
  <2>2. pc' = [pc EXCEPT ![r] = "pre"] /\ memory' = memory /\ s # NoStream
    BY <1>1, ConstantsAssumption DEF GetStream, Goto, Streams, NoStream
  <2>3. StreamsOwned'
    BY <1>0, <2>1, <2>2 DEF IInv, StreamsOwned
  <2>4. RunningBuilt'
    BY <1>0, <2>1, <2>2, RunningKept
  <2> QED BY <2>3, <2>4
<1>2. CASE Unwind(r)
  <2>1. /\ pc' = [pc EXCEPT ![r] = "destroy"] /\ memory' = memory
        /\ stream' = [stream EXCEPT ![r] = NoStream]
    BY <1>2 DEF Unwind, Goto
  <2>2. StreamsOwned'
    BY <1>0, <2>1 DEF IInv, StreamsOwned
  <2>3. RunningBuilt'
    BY <1>0, <2>1, RunningKept
  <2> QED BY <2>2, <2>3
\* The others change the memory in the stream of r at most.
<1>3. CASE Pre(r) \/ Infer(r) \/ InferFails(r) \/ Post(r)
  <2>1. m \in Streams /\ m # NoStream /\ memory[m] \in Seq(Requests)
    BY <1>0, <1>3, ConstantsAssumption
       DEF IInv, StreamsOwned, Pre, Infer, InferFails, Post, Streams, NoStream
  <2>2. \A q \in Requests \ {r} : stream[q] # m
    BY <2>1 DEF IInv, StreamsOwned
  <2>3. stream' = stream /\ \A q \in Requests \ {r} : pc'[q] = pc[q]
    BY <1>0, <1>3 DEF Pre, Infer, InferFails, Post, Goto
  <2>4. SUFFICES ASSUME NEW mem \in Seq(Requests), memory' = [memory EXCEPT ![m] = mem],
                        pc'[r] \in {"infer", "post"} => Built(mem, spec[r].id, pc, spec),
                        pc'[r] = "infer" => (mem = <<>> <=> spec[r].control = "SEQUENCE_START"),
                        pc'[r] = "post" => mem # <<>>
                 PROVE  StreamsOwned' /\ RunningBuilt'
    <3>1. CASE Pre(r)
      <4>1. DEFINE mem == IF spec[r].control = "SEQUENCE_START" THEN <<>> ELSE sequences[spec[r].id].mem
      <4>2. CASE mem = Unset
        <5>1. memory' = [memory EXCEPT ![m] = memory[m]] /\ pc'[r] = "unwind"
          BY <1>0, <2>1, <3>1, <4>2 DEF Pre, Goto
        <5> QED BY <2>1, <5>1
      <4>3. CASE mem # Unset
        <5>1. memory' = [memory EXCEPT ![m] = mem] /\ pc'[r] = "infer"
          BY <1>0, <3>1, <4>3 DEF Pre, Goto
        <5>2. CASE spec[r].control = "SEQUENCE_START"
          <6>1. mem = <<>> /\ <<>> \in Seq(Requests)
            BY <5>2
          <6>2. Built(mem, spec[r].id, pc, spec)
            BY <6>1, BuiltEmpty
          <6> QED BY <5>1, <5>2, <6>1, <6>2
        <5>3. CASE spec[r].control # "SEQUENCE_START"
          <6>1. spec[r].id \in Live
            BY <3>1 DEF IInv, UseInv, PointersValid, Inside, Pre
          <6>2. Built(mem, spec[r].id, pc, spec) /\ mem # <<>>
            BY <4>3, <5>3, <6>1 DEF IInv, SavedBuilt
          <6>3. mem \in Seq(Requests)
            BY <6>2 DEF Built
          <6> QED BY <5>1, <5>3, <6>2, <6>3
        <5> QED BY <5>2, <5>3
      <4> QED BY <4>2, <4>3
    <3>2. CASE Infer(r)
      <4>1. memory' = [memory EXCEPT ![m] = Append(memory[m], r)] /\ pc'[r] = "post" /\ pc[r] = "infer"
        BY <1>0, <2>1, <3>2 DEF Infer, Goto
      <4>2. /\ Built(memory[m], spec[r].id, pc, spec)
            /\ memory[m] = <<>> <=> spec[r].control = "SEQUENCE_START"
        BY <4>1 DEF IInv, RunningBuilt
      <4>3. Built(Append(memory[m], r), spec[r].id, pc, spec) /\ Append(memory[m], r) # <<>>
        BY <4>1, <4>2, BuiltAppend DEF Early
      <4>4. Append(memory[m], r) \in Seq(Requests)
        BY <2>1
      <4> QED BY <4>1, <4>3, <4>4
    <3>3. CASE InferFails(r)
      <4>1. pc'[r] = "unwind"
        BY <1>0, <3>3 DEF InferFails, Goto
      <4>2. \/ memory' = [memory EXCEPT ![m] = memory[m]]
            \/ memory' = [memory EXCEPT ![m] = Append(memory[m], r)]
        BY <1>0, <2>1, <3>3 DEF InferFails
      <4>3. Append(memory[m], r) \in Seq(Requests)
        BY <2>1
      <4> QED BY <2>1, <4>1, <4>2, <4>3
    <3>4. CASE Post(r)
      <4>1. pc'[r] = "release"
        BY <1>0, <3>4 DEF Post, Goto
      <4>2. \/ memory' = [memory EXCEPT ![m] = memory[m]]
            \/ memory' = [memory EXCEPT ![m] = <<>>]
        BY <1>0, <2>1, <3>4 DEF Post
      <4>3. <<>> \in Seq(Requests)
        OBVIOUS
      <4> QED BY <2>1, <4>1, <4>2, <4>3
    <3> QED BY <1>3, <3>1, <3>2, <3>3, <3>4
  <2>5. pc'[r] \in {"infer", "post", "unwind", "release"}
    BY <1>0, <1>3 DEF Pre, Infer, InferFails, Post, Goto
  <2>6. /\ memory' \in [Streams -> Seq(Requests)] /\ memory'[m] = mem
        /\ \A n \in Streams \ {m} : memory'[n] = memory[n]
    BY <1>0, <2>1, <2>4
  <2>7. StreamsOwned'
    BY <1>0, <2>1, <2>3, <2>5, <2>6 DEF IInv, StreamsOwned
  <2>8. \A q \in Requests \ {r} : pc'[q] \in {"infer", "post"} =>
          pc[q] = pc'[q] /\ memory'[stream'[q]] = memory[stream[q]]
    BY <1>0, <2>2, <2>3, <2>6 DEF IInv, StreamsOwned
  <2>9. Built(mem, spec[r].id, pc, spec) => Built(mem, spec'[r].id, pc', spec')
    BY <1>0, BuiltStays DEF IInv
  <2>10. stream'[r] = m
    BY <2>3
  <2>11. RunningBuilt'
    BY <1>0, <2>4, <2>6, <2>8, <2>9, <2>10, RunningKept
  <2> QED BY <2>7, <2>11
<1> QED BY <1>1, <1>2, <1>3

\* The inductive invariant holds before the first request.
LEMMA InitHolds == Init => IInv
<1> SUFFICES ASSUME Init PROVE IInv
  OBVIOUS
<1> USE DEF Init
<1>1. Live = {} /\ SequencesType
  <2>1. Live = {}
    BY DEF Live
  <2>2. sequences \in [{} -> SequenceType]
    <3>1. sequences = [i \in {} |-> i]
      OBVIOUS
    <3> QED BY <3>1
  <2> QED BY <2>1, <2>2, FS_EmptySet DEF SequencesType
<1>2. spec \in [Requests -> [id : Nat, control : Controls]]
  <2>1. spec \in [Requests -> [id : ClientIds \cup {0}, control : Controls]]
    BY AsksAssumption
  <2>2. ClientIds \cup {0} \subseteq Nat
    BY ConstantsAssumption
  <2>3. [id : ClientIds \cup {0}, control : Controls] \subseteq [id : Nat, control : Controls]
    BY <2>2
  <2> QED BY <2>1, <2>3
<1>3. UseInv
  BY <1>1, <1>2 DEF UseInv, Types, Ids, Steps, MutexHeld, PointersValid, Inside, EndsAlone,
       Ending, OnlyEndsRemove, VisitsAlone
<1>4. StreamsOwned
  BY DEF StreamsOwned, Streams, NoStream
<1> QED BY <1>1, <1>3, <1>4 DEF IInv, ScanOfLive, SavedBuilt, RunningBuilt

\* Every step of a request and of the cleaner keeps it.
LEMMA InvStep == ASSUME IInv, [Next]_vars PROVE IInv'
<1>1. CASE UNCHANGED vars
  <2>1. UNCHANGED <<sequences, sequenceIdCounter, managerMutex, pc, spec, stream, memory, scan,
                    toVisit, visiting>>
    BY <1>1 DEF vars
  <2>2. Live' = Live
    BY <2>1 DEF Live
  <2>3. UseInv'
    BY <2>1, <2>2 DEF IInv, UseInv, Types, SequencesType, MutexHeld, PointersValid, Inside,
         Holds, EndsAlone, Ending, OnlyEndsRemove, VisitsAlone
  <2>4. ScanOfLive' /\ StreamsOwned'
    BY <2>1, <2>2 DEF IInv, ScanOfLive, StreamsOwned
  <2>5. SavedBuilt' /\ RunningBuilt'
    BY <2>1, <2>2 DEF IInv, SavedBuilt, RunningBuilt
  <2> QED BY <2>3, <2>4, <2>5 DEF IInv
<1>2. ASSUME NEW r \in Requests, Arrive(r) \/ Refuse(r) \/ SaveFails(r) PROVE IInv'
  <2>1. UseInv' /\ ScanOfLive' /\ SavedBuilt'
    BY <1>2, QuietActions
  <2>2. \E l \in Steps \ {"pre", "infer", "post"} : pc' = [pc EXCEPT ![r] = l]
    BY <1>2 DEF Arrive, Refuse, SaveFails, Goto, Steps
  <2>3. UNCHANGED <<stream, memory>>
    BY <1>2 DEF Arrive, Refuse, SaveFails
  <2>4. StreamsOwned' /\ RunningBuilt'
    BY <2>2, <2>3, MemoryUntouched
  <2> QED BY <2>1, <2>4 DEF IInv
<1>3. ASSUME NEW r \in Requests, GetStream(r) \/ Pre(r) \/ Infer(r) \/ InferFails(r) \/ Unwind(r)
      PROVE  IInv'
  BY <1>3, QuietActions, StreamActions DEF IInv
<1>4. ASSUME NEW r \in Requests, Post(r) PROVE IInv'
  <2> DEFINE s == spec[r].id
             mem == memory[stream[r]]
  <2>1. StreamsOwned' /\ RunningBuilt'
    BY <1>4, StreamActions
  <2>2. Built(mem, s, pc, spec) /\ mem # <<>> /\ pc[r] = "post"
    BY <1>4 DEF IInv, RunningBuilt, Post
  <2>3. UseInv'
    BY <1>4, <2>2, PostStep DEF IInv, Built
  <2>4. s \in Live /\ sequences \in [Live -> SequenceType]
    BY <2>2 DEF IInv, UseInv, PointersValid, Inside, Types, SequencesType
  <2>5. Live' = Live
    BY <1>4 DEF Post, Live
  <2>6. ScanOfLive'
    BY <1>4, <2>5, ScanKept DEF Post
  <2>7. ASSUME NEW i \in Live
        PROVE  sequences'[i].mem = sequences[i].mem \/ (i = s /\ sequences'[i].mem = mem)
    BY <1>4, <2>4 DEF Post, SequenceType
  <2>8. Built(mem, s, pc', spec')
    BY <2>2, BuiltStays DEF IInv
  <2>9. SavedBuilt'
    BY <2>2, <2>5, <2>7, <2>8, BuiltStays DEF IInv, SavedBuilt
  <2> QED BY <2>1, <2>3, <2>6, <2>9 DEF IInv
<1>5. ASSUME NEW r \in Requests,
             LockManager(r) \/ Process(r) \/ LockSequence(r) \/ Release(r) \/ Remove(r) \/ Destroy(r)
      PROVE  IInv'
  <2>1. UseInv'
    BY <1>5, LockManagerStep, ProcessStep, LockSequenceStep, ReleaseStep, RemoveStep, DestroyStep
       DEF IInv
  <2>2. \E l \in Steps \ {"pre", "infer", "post"} : pc' = [pc EXCEPT ![r] = l]
    BY <1>5 DEF LockManager, Process, LockSequence, Release, Remove, Destroy, Goto, Steps
  <2>3. UNCHANGED <<stream, memory, cleanerVars>>
    BY <1>5 DEF LockManager, Process, LockSequence, Release, Remove, Destroy
  <2>4. StreamsOwned' /\ RunningBuilt'
    BY <2>2, <2>3, MemoryUntouched
  <2>5. sequences \in [Live -> SequenceType] /\ SequencesType
    BY DEF IInv, UseInv, Types, SequencesType
  <2>6. CASE Process(r)
    <3>1. scan = "off"
      BY <2>6, ConstantsAssumption DEF IInv, UseInv, MutexHeld, Process, Cleaner
    <3>2. ScanOfLive'
      BY <2>3, <3>1, ScanKept
    <3>3. \A s \in Live' : \/ sequences'[s].mem = Unset
                           \/ s \in Live /\ sequences'[s].mem = sequences[s].mem
      <4>1. CASE CreateUnique(r) \/ CreateWithId(r)
        <5>1. PICK i : sequences' = Put(i, NewSequence)
          BY <4>1 DEF CreateUnique, CreateWithId
        <5>2. Live' = Live \cup {i} /\ \A s \in Live' :
                sequences'[s] = IF s = i THEN NewSequence ELSE sequences[s]
          BY <5>1 DEF Put, Live
        <5>3. NewSequence.mem = Unset
          BY DEF NewSequence
        <5> QED BY <5>2, <5>3
      <4>2. CASE Terminate(r)
        BY <2>5, <4>2 DEF Terminate, Live, SequenceType
      <4>3. CASE UNCHANGED sequences
        BY <4>3 DEF Live
      <4> QED BY <2>6, <4>1, <4>2, <4>3 DEF Process
    <3> QED BY <2>1, <2>4, <3>2, <3>3, SavedKept DEF IInv
  <2>7. CASE Remove(r)
    <3>1. scan = "off"
      BY <2>7, ConstantsAssumption DEF IInv, UseInv, MutexHeld, Remove, Cleaner, Nobody
    <3>2. ScanOfLive'
      BY <2>3, <3>1, ScanKept
    <3>3. \A s \in Live' : s \in Live /\ sequences'[s].mem = sequences[s].mem
      BY <2>5, <2>7, EraseSequence DEF Remove
    <3> QED BY <2>1, <2>4, <3>2, <3>3, SavedKept DEF IInv
  <2>8. CASE LockManager(r) \/ LockSequence(r) \/ Release(r) \/ Destroy(r)
    <3>1. sequences' = sequences \/ (\E o : sequences' = Locked(r, o))
      BY <2>8 DEF LockManager, LockSequence, Release, Destroy
    <3>2. Live' = Live
      BY <3>1 DEF Locked, Live
    <3>3. ScanOfLive'
      BY <2>3, <3>2, ScanKept
    <3>4. \A s \in Live : sequences'[s].mem = sequences[s].mem
      <4>1. ASSUME NEW o, sequences' = Locked(r, o), NEW s \in Live
            PROVE  sequences'[s].mem = sequences[s].mem
        <5>1. sequences' = [sequences EXCEPT ![spec[r].id] = [sequences[spec[r].id] EXCEPT !.lock = o]]
          BY <4>1 DEF Locked
        <5>2. sequences[s] \in SequenceType
          BY <2>5
        <5>3. CASE s = spec[r].id
          <6>1. sequences'[s] = [sequences[s] EXCEPT !.lock = o]
            BY <2>5, <5>1, <5>3
          <6> QED BY <5>2, <6>1 DEF SequenceType
        <5>4. CASE s # spec[r].id
          BY <2>5, <5>1, <5>4
        <5> QED BY <5>3, <5>4
      <4> QED BY <3>1, <4>1
    <3> QED BY <2>1, <2>4, <3>2, <3>3, <3>4, SavedKept DEF IInv
  <2> QED BY <1>5, <2>6, <2>7, <2>8
<1>6. CASE CleanerStep
  <2>1. UNCHANGED <<pc, spec, stream, memory>>
    BY <1>6 DEF CleanerStep, StartScan, TryLock, CheckIdle, EndScan
  <2>2. StreamsOwned'
    BY <2>1 DEF IInv, StreamsOwned
  <2>3. RunningBuilt'
    BY <2>1 DEF IInv, RunningBuilt
  <2>4. sequences \in [Live -> SequenceType] /\ SequencesType
    BY DEF IInv, UseInv, Types, SequencesType
  <2>5. CASE StartScan
    <3>1. scan' = "next" /\ sequences' = sequences /\ Live' = Live /\ toVisit' = Live
      BY <2>5 DEF StartScan, Live
    <3>2. ScanOfLive'
      BY <3>1 DEF ScanOfLive
    <3> QED BY <2>2, <2>3, <2>5, <3>1, <3>2, StartScanStep, SavedKept DEF IInv
  <2>6. ASSUME NEW s \in toVisit, TryLock(s) PROVE IInv'
    <3>1. /\ scan = "next" /\ sequences' = sequences /\ Live' = Live /\ toVisit' = toVisit \ {s}
          /\ scan' = "visit" => visiting' = s
      BY <2>6 DEF TryLock, Live
    <3>2. toVisit \subseteq Live
      BY <3>1 DEF IInv, ScanOfLive
    <3>3. ScanOfLive'
      BY <3>1, <3>2 DEF ScanOfLive
    <3> QED BY <2>2, <2>3, <2>6, <3>1, <3>2, <3>3, TryLockStep, SavedKept DEF IInv
  <2>7. CASE CheckIdle
    <3>1. scan = "visit" /\ scan' = "next" /\ toVisit' = toVisit /\ toVisit \subseteq Live \ {visiting}
      BY <2>7 DEF CheckIdle, IInv, ScanOfLive
    <3>2. CASE sequences' = Erase(visiting)
      <4>1. Live' = Live \ {visiting} /\ \A i \in Live' : i \in Live /\ sequences'[i].mem = sequences[i].mem
        BY <2>4, <3>2, EraseSequence
      <4>2. ScanOfLive'
        BY <3>1, <4>1 DEF ScanOfLive
      <4>3. SavedBuilt'
        BY <4>1, SavedKept
      <4> QED BY <2>2, <2>3, <2>7, <4>2, <4>3, CheckIdleStep DEF IInv
    <3>3. CASE sequences' = [sequences EXCEPT ![visiting].idle = TRUE]
      <4>1. Live' = Live /\ \A i \in Live : sequences'[i].mem = sequences[i].mem
        BY <2>4, <3>3 DEF Live, SequenceType
      <4> QED BY <2>2, <2>3, <2>7, <3>1, <4>1, CheckIdleStep, SavedKept DEF IInv, ScanOfLive
    <3> QED BY <2>7, <3>2, <3>3 DEF CheckIdle
  <2>8. CASE EndScan
    <3>1. scan' = "off" /\ sequences' = sequences /\ Live' = Live
      BY <2>8 DEF EndScan, Live
    <3> QED BY <2>2, <2>3, <2>8, <3>1, EndScanStep, SavedKept DEF IInv, ScanOfLive
  <2> QED BY <1>6, <2>5, <2>6, <2>7, <2>8 DEF CleanerStep
<1> QED BY <1>1, <1>2, <1>3, <1>4, <1>5, <1>6 DEF Next, RequestStep

\* It is an invariant of the specification.
LEMMA InvHolds == Spec => []IInv
BY InitHolds, InvStep, PTL DEF Spec

\* The sequence a request points to is never erased under it and, once locked,
\* is its own, and the cleaner looks at sequences that nobody accesses, for any
\* number of requests, sequences and streams (SequenceManager::
\* removeIdleSequences, StatefulModelInstance and StatefulRequestProcessor).
THEOREM SequencesSafe == Spec => []SequenceNotErasedInUse
<1>1. IInv => SequenceNotErasedInUse
  BY DEF IInv, UseInv, PointersValid, VisitsAlone, SequenceNotErasedInUse, Holds
<1> QED BY <1>1, InvHolds, PTL

\* The memory state of every sequence is built by its own requests alone, from
\* the one that started it, although streams are shared and ids used again, for
\* any number of requests, sequences and streams (preInferenceProcessing and
\* postInferenceProcessing).
THEOREM MemorySeparated == Spec => []MemoryBelongsToSequence
<1>1. IInv => MemoryBelongsToSequence
  BY DEF IInv, SavedBuilt, Built, MemoryBelongsToSequence
<1> QED BY <1>1, InvHolds, PTL

=============================================================================
