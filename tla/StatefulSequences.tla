-------------------------- MODULE StatefulSequences --------------------------
(***************************************************************************)
(* Inference on a stateful model version: SequenceManager and Sequence,    *)
(* the StatefulRequestProcessor that ModelInstance::infer drives, the idle *)
(* sequence cleaner and the pool of infer requests (the StreamPool that    *)
(* InferRequestsQueue implements; here a waiting request is always given a *)
(* stream that is free).                                                   *)
(*                                                                         *)
(* Locks: the manager's mutex guards the map of sequences, each sequence   *)
(* has a mutex of its own.  prepare() keeps the manager's mutex while it   *)
(* waits for the sequence's; release() takes it again to remove a sequence *)
(* that ended, while the request still owns its stream.                    *)
(***************************************************************************)
EXTENDS Integers, Sequences, FiniteSetsExt

CONSTANTS Requests,            \* predict requests
          ClientIds,           \* the sequence ids that clients choose
          Asks,                \* what the requests may ask for: functions
                               \* from Requests to SequenceProcessingSpecs
          maxSequenceNumber,   \* max_sequence_number of the model
          nireq                \* number of streams

ASSUME ConstantsAssumption ==
  /\ "cleaner" \notin Requests /\ "none" \notin Requests
  /\ ClientIds \subseteq Nat \ {0}
  /\ maxSequenceNumber \in Nat \ {0} /\ nireq \in Nat \ {0}

Controls == {"SEQUENCE_START", "NO_CONTROL_INPUT", "SEQUENCE_END"}

\* Only SEQUENCE_START may come without an id.
ASSUME AsksAssumption ==
  /\ Asks \subseteq [Requests -> [id : ClientIds \cup {0}, control : Controls]]
  /\ \A ask \in Asks : \A r \in Requests :
       ask[r].id = 0 => ask[r].control = "SEQUENCE_START"

Ids == Nat \ {0}             \* 0 in a request asks for an id
Streams == 1 .. nireq
Nobody == "none"
Cleaner == "cleaner"
NoStream == 0
Unset == <<"unset">>           \* no memory state has been saved yet

VARIABLES
  sequences,          \* id -> [terminated, idle, mem, lock] of the live sequences
  sequenceIdCounter,  \* where the search for an unused id starts
  managerMutex,       \* owner of the sequence manager's mutex
  pc,                 \* where each request is
  spec,               \* its SequenceProcessingSpec
  stream,             \* the stream it owns, or NoStream
  memory,             \* the memory state inside each infer request
  scan,               \* the cleaner: "off", "next" or "visit"
  toVisit,            \* the sequences it has not visited in this scan
  visiting            \* the sequence whose mutex it got and released, or 0

vars == <<sequences, sequenceIdCounter, managerMutex, pc, spec, stream,
          memory, scan, toVisit, visiting>>

cleanerVars == <<scan, toVisit, visiting>>

Live == DOMAIN sequences

Init ==
  /\ sequences = <<>>
  /\ sequenceIdCounter = 1
  /\ managerMutex = Nobody
  /\ pc = [r \in Requests |-> "new"]
  /\ spec \in Asks
  /\ stream = [r \in Requests |-> NoStream]
  /\ memory = [s \in Streams |-> <<>>]
  /\ scan = "off"
  /\ toVisit = {}
  /\ visiting = 0

Goto(r, l) == pc' = [pc EXCEPT ![r] = l]

Put(s, q) == [i \in Live \cup {s} |-> IF i = s THEN q ELSE sequences[i]]

Erase(s) == [i \in Live \ {s} |-> sequences[i]]

NewSequence == [terminated |-> FALSE, idle |-> FALSE, mem |-> Unset,
                lock |-> Nobody]

-----------------------------------------------------------------------------
(* A request: extractRequestParameters, prepare, ..., release.             *)

\* A request arrives.
Arrive(r) ==
  /\ pc[r] = "new"
  /\ Goto(r, "prepare")
  /\ UNCHANGED <<sequences, sequenceIdCounter, managerMutex, spec, stream, memory,
                 cleanerVars>>

LockManager(r) ==
  /\ pc[r] = "prepare"
  /\ managerMutex = Nobody
  /\ managerMutex' = r
  /\ Goto(r, "process")
  /\ UNCHANGED <<sequences, sequenceIdCounter, spec, stream, memory,
                 cleanerVars>>

\* The smallest unused id from the counter on: getUniqueSequenceId.  There are
\* fewer than maxSequenceNumber sequences when it is called.
UniqueId == Min({i \in sequenceIdCounter .. sequenceIdCounter + maxSequenceNumber :
                   i \notin Live})

HasSequence(i) == i \in Live /\ ~sequences[i].terminated

\* createSequence without an id.
CreateUnique(r) ==
  /\ Cardinality(Live) < maxSequenceNumber
  /\ spec[r].id = 0
  /\ sequenceIdCounter' = UniqueId
  /\ sequences' = Put(UniqueId, NewSequence)
  /\ spec' = [spec EXCEPT ![r].id = UniqueId]

\* createSequence with an id that is not in use.
CreateWithId(r) ==
  /\ Cardinality(Live) < maxSequenceNumber
  /\ spec[r].id # 0
  /\ spec[r].id \notin Live
  /\ sequences' = Put(spec[r].id, NewSequence)
  /\ UNCHANGED <<sequenceIdCounter, spec>>

\* terminateSequence.
Terminate(r) ==
  /\ HasSequence(spec[r].id)
  /\ sequences' = [sequences EXCEPT ![spec[r].id].terminated = TRUE]
  /\ UNCHANGED <<sequenceIdCounter, spec>>

\* processRequestedSpec finds or creates the sequence of the request.
Process(r) ==
  /\ pc[r] = "process"
  /\ \/ /\ spec[r].control = "SEQUENCE_START"
        /\ CreateUnique(r) \/ CreateWithId(r)
     \/ /\ spec[r].control = "NO_CONTROL_INPUT"
        /\ HasSequence(spec[r].id)
        /\ UNCHANGED <<sequences, sequenceIdCounter, spec>>
     \/ /\ spec[r].control = "SEQUENCE_END"
        /\ Terminate(r)
  /\ Goto(r, "lockSequence")
  /\ UNCHANGED <<managerMutex, stream, memory, cleanerVars>>

\* It refuses: MAX_SEQUENCE_NUMBER_REACHED, SEQUENCE_TERMINATED,
\* SEQUENCE_ALREADY_EXISTS or SEQUENCE_MISSING.
Refuse(r) ==
  /\ pc[r] = "process"
  /\ IF spec[r].control = "SEQUENCE_START"
       THEN \/ Cardinality(Live) >= maxSequenceNumber
            \/ spec[r].id \in Live
       ELSE ~HasSequence(spec[r].id)
  /\ Goto(r, "destroy")
  /\ UNCHANGED <<sequences, sequenceIdCounter, managerMutex, spec, stream,
                 memory, cleanerVars>>

Locked(r, o) == [sequences EXCEPT ![spec[r].id].lock = o]

\* Mutant: the manager's mutex is not unlocked.
LockSequenceOnly(r) ==
  /\ pc[r] = "lockSequence"
  /\ sequences[spec[r].id].lock = Nobody
  /\ sequences' = Locked(r, r)
  /\ Goto(r, "getStream")
  /\ UNCHANGED <<sequenceIdCounter, managerMutex, spec, stream, memory,
                 cleanerVars>>

\* The sequence's mutex is locked and only then the manager's unlocked.
LockSequence(r) ==
  /\ pc[r] = "lockSequence"
  /\ sequences[spec[r].id].lock = Nobody
  /\ sequences' = Locked(r, r)
  /\ managerMutex' = Nobody
  /\ Goto(r, "getStream")
  /\ UNCHANGED <<sequenceIdCounter, spec, stream, memory, cleanerVars>>

\* ExecutingStreamIdGuard: wait for an idle stream.
GetStream(r) ==
  /\ pc[r] = "getStream"
  /\ \E s \in Streams :
       /\ \A q \in Requests : stream[q] # s
       /\ stream' = [stream EXCEPT ![r] = s]
  /\ Goto(r, "pre")
  /\ UNCHANGED <<sequences, sequenceIdCounter, managerMutex, spec, memory,
                 cleanerVars>>

\* Mutant: the infer request is not reset on SEQUENCE_START.
PreWithoutReset(r) ==
  /\ pc[r] = "pre"
  /\ LET mem == IF spec[r].control = "SEQUENCE_START"
                  THEN memory[stream[r]] ELSE sequences[spec[r].id].mem
     IN IF mem = Unset
          THEN Goto(r, "unwind") /\ UNCHANGED memory
          ELSE Goto(r, "infer") /\ memory' = [memory EXCEPT ![stream[r]] = mem]
  /\ UNCHANGED <<sequences, sequenceIdCounter, managerMutex, spec, stream,
                 cleanerVars>>

\* preInferenceProcessing: the infer request gets the sequence's memory state,
\* a fresh one on SEQUENCE_START.  INTERNAL_ERROR if none was ever saved.
Pre(r) ==
  /\ pc[r] = "pre"
  /\ LET fresh == spec[r].control = "SEQUENCE_START"
         mem == IF fresh THEN <<>> ELSE sequences[spec[r].id].mem
     IN IF mem = Unset
          THEN Goto(r, "unwind") /\ UNCHANGED memory
          ELSE Goto(r, "infer") /\ memory' = [memory EXCEPT ![stream[r]] = mem]
  /\ UNCHANGED <<sequences, sequenceIdCounter, managerMutex, spec, stream,
                 cleanerVars>>

\* Deserialization, inference and serialization: the memory state of the infer
\* request moves on with the request ...
Infer(r) ==
  /\ pc[r] = "infer"
  /\ memory' = [memory EXCEPT ![stream[r]] = Append(@, r)]
  /\ Goto(r, "post")
  /\ UNCHANGED <<sequences, sequenceIdCounter, managerMutex, spec, stream,
                 cleanerVars>>

\* ... or one of them fails (before or after the inference) and infer returns.
InferFails(r) ==
  /\ pc[r] = "infer"
  /\ memory' \in {memory, [memory EXCEPT ![stream[r]] = Append(@, r)]}
  /\ Goto(r, "unwind")
  /\ UNCHANGED <<sequences, sequenceIdCounter, managerMutex, spec, stream,
                 cleanerVars>>

\* postInferenceProcessing: the state is saved in the sequence, which is not
\* idle then, or reset on SEQUENCE_END.
Post(r) ==
  /\ pc[r] = "post"
  /\ IF spec[r].control = "SEQUENCE_END"
       THEN /\ memory' = [memory EXCEPT ![stream[r]] = <<>>]
            /\ UNCHANGED sequences
       ELSE /\ sequences' = [sequences EXCEPT ![spec[r].id].mem = memory[stream[r]],
                                              ![spec[r].id].idle = FALSE]
            /\ UNCHANGED memory
  /\ Goto(r, "release")
  /\ UNCHANGED <<sequenceIdCounter, managerMutex, spec, stream, cleanerVars>>

\* updateMemoryState fails to clone a state: its status is ignored, the sequence
\* keeps the older state and is not touched otherwise.
SaveFails(r) ==
  /\ pc[r] = "post"
  /\ spec[r].control # "SEQUENCE_END"
  /\ Goto(r, "release")
  /\ UNCHANGED <<sequences, sequenceIdCounter, managerMutex, spec, stream,
                 memory, cleanerVars>>

\* release: the sequence is unlocked; only SEQUENCE_END goes on.
Release(r) ==
  /\ pc[r] = "release"
  /\ sequences' = Locked(r, Nobody)
  /\ Goto(r, IF spec[r].control = "SEQUENCE_END" THEN "remove" ELSE "unwind")
  /\ UNCHANGED <<sequenceIdCounter, managerMutex, spec, stream, memory,
                 cleanerVars>>

\* The manager's mutex is locked again and the sequence removed.
Remove(r) ==
  /\ pc[r] = "remove"
  /\ managerMutex = Nobody
  /\ managerMutex' = r
  /\ sequences' = Erase(spec[r].id)
  /\ Goto(r, "unwind")
  /\ UNCHANGED <<sequenceIdCounter, spec, stream, memory, cleanerVars>>

\* infer returns.  The stream guard is destroyed first ...
Unwind(r) ==
  /\ pc[r] = "unwind"
  /\ stream' = [stream EXCEPT ![r] = NoStream]
  /\ Goto(r, "destroy")
  /\ UNCHANGED <<sequences, sequenceIdCounter, managerMutex, spec, memory,
                 cleanerVars>>

HoldsSequence(r) == spec[r].id \in Live /\ sequences[spec[r].id].lock = r

\* ... then the request processor with the locks it still owns.
Destroy(r) ==
  /\ pc[r] = "destroy"
  /\ sequences' = IF HoldsSequence(r) THEN Locked(r, Nobody) ELSE sequences
  /\ managerMutex' = IF managerMutex = r THEN Nobody ELSE managerMutex
  /\ Goto(r, "done")
  /\ UNCHANGED <<sequenceIdCounter, spec, stream, memory, cleanerVars>>

-----------------------------------------------------------------------------
(* The cleaner: removeIdleSequences, under the manager's mutex.            *)

StartScan ==
  /\ scan = "off"
  /\ managerMutex = Nobody
  /\ managerMutex' = Cleaner
  /\ scan' = "next"
  /\ toVisit' = Live
  /\ UNCHANGED <<sequences, sequenceIdCounter, pc, spec, stream, memory,
                 visiting>>

\* Mutant: the result of try_lock is not looked at.
TryLockIgnored(s) ==
  /\ scan = "next"
  /\ s \in toVisit
  /\ toVisit' = toVisit \ {s}
  /\ IF ~sequences[s].terminated
       THEN scan' = "visit" /\ visiting' = s
       ELSE UNCHANGED <<scan, visiting>>
  /\ UNCHANGED <<sequences, sequenceIdCounter, managerMutex, pc, spec, stream,
                 memory>>

\* try_lock: a sequence in use or terminated is passed over; otherwise its
\* mutex is locked and at once unlocked.
TryLock(s) ==
  /\ scan = "next"
  /\ s \in toVisit
  /\ toVisit' = toVisit \ {s}
  /\ IF ~sequences[s].terminated /\ sequences[s].lock = Nobody
       THEN scan' = "visit" /\ visiting' = s
       ELSE UNCHANGED <<scan, visiting>>
  /\ UNCHANGED <<sequences, sequenceIdCounter, managerMutex, pc, spec, stream,
                 memory>>

\* Mutant: the sequence is not marked idle.
CheckIdleUnmarked ==
  /\ scan = "visit"
  /\ sequences' = IF sequences[visiting].idle THEN Erase(visiting) ELSE sequences
  /\ scan' = "next"
  /\ visiting' = 0
  /\ UNCHANGED <<sequenceIdCounter, managerMutex, pc, spec, stream, memory,
                 toVisit>>

\* A sequence that is still idle since the last scan is erased, the others are
\* marked idle.
CheckIdle ==
  /\ scan = "visit"
  /\ sequences' = IF sequences[visiting].idle
                    THEN Erase(visiting)
                    ELSE [sequences EXCEPT ![visiting].idle = TRUE]
  /\ scan' = "next"
  /\ visiting' = 0
  /\ UNCHANGED <<sequenceIdCounter, managerMutex, pc, spec, stream, memory,
                 toVisit>>

EndScan ==
  /\ scan = "next"
  /\ toVisit = {}
  /\ managerMutex' = Nobody
  /\ scan' = "off"
  /\ UNCHANGED <<sequences, sequenceIdCounter, pc, spec, stream, memory,
                 toVisit, visiting>>

-----------------------------------------------------------------------------

RequestStep(r) ==
  \/ LockManager(r) \/ Process(r) \/ Refuse(r) \/ LockSequence(r)
  \/ GetStream(r) \/ Pre(r) \/ Infer(r) \/ InferFails(r) \/ Post(r)
  \/ SaveFails(r) \/ Release(r) \/ Remove(r) \/ Unwind(r) \/ Destroy(r)

CleanerStep == \/ StartScan \/ \E s \in toVisit : TryLock(s)
               \/ CheckIdle \/ EndScan

Next == \/ \E r \in Requests : Arrive(r) \/ RequestStep(r)
        \/ CleanerStep

Spec == Init /\ [][Next]_vars

\* Every request thread keeps running and gets a mutex or a stream that becomes
\* free again and again; so does the cleaner thread, which keeps scanning.
Fairness == /\ \A r \in Requests : SF_vars(RequestStep(r))
            /\ SF_vars(CleanerStep)

FairSpec == Spec /\ Fairness

-----------------------------------------------------------------------------
(* Properties.                                                             *)

\* The requests that have a pointer to their sequence (prepare ... release).
Inside(r) == pc[r] \in {"lockSequence", "getStream", "pre", "infer", "post",
                        "release"}

\* The Sequence a request points to is never erased under it, neither by the
\* cleaner nor by a request that ends the sequence, and once locked it is the
\* request's alone; while the cleaner looks at a sequence whose mutex it has
\* released, nobody accesses it (sequence_manager.cpp:64).
SequenceNotErasedInUse ==
  /\ \A r \in Requests : Inside(r) =>
       /\ spec[r].id \in Live
       /\ pc[r] # "lockSequence" => sequences[spec[r].id].lock = r
  /\ scan = "visit" =>
       visiting \in Live /\ \A r \in Requests : Inside(r) => spec[r].id # visiting

\* The memory state of a sequence is built by its own requests alone: it starts
\* with the SEQUENCE_START that created this sequence and goes on with requests
\* of the same id, although infer requests are shared between sequences and
\* keep the state of the last one, and ids are reused.
MemoryBelongsToSequence ==
  \A s \in Live : sequences[s].mem # Unset =>
    LET mem == sequences[s].mem
    IN \A k \in 1 .. Len(mem) :
         /\ spec[mem[k]].id = s
         /\ spec[mem[k]].control = "SEQUENCE_START" <=> k = 1

\* A sequence that nobody ends is not kept forever: the scans remove it
\* (stateful_models.md:291), however requests and scans interleave.
AbandonedSequencesGo ==
  \A s \in ClientIds : s \in Live ~> (s \notin Live \/ sequences[s].terminated)

\* Every request is answered, whatever the other requests to the same sequence
\* do, when there is a stream for each of them.
RequestsAnswered == \A r \in Requests : pc[r] = "prepare" ~> pc[r] = "done"

\* Requests never wait for one another in a circle: while one is unanswered,
\* some thread can go on.  (Concurrent requests to one sequence may lose
\* accuracy, stateful_models.md:311, but are to be answered.)
NoCircularWait ==
  (\E r \in Requests : pc[r] \notin {"new", "done"}) =>
     ENABLED ((\E r \in Requests : RequestStep(r)) \/ CleanerStep)

=============================================================================
