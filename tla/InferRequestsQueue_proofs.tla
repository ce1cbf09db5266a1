---------------------- MODULE InferRequestsQueue_proofs ----------------------
(***************************************************************************)
(* Proofs about the infer request queue, for every number of clients and   *)
(* of streams.                                                             *)
(***************************************************************************)
EXTENDS InferRequestsQueue, FiniteSetTheorems, TLAPS

\* Who holds a mutex is where in the code the thread is.
Locks ==
  \A c \in Clients : /\ front_mut = c <=> pc[c] \in {"check", "take", "push"}
                     /\ queue_mutex = c <=> pc[c] \in {"return", "write"}

\* A thread has an id in its hands exactly between obtaining and returning it.
Hands ==
  \A c \in Clients :
    id[c] \in Ids <=> pc[c] \in {"exec", "return", "write", "fulfil"}

\* The second read of streams[front_idx] in getIdleStream sees an id too.
FrontStable == \A c \in Clients : pc[c] = "take" => streams[front_idx] \in Ids

\* The slots between front_idx and back_idx hold ids, but for the one slot that
\* a returning thread has claimed and not yet written.
InRing(s) == \/ streams[s] \in Ids
             \/ \E c \in Clients : pc[c] = "write" /\ slot[c] = s

Contiguous ==
  /\ front_idx < back_idx =>
       \A s \in Ids : InRing(s) <=> front_idx <= s /\ s < back_idx
  /\ back_idx < front_idx =>
       \A s \in Ids : InRing(s) <=> front_idx <= s \/ s < back_idx
  /\ front_idx = back_idx =>
       (\A s \in Ids : InRing(s)) \/ (\A s \in Ids : ~InRing(s))

\* The slot claimed by a returning thread is consumed.
ClaimedSlotFree ==
  \A c \in Clients : pc[c] = "write" => streams[slot[c]] = Consumed

\* A waiting client has one promise: queued, popped by one returning thread, or
\* fulfilled.
Queued(c) == \E i \in 1 .. Len(promises) : promises[i] = c

Distinct == \A i, j \in 1 .. Len(promises) : promises[i] = promises[j] => i = j

Waiting ==
  /\ \A c \in Clients : Queued(c) => pc[c] = "wait" /\ future[c] = Consumed
  /\ \A c \in Clients : pc[c] = "fulfil" =>
       /\ pc[target[c]] = "wait"
       /\ future[target[c]] = Consumed
       /\ ~Queued(target[c])
       /\ \A d \in Clients : pc[d] = "fulfil" /\ target[d] = target[c] => d = c
  /\ \A c \in Clients : future[c] \in Ids => pc[c] = "wait"

IInv ==
  /\ TypeOK /\ Locks /\ Hands /\ FrontStable /\ Contiguous
  /\ ClaimedSlotFree /\ Distinct /\ Waiting /\ NoStreamShared /\ NoStreamLost

-----------------------------------------------------------------------------
\* The mark of a consumed ring element is not the id of an infer request.
LEMMA ConsumedNoId == Consumed \notin Ids
BY DEF Consumed, Ids

\* The sign test of getIdleStream (streams[front_idx] < 0) tells ids and the
\* mark of a consumed element apart.
LEMMA Sign ==
  \A x \in Ids \cup {Consumed} : (x >= 0 <=> x \in Ids) /\ (x < 0 <=> x = Consumed)
BY nireqAssumption DEF Consumed, Ids

\* (i + 1) % nireq stays in the ring and wraps at its end.
LEMMA SuccDef ==
  \A i \in Ids : Succ(i) \in Ids /\ Succ(i) = IF i + 1 = nireq THEN 0 ELSE i + 1
BY nireqAssumption DEF Ids, Succ

\* The ring of nireq > 0 streams has a slot 0.
LEMMA ZeroId == 0 \in Ids
BY nireqAssumption DEF Ids

\* A queue just constructed satisfies the inductive invariant.
LEMMA InitIInv == Init => IInv
<1> SUFFICES ASSUME Init PROVE IInv
  OBVIOUS
<1>1. TypeOK /\ Locks /\ Hands /\ FrontStable /\ ClaimedSlotFree /\ Distinct /\ Waiting
  BY ZeroId, ConsumedNoId, ClientsAssumption
  DEF Init, TypeOK, Locks, Hands, FrontStable, ClaimedSlotFree, Distinct,
      Waiting, Queued, PCs, Nobody
<1>2. NoStreamShared /\ NoStreamLost
  BY ConsumedNoId DEF Init, NoStreamShared, NoStreamLost
<1>3. Contiguous
  BY DEF Init, Contiguous, InRing
<1> QED BY <1>1, <1>2, <1>3 DEF IInv

\* Every step keeps indices, ids, locks and locals in their ranges.
LEMMA TypeStep ==
  ASSUME IInv, Next PROVE TypeOK'
<1> PICK c \in Clients : LockFront(c) \/ GetStep(c) \/ ReturnStep(c)
  BY DEF Next
<1>1. CASE LockFront(c)
  BY <1>1, ConsumedNoId, ClientsAssumption, SuccDef, ZeroId DEF IInv, LockFront, Goto, TypeOK, PCs, Nobody, Hands
<1>2. CASE FrontIdle(c)
  BY <1>2, ConsumedNoId, ClientsAssumption, SuccDef, ZeroId DEF IInv, FrontIdle, Goto, TypeOK, PCs, Nobody, Hands
<1>3. CASE FrontConsumed(c)
  BY <1>3, ConsumedNoId, ClientsAssumption, SuccDef, ZeroId DEF IInv, FrontConsumed, Goto, TypeOK, PCs, Nobody, Hands
<1>4. CASE GiveUp(c)
  BY <1>4, ConsumedNoId, ClientsAssumption, SuccDef, ZeroId DEF IInv, GiveUp, Goto, TypeOK, PCs, Nobody, Hands
<1>5. CASE TakeFront(c)
  BY <1>5, ConsumedNoId, ClientsAssumption, SuccDef, ZeroId DEF IInv, TakeFront, Goto, TypeOK, PCs, Nobody, Hands
<1>6. CASE PushPromise(c)
  BY <1>6, ConsumedNoId, ClientsAssumption, SuccDef, ZeroId DEF IInv, PushPromise, Goto, TypeOK, PCs, Nobody, Hands
<1>7. CASE Obtain(c)
  BY <1>7, ConsumedNoId, ClientsAssumption, SuccDef, ZeroId DEF IInv, Obtain, Goto, TypeOK, PCs, Nobody, Hands
<1>8. CASE LockQueue(c)
  BY <1>8, ConsumedNoId, ClientsAssumption, SuccDef, ZeroId DEF IInv, LockQueue, Goto, TypeOK, PCs, Nobody, Hands
<1>9. CASE PopPromise(c)
  BY <1>9, ConsumedNoId, ClientsAssumption, SuccDef, ZeroId DEF IInv, PopPromise, Goto, TypeOK, PCs, Nobody, Hands
<1>10. CASE Fulfil(c)
  BY <1>10, ConsumedNoId, ClientsAssumption, SuccDef, ZeroId DEF IInv, Fulfil, Goto, TypeOK, PCs, Nobody, Hands
<1>11. CASE BumpBack(c)
  BY <1>11, ConsumedNoId, ClientsAssumption, SuccDef, ZeroId DEF IInv, BumpBack, Goto, TypeOK, PCs, Nobody, Hands
<1>12. CASE WriteBack(c)
  BY <1>12, ConsumedNoId, ClientsAssumption, SuccDef, ZeroId DEF IInv, WriteBack, Goto, TypeOK, PCs, Nobody, Hands
<1> QED BY <1>1, <1>2, <1>3, <1>4, <1>5, <1>6, <1>7, <1>8, <1>9, <1>10, <1>11, <1>12 DEF GetStep, ReturnStep

\* Every step keeps front_mut and queue_mutex with the threads whose place in
\* the code says that they hold them.
LEMMA LocksStep ==
  ASSUME IInv, Next PROVE Locks'
<1> PICK c \in Clients : LockFront(c) \/ GetStep(c) \/ ReturnStep(c)
  BY DEF Next
<1>1. CASE LockFront(c)
  BY <1>1, ConsumedNoId, ClientsAssumption DEF IInv, LockFront, Goto, TypeOK, Locks, Nobody
<1>2. CASE FrontIdle(c)
  BY <1>2, ConsumedNoId, ClientsAssumption DEF IInv, FrontIdle, Goto, TypeOK, Locks, Nobody
<1>3. CASE FrontConsumed(c)
  BY <1>3, ConsumedNoId, ClientsAssumption DEF IInv, FrontConsumed, Goto, TypeOK, Locks, Nobody
<1>4. CASE GiveUp(c)
  BY <1>4, ConsumedNoId, ClientsAssumption DEF IInv, GiveUp, Goto, TypeOK, Locks, Nobody
<1>5. CASE TakeFront(c)
  BY <1>5, ConsumedNoId, ClientsAssumption DEF IInv, TakeFront, Goto, TypeOK, Locks, Nobody
<1>6. CASE PushPromise(c)
  BY <1>6, ConsumedNoId, ClientsAssumption DEF IInv, PushPromise, Goto, TypeOK, Locks, Nobody
<1>7. CASE Obtain(c)
  BY <1>7, ConsumedNoId, ClientsAssumption DEF IInv, Obtain, Goto, TypeOK, Locks, Nobody
<1>8. CASE LockQueue(c)
  BY <1>8, ConsumedNoId, ClientsAssumption DEF IInv, LockQueue, Goto, TypeOK, Locks, Nobody
<1>9. CASE PopPromise(c)
  BY <1>9, ConsumedNoId, ClientsAssumption DEF IInv, PopPromise, Goto, TypeOK, Locks, Nobody
<1>10. CASE Fulfil(c)
  BY <1>10, ConsumedNoId, ClientsAssumption DEF IInv, Fulfil, Goto, TypeOK, Locks, Nobody
<1>11. CASE BumpBack(c)
  BY <1>11, ConsumedNoId, ClientsAssumption DEF IInv, BumpBack, Goto, TypeOK, Locks, Nobody
<1>12. CASE WriteBack(c)
  BY <1>12, ConsumedNoId, ClientsAssumption DEF IInv, WriteBack, Goto, TypeOK, Locks, Nobody
<1> QED BY <1>1, <1>2, <1>3, <1>4, <1>5, <1>6, <1>7, <1>8, <1>9, <1>10, <1>11, <1>12 DEF GetStep, ReturnStep

\* Every step keeps ids in the hands of exactly the threads that obtained one
\* and have not returned it.
LEMMA HandsStep ==
  ASSUME IInv, Next PROVE Hands'
<1> PICK c \in Clients : LockFront(c) \/ GetStep(c) \/ ReturnStep(c)
  BY DEF Next
<1>1. CASE LockFront(c)
  BY <1>1, ConsumedNoId, ClientsAssumption DEF IInv, LockFront, Goto, TypeOK, Hands, FrontStable, Waiting
<1>2. CASE FrontIdle(c)
  BY <1>2, ConsumedNoId, ClientsAssumption DEF IInv, FrontIdle, Goto, TypeOK, Hands, FrontStable, Waiting
<1>3. CASE FrontConsumed(c)
  BY <1>3, ConsumedNoId, ClientsAssumption DEF IInv, FrontConsumed, Goto, TypeOK, Hands, FrontStable, Waiting
<1>4. CASE GiveUp(c)
  BY <1>4, ConsumedNoId, ClientsAssumption DEF IInv, GiveUp, Goto, TypeOK, Hands, FrontStable, Waiting
<1>5. CASE TakeFront(c)
  BY <1>5, ConsumedNoId, ClientsAssumption DEF IInv, TakeFront, Goto, TypeOK, Hands, FrontStable, Waiting
<1>6. CASE PushPromise(c)
  BY <1>6, ConsumedNoId, ClientsAssumption DEF IInv, PushPromise, Goto, TypeOK, Hands, FrontStable, Waiting
<1>7. CASE Obtain(c)
  BY <1>7, ConsumedNoId, ClientsAssumption DEF IInv, Obtain, Goto, TypeOK, Hands, FrontStable, Waiting
<1>8. CASE LockQueue(c)
  BY <1>8, ConsumedNoId, ClientsAssumption DEF IInv, LockQueue, Goto, TypeOK, Hands, FrontStable, Waiting
<1>9. CASE PopPromise(c)
  BY <1>9, ConsumedNoId, ClientsAssumption DEF IInv, PopPromise, Goto, TypeOK, Hands, FrontStable, Waiting
<1>10. CASE Fulfil(c)
  BY <1>10, ConsumedNoId, ClientsAssumption DEF IInv, Fulfil, Goto, TypeOK, Hands, FrontStable, Waiting
<1>11. CASE BumpBack(c)
  BY <1>11, ConsumedNoId, ClientsAssumption DEF IInv, BumpBack, Goto, TypeOK, Hands, FrontStable, Waiting
<1>12. CASE WriteBack(c)
  BY <1>12, ConsumedNoId, ClientsAssumption DEF IInv, WriteBack, Goto, TypeOK, Hands, FrontStable, Waiting
<1> QED BY <1>1, <1>2, <1>3, <1>4, <1>5, <1>6, <1>7, <1>8, <1>9, <1>10, <1>11, <1>12 DEF GetStep, ReturnStep

\* Every step keeps an id in the front slot between the two reads of it.
LEMMA FrontStep ==
  ASSUME IInv, Next PROVE FrontStable'
<1> PICK c \in Clients : LockFront(c) \/ GetStep(c) \/ ReturnStep(c)
  BY DEF Next
<1>1. CASE LockFront(c)
  BY <1>1, ConsumedNoId, ClientsAssumption, Sign DEF IInv, LockFront, Goto, TypeOK, FrontStable, Locks, Hands
<1>2. CASE FrontIdle(c)
  BY <1>2, ConsumedNoId, ClientsAssumption, Sign DEF IInv, FrontIdle, Goto, TypeOK, FrontStable, Locks, Hands
<1>3. CASE FrontConsumed(c)
  BY <1>3, ConsumedNoId, ClientsAssumption, Sign DEF IInv, FrontConsumed, Goto, TypeOK, FrontStable, Locks, Hands
<1>4. CASE GiveUp(c)
  BY <1>4, ConsumedNoId, ClientsAssumption, Sign DEF IInv, GiveUp, Goto, TypeOK, FrontStable, Locks, Hands
<1>5. CASE TakeFront(c)
  BY <1>5, ConsumedNoId, ClientsAssumption, Sign DEF IInv, TakeFront, Goto, TypeOK, FrontStable, Locks, Hands
<1>6. CASE PushPromise(c)
  BY <1>6, ConsumedNoId, ClientsAssumption, Sign DEF IInv, PushPromise, Goto, TypeOK, FrontStable, Locks, Hands
<1>7. CASE Obtain(c)
  BY <1>7, ConsumedNoId, ClientsAssumption, Sign DEF IInv, Obtain, Goto, TypeOK, FrontStable, Locks, Hands
<1>8. CASE LockQueue(c)
  BY <1>8, ConsumedNoId, ClientsAssumption, Sign DEF IInv, LockQueue, Goto, TypeOK, FrontStable, Locks, Hands
<1>9. CASE PopPromise(c)
  BY <1>9, ConsumedNoId, ClientsAssumption, Sign DEF IInv, PopPromise, Goto, TypeOK, FrontStable, Locks, Hands
<1>10. CASE Fulfil(c)
  BY <1>10, ConsumedNoId, ClientsAssumption, Sign DEF IInv, Fulfil, Goto, TypeOK, FrontStable, Locks, Hands
<1>11. CASE BumpBack(c)
  BY <1>11, ConsumedNoId, ClientsAssumption, Sign DEF IInv, BumpBack, Goto, TypeOK, FrontStable, Locks, Hands
<1>12. CASE WriteBack(c)
  BY <1>12, ConsumedNoId, ClientsAssumption, Sign DEF IInv, WriteBack, Goto, TypeOK, FrontStable, Locks, Hands
<1> QED BY <1>1, <1>2, <1>3, <1>4, <1>5, <1>6, <1>7, <1>8, <1>9, <1>10, <1>11, <1>12 DEF GetStep, ReturnStep

\* No step of any thread puts an id in two places.
LEMMA SharedStep ==
  ASSUME IInv, Next PROVE NoStreamShared'
<1> PICK c \in Clients : LockFront(c) \/ GetStep(c) \/ ReturnStep(c)
  BY DEF Next
<1>1. CASE LockFront(c)
  BY <1>1, ConsumedNoId, ClientsAssumption DEF IInv, LockFront, Goto, TypeOK, NoStreamShared, Hands, Waiting, FrontStable, ClaimedSlotFree
<1>2. CASE FrontIdle(c)
  BY <1>2, ConsumedNoId, ClientsAssumption DEF IInv, FrontIdle, Goto, TypeOK, NoStreamShared, Hands, Waiting, FrontStable, ClaimedSlotFree
<1>3. CASE FrontConsumed(c)
  BY <1>3, ConsumedNoId, ClientsAssumption DEF IInv, FrontConsumed, Goto, TypeOK, NoStreamShared, Hands, Waiting, FrontStable, ClaimedSlotFree
<1>4. CASE GiveUp(c)
  BY <1>4, ConsumedNoId, ClientsAssumption DEF IInv, GiveUp, Goto, TypeOK, NoStreamShared, Hands, Waiting, FrontStable, ClaimedSlotFree
<1>5. CASE TakeFront(c)
  BY <1>5, ConsumedNoId, ClientsAssumption DEF IInv, TakeFront, Goto, TypeOK, NoStreamShared, Hands, Waiting, FrontStable, ClaimedSlotFree
<1>6. CASE PushPromise(c)
  BY <1>6, ConsumedNoId, ClientsAssumption DEF IInv, PushPromise, Goto, TypeOK, NoStreamShared, Hands, Waiting, FrontStable, ClaimedSlotFree
<1>7. CASE Obtain(c)
  BY <1>7, ConsumedNoId, ClientsAssumption DEF IInv, Obtain, Goto, TypeOK, NoStreamShared, Hands, Waiting, FrontStable, ClaimedSlotFree
<1>8. CASE LockQueue(c)
  BY <1>8, ConsumedNoId, ClientsAssumption DEF IInv, LockQueue, Goto, TypeOK, NoStreamShared, Hands, Waiting, FrontStable, ClaimedSlotFree
<1>9. CASE PopPromise(c)
  BY <1>9, ConsumedNoId, ClientsAssumption DEF IInv, PopPromise, Goto, TypeOK, NoStreamShared, Hands, Waiting, FrontStable, ClaimedSlotFree
<1>10. CASE Fulfil(c)
  BY <1>10, ConsumedNoId, ClientsAssumption DEF IInv, Fulfil, Goto, TypeOK, NoStreamShared, Hands, Waiting, FrontStable, ClaimedSlotFree
<1>11. CASE BumpBack(c)
  BY <1>11, ConsumedNoId, ClientsAssumption DEF IInv, BumpBack, Goto, TypeOK, NoStreamShared, Hands, Waiting, FrontStable, ClaimedSlotFree
<1>12. CASE WriteBack(c)
  BY <1>12, ConsumedNoId, ClientsAssumption DEF IInv, WriteBack, Goto, TypeOK, NoStreamShared, Hands, Waiting, FrontStable, ClaimedSlotFree
<1> QED BY <1>1, <1>2, <1>3, <1>4, <1>5, <1>6, <1>7, <1>8, <1>9, <1>10, <1>11, <1>12 DEF GetStep, ReturnStep

\* No step of any thread drops the only copy of an id.
LEMMA LostStep ==
  ASSUME IInv, Next PROVE NoStreamLost'
<1> PICK c \in Clients : LockFront(c) \/ GetStep(c) \/ ReturnStep(c)
  BY DEF Next
<1>1. CASE LockFront(c)
  BY <1>1, ConsumedNoId, ClientsAssumption DEF IInv, LockFront, Goto, TypeOK, NoStreamLost, Hands, Waiting, FrontStable, ClaimedSlotFree
<1>2. CASE FrontIdle(c)
  BY <1>2, ConsumedNoId, ClientsAssumption DEF IInv, FrontIdle, Goto, TypeOK, NoStreamLost, Hands, Waiting, FrontStable, ClaimedSlotFree
<1>3. CASE FrontConsumed(c)
  BY <1>3, ConsumedNoId, ClientsAssumption DEF IInv, FrontConsumed, Goto, TypeOK, NoStreamLost, Hands, Waiting, FrontStable, ClaimedSlotFree
<1>4. CASE GiveUp(c)
  BY <1>4, ConsumedNoId, ClientsAssumption DEF IInv, GiveUp, Goto, TypeOK, NoStreamLost, Hands, Waiting, FrontStable, ClaimedSlotFree
<1>5. CASE TakeFront(c)
  BY <1>5, ConsumedNoId, ClientsAssumption DEF IInv, TakeFront, Goto, TypeOK, NoStreamLost, Hands, Waiting, FrontStable, ClaimedSlotFree
<1>6. CASE PushPromise(c)
  BY <1>6, ConsumedNoId, ClientsAssumption DEF IInv, PushPromise, Goto, TypeOK, NoStreamLost, Hands, Waiting, FrontStable, ClaimedSlotFree
<1>7. CASE Obtain(c)
  BY <1>7, ConsumedNoId, ClientsAssumption DEF IInv, Obtain, Goto, TypeOK, NoStreamLost, Hands, Waiting, FrontStable, ClaimedSlotFree
<1>8. CASE LockQueue(c)
  BY <1>8, ConsumedNoId, ClientsAssumption DEF IInv, LockQueue, Goto, TypeOK, NoStreamLost, Hands, Waiting, FrontStable, ClaimedSlotFree
<1>9. CASE PopPromise(c)
  BY <1>9, ConsumedNoId, ClientsAssumption DEF IInv, PopPromise, Goto, TypeOK, NoStreamLost, Hands, Waiting, FrontStable, ClaimedSlotFree
<1>10. CASE Fulfil(c)
  <2>1. target[c] \in Clients /\ future[target[c]] = Consumed
    BY <1>10 DEF IInv, Fulfil, Waiting, TypeOK
  <2>2. \A i \in Ids, d \in Clients : future[d] = i => future'[d] = i
    BY <1>10, <2>1, ConsumedNoId DEF IInv, Fulfil, TypeOK
  <2>3. \A i \in Ids, d \in Clients :
          id[d] = i => id'[d] = i \/ future'[target[c]] = i
    BY <1>10, <2>1 DEF IInv, Fulfil, TypeOK
  <2> QED BY <1>10, <2>1, <2>2, <2>3 DEF IInv, Fulfil, NoStreamLost
<1>11. CASE BumpBack(c)
  BY <1>11, ConsumedNoId, ClientsAssumption DEF IInv, BumpBack, Goto, TypeOK, NoStreamLost, Hands, Waiting, FrontStable, ClaimedSlotFree
<1>12. CASE WriteBack(c)
  BY <1>12, ConsumedNoId, ClientsAssumption DEF IInv, WriteBack, Goto, TypeOK, NoStreamLost, Hands, Waiting, FrontStable, ClaimedSlotFree
<1> QED BY <1>1, <1>2, <1>3, <1>4, <1>5, <1>6, <1>7, <1>8, <1>9, <1>10, <1>11, <1>12 DEF GetStep, ReturnStep

\* Every step keeps the waiting promises distinct.
LEMMA DistinctStep ==
  ASSUME IInv, Next PROVE Distinct'
<1> PICK c \in Clients : LockFront(c) \/ GetStep(c) \/ ReturnStep(c)
  BY DEF Next
<1>1. CASE LockFront(c)
  BY <1>1, ConsumedNoId, ClientsAssumption DEF IInv, LockFront, Goto, TypeOK, Distinct, Waiting, Queued
<1>2. CASE FrontIdle(c)
  BY <1>2, ConsumedNoId, ClientsAssumption DEF IInv, FrontIdle, Goto, TypeOK, Distinct, Waiting, Queued
<1>3. CASE FrontConsumed(c)
  BY <1>3, ConsumedNoId, ClientsAssumption DEF IInv, FrontConsumed, Goto, TypeOK, Distinct, Waiting, Queued
<1>4. CASE GiveUp(c)
  BY <1>4, ConsumedNoId, ClientsAssumption DEF IInv, GiveUp, Goto, TypeOK, Distinct, Waiting, Queued
<1>5. CASE TakeFront(c)
  BY <1>5, ConsumedNoId, ClientsAssumption DEF IInv, TakeFront, Goto, TypeOK, Distinct, Waiting, Queued
<1>6. CASE PushPromise(c)
  BY <1>6, ConsumedNoId, ClientsAssumption DEF IInv, PushPromise, Goto, TypeOK, Distinct, Waiting, Queued
<1>7. CASE Obtain(c)
  BY <1>7, ConsumedNoId, ClientsAssumption DEF IInv, Obtain, Goto, TypeOK, Distinct, Waiting, Queued
<1>8. CASE LockQueue(c)
  BY <1>8, ConsumedNoId, ClientsAssumption DEF IInv, LockQueue, Goto, TypeOK, Distinct, Waiting, Queued
<1>9. CASE PopPromise(c)
  BY <1>9, ConsumedNoId, ClientsAssumption DEF IInv, PopPromise, Goto, TypeOK, Distinct, Waiting, Queued
<1>10. CASE Fulfil(c)
  BY <1>10, ConsumedNoId, ClientsAssumption DEF IInv, Fulfil, Goto, TypeOK, Distinct, Waiting, Queued
<1>11. CASE BumpBack(c)
  BY <1>11, ConsumedNoId, ClientsAssumption DEF IInv, BumpBack, Goto, TypeOK, Distinct, Waiting, Queued
<1>12. CASE WriteBack(c)
  BY <1>12, ConsumedNoId, ClientsAssumption DEF IInv, WriteBack, Goto, TypeOK, Distinct, Waiting, Queued
<1> QED BY <1>1, <1>2, <1>3, <1>4, <1>5, <1>6, <1>7, <1>8, <1>9, <1>10, <1>11, <1>12 DEF GetStep, ReturnStep

\* Every step keeps each waiting thread in exactly one of: the FIFO, a popped
\* promise, a ready future.
LEMMA WaitingStep ==
  ASSUME IInv, Next PROVE Waiting'
<1> PICK c \in Clients : LockFront(c) \/ GetStep(c) \/ ReturnStep(c)
  BY DEF Next
<1>1. CASE LockFront(c)
  <2>1. \A d \in Clients : Queued(d)' <=> Queued(d)
    BY <1>1 DEF LockFront, Queued
  <2> QED BY <1>1, <2>1, ConsumedNoId, ClientsAssumption DEF IInv, LockFront, Goto, TypeOK, Waiting, Hands
<1>2. CASE FrontIdle(c)
  <2>1. \A d \in Clients : Queued(d)' <=> Queued(d)
    BY <1>2 DEF FrontIdle, Queued
  <2> QED BY <1>2, <2>1, ConsumedNoId, ClientsAssumption DEF IInv, FrontIdle, Goto, TypeOK, Waiting, Hands
<1>3. CASE FrontConsumed(c)
  <2>1. \A d \in Clients : Queued(d)' <=> Queued(d)
    BY <1>3 DEF FrontConsumed, Queued
  <2> QED BY <1>3, <2>1, ConsumedNoId, ClientsAssumption DEF IInv, FrontConsumed, Goto, TypeOK, Waiting, Hands
<1>4. CASE GiveUp(c)
  <2>1. \A d \in Clients : Queued(d)' <=> Queued(d)
    BY <1>4 DEF GiveUp, Queued
  <2> QED BY <1>4, <2>1, ConsumedNoId, ClientsAssumption DEF IInv, GiveUp, Goto, TypeOK, Waiting, Hands
<1>5. CASE TakeFront(c)
  <2>1. \A d \in Clients : Queued(d)' <=> Queued(d)
    BY <1>5 DEF TakeFront, Queued
  <2> QED BY <1>5, <2>1, ConsumedNoId, ClientsAssumption DEF IInv, TakeFront, Goto, TypeOK, Waiting, Hands
<1>6. CASE PushPromise(c)
  <2>1. \A d \in Clients : Queued(d)' => Queued(d) \/ d = c
    BY <1>6 DEF IInv, TypeOK, PushPromise, Queued
  <2>2. future[c] = Consumed
    BY <1>6 DEF IInv, TypeOK, PushPromise, Waiting
  <2> QED BY <1>6, <2>1, <2>2, ConsumedNoId, ClientsAssumption DEF IInv, PushPromise, Goto, TypeOK, Waiting
<1>7. CASE Obtain(c)
  <2>1. \A d \in Clients : Queued(d)' <=> Queued(d)
    BY <1>7 DEF Obtain, Queued
  <2> QED BY <1>7, <2>1, ConsumedNoId, ClientsAssumption DEF IInv, Obtain, Goto, TypeOK, Waiting, Hands
<1>8. CASE LockQueue(c)
  <2>1. \A d \in Clients : Queued(d)' <=> Queued(d)
    BY <1>8 DEF LockQueue, Queued
  <2> QED BY <1>8, <2>1, ConsumedNoId, ClientsAssumption DEF IInv, LockQueue, Goto, TypeOK, Waiting, Hands
<1>9. CASE PopPromise(c)
  <2> DEFINE h == Head(promises)
  <2>1. h \in Clients /\ Queued(h)
    BY <1>9 DEF IInv, TypeOK, PopPromise, Queued
  <2>2. \A d \in Clients : Queued(d)' => Queued(d) /\ d # h
    BY <1>9 DEF IInv, TypeOK, PopPromise, Queued, Distinct
  <2> HIDE DEF h
  <2>3. target' = [target EXCEPT ![c] = h]
    BY <1>9 DEF PopPromise, h
  <2> QED BY <1>9, <2>1, <2>2, <2>3, ConsumedNoId, ClientsAssumption DEF IInv, PopPromise, Goto, TypeOK, Waiting
<1>10. CASE Fulfil(c)
  <2>1. \A d \in Clients : Queued(d)' <=> Queued(d)
    BY <1>10 DEF Fulfil, Queued
  <2>2. target[c] \in Clients /\ pc[target[c]] = "wait" /\ target[c] # c /\ ~Queued(target[c])
    BY <1>10 DEF IInv, Fulfil, TypeOK, Waiting
  <2>3. \A d \in Clients : d # c => target'[d] = target[d] /\ pc'[d] = pc[d]
    BY <1>10 DEF IInv, Fulfil, Goto, TypeOK
  <2>4. \A d \in Clients : d # target[c] => future'[d] = future[d]
    BY <1>10, <2>2 DEF IInv, Fulfil, TypeOK
  <2>5. pc'[c] = "out"
    BY <1>10 DEF IInv, Fulfil, Goto, TypeOK
  <2>6. \A d \in Clients : target[d] \in Clients
    BY DEF IInv, TypeOK
  <2> QED BY <1>10, <2>1, <2>2, <2>3, <2>4, <2>5, <2>6, ConsumedNoId, ClientsAssumption DEF IInv, Fulfil, Waiting
<1>11. CASE BumpBack(c)
  <2>1. \A d \in Clients : Queued(d)' <=> Queued(d)
    BY <1>11 DEF BumpBack, Queued
  <2> QED BY <1>11, <2>1, ConsumedNoId, ClientsAssumption DEF IInv, BumpBack, Goto, TypeOK, Waiting, Hands
<1>12. CASE WriteBack(c)
  <2>1. \A d \in Clients : Queued(d)' <=> Queued(d)
    BY <1>12 DEF WriteBack, Queued
  <2> QED BY <1>12, <2>1, ConsumedNoId, ClientsAssumption DEF IInv, WriteBack, Goto, TypeOK, Waiting, Hands
<1> QED BY <1>1, <1>2, <1>3, <1>4, <1>5, <1>6, <1>7, <1>8, <1>9, <1>10, <1>11, <1>12 DEF GetStep, ReturnStep

\* A thread that gives an id back finds room: were the ring full, it would hold
\* all the ids, the one in the thread's hands among them.
LEMMA RoomToReturn ==
  ASSUME IInv, NEW c \in Clients, pc[c] = "return" PROVE ~InRing(back_idx)
<1> USE ConsumedNoId
<1>1. back_idx \in Ids /\ front_idx \in Ids /\ streams \in [Ids -> Ids \cup {Consumed}]
  BY DEF IInv, TypeOK
<1>2. id[c] \in Ids
  BY DEF IInv, Hands
<1>3. \A s \in Ids : InRing(s) <=> streams[s] \in Ids
  BY DEF IInv, Locks, InRing
<1>4. ~(\A s \in Ids : InRing(s))
  <2> SUFFICES ASSUME \A s \in Ids : InRing(s) PROVE FALSE
    OBVIOUS
  <2>1. streams \in Injection(Ids, Ids)
    BY <1>1, <1>3 DEF IInv, NoStreamShared, Injection, IsInjective
  <2>2. IsFiniteSet(Ids)
    BY FS_Interval, nireqAssumption DEF Ids
  <2>3. streams \in Surjection(Ids, Ids)
    BY <2>1, <2>2, FS_Injection
  <2>4. PICK s \in Ids : streams[s] = id[c]
    BY <2>3, <1>2 DEF Surjection
  <2> QED BY <2>4, <1>2 DEF IInv, NoStreamShared
<1> QED BY <1>1, <1>4, nireqAssumption DEF IInv, Contiguous, Ids

\* Every step keeps the slot that a returning thread claimed consumed until it
\* writes it.
LEMMA ClaimStep ==
  ASSUME IInv, Next PROVE ClaimedSlotFree'
<1> PICK c \in Clients : LockFront(c) \/ GetStep(c) \/ ReturnStep(c)
  BY DEF Next
<1>1. CASE LockFront(c)
  BY <1>1, ConsumedNoId, ClientsAssumption DEF IInv, LockFront, Goto, TypeOK, ClaimedSlotFree, Hands, Locks
<1>2. CASE FrontIdle(c)
  BY <1>2, ConsumedNoId, ClientsAssumption DEF IInv, FrontIdle, Goto, TypeOK, ClaimedSlotFree, Hands, Locks
<1>3. CASE FrontConsumed(c)
  BY <1>3, ConsumedNoId, ClientsAssumption DEF IInv, FrontConsumed, Goto, TypeOK, ClaimedSlotFree, Hands, Locks
<1>4. CASE GiveUp(c)
  BY <1>4, ConsumedNoId, ClientsAssumption DEF IInv, GiveUp, Goto, TypeOK, ClaimedSlotFree, Hands, Locks
<1>5. CASE TakeFront(c)
  BY <1>5, ConsumedNoId, ClientsAssumption DEF IInv, TakeFront, Goto, TypeOK, ClaimedSlotFree, Hands, Locks
<1>6. CASE PushPromise(c)
  BY <1>6, ConsumedNoId, ClientsAssumption DEF IInv, PushPromise, Goto, TypeOK, ClaimedSlotFree, Hands, Locks
<1>7. CASE Obtain(c)
  BY <1>7, ConsumedNoId, ClientsAssumption DEF IInv, Obtain, Goto, TypeOK, ClaimedSlotFree, Hands, Locks
<1>8. CASE LockQueue(c)
  BY <1>8, ConsumedNoId, ClientsAssumption DEF IInv, LockQueue, Goto, TypeOK, ClaimedSlotFree, Hands, Locks
<1>9. CASE PopPromise(c)
  BY <1>9, ConsumedNoId, ClientsAssumption DEF IInv, PopPromise, Goto, TypeOK, ClaimedSlotFree, Hands, Locks
<1>10. CASE Fulfil(c)
  BY <1>10, ConsumedNoId, ClientsAssumption DEF IInv, Fulfil, Goto, TypeOK, ClaimedSlotFree, Hands, Locks
<1>11. CASE BumpBack(c)
  <2>1. streams[back_idx] = Consumed
    BY <1>11, RoomToReturn DEF IInv, BumpBack, InRing, TypeOK
  <2> QED BY <1>11, <2>1 DEF IInv, BumpBack, Goto, TypeOK, ClaimedSlotFree
<1>12. CASE WriteBack(c)
  BY <1>12, ConsumedNoId, ClientsAssumption DEF IInv, WriteBack, Goto, TypeOK, ClaimedSlotFree, Hands, Locks
<1> QED BY <1>1, <1>2, <1>3, <1>4, <1>5, <1>6, <1>7, <1>8, <1>9, <1>10, <1>11, <1>12 DEF GetStep, ReturnStep

\* Every step keeps the ids of the ring in one contiguous stretch, from
\* front_idx to back_idx.
LEMMA ContStep ==
  ASSUME IInv, Next PROVE Contiguous'
<1> PICK c \in Clients : LockFront(c) \/ GetStep(c) \/ ReturnStep(c)
  BY DEF Next
<1>1. CASE LockFront(c)
  <2>1. \A s \in Ids : InRing(s)' <=> InRing(s)
    BY <1>1, ConsumedNoId DEF IInv, LockFront, Goto, InRing, TypeOK
  <2> QED BY <1>1, <2>1 DEF IInv, LockFront, Contiguous
<1>2. CASE FrontIdle(c)
  <2>1. \A s \in Ids : InRing(s)' <=> InRing(s)
    BY <1>2, ConsumedNoId DEF IInv, FrontIdle, Goto, InRing, TypeOK
  <2> QED BY <1>2, <2>1 DEF IInv, FrontIdle, Contiguous
<1>3. CASE FrontConsumed(c)
  <2>1. \A s \in Ids : InRing(s)' <=> InRing(s)
    BY <1>3, ConsumedNoId DEF IInv, FrontConsumed, Goto, InRing, TypeOK
  <2> QED BY <1>3, <2>1 DEF IInv, FrontConsumed, Contiguous
<1>4. CASE GiveUp(c)
  <2>1. \A s \in Ids : InRing(s)' <=> InRing(s)
    BY <1>4, ConsumedNoId DEF IInv, GiveUp, Goto, InRing, TypeOK
  <2> QED BY <1>4, <2>1 DEF IInv, GiveUp, Contiguous
<1>5. CASE TakeFront(c)
  <2>1. streams[front_idx] \in Ids /\ front_idx \in Ids /\ back_idx \in Ids
    BY <1>5 DEF IInv, TakeFront, FrontStable, TypeOK
  <2>2. \A s \in Ids : InRing(s)' <=> InRing(s) /\ s # front_idx
    BY <1>5, <2>1, ConsumedNoId DEF IInv, TakeFront, Goto, InRing, TypeOK, ClaimedSlotFree
  <2>3. InRing(front_idx)
    BY <2>1 DEF InRing
  <2>4. front_idx' = Succ(front_idx) /\ back_idx' = back_idx
    BY <1>5 DEF TakeFront
  <2> QED BY <2>1, <2>2, <2>3, <2>4, SuccDef, nireqAssumption DEF IInv, Contiguous, Ids
<1>6. CASE PushPromise(c)
  <2>1. \A s \in Ids : InRing(s)' <=> InRing(s)
    BY <1>6, ConsumedNoId DEF IInv, PushPromise, Goto, InRing, TypeOK
  <2> QED BY <1>6, <2>1 DEF IInv, PushPromise, Contiguous
<1>7. CASE Obtain(c)
  <2>1. \A s \in Ids : InRing(s)' <=> InRing(s)
    BY <1>7, ConsumedNoId DEF IInv, Obtain, Goto, InRing, TypeOK
  <2> QED BY <1>7, <2>1 DEF IInv, Obtain, Contiguous
<1>8. CASE LockQueue(c)
  <2>1. \A s \in Ids : InRing(s)' <=> InRing(s)
    BY <1>8, ConsumedNoId DEF IInv, LockQueue, Goto, InRing, TypeOK
  <2> QED BY <1>8, <2>1 DEF IInv, LockQueue, Contiguous
<1>9. CASE PopPromise(c)
  <2>1. \A s \in Ids : InRing(s)' <=> InRing(s)
    BY <1>9, ConsumedNoId DEF IInv, PopPromise, Goto, InRing, TypeOK
  <2> QED BY <1>9, <2>1 DEF IInv, PopPromise, Contiguous
<1>10. CASE Fulfil(c)
  <2>1. \A s \in Ids : InRing(s)' <=> InRing(s)
    BY <1>10, ConsumedNoId DEF IInv, Fulfil, Goto, InRing, TypeOK
  <2> QED BY <1>10, <2>1 DEF IInv, Fulfil, Contiguous
<1>11. CASE BumpBack(c)
  <2>1. front_idx \in Ids /\ back_idx \in Ids
    BY DEF IInv, TypeOK
  <2>2. \A s \in Ids : InRing(s)' <=> InRing(s) \/ s = back_idx
    BY <1>11, <2>1 DEF IInv, BumpBack, Goto, InRing, TypeOK
  <2>3. ~InRing(back_idx)
    BY <1>11, RoomToReturn DEF BumpBack
  <2>4. back_idx' = Succ(back_idx) /\ front_idx' = front_idx
    BY <1>11 DEF BumpBack
  <2> QED BY <2>1, <2>2, <2>3, <2>4, SuccDef, nireqAssumption DEF IInv, Contiguous, Ids
<1>12. CASE WriteBack(c)
  <2>1. slot[c] \in Ids /\ id[c] \in Ids
    BY <1>12 DEF IInv, WriteBack, TypeOK, Hands
  <2>2. \A d \in Clients : pc[d] = "write" => d = c
    BY <1>12 DEF IInv, WriteBack, Locks
  <2>3. \A s \in Ids : InRing(s)' <=> InRing(s)
    BY <1>12, <2>1, <2>2 DEF IInv, WriteBack, Goto, InRing, TypeOK
  <2> QED BY <1>12, <2>3 DEF IInv, WriteBack, Contiguous
<1> QED BY <1>1, <1>2, <1>3, <1>4, <1>5, <1>6, <1>7, <1>8, <1>9, <1>10, <1>11, <1>12 DEF GetStep, ReturnStep

\* All conjuncts together are an invariant of the queue.
LEMMA IInvariance == Spec => []IInv
<1>1. ASSUME IInv, [Next]_vars PROVE IInv'
  <2>1. CASE Next
    BY <1>1, <2>1, TypeStep, LocksStep, HandsStep, FrontStep, SharedStep, LostStep,
       DistinctStep, WaitingStep, ClaimStep, ContStep DEF IInv
  <2>2. CASE UNCHANGED vars
    BY <1>1, <2>2
    DEF vars, IInv, TypeOK, Locks, Hands, FrontStable, Contiguous, InRing,
        ClaimedSlotFree, Distinct, Waiting, Queued, NoStreamShared, NoStreamLost
  <2> QED BY <1>1, <2>1, <2>2
<1> QED BY <1>1, InitIInv, PTL DEF Spec

-----------------------------------------------------------------------------
\* The indices, ids and locks of queue.hpp stay in their ranges.
THEOREM TypeCorrect == Spec => []TypeOK
BY IInvariance, PTL DEF IInv

\* Whatever the number of threads and of streams, and however getIdleStream,
\* tryToGetIdleStream and returnStream interleave, no two threads use the same
\* infer request.
THEOREM StreamsExclusive == Spec => []NoStreamShared
BY IInvariance, PTL DEF IInv

\* Under the same interleavings the ring and the promises never lose an id.
THEOREM StreamsKept == Spec => []NoStreamLost
BY IInvariance, PTL DEF IInv

\* The two-mutex queue of queue.hpp implements the atomic pool of stream ids.
THEOREM ImplementsPool == Spec => PoolSpec
<1>1. Init => Pool!Init
  BY DEF Init, Pool!Init, Consumed, Pool!NoStream
<1>2. ASSUME IInv, [Next]_vars PROVE [Pool!Next]_id
  <2> USE ConsumedNoId DEF Consumed, Pool!NoStream
  <2>1. CASE UNCHANGED id
    BY <2>1
  <2>2. ASSUME NEW c \in Clients, TakeFront(c) PROVE Pool!Acquire(c)
    <3>1. streams[front_idx] \in Ids /\ front_idx \in Ids /\ id[c] = Consumed
      BY <1>2, <2>2 DEF IInv, TakeFront, FrontStable, TypeOK, Hands
    <3>2. \A d \in Clients : id[d] # streams[front_idx]
      BY <1>2, <3>1 DEF IInv, NoStreamShared
    <3> QED BY <2>2, <3>1, <3>2 DEF TakeFront, Pool!Acquire
  <2>3. ASSUME NEW c \in Clients, Obtain(c) PROVE Pool!Acquire(c)
    <3>1. future[c] \in Ids /\ id[c] = Consumed
      BY <1>2, <2>3 DEF IInv, Obtain, TypeOK, Hands
    <3>2. \A d \in Clients : id[d] # future[c]
      BY <1>2, <3>1 DEF IInv, NoStreamShared
    <3> QED BY <2>3, <3>1, <3>2 DEF Obtain, Pool!Acquire
  <2>4. ASSUME NEW c \in Clients, Fulfil(c) \/ WriteBack(c) PROVE Pool!Release(c)
    BY <1>2, <2>4 DEF IInv, Fulfil, WriteBack, Hands, Pool!Release
  <2> QED
    BY <1>2, <2>1, <2>2, <2>3, <2>4
    DEF Next, GetStep, ReturnStep, Pool!Next, vars, LockFront, FrontIdle,
        FrontConsumed, GiveUp, PushPromise, LockQueue, PopPromise, BumpBack
<1> QED BY <1>1, <1>2, IInvariance, PTL DEF Spec, PoolSpec, Pool!Spec

=============================================================================
