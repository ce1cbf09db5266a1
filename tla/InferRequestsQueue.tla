------------------------- MODULE InferRequestsQueue -------------------------
(***************************************************************************)
(* The queue of idle infer requests (streams) of a loaded model version:   *)
(* Queue<T> in src/queue.hpp, used through ExecutingStreamIdGuard by       *)
(* single-model requests, through NodeStreamIdGuard by pipeline nodes and  *)
(* through BuffersQueue by custom nodes.                                   *)
(*                                                                         *)
(* Two mutexes guard it.  front_mut orders the threads that take an id     *)
(* from the ring; queue_mutex orders the threads that give one back and    *)
(* the accesses to the FIFO of promises.  The elements of the ring are     *)
(* read under the first and written under the second, so every access to   *)
(* an element is a step of its own here.  The unsynchronised accesses have *)
(* no other outcome than an interleaving of whole int reads and writes: an *)
(* aligned int does not tear, and the writer's unlock publishes it.        *)
(***************************************************************************)
EXTENDS Integers, Sequences

CONSTANTS Clients,      \* threads that use the queue
          nireq         \* number of streams: the size of the ring

ASSUME nireqAssumption == nireq \in Nat \ {0}
ASSUME ClientsAssumption == "none" \notin Clients

Ids == 0 .. nireq - 1
Consumed == -1          \* negative value: consumed ring element
Nobody == "none"

VARIABLES
  streams,      \* the ring: slot -> id, or Consumed
  front_idx,    \* next slot to take from
  back_idx,     \* next slot to give back to
  promises,     \* FIFO of the clients that wait for an id
  front_mut,    \* owner of front_mut, or Nobody
  queue_mutex,  \* owner of queue_mutex, or Nobody
  pc,           \* what each client is doing
  op,           \* the entry point it called: "get" or "try" (locals such as
                \* op, slot and target go back to a fixed value after use)
  id,           \* the id a client has in its hands, or Consumed
  future,       \* the value set in a client's promise, or Consumed
  slot,         \* local old_back of returnStream
  target        \* local promise of returnStream: whose future it fulfils

vars == <<streams, front_idx, back_idx, promises, front_mut, queue_mutex,
          pc, op, id, future, slot, target>>

PCs == {"out", "check", "take", "push", "wait", "exec", "return",
        "write", "fulfil"}

Init ==
  /\ streams = [i \in Ids |-> i]
  /\ front_idx = 0
  /\ back_idx = 0
  /\ promises = <<>>
  /\ front_mut = Nobody
  /\ queue_mutex = Nobody
  /\ pc = [c \in Clients |-> "out"]
  /\ op = [c \in Clients |-> "get"]
  /\ id = [c \in Clients |-> Consumed]
  /\ future = [c \in Clients |-> Consumed]
  /\ slot = [c \in Clients |-> 0]
  /\ target = [c \in Clients |-> c]

Goto(c, l) == pc' = [pc EXCEPT ![c] = l]

\* Mutant: the index does not wrap.
SuccNoWrap(i) == i + 1

Succ(i) == (i + 1) % nireq

-----------------------------------------------------------------------------
(* Taking an id: getIdleStream and tryToGetIdleStream.                     *)

\* A client calls one of the entry points and locks front_mut.
LockFront(c) ==
  /\ pc[c] = "out"
  /\ front_mut = Nobody
  /\ front_mut' = c
  /\ \E o \in {"get", "try"} : op' = [op EXCEPT ![c] = o]
  /\ Goto(c, "check")
  /\ UNCHANGED <<streams, front_idx, back_idx, promises, queue_mutex, id,
                 future, slot, target>>

\* The first read of streams[front_idx]: an id is there.
FrontIdle(c) ==
  /\ pc[c] = "check"
  /\ streams[front_idx] >= 0
  /\ Goto(c, "take")
  /\ UNCHANGED <<streams, front_idx, back_idx, promises, front_mut,
                 queue_mutex, op, id, future, slot, target>>

\* The first read of streams[front_idx]: consumed, and the caller will wait.
FrontConsumed(c) ==
  /\ pc[c] = "check"
  /\ op[c] = "get"
  /\ streams[front_idx] < 0
  /\ Goto(c, "push")
  /\ UNCHANGED <<streams, front_idx, back_idx, promises, front_mut,
                 queue_mutex, op, id, future, slot, target>>

\* The same for tryToGetIdleStream, which gives up.
GiveUp(c) ==
  /\ pc[c] = "check"
  /\ op[c] = "try"
  /\ streams[front_idx] < 0
  /\ front_mut' = Nobody
  /\ op' = [op EXCEPT ![c] = "get"]
  /\ Goto(c, "out")
  /\ UNCHANGED <<streams, front_idx, back_idx, promises, queue_mutex, id,
                 future, slot, target>>

\* Mutant: the slot is not marked consumed.
TakeFrontUnmarked(c) ==
  /\ pc[c] = "take"
  /\ id' = [id EXCEPT ![c] = streams[front_idx]]
  /\ front_idx' = Succ(front_idx)
  /\ front_mut' = Nobody
  /\ op' = [op EXCEPT ![c] = "get"]
  /\ Goto(c, "exec")
  /\ UNCHANGED <<streams, back_idx, promises, queue_mutex, future, slot, target>>

\* Second read, the slot is marked consumed, the front moves, front_mut is
\* unlocked and the caller's own future is ready.
TakeFront(c) ==
  /\ pc[c] = "take"
  /\ id' = [id EXCEPT ![c] = streams[front_idx]]
  /\ streams' = [streams EXCEPT ![front_idx] = Consumed]
  /\ front_idx' = Succ(front_idx)
  /\ front_mut' = Nobody
  /\ op' = [op EXCEPT ![c] = "get"]
  /\ Goto(c, "exec")
  /\ UNCHANGED <<back_idx, promises, queue_mutex, future, slot, target>>

\* queue_mutex is locked, the promise queued, both mutexes unlocked.
PushPromise(c) ==
  /\ pc[c] = "push"
  /\ queue_mutex = Nobody
  /\ promises' = Append(promises, c)
  /\ front_mut' = Nobody
  /\ Goto(c, "wait")
  /\ UNCHANGED <<streams, front_idx, back_idx, queue_mutex, op, id, future,
                 slot, target>>

\* Mutant: the future of an earlier wait is read again.
ObtainStale(c) ==
  /\ pc[c] = "wait"
  /\ future[c] # Consumed
  /\ id' = [id EXCEPT ![c] = future[c]]
  /\ Goto(c, "exec")
  /\ UNCHANGED <<streams, front_idx, back_idx, promises, front_mut,
                 queue_mutex, op, future, slot, target>>

\* future.get() of the guard (or a poll of it that finds it ready).
Obtain(c) ==
  /\ pc[c] = "wait"
  /\ future[c] # Consumed
  /\ id' = [id EXCEPT ![c] = future[c]]
  /\ future' = [future EXCEPT ![c] = Consumed]
  /\ Goto(c, "exec")
  /\ UNCHANGED <<streams, front_idx, back_idx, promises, front_mut,
                 queue_mutex, op, slot, target>>

-----------------------------------------------------------------------------
(* Giving it back: returnStream, called by the guards' destructors.        *)

\* The inference is over and queue_mutex is locked.
LockQueue(c) ==
  /\ pc[c] = "exec"
  /\ queue_mutex = Nobody
  /\ queue_mutex' = c
  /\ Goto(c, "return")
  /\ UNCHANGED <<streams, front_idx, back_idx, promises, front_mut, op, id,
                 future, slot, target>>

\* Somebody waits: its promise is popped and queue_mutex unlocked ...
PopPromise(c) ==
  /\ pc[c] = "return"
  /\ promises # <<>>
  /\ target' = [target EXCEPT ![c] = Head(promises)]
  /\ promises' = Tail(promises)
  /\ queue_mutex' = Nobody
  /\ Goto(c, "fulfil")
  /\ UNCHANGED <<streams, front_idx, back_idx, front_mut, op, id, future,
                 slot>>

\* ... and then fulfilled, outside of the lock.
Fulfil(c) ==
  /\ pc[c] = "fulfil"
  /\ future' = [future EXCEPT ![target[c]] = id[c]]
  /\ id' = [id EXCEPT ![c] = Consumed]
  /\ target' = [target EXCEPT ![c] = c]
  /\ Goto(c, "out")
  /\ UNCHANGED <<streams, front_idx, back_idx, promises, front_mut,
                 queue_mutex, op, slot>>

\* Mutant: the slot is claimed but back_idx stays.
BumpBackStuck(c) ==
  /\ pc[c] = "return"
  /\ promises = <<>>
  /\ slot' = [slot EXCEPT ![c] = back_idx]
  /\ Goto(c, "write")
  /\ UNCHANGED <<streams, front_idx, back_idx, promises, front_mut,
                 queue_mutex, op, id, future, target>>

\* Nobody waits: the compare-and-exchange loop moves back_idx ...
BumpBack(c) ==
  /\ pc[c] = "return"
  /\ promises = <<>>
  /\ slot' = [slot EXCEPT ![c] = back_idx]
  /\ back_idx' = Succ(back_idx)
  /\ Goto(c, "write")
  /\ UNCHANGED <<streams, front_idx, promises, front_mut, queue_mutex, op, id,
                 future, target>>

\* ... and the id is stored in the slot it claimed; queue_mutex is unlocked.
WriteBack(c) ==
  /\ pc[c] = "write"
  /\ streams' = [streams EXCEPT ![slot[c]] = id[c]]
  /\ id' = [id EXCEPT ![c] = Consumed]
  /\ queue_mutex' = Nobody
  /\ slot' = [slot EXCEPT ![c] = 0]
  /\ Goto(c, "out")
  /\ UNCHANGED <<front_idx, back_idx, promises, front_mut, op, future, target>>

-----------------------------------------------------------------------------

GetStep(c) ==
  \/ FrontIdle(c) \/ FrontConsumed(c) \/ GiveUp(c) \/ TakeFront(c)
  \/ PushPromise(c) \/ Obtain(c)

ReturnStep(c) ==
  \/ LockQueue(c) \/ PopPromise(c) \/ Fulfil(c) \/ BumpBack(c)
  \/ WriteBack(c)

Next == \E c \in Clients : LockFront(c) \/ GetStep(c) \/ ReturnStep(c)

Spec == Init /\ [][Next]_vars

\* A thread that entered the queue keeps running, every inference ends and a
\* thread blocked on a mutex that is unlocked again and again gets it.  Nothing
\* obliges a client to send another request.
Fairness ==
  \A c \in Clients : /\ WF_vars(GetStep(c)) /\ WF_vars(ReturnStep(c))
                     /\ SF_vars(PushPromise(c)) /\ SF_vars(LockQueue(c))

FairSpec == Spec /\ Fairness

-----------------------------------------------------------------------------
(* Properties.                                                             *)

\* Indices stay in the ring, locals and locks have the values the code gives
\* them (queue.hpp, members and locals).
TypeOK ==
  /\ streams \in [Ids -> Ids \cup {Consumed}]
  /\ front_idx \in Ids
  /\ back_idx \in Ids
  /\ promises \in Seq(Clients)
  /\ front_mut \in Clients \cup {Nobody}
  /\ queue_mutex \in Clients \cup {Nobody}
  /\ pc \in [Clients -> PCs]
  /\ op \in [Clients -> {"get", "try"}]
  /\ id \in [Clients -> Ids \cup {Consumed}]
  /\ future \in [Clients -> Ids \cup {Consumed}]
  /\ slot \in [Clients -> Ids]
  /\ target \in [Clients -> Clients]

\* Two threads never run on the same ov::InferRequest: an id is in at most one
\* place, the ring, one client's hands or one fulfilled promise, although ids
\* are taken under front_mut and returned under queue_mutex.
NoStreamShared ==
  /\ \A s, t \in Ids : streams[s] = streams[t] /\ streams[s] \in Ids => s = t
  /\ \A c, d \in Clients : id[c] = id[d] /\ id[c] \in Ids => c = d
  /\ \A c, d \in Clients : future[c] = future[d] /\ future[c] \in Ids => c = d
  /\ \A s \in Ids, c \in Clients :
       streams[s] \in Ids => streams[s] # id[c] /\ streams[s] # future[c]
  /\ \A c, d \in Clients : id[c] \in Ids => id[c] # future[d]

\* No id is ever lost: returnStream never overwrites a slot of the ring that
\* still holds an id and never fulfils a promise twice, so the capacity of the
\* model version does not shrink.
NoStreamLost ==
  \A i \in Ids : \/ \E s \in Ids : streams[s] = i
                 \/ \E c \in Clients : id[c] = i \/ future[c] = i

\* Seen from its clients the queue is an atomic pool of ids: each step of the
\* two-mutex algorithm acquires a free id, releases one, or changes nothing.
Pool == INSTANCE StreamPool WITH owned <- id

PoolSpec == Pool!Spec

\* A request that waits for a stream is given one once streams are returned
\* ("we need to wait for any idle stream to be returned", queue.hpp:45).
WaiterIsServed == \A c \in Clients : pc[c] = "wait" ~> pc[c] = "exec"

=============================================================================
