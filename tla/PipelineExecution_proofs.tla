----------------------- MODULE PipelineExecution_proofs -----------------------
(***************************************************************************)
(* Proofs about Pipeline::execute, for every graph that validates and any   *)
(* number of requests and infer requests.                                   *)
(*                                                                         *)
(* The invariants are operators of constant level: gr is the graph, q the   *)
(* locals of a request, S its sessions.                                     *)
(***************************************************************************)
EXTENDS PipelineExecution, FiniteSetTheorems, SequenceTheorems, WellFoundedInduction, TLAPS

Keys(gr) == Seq(NodeNames(gr) \X Nat)
Ids(gr) == NodeNames(gr) \X Keys(gr)

\* Only the sessions of model nodes can be deferred.
ModelIds(gr) == {id \in Ids(gr) : NodeOf(gr, id[1]).kind = "DL"}

Fields == {"pc", "status", "queue", "started", "finished", "deferred", "tmp", "todo", "last",
           "left", "kept", "counts", "request", "response"}
SessionFields == {"meta", "levels", "inputs", "shards", "used", "remaining", "run", "count"}

Distinct(s) == \A i, j \in DOMAIN s : s[i] = s[j] => i = j
Apart(s, t) == Range(s) \cap Range(t) = {}

-----------------------------------------------------------------------------
(* What validation establishes of a graph *)

\* The levels of LevelsNested, in a graph whose connections lead to its nodes.
WellNested(gr, inside) ==
    /\ EntryName(gr) \in NodeNames(gr) /\ inside[EntryName(gr)] = <<>>
    /\ Dependencies(gr, EntryName(gr)) = {}
    /\ \A n \in NodeNames(gr) :
          /\ Cardinality(NodeOf(gr, n).gather) \in 0..Len(inside[n])
          /\ Dependencies(gr, n) \subseteq NodeNames(gr)
          /\ \A d \in Dependencies(gr, n) : inside[n] = ResultLevels(gr, inside, d)
          /\ \/ Computes(NodeOf(gr, n)) /\ NodeOf(gr, n).demultiply # {-1}
             \/ Context(gr, inside, n) = <<>>

\* A model node has a model, a node that feeds another is not the exit, and
\* a demultiplexer has one count and feeds some node.
WellConnected(gr) ==
    /\ NodeOf(gr, EntryName(gr)).kind = "ENTRY"
    /\ \A n \in NodeNames(gr) :
          /\ NodeOf(gr, n).kind = "DL" => NodeOf(gr, n).model # {}
          /\ \A d \in Dependencies(gr, n) : NodeOf(gr, d).kind # "EXIT" /\ gr.connections[n][d] # {}
          /\ NodeOf(gr, n).demultiply # {} =>
                /\ \E count \in NodeOf(gr, n).demultiply \cap Int : NodeOf(gr, n).demultiply = {count}
                /\ \E m \in NodeNames(gr) : n \in Dependencies(gr, m)

\* A set of numbers has a least one.
LEMMA LeastNumber ==
  ASSUME NEW N \in SUBSET Nat, N # {}
  PROVE  \E m \in N : \A k \in N : m <= k
<1> DEFINE Less == {p \in Nat \X Nat : p[1] < p[2]}
<1>1. OpToRel(<, Nat) = Less
  BY Zenon DEF OpToRel
<1>2. IsWellFoundedOn(Less, Nat)
  BY <1>1, NatLessThanWellFounded, Zenon
<1> HIDE DEF Less
<1>3. PICK m \in N : \A k \in N : ~(<<k, m>> \in Less)
  BY <1>2, WFMin
<1>4. ASSUME NEW k \in N PROVE m <= k
  <2>1. m \in Nat /\ k \in Nat /\ ~(<<k, m>> \in Less)
    BY <1>3
  <2>2. <<k, m>> \in Nat \X Nat /\ <<k, m>>[1] = k /\ <<k, m>>[2] = m
    BY <2>1
  <2>3. ~(k < m)
    BY <2>1, <2>2 DEF Less
  <2> QED BY <2>1, <2>3
<1> QED BY <1>4

\* ValidateNodes returns at the first node with an error.
LEMMA NodesValid ==
  ASSUME NEW gr, IsGraph(gr), Validate(gr) = "OK"
  PROVE  /\ NodesOfKind(gr, "ENTRY") # {}
         /\ \A i, j \in DOMAIN gr.nodes : gr.nodes[i].name = gr.nodes[j].name => i = j
         /\ \A i \in DOMAIN gr.nodes : NodeStatus(gr, gr.nodes[i]) = "OK"
<1>1. ValidateNodes(gr) = "OK"
  BY DEF Validate
<1> DEFINE duplicate == \E i, j \in DOMAIN gr.nodes : i # j /\ gr.nodes[i].name = gr.nodes[j].name
           wrong == {i \in DOMAIN gr.nodes : NodeStatus(gr, gr.nodes[i]) # "OK"}
<1>2. NodesOfKind(gr, "ENTRY") # {}
  BY <1>1 DEF ValidateNodes
<1>3. ~duplicate
  BY <1>1 DEF ValidateNodes
<1>4. wrong = {} \/ NodeStatus(gr, gr.nodes[Min(wrong)]) = "OK"
  BY <1>1 DEF ValidateNodes
<1>5. wrong = {}
  <2>1. wrong \in SUBSET Nat
    BY DEF IsGraph
  <2>2. ASSUME wrong # {} PROVE Min(wrong) \in wrong
    <3>1. \E m \in wrong : \A k \in wrong : m <= k
      BY <2>1, <2>2, LeastNumber
    <3> QED BY <3>1, Zenon DEF Min
  <2> QED BY <1>4, <2>2
<1> QED BY <1>2, <1>3, <1>5

\* Names are unique, so a node is found by its name.
LEMMA NodeAt ==
  ASSUME NEW gr, NEW i \in DOMAIN gr.nodes,
         \A j, k \in DOMAIN gr.nodes : gr.nodes[j].name = gr.nodes[k].name => j = k
  PROVE  gr.nodes[i].name \in NodeNames(gr) /\ NodeOf(gr, gr.nodes[i].name) = gr.nodes[i]
<1>1. gr.nodes[i] \in Infos(gr)
  BY DEF Infos, Range
<1>2. ASSUME NEW x \in Infos(gr), x.name = gr.nodes[i].name PROVE x = gr.nodes[i]
  BY <1>2 DEF Infos, Range
<1> QED BY <1>1, <1>2 DEF NodeOf, NodeNames

\* NodeValidator: what it checks of one node.
LEMMA NodeValid ==
  ASSUME NEW gr, NEW info, NodeStatus(gr, info) = "OK"
  PROVE  /\ info.kind = "DL" => info.model # {}
         /\ \A d \in Dependencies(gr, info.name) :
               d \in NodeNames(gr) /\ NodeOf(gr, d).kind # "EXIT" /\ gr.connections[info.name][d] # {}
<1>1. ~MissesModel(info)
  BY DEF NodeStatus
<1> DEFINE wrong == {d \in Dependencies(gr, info.name) : DependencyStatus(gr, info, d) # "OK"}
<1>2. wrong = {} \/ DependencyStatus(gr, info, CHOOSE d \in wrong : TRUE) = "OK"
  BY DEF NodeStatus
<1>3. wrong = {}
  <2>1. wrong # {} => (CHOOSE d \in wrong : TRUE) \in wrong
    BY Zenon
  <2> QED BY <1>2, <2>1
<1>4. ASSUME NEW d \in Dependencies(gr, info.name)
      PROVE  d \in NodeNames(gr) /\ NodeOf(gr, d).kind # "EXIT" /\ gr.connections[info.name][d] # {}
  <2>1. DependencyStatus(gr, info, d) = "OK"
    BY <1>3, <1>4
  <2>2. gr.connections[info.name][d] # {} /\ DependencyNodeStatus(gr, d) = "OK"
    BY <2>1 DEF DependencyStatus
  <2> QED BY <2>2 DEF DependencyNodeStatus
<1> QED BY <1>1, <1>4 DEF MissesModel

\* What the execution relies on: the checks of the nodes one by one, and what
\* the walks over the graph ensure.
LEMMA ValidatedGraph ==
  ASSUME NEW gr, IsGraph(gr), Validate(gr) = "OK", OrderEnsured(gr)
  PROVE  /\ IsFiniteSet(NodeNames(gr)) /\ WellConnected(gr)
         /\ \E inside \in Levels(gr) : WellNested(gr, inside)
<1>1. \A i, j \in DOMAIN gr.nodes : gr.nodes[i].name = gr.nodes[j].name => i = j
  BY NodesValid
<1>2. ASSUME NEW n \in NodeNames(gr)
      PROVE  \E i \in DOMAIN gr.nodes : NodeOf(gr, n) = gr.nodes[i] /\ gr.nodes[i].name = n
  <2>1. PICK i \in DOMAIN gr.nodes : n = gr.nodes[i].name
    BY <1>2 DEF NodeNames, Infos, Range
  <2> QED BY <1>1, <2>1, NodeAt
<1>3. /\ EntryName(gr) \in NodeNames(gr) /\ NodeOf(gr, EntryName(gr)).kind = "ENTRY"
      /\ Dependencies(gr, EntryName(gr)) = {}
  <2>1. PICK i \in NodesOfKind(gr, "ENTRY") : EntryName(gr) = gr.nodes[i].name
    BY NodesValid, Zenon DEF EntryName
  <2>2. i \in DOMAIN gr.nodes /\ gr.nodes[i].kind = "ENTRY"
    BY <2>1 DEF NodesOfKind
  <2>3. Dependencies(gr, gr.nodes[i].name) = {}
    BY <2>2 DEF IsGraph
  <2>4. gr.nodes[i].name \in NodeNames(gr) /\ NodeOf(gr, gr.nodes[i].name) = gr.nodes[i]
    BY <1>1, <2>2, NodeAt
  <2> QED BY <2>1, <2>2, <2>3, <2>4
<1>4. IsFiniteSet(NodeNames(gr))
  <2>1. IsFiniteSet(DOMAIN gr.nodes)
    BY FS_Interval DEF IsGraph
  <2> DEFINE f == [i \in DOMAIN gr.nodes |-> gr.nodes[i].name]
  <2>2. NodeNames(gr) = {gr.nodes[i].name : i \in DOMAIN gr.nodes}
    BY DEF NodeNames, Infos, Range
  <2>3. f \in Surjection(DOMAIN gr.nodes, NodeNames(gr))
    BY <2>2 DEF Surjection
  <2> QED BY <2>1, <2>3, FS_Surjection
<1>5. ASSUME NEW n \in NodeNames(gr)
      PROVE  /\ NodeOf(gr, n).kind = "DL" => NodeOf(gr, n).model # {}
             /\ Dependencies(gr, n) \subseteq NodeNames(gr)
             /\ \A d \in Dependencies(gr, n) : NodeOf(gr, d).kind # "EXIT" /\ gr.connections[n][d] # {}
             /\ \A c \in NodeOf(gr, n).demultiply : c \in Int /\ NodeOf(gr, n).demultiply = {c}
  <2>1. PICK i \in DOMAIN gr.nodes : NodeOf(gr, n) = gr.nodes[i] /\ gr.nodes[i].name = n
    BY <1>2, <1>5
  <2>2. NodeStatus(gr, NodeOf(gr, n)) = "OK" /\ NodeOf(gr, n).name = n
    BY <2>1, NodesValid
  <2>3. \A c \in NodeOf(gr, n).demultiply : c \in Int /\ NodeOf(gr, n).demultiply = {c}
    BY <2>1 DEF IsGraph
  <2>4. /\ NodeOf(gr, n).kind = "DL" => NodeOf(gr, n).model # {}
        /\ \A d \in Dependencies(gr, n) :
              d \in NodeNames(gr) /\ NodeOf(gr, d).kind # "EXIT" /\ gr.connections[n][d] # {}
    BY <2>2, NodeValid
  <2> QED BY <2>3, <2>4
<1>6. WellConnected(gr)
  BY <1>3, <1>5 DEF WellConnected, OrderEnsured
<1>7. PICK inside \in Levels(gr) : LevelsNested(gr, inside)
  BY DEF OrderEnsured
<1>8. WellNested(gr, inside)
  BY <1>3, <1>5, <1>7 DEF WellNested, LevelsNested
<1> QED BY <1>4, <1>6, <1>7, <1>8

-----------------------------------------------------------------------------
(* The inductive invariant: the lists of one request *)

\* deferred is out of date while a copy of it is worked off.
Deferrals(q) == IF q.pc \in {"deferred", "retry", "disarm"} THEN <<>> ELSE q.deferred

\* The sessions that were deferred and not started or disarmed since.
Line(q) == Range(q.kept) \cup Range(q.left) \cup Range(q.tmp) \cup Range(Deferrals(q))

\* Those of them that may be tried or disarmed next: without an error all of
\* them, after an error only the rest of the loop that is under way.
Pending(q) ==
    IF q.status = "OK" THEN Line(q)
    ELSE IF q.pc = "schedule" THEN Range(q.deferred) ELSE Range(q.left)

Typed(gr, q, S) ==
    /\ DOMAIN q = Fields
    /\ q.queue \in Seq(Ids(gr)) /\ q.deferred \in Seq(ModelIds(gr)) /\ q.tmp \in Seq(ModelIds(gr))
    /\ q.left \in Seq(ModelIds(gr)) /\ q.kept \in Seq(ModelIds(gr))
    /\ q.started \subseteq Ids(gr) /\ q.finished \subseteq q.started
    /\ DOMAIN S \subseteq Ids(gr) /\ q.started \ q.finished \subseteq DOMAIN S
    /\ \A id \in DOMAIN S : DOMAIN S[id] = SessionFields

Phases(q) ==
    /\ q.pc \in {"idle", "pull", "schedule", "deferred", "retry", "disarm", "ended"}
    /\ q.pc \in {"idle", "ended"} => q.started = q.finished
    /\ q.pc \notin {"schedule", "deferred"} => q.tmp = <<>>
    /\ q.pc \notin {"deferred", "retry", "disarm"} => q.left = <<>> /\ q.kept = <<>>
    /\ q.pc = "disarm" => q.status # "OK"

\* A session is in the queue at most once, and before it has finished.
Queued(q) == Distinct(q.queue) /\ Range(q.queue) \subseteq q.started \ q.finished

\* A deferred session is in one place of the lists, and not in the queue as
\* long as it may be tried again.
Lined(q) ==
    /\ Distinct(q.kept) /\ Distinct(q.left) /\ Distinct(q.tmp) /\ Distinct(Deferrals(q))
    /\ Apart(q.kept, q.left) /\ Apart(q.kept, q.tmp) /\ Apart(q.left, q.tmp)
    /\ Apart(Deferrals(q), q.tmp)
    /\ Line(q) \subseteq q.started
    /\ Pending(q) \cap Range(q.queue) = {}
    /\ q.pc # "disarm" => Pending(q) \subseteq q.started \ q.finished

IsRunning(S, id) == id \in DOMAIN S /\ S[id].run = "running"

\* A session that runs has neither finished nor been deferred nor pushed.
Runs(q, S) ==
    \A id \in DOMAIN S : IsRunning(S, id) =>
        id \in q.started \ q.finished /\ id \notin Range(q.queue) /\ id \notin Line(q)

\* What is about to be started is ready and has not been started before.
Todo(q, S) ==
    q.pc = "schedule" => \A id \in q.todo : /\ id \in DOMAIN S \ q.started
                                            /\ S[id].remaining = 0

RequestInv(gr, q, S) ==
    Typed(gr, q, S) /\ Phases(q) /\ Queued(q) /\ Lined(q) /\ Runs(q, S) /\ Todo(q, S)

-----------------------------------------------------------------------------
(* The inductive invariant: the streams *)

Gid(r, id) == <<r, id[1], id[2]>>
Asking(p) == Range(p.waiting) \cup p.granted
Model(gr, n) == CHOOSE m \in NodeOf(gr, n).model : TRUE
Gids(gr, clients) == clients \X NodeNames(gr) \X Keys(gr)

PoolTyped(gids, p) ==
    /\ DOMAIN p = {"free", "waiting", "granted", "held"}
    /\ p.waiting \in Seq(gids) /\ Distinct(p.waiting)
    /\ Range(p.waiting) \cap p.granted = {}

\* Only model nodes use the infer requests, those of their model.
Place(gr, clients, m, gid) ==
    /\ gid \in Gids(gr, clients)
    /\ NodeOf(gr, gid[2]).kind = "DL" /\ m = Model(gr, gid[2])

\* A session that waits for a stream or was granted one is neither in the
\* queue nor running; one that holds a stream is one of both.
Asks(q, S, id) == /\ id \in q.started \ q.finished
                  /\ id \notin Range(q.queue) /\ ~IsRunning(S, id)
Holds(q, S, id) == /\ id \in q.started \ q.finished
                   /\ id \in Range(q.queue) \/ IsRunning(S, id)

PoolInv(gr, P, R, SS) ==
    \A m \in DOMAIN P :
        /\ PoolTyped(Gids(gr, DOMAIN R), P[m])
        /\ \A gid \in Asking(P[m]) : /\ Place(gr, DOMAIN R, m, gid)
                                     /\ Asks(R[gid[1]], SS[gid[1]], <<gid[2], gid[3]>>)
        /\ \A gid \in P[m].held : /\ Place(gr, DOMAIN R, m, gid)
                                  /\ Holds(R[gid[1]], SS[gid[1]], <<gid[2], gid[3]>>)

-----------------------------------------------------------------------------
(* The inductive invariant: feeding, as long as there is no error *)

Inside(gr) == CHOOSE inside \in Levels(gr) : WellNested(gr, inside)
Around(gr, n) == Context(gr, Inside(gr), n)
Next_(gr, n) == {m \in NodeNames(gr) : n \in Dependencies(gr, m)}

\* How many results node n gathers, level by level, and their indices.
Sizes(gr, counts, n) ==
    [i \in 1..Cardinality(NodeOf(gr, n).gather) |-> counts[Inside(gr)[n][Len(Around(gr, n)) + i]]]
Indices(sizes) == {f \in [DOMAIN sizes -> Nat] : \A i \in DOMAIN sizes : f[i] < sizes[i]}

\* The key of the result with indices f that session <<n, k>> gathers.
ResultKey(gr, n, k, f) ==
    [i \in 1..Len(Inside(gr)[n]) |->
        IF i <= Len(k) THEN k[i] ELSE <<Inside(gr)[n][i], f[i - Len(k)]>>]

\* The session of d that has the result with this key.
Source(gr, d, key) ==
    <<d, IF NodeOf(gr, d).demultiply = {} THEN key ELSE SubSeq(key, 1, Len(key) - 1)>>

\* What a session waits for: the dependencies and indices of the results, and
\* those of them whose session has not finished.
Inputs(gr, counts, n) == Dependencies(gr, n) \X Indices(Sizes(gr, counts, n))
Missing(gr, counts, finished, id) ==
    {w \in Inputs(gr, counts, id[1]) :
        Source(gr, w[1], ResultKey(gr, id[1], id[2], w[2])) \notin finished}

\* The number of results of a demultiplexer is fixed once it is known, and
\* known once one of its sessions has finished.
Counted(gr, counts, finished) ==
    /\ \A x \in DOMAIN counts :
          /\ x \in NodeNames(gr) /\ counts[x] \in Nat
          /\ IF NodeOf(gr, x).demultiply = {-1} THEN <<x, <<>>>> \in finished
             ELSE NodeOf(gr, x).demultiply = {counts[x]}
    /\ \A id \in finished : NodeOf(gr, id[1]).demultiply # {} => id[1] \in DOMAIN counts

Known(gr, counts, n) == \A i \in DOMAIN Inside(gr)[n] : Inside(gr)[n][i] \in DOMAIN counts

\* The metadata of a session (or of a result) inside of these demultiplexers.
Metadata(gr, counts, levels, meta) ==
    /\ meta \in Seq(NodeNames(gr) \X Nat \X Nat) /\ Len(meta) = Len(levels)
    /\ \A i \in DOMAIN meta : /\ meta[i][1] = levels[i]
                              /\ meta[i][3] = counts[meta[i][1]] /\ meta[i][2] < meta[i][3]

\* The keys of the results of a session.
ResultKeys(gr, counts, id) ==
    IF NodeOf(gr, id[1]).demultiply = {} THEN {id[2]}
    ELSE {Append(id[2], <<id[1], i>>) : i \in 0..(counts[id[1]] - 1)}

\* The session of n that is fed with the result of this key.
Target(gr, n, key) == <<n, SubSeq(key, 1, Len(Around(gr, n)))>>

\* remaining counts what is missing.
Fed(gr, counts, finished, id, s) ==
    /\ Known(gr, counts, id[1]) /\ s.count \in Nat
    /\ Metadata(gr, counts, Around(gr, id[1]), s.meta) /\ Key(s.meta) = id[2]
    /\ s.remaining = Cardinality(Missing(gr, counts, finished, id))

FeedInv(gr, counts, started, finished, S) ==
    /\ Counted(gr, counts, finished)
    /\ \A id \in DOMAIN S : Fed(gr, counts, finished, id, S[id])
    /\ \A id \in started : Known(gr, counts, id[1]) /\ Missing(gr, counts, finished, id) = {}
    /\ \A id \in started \cap DOMAIN S : Computes(NodeOf(gr, id[1])) => S[id].used = TRUE
    /\ \A id \in finished : \A n \in Next_(gr, id[1]) : \A key \in ResultKeys(gr, counts, id) :
          Target(gr, n, key) \in DOMAIN S \cup started

-----------------------------------------------------------------------------

\* What a request may have brought: lengths of the tensors that nodes take.
Requested(gr, request) ==
    \A n \in NodeNames(gr) : \A d \in Dependencies(gr, n) : \A p \in gr.connections[n][d] :
        NodeOf(gr, d).kind = "ENTRY" => request[p[1]].dims \in Seq(Nat)

DefinitionInv(def, P, R, SS) ==
    /\ \E s \in Scenarios : def.graph = s.graph /\ def.status = Validate(s.graph)
    /\ DOMAIN P = Models(def.graph) /\ DOMAIN SS = DOMAIN R
    /\ \A r \in DOMAIN R : 
          /\ R[r].started # {} \/ R[r].pc \notin {"idle", "ended"} =>
                def.status = "OK" /\ Requested(def.graph, R[r].request)
          /\ R[r].pc = "idle" => R[r] = Idle /\ SS[r] = <<>>

AllInv(def, P, R, SS) ==
    /\ DefinitionInv(def, P, R, SS)
    /\ \A r \in DOMAIN R : RequestInv(def.graph, R[r], SS[r])
    /\ PoolInv(def.graph, P, R, SS)
    /\ \A r \in DOMAIN R : R[r].status = "OK" /\ R[r].pc # "idle" =>
          FeedInv(def.graph, R[r].counts, R[r].started, R[r].finished, SS[r])

Inv == AllInv(definition, pool, req, sessions)

-----------------------------------------------------------------------------
(* Sequences without repetitions *)

LEMMA EmptyList == Range(<<>>) = {} /\ Distinct(<<>>) /\ \A S : <<>> \in Seq(S)
  BY DEF Range, Distinct

LEMMA AppendList ==
  ASSUME NEW T, NEW s \in Seq(T), NEW x \in T
  PROVE  /\ Append(s, x) \in Seq(T) /\ Range(Append(s, x)) = Range(s) \cup {x}
         /\ Distinct(s) /\ x \notin Range(s) => Distinct(Append(s, x))
<1>1. /\ Append(s, x) \in Seq(T) /\ DOMAIN Append(s, x) = 1..(Len(s) + 1)
      /\ DOMAIN s = 1..Len(s) /\ Len(s) \in Nat
      /\ \A i \in 1..Len(s) : Append(s, x)[i] = s[i]
      /\ Append(s, x)[Len(s) + 1] = x
  OBVIOUS
<1>2. Range(Append(s, x)) = Range(s) \cup {x}
  BY <1>1 DEF Range
<1>3. ASSUME Distinct(s), x \notin Range(s)
      PROVE  Distinct(Append(s, x))
  BY <1>1, <1>3 DEF Range, Distinct
<1> QED BY <1>1, <1>2, <1>3

LEMMA TailList ==
  ASSUME NEW T, NEW s \in Seq(T), s # <<>>
  PROVE  /\ Head(s) \in T /\ Head(s) \in Range(s) /\ Tail(s) \in Seq(T)
         /\ Range(s) = Range(Tail(s)) \cup {Head(s)}
         /\ Distinct(s) => Distinct(Tail(s)) /\ Head(s) \notin Range(Tail(s))
<1>1. /\ Tail(s) \in Seq(T) /\ DOMAIN Tail(s) = 1..(Len(s) - 1)
      /\ DOMAIN s = 1..Len(s) /\ Len(s) \in Nat \ {0}
      /\ \A i \in 1..(Len(s) - 1) : Tail(s)[i] = s[i + 1]
      /\ Head(s) = s[1] /\ Head(s) \in T
  OBVIOUS
<1>2. Range(s) \subseteq Range(Tail(s)) \cup {Head(s)}
  <2>1. ASSUME NEW i \in DOMAIN s
        PROVE  s[i] \in Range(Tail(s)) \cup {Head(s)}
    <3>1. CASE i = 1
      BY <1>1, <3>1
    <3>2. CASE i # 1
      <4>1. i - 1 \in DOMAIN Tail(s) /\ Tail(s)[i - 1] = s[i]
        BY <1>1, <3>2
      <4> QED BY <4>1 DEF Range
    <3> QED BY <3>1, <3>2
  <2> QED BY <2>1 DEF Range
<1>3. Range(Tail(s)) \subseteq Range(s) /\ Head(s) \in Range(s)
  BY <1>1 DEF Range
<1>4. ASSUME Distinct(s)
      PROVE  Distinct(Tail(s)) /\ Head(s) \notin Range(Tail(s))
  BY <1>1, <1>4 DEF Range, Distinct
<1> QED BY <1>1, <1>2, <1>3, <1>4

LEMMA ConcatList ==
  ASSUME NEW T, NEW s \in Seq(T), NEW t \in Seq(T)
  PROVE  /\ s \o t \in Seq(T) /\ Range(s \o t) = Range(s) \cup Range(t)
         /\ Distinct(s) /\ Distinct(t) /\ Apart(s, t) => Distinct(s \o t)
<1>1. /\ s \o t \in Seq(T) /\ DOMAIN (s \o t) = 1..(Len(s) + Len(t))
      /\ DOMAIN s = 1..Len(s) /\ Len(s) \in Nat /\ DOMAIN t = 1..Len(t) /\ Len(t) \in Nat
      /\ \A i \in 1..(Len(s) + Len(t)) :
            (s \o t)[i] = IF i <= Len(s) THEN s[i] ELSE t[i - Len(s)]
  OBVIOUS
<1>2. Range(s \o t) \subseteq Range(s) \cup Range(t)
  BY <1>1 DEF Range
<1>3. Range(s) \subseteq Range(s \o t)
  BY <1>1 DEF Range
<1>4. Range(t) \subseteq Range(s \o t)
  <2>1. ASSUME NEW i \in DOMAIN t
        PROVE  t[i] \in Range(s \o t)
    <3>1. Len(s) + i \in DOMAIN (s \o t) /\ (s \o t)[Len(s) + i] = t[i]
      BY <1>1
    <3> QED BY <3>1 DEF Range
  <2> QED BY <2>1 DEF Range
<1>5. ASSUME Distinct(s), Distinct(t), Apart(s, t)
      PROVE  Distinct(s \o t)
  <2>1. \A i \in DOMAIN s, j \in DOMAIN t : s[i] # t[j]
    BY <1>5 DEF Apart, Range
  <2>2. SUFFICES ASSUME NEW i \in DOMAIN (s \o t), NEW j \in DOMAIN (s \o t),
                        (s \o t)[i] = (s \o t)[j]
                 PROVE  i = j
    BY DEF Distinct
  <2>3. CASE i <= Len(s) /\ j <= Len(s)
    BY <1>1, <1>5, <2>2, <2>3 DEF Distinct
  <2>4. CASE i > Len(s) /\ j > Len(s)
    <3>1. i - Len(s) \in DOMAIN t /\ j - Len(s) \in DOMAIN t /\ t[i - Len(s)] = t[j - Len(s)]
      BY <1>1, <2>2, <2>4
    <3>2. i - Len(s) = j - Len(s)
      BY <1>5, <3>1 DEF Distinct
    <3> QED BY <1>1, <3>2
  <2>5. CASE i <= Len(s) /\ j > Len(s)
    <3>1. i \in DOMAIN s /\ j - Len(s) \in DOMAIN t /\ s[i] = t[j - Len(s)]
      BY <1>1, <2>2, <2>5
    <3> QED BY <2>1, <3>1
  <2>6. CASE i > Len(s) /\ j <= Len(s)
    <3>1. j \in DOMAIN s /\ i - Len(s) \in DOMAIN t /\ s[j] = t[i - Len(s)]
      BY <1>1, <2>2, <2>6
    <3> QED BY <2>1, <3>1
  <2> QED BY <1>1, <2>3, <2>4, <2>5, <2>6
<1> QED BY <1>1, <1>2, <1>3, <1>4, <1>5

-----------------------------------------------------------------------------
(* The streams of one model *)

LEMMA Returned ==
  ASSUME NEW gids, NEW p, PoolTyped(gids, p), NEW id, id \notin Range(p.waiting)
  PROVE  /\ PoolTyped(gids, ReturnStream(p, id))
         /\ Asking(ReturnStream(p, id)) = Asking(p) \ {id}
         /\ ReturnStream(p, id).held = p.held \ {id}
<1>1. CASE p.waiting = <<>>
  <2>1. PICK back : back = ReturnStream(p, id)
    OBVIOUS
  <2>2. /\ DOMAIN back = DOMAIN p /\ back.waiting = p.waiting
        /\ back.granted = p.granted \ {id} /\ back.held = p.held \ {id}
    BY <1>1, <2>1 DEF ReturnStream, PoolTyped
  <2> QED BY <1>1, <2>1, <2>2 DEF PoolTyped, Asking
<1>2. CASE p.waiting # <<>>
  <2>1. PICK back : back = ReturnStream(p, id)
    OBVIOUS
  <2>2. /\ DOMAIN back = DOMAIN p /\ back.waiting = Tail(p.waiting)
        /\ back.granted = (p.granted \ {id}) \cup {Head(p.waiting)} /\ back.held = p.held \ {id}
    BY <1>2, <2>1 DEF ReturnStream, PoolTyped
  <2>3. /\ Tail(p.waiting) \in Seq(gids) /\ Distinct(Tail(p.waiting))
        /\ Head(p.waiting) \notin Range(Tail(p.waiting))
        /\ Range(p.waiting) = Range(Tail(p.waiting)) \cup {Head(p.waiting)}
    BY <1>2, TailList DEF PoolTyped
  <2>4. PoolTyped(gids, back)
    BY <2>2, <2>3 DEF PoolTyped
  <2>5. Asking(back) = Asking(p) \ {id}
    BY <2>2, <2>3 DEF Asking
  <2> QED BY <2>1, <2>2, <2>4, <2>5
<1> QED BY <1>1, <1>2

LEMMA Requested1 ==
  ASSUME NEW gids, NEW p, PoolTyped(gids, p), NEW id \in gids, id \notin Asking(p)
  PROVE  /\ PoolTyped(gids, GetIdleStream(p, id))
         /\ Asking(GetIdleStream(p, id)) = Asking(p) \cup {id}
         /\ GetIdleStream(p, id).held = p.held
<1>1. CASE p.free > 0
  <2>1. PICK a : a = GetIdleStream(p, id)
    OBVIOUS
  <2>2. /\ DOMAIN a = DOMAIN p /\ a.waiting = p.waiting
        /\ a.granted = p.granted \cup {id} /\ a.held = p.held
    BY <1>1, <2>1 DEF GetIdleStream, PoolTyped
  <2> QED BY <2>1, <2>2 DEF PoolTyped, Asking
<1>2. CASE ~(p.free > 0)
  <2>1. PICK a : a = GetIdleStream(p, id)
    OBVIOUS
  <2>2. /\ DOMAIN a = DOMAIN p /\ a.waiting = Append(p.waiting, id)
        /\ a.granted = p.granted /\ a.held = p.held
    BY <1>2, <2>1 DEF GetIdleStream, PoolTyped
  <2>3. /\ Append(p.waiting, id) \in Seq(gids) /\ Distinct(Append(p.waiting, id))
        /\ Range(Append(p.waiting, id)) = Range(p.waiting) \cup {id}
    BY AppendList DEF PoolTyped, Asking
  <2> QED BY <2>1, <2>2, <2>3 DEF PoolTyped, Asking
<1> QED BY <1>1, <1>2


-----------------------------------------------------------------------------
(* The lists of one request, step by step.  q and S become q2 and S2. *)

\* A message is pulled: its session has finished.
Pulled(gr, q, S, q2, S2, id) ==
    /\ q.pc = "pull" /\ q.queue # <<>> /\ id = Head(q.queue)
    /\ DOMAIN q2 = Fields /\ q2.queue = Tail(q.queue) /\ q2.finished = q.finished \cup {id}
    /\ q2.started = q.started /\ q2.deferred = q.deferred /\ q2.tmp = q.tmp
    /\ q2.left = q.left /\ q2.kept = q.kept
    /\ q2.pc \in {"pull", "ended", "schedule"}
    /\ q2.pc = "ended" => q2.started = q2.finished
    /\ q.status # "OK" => q2.status # "OK" /\ q2.pc # "schedule"
    /\ DOMAIN S2 \subseteq Ids(gr) /\ \A x \in DOMAIN S2 : DOMAIN S2[x] = SessionFields
    /\ \A x \in q.started : x \in DOMAIN S2 => x \in DOMAIN S /\ S2[x] = S[x]
    /\ \A x \in q.started \ {id} : x \in DOMAIN S => x \in DOMAIN S2
    /\ \A x \in DOMAIN S2 \ q.started : ~IsRunning(S2, x)
    /\ q2.pc = "schedule" => \A x \in q2.todo : x \in DOMAIN S2 \ q.started /\ S2[x].remaining = 0

LEMMA PulledLists ==
  ASSUME NEW gr, NEW q, NEW S, RequestInv(gr, q, S), NEW q2, NEW S2, NEW id,
         Pulled(gr, q, S, q2, S2, id)
  PROVE  RequestInv(gr, q2, S2) /\ id \in Range(q.queue) /\ id \in q.started \ q.finished
<1> USE DEF Pulled
<1>1. /\ id \in Ids(gr) /\ id \in Range(q.queue) /\ Tail(q.queue) \in Seq(Ids(gr))
      /\ Range(q.queue) = Range(Tail(q.queue)) \cup {id}
      /\ Distinct(Tail(q.queue)) /\ id \notin Range(Tail(q.queue))
  BY TailList DEF RequestInv, Typed, Queued
<1>2. id \in q.started \ q.finished
  BY <1>1 DEF RequestInv, Queued
<1>3. Typed(gr, q2, S2)
  BY <1>1, <1>2 DEF RequestInv, Typed
<1>4. Phases(q2)
  BY DEF RequestInv, Phases
<1>5. Queued(q2)
  BY <1>1, <1>2 DEF RequestInv, Queued
<1>6. Deferrals(q2) = Deferrals(q) /\ Line(q2) = Line(q)
  BY DEF Deferrals, Line
<1>7. q.left = <<>> /\ Range(q.left) = {}
  BY EmptyList DEF RequestInv, Phases
<1>8. Lined(q2)
  <2>1. CASE q.status = "OK"
    <3>1. Pending(q) = Line(q) /\ Pending(q2) \subseteq Line(q)
      BY <1>6, <1>7, <2>1 DEF Pending, Line, Deferrals
    <3> QED BY <1>1, <1>6, <3>1 DEF RequestInv, Lined
  <2>2. CASE q.status # "OK"
    <3>1. Pending(q2) = {}
      BY <1>7, <2>2 DEF Pending
    <3> QED BY <1>6, <3>1 DEF RequestInv, Lined
  <2> QED BY <2>1, <2>2
<1>9. Runs(q2, S2)
  <2>1. SUFFICES ASSUME NEW x \in DOMAIN S2, IsRunning(S2, x)
                 PROVE  x \in q2.started \ q2.finished /\ x \notin Range(q2.queue) /\ x \notin Line(q2)
    BY DEF Runs
  <2>2. x \in q.started /\ x \in DOMAIN S /\ S2[x] = S[x]
    BY <2>1
  <2>3. IsRunning(S, x)
    BY <2>1, <2>2 DEF IsRunning
  <2>4. x \in q.started \ q.finished /\ x \notin Range(q.queue) /\ x \notin Line(q)
    BY <2>2, <2>3 DEF RequestInv, Runs
  <2> QED BY <1>1, <1>6, <2>4
<1>10. Todo(q2, S2)
  BY DEF Todo
<1> QED BY <1>1, <1>2, <1>3, <1>4, <1>5, <1>8, <1>9, <1>10 DEF RequestInv

\* What one call of execute() makes of session id: it is pushed, it runs, or
\* it is deferred.
Started(q, S, q2, S2, id, deferred) ==
    /\ id \in DOMAIN S /\ DOMAIN S2 = DOMAIN S /\ DOMAIN S2[id] = SessionFields
    /\ \A x \in DOMAIN S \ {id} : S2[x] = S[x]
    /\ \/ q2.queue = Append(q.queue, id) /\ S2[id].run # "running" /\ ~deferred
       \/ q2.queue = q.queue /\ S2[id].run = "running" /\ ~deferred
       \/ q2.queue = q.queue /\ S2[id].run # "running" /\ deferred

\* A ready session is started.
LEMMA StartedLists ==
  ASSUME NEW gr, NEW q, NEW S, RequestInv(gr, q, S), NEW q2, NEW S2,
         q.pc = "schedule", NEW id \in q.todo, NEW deferred \in BOOLEAN,
         deferred => id \in ModelIds(gr), Started(q, S, q2, S2, id, deferred),
         DOMAIN q2 = Fields, q2.pc = "schedule", q2.started = q.started \cup {id},
         q2.finished = q.finished, q2.deferred = q.deferred, q2.left = q.left, q2.kept = q.kept,
         q2.tmp = IF deferred THEN Append(q.tmp, id) ELSE q.tmp,
         q2.todo \subseteq q.todo \ {id}, q.status # "OK" => q2.status # "OK"
  PROVE  RequestInv(gr, q2, S2)
<1>1. id \in DOMAIN S /\ id \notin q.started /\ id \in Ids(gr) /\ id \notin q.finished
  BY DEF RequestInv, Todo, Typed
<1>2. id \notin Range(q.queue) /\ id \notin Line(q) /\ id \notin Range(q.tmp)
  BY <1>1 DEF RequestInv, Queued, Lined, Line
<1>3. /\ q2.queue \in Seq(Ids(gr)) /\ Distinct(q2.queue)
      /\ Range(q2.queue) \subseteq Range(q.queue) \cup {id}
      /\ deferred => q2.queue = q.queue
  <2>1. q.queue \in Seq(Ids(gr)) /\ Distinct(q.queue)
    BY DEF RequestInv, Typed, Queued
  <2>2. CASE q2.queue = Append(q.queue, id) /\ ~deferred
    BY <1>1, <1>2, <2>1, <2>2, AppendList
  <2>3. CASE q2.queue = q.queue
    BY <2>1, <2>3
  <2> QED BY <2>2, <2>3 DEF Started
<1>4. /\ q2.tmp \in Seq(ModelIds(gr)) /\ Distinct(q2.tmp)
      /\ Range(q2.tmp) = Range(q.tmp) \cup (IF deferred THEN {id} ELSE {})
  <2>1. CASE deferred
    BY <1>1, <1>2, <2>1, AppendList DEF RequestInv, Typed, Lined
  <2>2. CASE ~deferred
    BY <2>2 DEF RequestInv, Typed, Lined
  <2> QED BY <2>1, <2>2
<1>5. Typed(gr, q2, S2)
  <2>1. \A x \in DOMAIN S2 : DOMAIN S2[x] = SessionFields
    BY DEF RequestInv, Typed, Started
  <2>2. q2.started \subseteq Ids(gr) /\ q2.finished \subseteq q2.started
        /\ q2.started \ q2.finished \subseteq DOMAIN S2 /\ DOMAIN S2 \subseteq Ids(gr)
    BY <1>1 DEF RequestInv, Typed, Started
  <2> QED BY <1>3, <1>4, <2>1, <2>2 DEF RequestInv, Typed
<1>6. Phases(q2)
  BY DEF RequestInv, Phases
<1>7. Queued(q2)
  BY <1>1, <1>3 DEF RequestInv, Queued
<1>8. /\ Deferrals(q) = q.deferred /\ Deferrals(q2) = q.deferred
      /\ Line(q2) = Line(q) \cup (IF deferred THEN {id} ELSE {})
  BY <1>4 DEF Deferrals, Line
<1>9. Pending(q2) \subseteq Pending(q) \cup (IF deferred THEN {id} ELSE {})
  <2>1. CASE q2.status = "OK"
    BY <1>8, <2>1 DEF Pending
  <2>2. CASE q2.status # "OK"
    <3>1. Pending(q2) = Range(q.deferred) /\ Range(q.deferred) \subseteq Pending(q)
      BY <1>8, <2>2 DEF Pending, Line
    <3> QED BY <3>1
  <2> QED BY <2>1, <2>2
<1>10. Lined(q2)
  <2>1. /\ Apart(q2.kept, q2.tmp) /\ Apart(q2.left, q2.tmp) /\ Apart(Deferrals(q2), q2.tmp)
        /\ Apart(q2.kept, q2.left)
    BY <1>2, <1>4, <1>8 DEF RequestInv, Lined, Apart, Line
  <2>2. Line(q2) \subseteq q2.started
    BY <1>8 DEF RequestInv, Lined
  <2>3. Pending(q2) \cap Range(q2.queue) = {}
    <3>1. CASE deferred
      BY <1>2, <1>3, <1>9, <3>1 DEF RequestInv, Lined
    <3>2. CASE ~deferred
      <4>1. id \notin Pending(q)
        BY <1>1 DEF RequestInv, Lined
      <4> QED BY <1>3, <1>9, <3>2, <4>1 DEF RequestInv, Lined
    <3> QED BY <3>1, <3>2
  <2>4. Pending(q2) \subseteq q2.started \ q2.finished
    BY <1>1, <1>9 DEF RequestInv, Lined
  <2> QED BY <1>4, <1>8, <2>1, <2>2, <2>3, <2>4 DEF RequestInv, Lined
<1>11. Runs(q2, S2)
  <2>1. SUFFICES ASSUME NEW x \in DOMAIN S2, IsRunning(S2, x)
                 PROVE  x \in q2.started \ q2.finished /\ x \notin Range(q2.queue) /\ x \notin Line(q2)
    BY DEF Runs
  <2>2. CASE x = id
    <3>1. ~deferred /\ q2.queue = q.queue
      BY <2>1, <2>2 DEF IsRunning, Started
    <3> QED BY <1>1, <1>2, <1>8, <2>2, <3>1
  <2>3. CASE x # id
    <3>1. x \in DOMAIN S /\ IsRunning(S, x)
      BY <2>1, <2>3 DEF IsRunning, Started
    <3>2. x \in q.started \ q.finished /\ x \notin Range(q.queue) /\ x \notin Line(q)
      BY <3>1 DEF RequestInv, Runs
    <3> QED BY <1>3, <1>8, <2>3, <3>2
  <2> QED BY <2>2, <2>3
<1>12. Todo(q2, S2)
  BY DEF RequestInv, Todo, Started
<1> QED BY <1>5, <1>6, <1>7, <1>10, <1>11, <1>12 DEF RequestInv


\* A deferred session is tried again; it is kept unless execute() succeeds.
LEMMA TriedLists ==
  ASSUME NEW gr, NEW q, NEW S, RequestInv(gr, q, S), NEW q2, NEW S2,
         q.pc \in {"deferred", "retry"}, q.left # <<>>, NEW id, id = Head(q.left),
         NEW deferred \in BOOLEAN, NEW keep \in BOOLEAN, Started(q, S, q2, S2, id, deferred),
         deferred => keep, S2[id].run = "running" => ~keep, keep /\ ~deferred => q2.status # "OK",
         DOMAIN q2 = Fields, q2.pc = q.pc, q2.started = q.started, q2.finished = q.finished,
         q2.deferred = q.deferred, q2.left = Tail(q.left), q2.tmp = q.tmp,
         q2.kept = IF keep THEN Append(q.kept, id) ELSE q.kept,
         q.status # "OK" => q2.status # "OK"
  PROVE  RequestInv(gr, q2, S2)
<1>1. /\ id \in ModelIds(gr) /\ id \in Range(q.left) /\ Tail(q.left) \in Seq(ModelIds(gr))
      /\ Range(q.left) = Range(Tail(q.left)) \cup {id}
      /\ Distinct(Tail(q.left)) /\ id \notin Range(Tail(q.left))
  BY TailList DEF RequestInv, Typed, Lined
<1>2. Range(q.left) \subseteq Pending(q) /\ Range(q.left) \subseteq Line(q)
  BY DEF Pending, Line
<1>3. id \in q.started \ q.finished /\ id \notin Range(q.queue) /\ id \notin Range(q.kept)
      /\ id \notin Range(q.tmp)
  BY <1>1, <1>2 DEF RequestInv, Lined, Apart
<1>4. /\ q2.queue \in Seq(Ids(gr)) /\ Distinct(q2.queue)
      /\ Range(q2.queue) \subseteq Range(q.queue) \cup {id}
      /\ deferred => q2.queue = q.queue
  <2>1. q.queue \in Seq(Ids(gr)) /\ Distinct(q.queue)
    BY DEF RequestInv, Typed, Queued
  <2>2. CASE q2.queue = Append(q.queue, id) /\ ~deferred
    <3>1. id \in Ids(gr)
      BY <1>1 DEF ModelIds
    <3> QED BY <1>3, <2>1, <2>2, <3>1, AppendList
  <2>3. CASE q2.queue = q.queue
    BY <2>1, <2>3
  <2> QED BY <2>2, <2>3 DEF Started
<1>5. /\ q2.kept \in Seq(ModelIds(gr)) /\ Distinct(q2.kept)
      /\ Range(q2.kept) = Range(q.kept) \cup (IF keep THEN {id} ELSE {})
  <2>1. CASE keep
    BY <1>1, <1>3, <2>1, AppendList DEF RequestInv, Typed, Lined
  <2>2. CASE ~keep
    BY <2>2 DEF RequestInv, Typed, Lined
  <2> QED BY <2>1, <2>2
<1>6. Typed(gr, q2, S2)
  <2>1. \A x \in DOMAIN S2 : DOMAIN S2[x] = SessionFields
    BY DEF RequestInv, Typed, Started
  <2>2. q2.started \ q2.finished \subseteq DOMAIN S2 /\ DOMAIN S2 \subseteq Ids(gr)
    BY DEF RequestInv, Typed, Started
  <2> QED BY <1>1, <1>4, <1>5, <2>1, <2>2 DEF RequestInv, Typed
<1>7. Phases(q2)
  BY DEF RequestInv, Phases
<1>8. Queued(q2)
  BY <1>3, <1>4 DEF RequestInv, Queued
<1>9. Deferrals(q) = <<>> /\ Deferrals(q2) = <<>> /\ Range(<<>>) = {}
  BY EmptyList DEF Deferrals
<1>10. /\ Line(q2) \subseteq Line(q)
       /\ ~keep => id \notin Line(q2)
  BY <1>1, <1>3, <1>5, <1>9 DEF Line
<1>11. Pending(q2) \subseteq Pending(q)
  <2>1. CASE q2.status = "OK"
    BY <1>10, <2>1 DEF Pending
  <2>2. CASE q2.status # "OK"
    BY <1>1, <1>2, <2>2 DEF Pending
  <2> QED BY <2>1, <2>2
<1>12. q2.queue = q.queue \/ id \notin Pending(q2)
  <2>1. CASE q2.status = "OK"
    BY <1>4, <1>10, <2>1 DEF Pending
  <2>2. CASE q2.status # "OK"
    BY <1>1, <2>2 DEF Pending
  <2> QED BY <2>1, <2>2
<1>13. Lined(q2)
  <2>1. Apart(q2.kept, q2.left) /\ Apart(q2.kept, q2.tmp) /\ Apart(q2.left, q2.tmp)
    BY <1>1, <1>3, <1>5 DEF RequestInv, Lined, Apart
  <2>2. Apart(Deferrals(q2), q2.tmp) /\ Distinct(Deferrals(q2))
    BY <1>9, EmptyList DEF Apart
  <2>3. Pending(q2) \cap Range(q2.queue) = {} /\ Pending(q2) \subseteq q2.started \ q2.finished
    BY <1>4, <1>11, <1>12 DEF RequestInv, Lined
  <2>4. Line(q2) \subseteq q2.started
    BY <1>10 DEF RequestInv, Lined
  <2> QED BY <1>1, <1>5, <2>1, <2>2, <2>3, <2>4 DEF RequestInv, Lined
<1>14. Runs(q2, S2)
  <2>1. SUFFICES ASSUME NEW x \in DOMAIN S2, IsRunning(S2, x)
                 PROVE  x \in q2.started \ q2.finished /\ x \notin Range(q2.queue) /\ x \notin Line(q2)
    BY DEF Runs
  <2>2. CASE x = id
    <3>1. ~keep /\ q2.queue = q.queue
      BY <2>1, <2>2 DEF IsRunning, Started
    <3> QED BY <1>3, <1>10, <2>2, <3>1
  <2>3. CASE x # id
    <3>1. x \in DOMAIN S /\ IsRunning(S, x)
      BY <2>1, <2>3 DEF IsRunning, Started
    <3>2. x \in q.started \ q.finished /\ x \notin Range(q.queue) /\ x \notin Line(q)
      BY <3>1 DEF RequestInv, Runs
    <3> QED BY <1>4, <1>10, <2>3, <3>2
  <2> QED BY <2>2, <2>3
<1>15. Todo(q2, S2)
  BY DEF Todo
<1> QED BY <1>6, <1>7, <1>8, <1>13, <1>14, <1>15 DEF RequestInv

\* The lists are rearranged: nothing is started, finishes or is pushed.
Rearranged(q, q2) ==
    /\ DOMAIN q2 = Fields /\ q2.queue = q.queue /\ q2.started = q.started /\ q2.finished = q.finished
    /\ q2.status = q.status

LEMMA RearrangedLists ==
  ASSUME NEW gr, NEW q, NEW S, RequestInv(gr, q, S), NEW q2, Rearranged(q, q2),
         q2.deferred \in Seq(ModelIds(gr)) /\ q2.tmp \in Seq(ModelIds(gr)),
         q2.left \in Seq(ModelIds(gr)) /\ q2.kept \in Seq(ModelIds(gr)),
         Phases(q2), q2.pc # "schedule", Line(q2) \subseteq Line(q),
         /\ Distinct(q2.kept) /\ Distinct(q2.left) /\ Distinct(q2.tmp) /\ Distinct(Deferrals(q2)),
         /\ Apart(q2.kept, q2.left) /\ Apart(q2.kept, q2.tmp) /\ Apart(q2.left, q2.tmp),
         Apart(Deferrals(q2), q2.tmp),
         /\ Pending(q2) \cap Range(q2.queue) = {}
         /\ q2.pc # "disarm" => Pending(q2) \subseteq q2.started \ q2.finished
  PROVE  RequestInv(gr, q2, S)
<1>1. Typed(gr, q2, S)
  BY DEF RequestInv, Typed, Rearranged
<1>2. Queued(q2) /\ Todo(q2, S)
  BY DEF RequestInv, Queued, Rearranged, Todo
<1>3. Lined(q2)
  BY DEF RequestInv, Lined, Rearranged
<1>4. Runs(q2, S)
  BY DEF RequestInv, Runs, Rearranged
<1> QED BY <1>1, <1>2, <1>3, <1>4 DEF RequestInv

LEMMA ScheduledLists ==
  ASSUME NEW gr, NEW q, NEW S, RequestInv(gr, q, S), NEW q2, Rearranged(q, q2),
         q.pc = "schedule", q2.pc = "deferred", q2.left = q.deferred, q2.kept = <<>>,
         q2.tmp = q.tmp, q2.deferred = q.deferred
  PROVE  RequestInv(gr, q2, S)
<1>1. /\ Range(<<>>) = {} /\ Distinct(<<>>) /\ <<>> \in Seq(ModelIds(gr))
  BY EmptyList
<1>2. Deferrals(q2) = <<>> /\ Deferrals(q) = q.deferred
  BY DEF Deferrals
<1>3. Line(q2) \subseteq Line(q)
  BY <1>1, <1>2 DEF Line
<1>4. Pending(q2) \subseteq Pending(q)
  BY <1>3 DEF Pending, Rearranged
<1>5. /\ Pending(q2) \cap Range(q2.queue) = {}
      /\ q2.pc # "disarm" => Pending(q2) \subseteq q2.started \ q2.finished
  BY <1>4 DEF RequestInv, Lined, Rearranged
<1>6. Phases(q2)
  BY DEF Phases
<1>7. /\ Distinct(q2.kept) /\ Distinct(q2.left) /\ Distinct(q2.tmp) /\ Distinct(Deferrals(q2))
      /\ Apart(q2.kept, q2.left) /\ Apart(q2.kept, q2.tmp) /\ Apart(q2.left, q2.tmp)
      /\ Apart(Deferrals(q2), q2.tmp)
  BY <1>1, <1>2 DEF RequestInv, Lined, Apart
<1>8. /\ q2.deferred \in Seq(ModelIds(gr)) /\ q2.tmp \in Seq(ModelIds(gr))
      /\ q2.left \in Seq(ModelIds(gr)) /\ q2.kept \in Seq(ModelIds(gr))
  BY <1>1 DEF RequestInv, Typed
<1> QED BY <1>3, <1>5, <1>6, <1>7, <1>8, RearrangedLists

LEMMA MergedLists ==
  ASSUME NEW gr, NEW q, NEW S, RequestInv(gr, q, S), NEW q2, Rearranged(q, q2),
         q.pc = "deferred", q2.pc = IF q.started = q.finished THEN "ended" ELSE "pull",
         q2.deferred = q.kept \o q.left \o q.tmp,
         q2.left = <<>>, q2.kept = <<>>, q2.tmp = <<>>
  PROVE  RequestInv(gr, q2, S)
<1>1. /\ Range(<<>>) = {} /\ Distinct(<<>>) /\ <<>> \in Seq(ModelIds(gr))
  BY EmptyList
<1>2. /\ q.kept \in Seq(ModelIds(gr)) /\ q.left \in Seq(ModelIds(gr)) /\ q.tmp \in Seq(ModelIds(gr))
      /\ Distinct(q.kept) /\ Distinct(q.left) /\ Distinct(q.tmp)
      /\ Apart(q.kept, q.left) /\ Apart(q.kept, q.tmp) /\ Apart(q.left, q.tmp)
  BY DEF RequestInv, Typed, Lined
<1>3. /\ q.kept \o q.left \in Seq(ModelIds(gr)) /\ Distinct(q.kept \o q.left)
      /\ Range(q.kept \o q.left) = Range(q.kept) \cup Range(q.left)
  BY <1>2, ConcatList
<1>4. PICK c : c = q.kept \o q.left
  OBVIOUS
<1>5. /\ q2.deferred \in Seq(ModelIds(gr)) /\ Distinct(q2.deferred)
      /\ Range(q2.deferred) = Range(q.kept) \cup Range(q.left) \cup Range(q.tmp)
  <2>1. c \in Seq(ModelIds(gr)) /\ Distinct(c) /\ Apart(c, q.tmp) /\ q2.deferred = c \o q.tmp
    BY <1>2, <1>3, <1>4 DEF Apart
  <2>2. /\ c \o q.tmp \in Seq(ModelIds(gr)) /\ Distinct(c \o q.tmp)
        /\ Range(c \o q.tmp) = Range(c) \cup Range(q.tmp)
    BY <1>2, <2>1, ConcatList
  <2> QED BY <1>3, <1>4, <2>1, <2>2
<1>6. Deferrals(q2) = q2.deferred
  BY DEF Deferrals
<1>7. Line(q2) \subseteq Line(q)
  BY <1>1, <1>5, <1>6 DEF Line
<1>8. Pending(q2) \subseteq Pending(q)
  BY <1>1, <1>7 DEF Pending, Rearranged
<1>9. Phases(q2)
  BY DEF Phases, Rearranged
<1>10. /\ Distinct(q2.kept) /\ Distinct(q2.left) /\ Distinct(q2.tmp) /\ Distinct(Deferrals(q2))
      /\ Apart(q2.kept, q2.left) /\ Apart(q2.kept, q2.tmp) /\ Apart(q2.left, q2.tmp)
      /\ Apart(Deferrals(q2), q2.tmp)
  BY <1>1, <1>5, <1>6 DEF Apart
<1>11. /\ Pending(q2) \cap Range(q2.queue) = {}
       /\ q2.pc # "disarm" => Pending(q2) \subseteq q2.started \ q2.finished
  BY <1>8 DEF RequestInv, Lined, Rearranged
<1> QED BY <1>1, <1>5, <1>7, <1>9, <1>10, <1>11, RearrangedLists


\* The end of the loop over the sessions that are retried or disarmed.
LEMMA LoopEndedLists ==
  ASSUME NEW gr, NEW q, NEW S, RequestInv(gr, q, S), NEW q2, Rearranged(q, q2),
         q.pc \in {"retry", "disarm"}, q.left = <<>>, q2.pc \in {"pull", "ended"},
         q2.pc = "ended" => q.started = q.finished,
         q2.deferred = q.kept, q2.left = <<>>, q2.kept = <<>>, q2.tmp = q.tmp
  PROVE  RequestInv(gr, q2, S)
<1>1. /\ Range(<<>>) = {} /\ Distinct(<<>>) /\ <<>> \in Seq(ModelIds(gr))
  BY EmptyList
<1>2. q.tmp = <<>> /\ Deferrals(q2) = q.kept
  BY DEF RequestInv, Phases, Deferrals
<1>3. Line(q2) \subseteq Line(q)
  BY <1>1, <1>2 DEF Line
<1>4. CASE q.status = "OK"
  <2>1. Pending(q2) \subseteq Pending(q) /\ q.pc # "disarm"
    BY <1>3, <1>4 DEF Pending, Rearranged, RequestInv, Phases
  <2>2. /\ Pending(q2) \cap Range(q2.queue) = {}
        /\ q2.pc # "disarm" => Pending(q2) \subseteq q2.started \ q2.finished
    BY <2>1 DEF RequestInv, Lined, Rearranged
  <2>3. Phases(q2)
    BY <1>2 DEF Phases, Rearranged
  <2>4. /\ Distinct(q2.kept) /\ Distinct(q2.left) /\ Distinct(q2.tmp) /\ Distinct(Deferrals(q2))
        /\ Apart(q2.kept, q2.left) /\ Apart(q2.kept, q2.tmp) /\ Apart(q2.left, q2.tmp)
        /\ Apart(Deferrals(q2), q2.tmp)
    BY <1>1, <1>2 DEF Apart, RequestInv, Lined
  <2>5. /\ q2.deferred \in Seq(ModelIds(gr)) /\ q2.tmp \in Seq(ModelIds(gr))
        /\ q2.left \in Seq(ModelIds(gr)) /\ q2.kept \in Seq(ModelIds(gr))
    BY <1>1 DEF RequestInv, Typed
  <2> QED BY <1>3, <2>2, <2>3, <2>4, <2>5, RearrangedLists
<1>5. CASE q.status # "OK"
  <2>1. Pending(q2) = {}
    BY <1>1, <1>5 DEF Pending, Rearranged
  <2>2. Phases(q2)
    BY <1>2 DEF Phases, Rearranged
  <2>3. /\ Distinct(q2.kept) /\ Distinct(q2.left) /\ Distinct(q2.tmp) /\ Distinct(Deferrals(q2))
        /\ Apart(q2.kept, q2.left) /\ Apart(q2.kept, q2.tmp) /\ Apart(q2.left, q2.tmp)
        /\ Apart(Deferrals(q2), q2.tmp)
    BY <1>1, <1>2 DEF Apart, RequestInv, Lined
  <2>4. /\ q2.deferred \in Seq(ModelIds(gr)) /\ q2.tmp \in Seq(ModelIds(gr))
        /\ q2.left \in Seq(ModelIds(gr)) /\ q2.kept \in Seq(ModelIds(gr))
    BY <1>1 DEF RequestInv, Typed
  <2> QED BY <1>3, <2>1, <2>2, <2>3, <2>4, RearrangedLists
<1> QED BY <1>4, <1>5

LEMMA TimedOutLists ==
  ASSUME NEW gr, NEW q, NEW S, RequestInv(gr, q, S), NEW q2, Rearranged(q, q2),
         q.pc = "pull", q.queue = <<>>, q2.pc = IF q.status = "OK" THEN "retry" ELSE "disarm",
         q2.left = q.deferred, q2.kept = <<>>, q2.tmp = q.tmp, q2.deferred = q.deferred
  PROVE  RequestInv(gr, q2, S)
<1>1. /\ Range(<<>>) = {} /\ Distinct(<<>>) /\ <<>> \in Seq(ModelIds(gr))
  BY EmptyList
<1>2. q.tmp = <<>> /\ Deferrals(q2) = <<>> /\ Deferrals(q) = q.deferred
  BY DEF RequestInv, Phases, Deferrals
<1>3. Line(q2) \subseteq Line(q)
  BY <1>1, <1>2 DEF Line
<1>4. /\ Pending(q2) \cap Range(q2.queue) = {}
      /\ q2.pc # "disarm" => Pending(q2) \subseteq q2.started \ q2.finished
  <2>1. Pending(q2) \cap Range(q2.queue) = {}
    BY <1>1 DEF Rearranged
  <2>2. ASSUME q2.pc # "disarm"
        PROVE  Pending(q2) \subseteq q2.started \ q2.finished
    <3>1. q.status = "OK" /\ Pending(q2) \subseteq Pending(q)
      BY <1>3, <2>2 DEF Pending, Rearranged
    <3> QED BY <3>1 DEF RequestInv, Lined, Rearranged
  <2> QED BY <2>1, <2>2
<1>5. Phases(q2)
  BY <1>2 DEF Phases, Rearranged
<1>6. /\ Distinct(q2.kept) /\ Distinct(q2.left) /\ Distinct(q2.tmp) /\ Distinct(Deferrals(q2))
      /\ Apart(q2.kept, q2.left) /\ Apart(q2.kept, q2.tmp) /\ Apart(q2.left, q2.tmp)
      /\ Apart(Deferrals(q2), q2.tmp)
  BY <1>1, <1>2 DEF Apart, RequestInv, Lined
<1>7. /\ q2.deferred \in Seq(ModelIds(gr)) /\ q2.tmp \in Seq(ModelIds(gr))
      /\ q2.left \in Seq(ModelIds(gr)) /\ q2.kept \in Seq(ModelIds(gr))
  BY <1>1 DEF RequestInv, Typed
<1> QED BY <1>3, <1>4, <1>5, <1>6, <1>7, RearrangedLists

\* One session is disarmed, or kept because it still waits.
LEMMA DisarmedLists ==
  ASSUME NEW gr, NEW q, NEW S, RequestInv(gr, q, S), NEW q2,
         q.pc = "disarm", q.left # <<>>, NEW id, id = Head(q.left),
         DOMAIN q2 = Fields, q2.pc = q.pc, q2.status = q.status, q2.queue = q.queue,
         q2.started = q.started, q2.deferred = q.deferred, q2.tmp = q.tmp, q2.left = Tail(q.left),
         \/ q2.kept = Append(q.kept, id) /\ q2.finished = q.finished
         \/ q2.kept = q.kept /\ q2.finished = q.finished \cup {id}
  PROVE  /\ RequestInv(gr, q2, S)
         /\ id \in q.started /\ id \in Ids(gr) /\ id \notin Range(q.queue) /\ ~IsRunning(S, id)
<1>1. /\ id \in ModelIds(gr) /\ id \in Range(q.left) /\ Tail(q.left) \in Seq(ModelIds(gr))
      /\ Range(q.left) = Range(Tail(q.left)) \cup {id}
      /\ Distinct(Tail(q.left)) /\ id \notin Range(Tail(q.left))
  BY TailList DEF RequestInv, Typed, Lined
<1>2. id \in Line(q) /\ id \in Pending(q)
  BY <1>1 DEF Line, Pending
<1>3. /\ id \in q.started /\ id \notin Range(q.queue) /\ ~IsRunning(S, id)
      /\ id \notin Range(q.kept) /\ id \notin Range(q.tmp)
  BY <1>1, <1>2 DEF RequestInv, Lined, Runs, Apart, IsRunning
<1>4. /\ q2.kept \in Seq(ModelIds(gr)) /\ Distinct(q2.kept)
      /\ Range(q2.kept) \subseteq Range(q.kept) \cup {id}
  <2>1. CASE q2.kept = Append(q.kept, id)
    BY <1>1, <1>3, <2>1, AppendList DEF RequestInv, Typed, Lined
  <2>2. CASE q2.kept = q.kept
    BY <2>2 DEF RequestInv, Typed, Lined
  <2> QED BY <2>1, <2>2
<1>5. q2.finished \subseteq q.finished \cup {id} /\ q.finished \subseteq q2.finished
  OBVIOUS
<1>6. Typed(gr, q2, S)
  BY <1>1, <1>3, <1>4, <1>5 DEF RequestInv, Typed
<1>7. Phases(q2) /\ Todo(q2, S)
  BY DEF RequestInv, Phases, Todo
<1>8. Queued(q2)
  BY <1>3, <1>5 DEF RequestInv, Queued
<1>9. Deferrals(q) = <<>> /\ Deferrals(q2) = <<>> /\ Range(<<>>) = {} /\ Distinct(<<>>)
  BY EmptyList DEF Deferrals
<1>10. Line(q2) \subseteq Line(q)
  BY <1>1, <1>4, <1>9 DEF Line
<1>11. q.status # "OK" /\ Pending(q2) \subseteq Pending(q)
  BY <1>1 DEF RequestInv, Phases, Pending
<1>12. Lined(q2)
  <2>1. Apart(q2.kept, q2.left) /\ Apart(q2.kept, q2.tmp) /\ Apart(q2.left, q2.tmp)
        /\ Apart(Deferrals(q2), q2.tmp)
    BY <1>1, <1>3, <1>4, <1>9 DEF RequestInv, Lined, Apart
  <2>2. Pending(q2) \cap Range(q2.queue) = {} /\ Line(q2) \subseteq q2.started
    BY <1>10, <1>11 DEF RequestInv, Lined
  <2> QED BY <1>1, <1>4, <1>9, <2>1, <2>2 DEF RequestInv, Lined
<1>13. Runs(q2, S)
  BY <1>2, <1>3, <1>5, <1>10 DEF RequestInv, Runs
<1> QED BY <1>1, <1>3, <1>6, <1>7, <1>8, <1>12, <1>13 DEF RequestInv, ModelIds

\* The callback of a session pushes it.
LEMMA CompletedLists ==
  ASSUME NEW gr, NEW q, NEW S, RequestInv(gr, q, S), NEW q2, NEW S2, NEW id, IsRunning(S, id),
         DOMAIN q2 = Fields, q2.pc = q.pc, q2.status = q.status, q2.queue = Append(q.queue, id),
         q2.started = q.started, q2.finished = q.finished, q2.deferred = q.deferred,
         q2.tmp = q.tmp, q2.left = q.left, q2.kept = q.kept, q2.todo = q.todo,
         DOMAIN S2 = DOMAIN S, \A x \in DOMAIN S \ {id} : S2[x] = S[x],
         DOMAIN S2[id] = SessionFields, S2[id].run # "running", S2[id].remaining = S[id].remaining
  PROVE  RequestInv(gr, q2, S2)
<1>1. id \in DOMAIN S /\ id \in Ids(gr)
  BY DEF IsRunning, RequestInv, Typed
<1>2. id \in q.started \ q.finished /\ id \notin Range(q.queue) /\ id \notin Line(q)
  BY <1>1 DEF RequestInv, Runs
<1>3. /\ q2.queue \in Seq(Ids(gr)) /\ Distinct(q2.queue) /\ Range(q2.queue) = Range(q.queue) \cup {id}
  BY <1>1, <1>2, AppendList DEF RequestInv, Typed, Queued
<1>4. \A x \in DOMAIN S2 : DOMAIN S2[x] = SessionFields
  BY DEF RequestInv, Typed
<1>5. Typed(gr, q2, S2)
  BY <1>3, <1>4 DEF RequestInv, Typed
<1>6. Phases(q2)
  BY DEF RequestInv, Phases
<1>7. Queued(q2)
  BY <1>2, <1>3 DEF RequestInv, Queued
<1>8. Deferrals(q2) = Deferrals(q) /\ Line(q2) = Line(q) /\ Pending(q2) = Pending(q)
  BY DEF Deferrals, Line, Pending
<1>9. Pending(q) \subseteq Line(q)
  BY DEF Pending, Line, Deferrals
<1>10. Lined(q2)
  BY <1>2, <1>3, <1>8, <1>9 DEF RequestInv, Lined
<1>11. Runs(q2, S2)
  <2>1. SUFFICES ASSUME NEW x \in DOMAIN S2, IsRunning(S2, x)
                 PROVE  x \in q2.started \ q2.finished /\ x \notin Range(q2.queue) /\ x \notin Line(q2)
    BY DEF Runs
  <2>2. x # id
    BY <2>1 DEF IsRunning
  <2>3. x \in DOMAIN S /\ IsRunning(S, x)
    BY <2>1, <2>2 DEF IsRunning
  <2> QED BY <1>3, <1>8, <2>2, <2>3 DEF RequestInv, Runs
<1>12. Todo(q2, S2)
  BY <1>2 DEF RequestInv, Todo
<1> QED BY <1>5, <1>6, <1>7, <1>10, <1>11, <1>12 DEF RequestInv


-----------------------------------------------------------------------------
(* The streams, step by step *)

\* A step of request r that concerns its session id; the other sessions keep
\* their place.
SessionStep(gr, P, R, SS, P2, R2, SS2, r, id) ==
    /\ r \in DOMAIN R /\ id \in Ids(gr) /\ DOMAIN P2 = DOMAIN P /\ DOMAIN R2 = DOMAIN R
    /\ \A x \in DOMAIN R \ {r} : R2[x] = R[x] /\ SS2[x] = SS[x]
    /\ \A m \in DOMAIN P : /\ PoolTyped(Gids(gr, DOMAIN R), P2[m])
                           /\ Asking(P2[m]) \subseteq Asking(P[m]) \cup {Gid(r, id)}
                           /\ P2[m].held \subseteq P[m].held \cup {Gid(r, id)}
    /\ \A x \in Ids(gr) \ {id} : /\ Asks(R[r], SS[r], x) => Asks(R2[r], SS2[r], x)
                                 /\ Holds(R[r], SS[r], x) => Holds(R2[r], SS2[r], x)
    /\ \A m \in DOMAIN P :
          /\ Gid(r, id) \in Asking(P2[m]) =>
                Place(gr, DOMAIN R, m, Gid(r, id)) /\ Asks(R2[r], SS2[r], id)
          /\ Gid(r, id) \in P2[m].held =>
                Place(gr, DOMAIN R, m, Gid(r, id)) /\ Holds(R2[r], SS2[r], id)

LEMMA PoolStep ==
  ASSUME NEW gr, NEW P, NEW R, NEW SS, PoolInv(gr, P, R, SS), NEW P2, NEW R2, NEW SS2,
         NEW r, NEW id, SessionStep(gr, P, R, SS, P2, R2, SS2, r, id)
  PROVE  PoolInv(gr, P2, R2, SS2)
<1> USE DEF SessionStep
<1>1. id = <<id[1], id[2]>> /\ Gid(r, id)[1] = r /\ <<Gid(r, id)[2], Gid(r, id)[3]>> = id
  BY DEF Ids, Gid
<1>2. ASSUME NEW gid, gid \in Gids(gr, DOMAIN R), gid # Gid(r, id), gid[1] = r
      PROVE  <<gid[2], gid[3]>> \in Ids(gr) \ {id}
  BY <1>1, <1>2 DEF Gids, Gid, Ids
<1>3. ASSUME NEW m \in DOMAIN P, NEW gid \in Asking(P2[m])
      PROVE  Place(gr, DOMAIN R, m, gid) /\ Asks(R2[gid[1]], SS2[gid[1]], <<gid[2], gid[3]>>)
  <2>1. CASE gid = Gid(r, id)
    BY <1>1, <1>3, <2>1
  <2>2. CASE gid # Gid(r, id)
    <3>1. Place(gr, DOMAIN R, m, gid) /\ Asks(R[gid[1]], SS[gid[1]], <<gid[2], gid[3]>>)
      BY <1>3, <2>2 DEF PoolInv
    <3>2. gid \in Gids(gr, DOMAIN R) /\ gid[1] \in DOMAIN R
      BY <3>1 DEF Place, Gids
    <3>3. CASE gid[1] = r
      BY <1>2, <2>2, <3>1, <3>2, <3>3
    <3>4. CASE gid[1] # r
      BY <3>1, <3>2, <3>4
    <3> QED BY <3>3, <3>4
  <2> QED BY <2>1, <2>2
<1>4. ASSUME NEW m \in DOMAIN P, NEW gid \in P2[m].held
      PROVE  Place(gr, DOMAIN R, m, gid) /\ Holds(R2[gid[1]], SS2[gid[1]], <<gid[2], gid[3]>>)
  <2>1. CASE gid = Gid(r, id)
    BY <1>1, <1>4, <2>1
  <2>2. CASE gid # Gid(r, id)
    <3>1. Place(gr, DOMAIN R, m, gid) /\ Holds(R[gid[1]], SS[gid[1]], <<gid[2], gid[3]>>)
      BY <1>4, <2>2 DEF PoolInv
    <3>2. gid \in Gids(gr, DOMAIN R) /\ gid[1] \in DOMAIN R
      BY <3>1 DEF Place, Gids
    <3>3. CASE gid[1] = r
      BY <1>2, <2>2, <3>1, <3>2, <3>3
    <3>4. CASE gid[1] # r
      BY <3>1, <3>2, <3>4
    <3> QED BY <3>3, <3>4
  <2> QED BY <2>1, <2>2
<1> QED BY <1>3, <1>4 DEF PoolInv

\* What validation establishes for the graph of a definition in use.
LEMMA ValidGraph ==
  ASSUME Inv, definition.status = "OK"
  PROVE  /\ IsFiniteSet(NodeNames(g)) /\ WellConnected(g)
         /\ Inside(g) \in Levels(g) /\ WellNested(g, Inside(g))
         /\ \E s \in Scenarios : g = s.graph /\ HasLengths(s)
<1>1. PICK s \in Scenarios : definition.graph = s.graph /\ definition.status = Validate(s.graph)
  BY DEF Inv, AllInv, DefinitionInv
<1>2. IsGraph(g) /\ Validate(g) = "OK" /\ OrderEnsured(g) /\ HasLengths(s)
  BY <1>1, ScenariosAssumption DEF g
<1>3. /\ IsFiniteSet(NodeNames(g)) /\ WellConnected(g)
      /\ \E inside \in Levels(g) : WellNested(g, inside)
  BY <1>2, ValidatedGraph
<1> QED BY <1>1, <1>2, <1>3 DEF Inside, g

LEMMA NodeFound ==
  ASSUME NEW gr, NEW n \in NodeNames(gr)
  PROVE  NodeOf(gr, n) \in Infos(gr) /\ NodeOf(gr, n).name = n
  BY DEF NodeOf, NodeNames

\* A session in the pool is in the pool of its model.
LEMMA OwnPool ==
  ASSUME Inv, NEW r \in DOMAIN req, NEW id \in Ids(g), NEW m \in DOMAIN pool,
         Gid(r, id) \in Asking(pool[m]) \cup pool[m].held
  PROVE  /\ m = ModelOf(id[1]) /\ NodeOf(g, id[1]).kind = "DL"
         /\ Gid(r, id) \in Asking(pool[m]) => Asks(req[r], sessions[r], id)
         /\ Gid(r, id) \in pool[m].held => Holds(req[r], sessions[r], id)
<1>1. /\ Gid(r, id)[1] = r /\ Gid(r, id)[2] = id[1] /\ <<Gid(r, id)[2], Gid(r, id)[3]>> = id
  BY DEF Gid, Ids
<1>2. PoolInv(g, pool, req, sessions)
  BY DEF Inv, AllInv, g
<1>3. Place(g, DOMAIN req, m, Gid(r, id))
  BY <1>2 DEF PoolInv
<1>4. /\ Gid(r, id) \in Asking(pool[m]) => Asks(req[r], sessions[r], id)
      /\ Gid(r, id) \in pool[m].held => Holds(req[r], sessions[r], id)
  BY <1>1, <1>2 DEF PoolInv
<1> QED BY <1>1, <1>3, <1>4 DEF Place, Model, ModelOf


-----------------------------------------------------------------------------
(* One call of execute() *)

\* Pools that differ from the present ones at most by the session gid.
Moved(gid, P) ==
    /\ DOMAIN P = DOMAIN pool
    /\ \A m \in DOMAIN pool :
          /\ PoolTyped(Gids(g, DOMAIN req), P[m])
          /\ Asking(P[m]) \subseteq Asking(pool[m]) \cup {gid}
          /\ P[m].held \subseteq pool[m].held \cup {gid}
          /\ gid \in Asking(P[m]) \cup P[m].held => Place(g, DOMAIN req, m, gid)

\* The session after it; s is the session before.
Kept(s, t, count) ==
    /\ DOMAIN t = SessionFields /\ t.meta = s.meta /\ t.remaining = s.remaining
    /\ t.count \in {s.count, count}

Outcomes(r, id, count, o) ==
    /\ Moved(Gid(r, id), o.pool) /\ Kept(sessions[r][id], o.session, count)
    /\ Computes(NodeOf(g, id[1])) /\ o.status \in {"OK", "PIPELINE_STREAM_ID_NOT_READY_YET"} =>
          o.session.used = TRUE
    /\ \/ /\ o.push = TRUE /\ ~Deferred(o) /\ o.session.run # "running"
          /\ \A m \in DOMAIN pool : Gid(r, id) \notin Asking(o.pool[m])
       \/ /\ o.push = FALSE /\ o.status = "OK" /\ o.session.run = "running"
          /\ \A m \in DOMAIN pool : Gid(r, id) \notin Asking(o.pool[m])
       \/ /\ o.push = FALSE /\ Deferred(o) /\ o.session.run # "running"
          /\ \A m \in DOMAIN pool : Gid(r, id) \notin o.pool[m].held

\* The caller's side: a session that is neither running nor in the queue.
CanExecute(r, id) ==
    /\ definition.status = "OK" /\ r \in DOMAIN req /\ id \in DOMAIN sessions[r] /\ id \in Ids(g)
    /\ DOMAIN sessions[r][id] = SessionFields
    /\ ~IsRunning(sessions[r], id) /\ id \notin Range(req[r].queue)

LEMMA NotHeld ==
  ASSUME Inv, NEW r, NEW id, CanExecute(r, id), NEW m \in DOMAIN pool
  PROVE  Gid(r, id) \notin pool[m].held
  BY OwnPool DEF CanExecute, Holds

LEMMA SamePool ==
  ASSUME Inv, NEW r, NEW id, CanExecute(r, id)
  PROVE  Moved(Gid(r, id), pool)
<1>1. PoolInv(g, pool, req, sessions)
  BY DEF Inv, AllInv, g
<1> QED BY <1>1 DEF PoolInv, Moved

LEMMA ModelInPool ==
  ASSUME Inv, NEW r, NEW id, CanExecute(r, id), NodeOf(g, id[1]).kind = "DL"
  PROVE  /\ ModelOf(id[1]) \in DOMAIN pool
         /\ Place(g, DOMAIN req, ModelOf(id[1]), Gid(r, id))
<1>1. id[1] \in NodeNames(g) /\ id[2] \in Keys(g) /\ r \in DOMAIN req
  BY DEF CanExecute, Ids
<1>2. NodeOf(g, id[1]).model # {} /\ NodeOf(g, id[1]) \in Infos(g)
  BY <1>1, ValidGraph, NodeFound DEF WellConnected, CanExecute
<1>3. ModelOf(id[1]) \in NodeOf(g, id[1]).model
  BY <1>2 DEF ModelOf
<1>4. DOMAIN pool = Models(g)
  BY DEF Inv, AllInv, DefinitionInv, g
<1>5. ModelOf(id[1]) \in DOMAIN pool
  BY <1>2, <1>3, <1>4 DEF Models
<1>6. Gid(r, id) \in Gids(g, DOMAIN req) /\ Gid(r, id)[2] = id[1]
  BY <1>1 DEF Gid, Gids
<1> QED BY <1>5, <1>6 DEF Place, Model, ModelOf

\* CustomNodeSession::execute, and the entry and exit nodes.
LEMMA OtherOutcomes ==
  ASSUME Inv, NEW r, NEW id, CanExecute(r, id), NodeOf(g, id[1]).kind # "DL",
         NEW fail, NEW count, NEW o, o = Execute(r, id, fail, count)
  PROVE  Outcomes(r, id, count, o)
<1>1. \A m \in DOMAIN pool : Gid(r, id) \notin Asking(pool[m])
  BY OwnPool DEF CanExecute
<1>2. Moved(Gid(r, id), pool)
  BY SamePool
<1>3. DOMAIN sessions[r][id] = SessionFields /\ sessions[r][id].run # "running"
  BY DEF CanExecute, IsRunning
<1>4. CASE NodeOf(g, id[1]).kind = "CUSTOM"
  <2>1. o = ExecuteCustom(r, id, fail, count)
    BY <1>4 DEF Execute
  <2>2. PICK used : used = [sessions[r][id] EXCEPT !.used = TRUE]
    OBVIOUS
  <2>3. /\ DOMAIN used = SessionFields /\ used.meta = sessions[r][id].meta
        /\ used.remaining = sessions[r][id].remaining /\ used.count = sessions[r][id].count
        /\ used.run # "running" /\ used.used = TRUE
    BY <1>3, <2>2 DEF SessionFields
  <2>4. /\ o.pool = pool /\ o.push = TRUE
        /\ o.status \in {"OK", "NODE_LIBRARY_EXECUTION_FAILED", "NODE_LIBRARY_INVALID_CONTENT_SIZE"}
        /\ \/ o.session = used
           \/ \E run \in {"failed", "done"} : o.session = [used EXCEPT !.run = run, !.count = count]
    <3>1. CASE fail = "library"
      <4>1. o = Outcome("NODE_LIBRARY_EXECUTION_FAILED", pool, used, TRUE)
        BY <2>1, <2>2, <3>1 DEF ExecuteCustom, CreateTensorStatus
      <4>2. /\ o.pool = pool /\ o.push = TRUE /\ o.status = "NODE_LIBRARY_EXECUTION_FAILED"
            /\ o.session = used
        BY <4>1 DEF Outcome
      <4> QED BY <4>2
    <3>2. CASE fail = "output"
      <4>1. o = Outcome("NODE_LIBRARY_INVALID_CONTENT_SIZE", pool, used, TRUE)
        BY <2>1, <2>2, <3>2 DEF ExecuteCustom, CreateTensorStatus
      <4>2. /\ o.pool = pool /\ o.push = TRUE /\ o.status = "NODE_LIBRARY_INVALID_CONTENT_SIZE"
            /\ o.session = used
        BY <4>1 DEF Outcome
      <4> QED BY <4>2
    <3>3. CASE fail \notin {"library", "output"}
      <4>1. PICK run : run = IF fail = "missing" THEN "failed" ELSE "done"
        OBVIOUS
      <4>2. o = Outcome("OK", pool, [used EXCEPT !.run = run, !.count = count], TRUE)
        BY <2>1, <2>2, <3>3, <4>1 DEF ExecuteCustom, CreateTensorStatus
      <4>3. run \in {"failed", "done"}
        BY <4>1
      <4>4. /\ o.pool = pool /\ o.push = TRUE /\ o.status = "OK"
            /\ o.session = [used EXCEPT !.run = run, !.count = count]
        BY <4>2 DEF Outcome
      <4> QED BY <4>3, <4>4, Zenon
    <3> QED BY <3>1, <3>2, <3>3
  <2>5. Kept(sessions[r][id], o.session, count) /\ o.session.run # "running" /\ o.session.used = TRUE
    BY <2>3, <2>4 DEF Kept, SessionFields
  <2> QED BY <1>1, <1>2, <2>4, <2>5 DEF Outcomes, Deferred
<1>5. CASE NodeOf(g, id[1]).kind # "CUSTOM"
  <2>1. o = Outcome("OK", pool, sessions[r][id], TRUE)
    BY <1>5 DEF Execute
  <2>2. ~Computes(NodeOf(g, id[1]))
    BY <1>5 DEF Computes
  <2>3. o.pool = pool /\ o.push = TRUE /\ o.status = "OK" /\ o.session = sessions[r][id]
    BY <2>1 DEF Outcome
  <2> QED BY <1>1, <1>2, <1>3, <2>2, <2>3 DEF Outcomes, Deferred, Kept
<1> QED BY <1>4, <1>5


\* RequestExecuteRequiredResources, or the guard that is there already.
Ready(r, id, fail) ==
    IF HasGuard(Gid(r, id)) THEN Outcome("OK", pool, [sessions[r][id] EXCEPT !.used = TRUE], FALSE)
    ELSE RequestExecuteRequiredResources(sessions[r][id], Gid(r, id), fail)

Readied(s, gid, m, ready) ==
    /\ Moved(gid, ready.pool) /\ \A x \in DOMAIN pool : gid \notin ready.pool[x].held
    /\ \A x \in DOMAIN pool \ {m} : gid \notin Asking(ready.pool[x])
    /\ \/ ready.session = s
       \/ ready.session = [s EXCEPT !.used = TRUE]
    /\ \/ /\ ready.status = "OK" /\ ready.push = FALSE
          /\ ready.session = [s EXCEPT !.used = TRUE]
       \/ /\ ready.status \notin {"OK", "PIPELINE_STREAM_ID_NOT_READY_YET"} /\ ready.push = TRUE
          /\ \A x \in DOMAIN pool : gid \notin Asking(ready.pool[x])

LEMMA ReadyOutcome ==
  ASSUME Inv, NEW r, NEW id, CanExecute(r, id), NodeOf(g, id[1]).kind = "DL", NEW fail
  PROVE  Readied(sessions[r][id], Gid(r, id), ModelOf(id[1]), Ready(r, id, fail))
<1> DEFINE gid == Gid(r, id)
<1> DEFINE m == ModelOf(id[1])
<1>0. PICK ready : ready = Ready(r, id, fail)
  OBVIOUS
<1> HIDE DEF gid, m
<1>1. Moved(gid, pool)
  BY SamePool DEF gid
<1>2. \A x \in DOMAIN pool : gid \notin pool[x].held
  BY NotHeld DEF gid
<1>3. m \in DOMAIN pool /\ Place(g, DOMAIN req, m, gid) /\ gid \in Gids(g, DOMAIN req)
  BY ModelInPool DEF Place, gid, m
<1>4. \A x \in DOMAIN pool \ {m} : gid \notin Asking(pool[x])
  BY OwnPool DEF CanExecute, gid, m
<1>5. gid[2] = id[1] /\ m = ModelOf(gid[2])
  BY DEF Gid, gid, m
<1>6. PICK used : used = [sessions[r][id] EXCEPT !.used = TRUE]
  OBVIOUS
<1>7. ASSUME HasGuard(gid)
      PROVE  Readied(sessions[r][id], gid, m, ready)
  <2>1. ready.pool = pool /\ ready.status = "OK" /\ ready.push = FALSE /\ ready.session = used
    BY <1>0, <1>6, <1>7 DEF Outcome, Ready, gid
  <2> QED BY <1>1, <1>2, <1>4, <1>6, <2>1 DEF Readied
<1>8. ASSUME ~HasGuard(gid)
      PROVE  Readied(sessions[r][id], gid, m, ready)
  <2>1. gid \notin Asking(pool[m])
    BY <1>5, <1>8 DEF HasGuard, Asking
  <2>2. PICK wrong : wrong = {x \in DOMAIN sessions[r][id].inputs :
              TensorStatus(NodeOf(g, id[1]).inputs[x], sessions[r][id].inputs[x].dims) # "OK"}
    OBVIOUS
  <2>3. CASE fail = "model"
    <3>1. /\ ready.pool = pool /\ ready.status = "MODEL_VERSION_NOT_LOADED_YET" /\ ready.push = TRUE
          /\ ready.session = sessions[r][id]
      BY <1>0, <1>8, <2>3 DEF Outcome, Ready, RequestExecuteRequiredResources, gid
    <3> QED BY <1>1, <1>2, <1>4, <2>1, <3>1 DEF Readied
  <2>4. CASE fail # "model" /\ wrong = {}
    <3>0. ready = RequestExecuteRequiredResources(sessions[r][id], gid, fail)
      BY <1>0, <1>8 DEF Ready, gid
    <3>1. PICK asked : asked = GetIdleStream(pool[m], gid)
      OBVIOUS
    <3>2. /\ ready.pool = [pool EXCEPT ![m] = asked] /\ ready.status = "OK" /\ ready.push = FALSE
          /\ ready.session = used
      BY <1>5, <1>6, <1>8, <2>2, <2>4, <3>1, <3>0 DEF Outcome, RequestExecuteRequiredResources
    <3>3. /\ DOMAIN ready.pool = DOMAIN pool /\ ready.pool[m] = asked
          /\ \A x \in DOMAIN pool \ {m} : ready.pool[x] = pool[x]
      BY <1>3, <3>2
    <3>4. PoolTyped(Gids(g, DOMAIN req), pool[m])
      BY <1>1, <1>3 DEF Moved
    <3>5. /\ PoolTyped(Gids(g, DOMAIN req), asked) /\ Asking(asked) = Asking(pool[m]) \cup {gid}
          /\ asked.held = pool[m].held
      BY <1>3, <2>1, <3>1, <3>4, Requested1
    <3>6. Moved(gid, ready.pool)
      BY <1>1, <1>3, <3>3, <3>5 DEF Moved
    <3>7. \A x \in DOMAIN pool : gid \notin ready.pool[x].held
      BY <1>2, <3>3, <3>5
    <3> QED BY <1>4, <1>6, <3>2, <3>3, <3>6, <3>7 DEF Readied
  <2>5. CASE fail # "model" /\ wrong # {}
    <3>0. ready = RequestExecuteRequiredResources(sessions[r][id], gid, fail)
      BY <1>0, <1>8 DEF Ready, gid
    <3>1. PICK x : x = CHOOSE y \in wrong : TRUE
      OBVIOUS
    <3>2. x \in wrong
      BY <2>5, <3>1
    <3>3. PICK status : status = TensorStatus(NodeOf(g, id[1]).inputs[x], sessions[r][id].inputs[x].dims)
      OBVIOUS
    <3>4. status # "OK"
      BY <2>2, <3>2, <3>3
    <3>5. status # "PIPELINE_STREAM_ID_NOT_READY_YET"
      BY <3>3 DEF TensorStatus
    <3>6. ready.pool = pool /\ ready.status = status /\ ready.push = TRUE /\ ready.session = used
      BY <1>5, <1>6, <1>8, <2>2, <2>5, <3>0, <3>1, <3>3 DEF Outcome, RequestExecuteRequiredResources
    <3> QED BY <1>1, <1>2, <1>4, <1>6, <2>1, <3>4, <3>5, <3>6 DEF Readied
  <2> QED BY <2>3, <2>4, <2>5
<1>9. Readied(sessions[r][id], gid, m, ready)
  BY <1>7, <1>8
<1> QED BY <1>0, <1>9 DEF gid, m

\* DLNodeSession::execute.
LEMMA DLOutcomes ==
  ASSUME Inv, NEW r, NEW id, CanExecute(r, id), NodeOf(g, id[1]).kind = "DL",
         NEW fail, NEW count, NEW o, o = Execute(r, id, fail, count)
  PROVE  Outcomes(r, id, count, o)
<1>1. PICK gid : gid = Gid(r, id)
  OBVIOUS
<1>2. PICK m : m = ModelOf(id[1])
  OBVIOUS
<1>3. PICK ready : ready = Ready(r, id, fail)
  OBVIOUS
<1>4. PICK taken : taken = [ready.pool EXCEPT ![m].granted = @ \ {gid}, ![m].held = @ \cup {gid}]
  OBVIOUS
<1>5. o = IF ready.status # "OK" THEN ready
          ELSE IF gid \notin ready.pool[m].granted
               THEN Outcome("PIPELINE_STREAM_ID_NOT_READY_YET", ready.pool, ready.session, FALSE)
          ELSE IF fail = "start" THEN Outcome("OV_INTERNAL_INFERENCE_ERROR", taken, ready.session, TRUE)
          ELSE Outcome("OK", taken, [ready.session EXCEPT !.run = "running"], FALSE)
  <2>1. o = ExecuteDL(r, id, fail)
    BY DEF Execute
  <2> QED BY <1>1, <1>2, <1>3, <1>4, <2>1 DEF ExecuteDL, Ready, Gid
<1>6. /\ Moved(gid, ready.pool) /\ \A x \in DOMAIN pool : gid \notin ready.pool[x].held
      /\ \A x \in DOMAIN pool \ {m} : gid \notin Asking(ready.pool[x])
      /\ \/ ready.session = sessions[r][id]
         \/ ready.session = [sessions[r][id] EXCEPT !.used = TRUE]
      /\ \/ /\ ready.status = "OK" /\ ready.push = FALSE
            /\ ready.session = [sessions[r][id] EXCEPT !.used = TRUE]
         \/ /\ ready.status \notin {"OK", "PIPELINE_STREAM_ID_NOT_READY_YET"} /\ ready.push = TRUE
            /\ \A x \in DOMAIN pool : gid \notin Asking(ready.pool[x])
  <2>1. Readied(sessions[r][id], gid, m, ready)
    BY <1>1, <1>2, <1>3, ReadyOutcome
  <2> QED BY <2>1 DEF Readied
<1>7. DOMAIN sessions[r][id] = SessionFields /\ sessions[r][id].run # "running"
  BY DEF CanExecute, IsRunning
<1>8. Kept(sessions[r][id], ready.session, count) /\ ready.session.run # "running"
  BY <1>6, <1>7 DEF Kept, SessionFields
<1>9. CASE ready.status # "OK"
  <2>1. o = ready
    BY <1>5, <1>9
  <2> QED BY <1>1, <1>6, <1>8, <1>9, <2>1 DEF Outcomes, Deferred
<1>10. CASE ready.status = "OK"
  <2>1. ready.session.used = TRUE
    BY <1>6, <1>7, <1>10 DEF SessionFields
  <2>2. CASE gid \notin ready.pool[m].granted
    <3>1. /\ o.status = "PIPELINE_STREAM_ID_NOT_READY_YET" /\ o.pool = ready.pool
          /\ o.session = ready.session /\ o.push = FALSE
      BY <1>5, <1>10, <2>2 DEF Outcome
    <3> QED BY <1>1, <1>6, <1>8, <2>1, <3>1 DEF Outcomes, Deferred
  <2>3. CASE gid \in ready.pool[m].granted
    <3>1. m \in DOMAIN pool /\ DOMAIN ready.pool = DOMAIN pool
      BY <1>2, <1>6, ModelInPool DEF Moved
    <3>2. PICK p : p = ready.pool[m]
      OBVIOUS
    <3>3. PoolTyped(Gids(g, DOMAIN req), p)
      BY <1>6, <3>1, <3>2 DEF Moved
    <3>4. /\ DOMAIN taken = DOMAIN pool /\ \A x \in DOMAIN pool \ {m} : taken[x] = ready.pool[x]
          /\ DOMAIN taken[m] = DOMAIN p /\ taken[m].waiting = p.waiting
          /\ taken[m].granted = p.granted \ {gid} /\ taken[m].held = p.held \cup {gid}
      BY <1>4, <3>1, <3>2, <3>3 DEF PoolTyped
    <3>5. /\ PoolTyped(Gids(g, DOMAIN req), taken[m]) /\ Asking(taken[m]) = Asking(p) \ {gid}
      BY <2>3, <3>2, <3>3, <3>4 DEF PoolTyped, Asking
    <3>6. Place(g, DOMAIN req, m, gid)
      BY <1>1, <1>2, ModelInPool
    <3>7. Moved(gid, taken)
      BY <1>6, <3>1, <3>2, <3>4, <3>5, <3>6 DEF Moved
    <3>8. \A x \in DOMAIN pool : gid \notin Asking(taken[x])
      BY <1>6, <3>4, <3>5
    <3>9. CASE fail = "start"
      <4>1. /\ o.status = "OV_INTERNAL_INFERENCE_ERROR" /\ o.pool = taken
            /\ o.session = ready.session /\ o.push = TRUE
        BY <1>5, <1>10, <2>3, <3>9 DEF Outcome
      <4> QED BY <1>1, <1>8, <2>1, <3>7, <3>8, <4>1 DEF Outcomes, Deferred
    <3>10. CASE fail # "start"
      <4>1. /\ o.status = "OK" /\ o.pool = taken
            /\ o.session = [ready.session EXCEPT !.run = "running"] /\ o.push = FALSE
        BY <1>5, <1>10, <2>3, <3>10 DEF Outcome
      <4>2. Kept(sessions[r][id], o.session, count) /\ o.session.run = "running" /\ o.session.used = TRUE
        BY <1>8, <2>1, <4>1 DEF Kept, SessionFields
      <4> QED BY <1>1, <3>7, <3>8, <4>1, <4>2 DEF Outcomes, Deferred
    <3> QED BY <3>9, <3>10
  <2> QED BY <2>2, <2>3
<1> QED BY <1>9, <1>10

LEMMA ExecuteOutcomes ==
  ASSUME Inv, NEW r, NEW id, CanExecute(r, id), NEW fail, NEW count, NEW o,
         o = Execute(r, id, fail, count)
  PROVE  Outcomes(r, id, count, o)
  BY OtherOutcomes, DLOutcomes


-----------------------------------------------------------------------------
(* A step of one request *)

OneRequest(def, P, R, SS, P2, R2, SS2, r) ==
    /\ r \in DOMAIN R /\ DOMAIN P2 = DOMAIN P /\ DOMAIN R2 = DOMAIN R /\ DOMAIN SS2 = DOMAIN SS
    /\ \A x \in DOMAIN R \ {r} : R2[x] = R[x] /\ SS2[x] = SS[x]
    /\ R2[r].pc # "idle"
    /\ \/ def.status = "OK" /\ Requested(def.graph, R2[r].request)
       \/ R2[r].started = {} /\ R2[r].pc = "ended"
    /\ RequestInv(def.graph, R2[r], SS2[r]) /\ PoolInv(def.graph, P2, R2, SS2)
    /\ R2[r].status = "OK" =>
          FeedInv(def.graph, R2[r].counts, R2[r].started, R2[r].finished, SS2[r])

LEMMA RequestStep ==
  ASSUME NEW def, NEW P, NEW R, NEW SS, AllInv(def, P, R, SS), NEW P2, NEW R2, NEW SS2, NEW r,
         OneRequest(def, P, R, SS, P2, R2, SS2, r)
  PROVE  AllInv(def, P2, R2, SS2)
<1> USE DEF OneRequest
<1>1. DefinitionInv(def, P2, R2, SS2)
  BY DEF AllInv, DefinitionInv
<1>2. \A x \in DOMAIN R2 : RequestInv(def.graph, R2[x], SS2[x])
  BY DEF AllInv
<1>3. \A x \in DOMAIN R2 : R2[x].status = "OK" /\ R2[x].pc # "idle" =>
          FeedInv(def.graph, R2[x].counts, R2[x].started, R2[x].finished, SS2[x])
  BY DEF AllInv
<1> QED BY <1>1, <1>2, <1>3 DEF AllInv

LEMMA Active ==
  ASSUME Inv, NEW r \in DOMAIN req, req[r].pc \notin {"idle", "ended"}
  PROVE  /\ definition.status = "OK" /\ Requested(g, req[r].request)
         /\ DOMAIN req[r] = Fields /\ DOMAIN sessions = DOMAIN req
         /\ RequestInv(g, req[r], sessions[r]) /\ PoolInv(g, pool, req, sessions)
         /\ req[r].status = "OK" =>
               FeedInv(g, req[r].counts, req[r].started, req[r].finished, sessions[r])
  BY DEF Inv, AllInv, DefinitionInv, RequestInv, Typed, g

\* A step that changes nobody's place in the streams.
LEMMA SamePlaces ==
  ASSUME NEW gr, NEW P, NEW R, NEW SS, NEW R2, NEW SS2, PoolInv(gr, P, R, SS), DOMAIN R2 = DOMAIN R,
         \A x \in DOMAIN R : \A id : /\ Asks(R[x], SS[x], id) => Asks(R2[x], SS2[x], id)
                                     /\ Holds(R[x], SS[x], id) => Holds(R2[x], SS2[x], id)
  PROVE  PoolInv(gr, P, R2, SS2)
<1>1. ASSUME NEW m \in DOMAIN P
      PROVE  /\ PoolTyped(Gids(gr, DOMAIN R2), P[m])
             /\ \A gid \in Asking(P[m]) : /\ Place(gr, DOMAIN R2, m, gid)
                                          /\ Asks(R2[gid[1]], SS2[gid[1]], <<gid[2], gid[3]>>)
             /\ \A gid \in P[m].held : /\ Place(gr, DOMAIN R2, m, gid)
                                       /\ Holds(R2[gid[1]], SS2[gid[1]], <<gid[2], gid[3]>>)
  <2>1. PoolTyped(Gids(gr, DOMAIN R), P[m])
    BY DEF PoolInv
  <2>2. \A gid : Place(gr, DOMAIN R, m, gid) => gid[1] \in DOMAIN R
    BY DEF Place, Gids
  <2>3. ASSUME NEW gid \in Asking(P[m])
        PROVE  Place(gr, DOMAIN R, m, gid) /\ Asks(R2[gid[1]], SS2[gid[1]], <<gid[2], gid[3]>>)
    BY <2>2 DEF PoolInv
  <2>4. ASSUME NEW gid \in P[m].held
        PROVE  Place(gr, DOMAIN R, m, gid) /\ Holds(R2[gid[1]], SS2[gid[1]], <<gid[2], gid[3]>>)
    BY <2>2 DEF PoolInv
  <2> QED BY <2>1, <2>3, <2>4
<1> QED BY <1>1 DEF PoolInv

\* A step that rearranges the lists.
LEMMA RearrangeStep ==
  ASSUME Inv, NEW r \in DOMAIN req, req[r].pc \notin {"idle", "ended"},
         DOMAIN req' = DOMAIN req, \A x \in DOMAIN req \ {r} : req'[x] = req[x],
         UNCHANGED <<definition, pool, sessions>>,
         Rearranged(req[r], req'[r]), req'[r].pc # "idle",
         req'[r].counts = req[r].counts, req'[r].request = req[r].request,
         RequestInv(g, req'[r], sessions[r])
  PROVE  Inv'
<1>1. /\ definition.status = "OK" /\ Requested(g, req[r].request)
      /\ PoolInv(g, pool, req, sessions)
      /\ req[r].status = "OK" =>
            FeedInv(g, req[r].counts, req[r].started, req[r].finished, sessions[r])
  BY Active
<1>2. /\ req'[r].queue = req[r].queue /\ req'[r].started = req[r].started
      /\ req'[r].finished = req[r].finished /\ req'[r].status = req[r].status
  BY DEF Rearranged
<1>3. \A x \in DOMAIN req : \A id : /\ Asks(req[x], sessions[x], id) => Asks(req'[x], sessions[x], id)
                                    /\ Holds(req[x], sessions[x], id) => Holds(req'[x], sessions[x], id)
  BY <1>2 DEF Asks, Holds
<1>4. PoolInv(g, pool, req', sessions)
  BY <1>1, <1>3, SamePlaces
<1>5. OneRequest(definition, pool, req, sessions, pool, req', sessions, r)
  BY <1>1, <1>2, <1>4 DEF OneRequest, g
<1>6. AllInv(definition, pool, req', sessions)
  BY <1>5, RequestStep DEF Inv
<1> QED BY <1>6 DEF Inv

LEMMA ScheduledStep ==
  ASSUME Inv, NEW r \in DOMAIN req, Scheduled(r)
  PROVE  Inv'
<1>1. req[r].pc = "schedule" /\ UNCHANGED <<definition, pool, sessions>>
  BY DEF Scheduled
<1>2. /\ DOMAIN req[r] = Fields /\ RequestInv(g, req[r], sessions[r])
  BY <1>1, Active
<1>3. DOMAIN req' = DOMAIN req /\ \A x \in DOMAIN req \ {r} : req'[x] = req[x]
  BY DEF Scheduled
<1>4. /\ Rearranged(req[r], req'[r]) /\ req'[r].pc = "deferred" /\ req'[r].left = req[r].deferred
      /\ req'[r].kept = <<>> /\ req'[r].tmp = req[r].tmp /\ req'[r].deferred = req[r].deferred
      /\ req'[r].counts = req[r].counts /\ req'[r].request = req[r].request
  BY <1>2 DEF Scheduled, Rearranged, Fields
<1>5. RequestInv(g, req'[r], sessions[r])
  BY <1>1, <1>2, <1>4, ScheduledLists
<1> QED BY <1>1, <1>3, <1>4, <1>5, RearrangeStep

LEMMA DeferredTriedStep ==
  ASSUME Inv, NEW r \in DOMAIN req, DeferredTried(r)
  PROVE  Inv'
<1>1. req[r].pc = "deferred" /\ UNCHANGED <<definition, pool, sessions>>
  BY DEF DeferredTried
<1>2. /\ DOMAIN req[r] = Fields /\ RequestInv(g, req[r], sessions[r])
  BY <1>1, Active
<1>3. DOMAIN req' = DOMAIN req /\ \A x \in DOMAIN req \ {r} : req'[x] = req[x]
  BY DEF DeferredTried
<1>4. /\ Rearranged(req[r], req'[r])
      /\ req'[r].pc = IF req[r].started = req[r].finished THEN "ended" ELSE "pull"
      /\ req'[r].deferred = req[r].kept \o req[r].left \o req[r].tmp
      /\ req'[r].kept = <<>> /\ req'[r].tmp = <<>> /\ req'[r].left = <<>>
      /\ req'[r].counts = req[r].counts /\ req'[r].request = req[r].request
  BY <1>2 DEF DeferredTried, Continue, Rearranged, Fields
<1>5. RequestInv(g, req'[r], sessions[r])
  BY <1>1, <1>2, <1>4, MergedLists
<1> QED BY <1>1, <1>3, <1>4, <1>5, RearrangeStep

LEMMA RetriedStep ==
  ASSUME Inv, NEW r \in DOMAIN req, Retried(r)
  PROVE  Inv'
<1>1. req[r].pc = "retry" /\ req[r].left = <<>> /\ UNCHANGED <<definition, pool, sessions>>
  BY DEF Retried
<1>2. /\ DOMAIN req[r] = Fields /\ RequestInv(g, req[r], sessions[r])
  BY <1>1, Active
<1>3. DOMAIN req' = DOMAIN req /\ \A x \in DOMAIN req \ {r} : req'[x] = req[x]
  BY DEF Retried
<1>4. /\ Rearranged(req[r], req'[r]) /\ req'[r].pc = "pull" /\ req'[r].deferred = req[r].kept
      /\ req'[r].kept = <<>> /\ req'[r].tmp = req[r].tmp /\ req'[r].left = <<>>
      /\ req'[r].counts = req[r].counts /\ req'[r].request = req[r].request
  BY <1>1, <1>2 DEF Retried, Rearranged, Fields
<1>5. RequestInv(g, req'[r], sessions[r])
  BY <1>1, <1>2, <1>4, LoopEndedLists
<1> QED BY <1>1, <1>3, <1>4, <1>5, RearrangeStep

LEMMA TimeoutStep ==
  ASSUME Inv, NEW r \in DOMAIN req, Timeout(r)
  PROVE  Inv'
<1>1. req[r].pc = "pull" /\ req[r].queue = <<>> /\ UNCHANGED <<definition, pool, sessions>>
  BY DEF Timeout
<1>2. /\ DOMAIN req[r] = Fields /\ RequestInv(g, req[r], sessions[r])
  BY <1>1, Active
<1>3. DOMAIN req' = DOMAIN req /\ \A x \in DOMAIN req \ {r} : req'[x] = req[x]
  BY DEF Timeout
<1>4. /\ Rearranged(req[r], req'[r]) /\ req'[r].pc = IF req[r].status = "OK" THEN "retry" ELSE "disarm"
      /\ req'[r].deferred = req[r].deferred
      /\ req'[r].kept = <<>> /\ req'[r].tmp = req[r].tmp /\ req'[r].left = req[r].deferred
      /\ req'[r].counts = req[r].counts /\ req'[r].request = req[r].request
  BY <1>1, <1>2 DEF Timeout, Rearranged, Fields
<1>5. RequestInv(g, req'[r], sessions[r])
  BY <1>1, <1>2, <1>4, TimedOutLists
<1> QED BY <1>1, <1>3, <1>4, <1>5, RearrangeStep

LEMMA DisarmedStep ==
  ASSUME Inv, NEW r \in DOMAIN req, Disarmed(r)
  PROVE  Inv'
<1>1. req[r].pc = "disarm" /\ req[r].left = <<>> /\ UNCHANGED <<definition, pool, sessions>>
  BY DEF Disarmed
<1>2. /\ DOMAIN req[r] = Fields /\ RequestInv(g, req[r], sessions[r])
  BY <1>1, Active
<1>3. DOMAIN req' = DOMAIN req /\ \A x \in DOMAIN req \ {r} : req'[x] = req[x]
  BY DEF Disarmed
<1>4. /\ Rearranged(req[r], req'[r]) /\ req'[r].pc \in {"pull", "ended"}
      /\ req'[r].pc = "ended" => req[r].started = req[r].finished
      /\ req'[r].deferred = req[r].kept
      /\ req'[r].kept = <<>> /\ req'[r].tmp = req[r].tmp /\ req'[r].left = <<>>
      /\ req'[r].counts = req[r].counts /\ req'[r].request = req[r].request
  <2>1. CASE req[r].kept = <<>>
    BY <1>1, <1>2, <2>1 DEF Disarmed, Continue, Rearranged, Fields
  <2>2. CASE req[r].kept # <<>>
    BY <1>1, <1>2, <2>2 DEF Disarmed, Rearranged, Fields
  <2> QED BY <2>1, <2>2
<1>5. RequestInv(g, req'[r], sessions[r])
  BY <1>1, <1>2, <1>4, LoopEndedLists
<1> QED BY <1>1, <1>3, <1>4, <1>5, RearrangeStep


-----------------------------------------------------------------------------
(* The number of results that are gathered *)

\* The products of the first sizes, and the indices they count.
IsProduct(sizes, n, f) == f = [i \in 0..n |-> IF i = 0 THEN 1 ELSE sizes[i] * f[i - 1]]
FirstIndices(sizes, n) == {f \in [1..n -> Nat] : \A i \in 1..n : f[i] < sizes[i]}

LEMMA ProductExists ==
  ASSUME NEW sizes, NEW n \in Nat
  PROVE  \E f : IsProduct(sizes, n, f)
<1> DEFINE wrong == {k \in Nat : ~\E f : IsProduct(sizes, k, f)}
<1>1. SUFFICES ASSUME wrong # {} PROVE FALSE
  OBVIOUS
<1>2. PICK k \in wrong : \A j \in wrong : k <= j
  BY <1>1, LeastNumber
<1>3. CASE k = 0
  <2>1. IsProduct(sizes, 0, [i \in 0..0 |-> 1])
    BY DEF IsProduct
  <2> QED BY <1>2, <1>3, <2>1
<1>4. CASE k # 0
  <2>1. k \in Nat /\ k - 1 \in Nat /\ ~(k <= k - 1)
    BY <1>4
  <2>2. PICK f : IsProduct(sizes, k - 1, f)
    BY <1>2, <2>1
  <2>3. PICK h : h = [i \in 0..k |-> IF i = k THEN sizes[k] * f[k - 1] ELSE f[i]]
    OBVIOUS
  <2>4. \A i \in 0..(k - 1) : f[i] = IF i = 0 THEN 1 ELSE sizes[i] * f[i - 1]
    BY <2>2 DEF IsProduct
  <2>5. \A i \in 0..k : h[i] = IF i = 0 THEN 1 ELSE sizes[i] * h[i - 1]
    <3>1. TAKE i \in 0..k
    <3>2. CASE i = 0
      BY <1>4, <2>1, <2>3, <2>4, <3>2
    <3>3. CASE i = k
      <4>1. h[k] = sizes[k] * f[k - 1] /\ h[k - 1] = f[k - 1]
        BY <2>1, <2>3
      <4> QED BY <1>4, <3>3, <4>1
    <3>4. CASE i # 0 /\ i # k
      <4>1. i \in 0..(k - 1) /\ i - 1 \in 0..k /\ i - 1 # k
        BY <2>1, <3>4
      <4>2. h[i] = f[i] /\ h[i - 1] = f[i - 1]
        BY <2>3, <3>4, <4>1
      <4> QED BY <2>4, <3>4, <4>1, <4>2
    <3> QED BY <3>2, <3>3, <3>4
  <2>6. IsProduct(sizes, k, h)
    BY <2>3, <2>5 DEF IsProduct
  <2> QED BY <1>2, <2>6
<1> QED BY <1>3, <1>4

LEMMA ProductComputes ==
  ASSUME NEW sizes, Len(sizes) \in Nat
  PROVE  \E f : /\ Product(sizes) = f[Len(sizes)] /\ f[0] = 1
                /\ \A i \in 1..Len(sizes) : f[i] = sizes[i] * f[i - 1]
<1> DEFINE f == CHOOSE h : IsProduct(sizes, Len(sizes), h)
<1>1. IsProduct(sizes, Len(sizes), f)
  BY ProductExists
<1>2. Product(sizes) = f[Len(sizes)]
  BY DEF Product, IsProduct
<1> HIDE DEF f
<1>3. f[0] = 1 /\ \A i \in 1..Len(sizes) : f[i] = sizes[i] * f[i - 1]
  BY <1>1 DEF IsProduct
<1> QED BY <1>2, <1>3

\* One more level of indices.
LEMMA MoreIndices ==
  ASSUME NEW sizes, NEW n \in Nat \ {0}, sizes[n] \in Nat, IsFiniteSet(FirstIndices(sizes, n - 1))
  PROVE  /\ IsFiniteSet(FirstIndices(sizes, n))
         /\ Cardinality(FirstIndices(sizes, n)) = sizes[n] * Cardinality(FirstIndices(sizes, n - 1))
<1> DEFINE A == FirstIndices(sizes, n - 1)
           B == 0..(sizes[n] - 1)
           T == FirstIndices(sizes, n)
           more == [w \in A \X B |-> [i \in 1..n |-> IF i = n THEN w[2] ELSE w[1][i]]]
<1>1. IsFiniteSet(B) /\ Cardinality(B) = sizes[n]
  <2>1. PICK top : top = sizes[n] - 1
    OBVIOUS
  <2>2. 0 \in Int /\ top \in Int /\ sizes[n] = IF 0 > top THEN 0 ELSE top - 0 + 1
    BY <2>1
  <2>3. IsFiniteSet(0..top) /\ Cardinality(0..top) = IF 0 > top THEN 0 ELSE top - 0 + 1
    BY <2>2, FS_Interval
  <2> QED BY <2>1, <2>2, <2>3
<1>2. /\ IsFiniteSet(A \X B) /\ Cardinality(A \X B) = Cardinality(A) * sizes[n]
      /\ Cardinality(A) \in Nat
  BY <1>1, FS_Product, FS_CardinalityType
<1>3. more \in [A \X B -> T]
  <2>1. ASSUME NEW w \in A \X B
        PROVE  more[w] \in T
    <3>1. w[1] \in [1..(n - 1) -> Nat] /\ \A i \in 1..(n - 1) : w[1][i] < sizes[i]
      BY DEF FirstIndices
    <3>2. w[2] \in Nat /\ w[2] < sizes[n]
      OBVIOUS
    <3> QED BY <3>1, <3>2 DEF FirstIndices
  <2> QED BY <2>1
<1>4. \A v, w \in A \X B : more[v] = more[w] => v = w
  <2>1. TAKE v, w \in A \X B
  <2>2. HAVE more[v] = more[w]
  <2>3. \A i \in 1..n : (IF i = n THEN v[2] ELSE v[1][i]) = IF i = n THEN w[2] ELSE w[1][i]
    BY <2>2
  <2>4. v[2] = w[2]
    BY <2>3
  <2>5. v[1] \in [1..(n - 1) -> Nat] /\ w[1] \in [1..(n - 1) -> Nat]
    BY DEF FirstIndices
  <2>6. \A i \in 1..(n - 1) : v[1][i] = w[1][i]
    BY <2>3
  <2>7. v[1] = w[1]
    BY <2>5, <2>6
  <2> QED BY <2>4, <2>7
<1>5. \A t \in T : \E w \in A \X B : more[w] = t
  <2>1. TAKE t \in T
  <2>2. t \in [1..n -> Nat] /\ \A i \in 1..n : t[i] < sizes[i]
    BY DEF FirstIndices
  <2>3. PICK a : a = [i \in 1..(n - 1) |-> t[i]]
    OBVIOUS
  <2>4. a \in A
    BY <2>2, <2>3 DEF FirstIndices
  <2>5. t[n] \in B
    BY <2>2
  <2>6. more[<<a, t[n]>>] = [i \in 1..n |-> IF i = n THEN t[n] ELSE a[i]]
    BY <2>4, <2>5
  <2>7. \A i \in 1..n : (IF i = n THEN t[n] ELSE a[i]) = t[i]
    BY <2>3
  <2>8. more[<<a, t[n]>>] = t
    BY <2>2, <2>6, <2>7
  <2> QED BY <2>4, <2>5, <2>8
<1> HIDE DEF A, B, T, more
<1>6. more \in Bijection(A \X B, T)
  BY <1>3, <1>4, <1>5 DEF Bijection, Injection, Surjection, IsInjective
<1>7. IsFiniteSet(T) /\ Cardinality(T) = Cardinality(A \X B)
  BY <1>2, <1>6, FS_Bijection DEF ExistsBijection
<1> QED BY <1>2, <1>7 DEF A, T

LEMMA IndicesCounted ==
  ASSUME NEW sizes \in Seq(Nat)
  PROVE  /\ IsFiniteSet(Indices(sizes)) /\ Cardinality(Indices(sizes)) = Product(sizes)
         /\ Product(sizes) \in Nat
<1>1. Len(sizes) \in Nat /\ DOMAIN sizes = 1..Len(sizes) /\ \A i \in 1..Len(sizes) : sizes[i] \in Nat
  OBVIOUS
<1>2. PICK f : /\ Product(sizes) = f[Len(sizes)] /\ f[0] = 1
               /\ \A i \in 1..Len(sizes) : f[i] = sizes[i] * f[i - 1]
  BY <1>1, ProductComputes
<1> DEFINE right(i) == IsFiniteSet(FirstIndices(sizes, i)) /\ Cardinality(FirstIndices(sizes, i)) = f[i]
           wrong == {i \in 0..Len(sizes) : ~right(i)}
<1>3. wrong = {}
  <2>1. SUFFICES ASSUME wrong # {} PROVE FALSE
    OBVIOUS
  <2>2. wrong \in SUBSET Nat
    BY <1>1
  <2>3. PICK k \in wrong : \A j \in wrong : k <= j
    BY <2>1, <2>2, LeastNumber
  <2>4. k \in 0..Len(sizes) /\ ~right(k)
    OBVIOUS
  <2>5. CASE k = 0
    <3>1. FirstIndices(sizes, 0) = {[i \in 1..0 |-> 0]}
      <4>1. 1..0 = {}
        OBVIOUS
      <4>2. [i \in {} |-> 0] \in [{} -> Nat] /\ \A h \in [{} -> Nat] : h = [i \in {} |-> 0]
        OBVIOUS
      <4>3. FirstIndices(sizes, 0) = [{} -> Nat]
        BY <4>1 DEF FirstIndices
      <4> QED BY <4>1, <4>2, <4>3
    <3>2. right(0)
      BY <1>2, <3>1, FS_Singleton
    <3> QED BY <2>4, <2>5, <3>2
  <2>6. CASE k # 0
    <3>1. k \in Nat \ {0} /\ k - 1 \in 0..Len(sizes) /\ ~(k <= k - 1) /\ k \in 1..Len(sizes)
      BY <1>1, <2>4, <2>6
    <3>2. right(k - 1)
      BY <2>3, <3>1
    <3>3. sizes[k] \in Nat /\ f[k] = sizes[k] * f[k - 1]
      BY <1>1, <1>2, <3>1
    <3>4. right(k)
      BY <3>1, <3>2, <3>3, MoreIndices
    <3> QED BY <2>4, <3>4
  <2> QED BY <2>5, <2>6
<1>4. Len(sizes) \in 0..Len(sizes) /\ Indices(sizes) = FirstIndices(sizes, Len(sizes))
  BY <1>1 DEF Indices, FirstIndices
<1>5. right(Len(sizes))
  BY <1>3, <1>4
<1>6. IsFiniteSet(Indices(sizes)) /\ Cardinality(Indices(sizes)) = Product(sizes)
  BY <1>2, <1>4, <1>5
<1> QED BY <1>6, FS_CardinalityType


-----------------------------------------------------------------------------
(* A graph that validates *)

Valid(gr) == /\ IsFiniteSet(NodeNames(gr)) /\ WellConnected(gr)
             /\ Inside(gr) \in Levels(gr) /\ WellNested(gr, Inside(gr))

LEMMA Nested ==
  ASSUME NEW gr, Valid(gr), NEW n \in NodeNames(gr)
  PROVE  /\ Inside(gr)[n] \in Seq(NodeNames(gr)) /\ Len(Inside(gr)[n]) \in Nat
         /\ Cardinality(NodeOf(gr, n).gather) \in Nat
         /\ Cardinality(NodeOf(gr, n).gather) <= Len(Inside(gr)[n])
         /\ Around(gr, n) \in Seq(NodeNames(gr))
         /\ Len(Around(gr, n)) = Len(Inside(gr)[n]) - Cardinality(NodeOf(gr, n).gather)
         /\ \A i \in 1..Len(Around(gr, n)) : Around(gr, n)[i] = Inside(gr)[n][i]
         /\ Dependencies(gr, n) \subseteq NodeNames(gr) /\ IsFiniteSet(Dependencies(gr, n))
<1> DEFINE names == {gr.nodes[i].name : i \in Demultiplexers(gr)}
           c == Cardinality(NodeOf(gr, n).gather)
           s == Inside(gr)[n]
<1>1. names \subseteq NodeNames(gr)
  BY DEF Demultiplexers, NodeNames, Infos, Range
<1>2. Cardinality(names) \in Nat
  BY <1>1, FS_Subset, FS_CardinalityType DEF Valid
<1>3. Inside(gr) \in [NodeNames(gr) -> UNION {[1..k -> names] : k \in 0..Cardinality(names)}]
  BY DEF Valid, Levels
<1> HIDE DEF names
<1>4. PICK k \in 0..Cardinality(names) : Inside(gr)[n] \in [1..k -> names]
  BY <1>3
<1>5. k \in Nat
  BY <1>2
<1>6. s \in Seq(NodeNames(gr)) /\ Len(s) \in Nat
  BY <1>1, <1>4, <1>5
<1>7. c \in 0..Len(s) /\ Dependencies(gr, n) \subseteq NodeNames(gr)
  BY DEF Valid, WellNested
<1>8. c \in Nat /\ c <= Len(s) /\ Len(s) - c \in Nat
  BY <1>6, <1>7
<1>9. Around(gr, n) = SubSeq(s, 1, Len(s) - c)
  BY DEF Around, Context
<1> HIDE DEF s, c
<1>10. /\ SubSeq(s, 1, Len(s) - c) \in Seq(NodeNames(gr))
       /\ Len(SubSeq(s, 1, Len(s) - c)) = Len(s) - c
       /\ \A i \in 1..(Len(s) - c) : SubSeq(s, 1, Len(s) - c)[i] = s[i]
  BY <1>6, <1>8
<1>11. IsFiniteSet(Dependencies(gr, n))
  BY <1>7, FS_Subset DEF Valid
<1> QED BY <1>6, <1>7, <1>8, <1>9, <1>10, <1>11 DEF s, c

LEMMA SizesTyped ==
  ASSUME NEW gr, Valid(gr), NEW n \in NodeNames(gr), NEW counts, NEW finished,
         Counted(gr, counts, finished), Known(gr, counts, n)
  PROVE  /\ Sizes(gr, counts, n) \in Seq(Nat)
         /\ Len(Sizes(gr, counts, n)) = Cardinality(NodeOf(gr, n).gather)
         /\ IsFiniteSet(Inputs(gr, counts, n))
         /\ Cardinality(Inputs(gr, counts, n)) =
               Cardinality(Dependencies(gr, n)) * Product(Sizes(gr, counts, n))
<1> DEFINE c == Cardinality(NodeOf(gr, n).gather)
           s == Inside(gr)[n]
           a == Len(Around(gr, n))
<1>1. /\ s \in Seq(NodeNames(gr)) /\ Len(s) \in Nat /\ c \in Nat /\ c <= Len(s) /\ a = Len(s) - c
      /\ IsFiniteSet(Dependencies(gr, n))
  BY Nested
<1>2. \A i \in DOMAIN s : s[i] \in DOMAIN counts /\ counts[s[i]] \in Nat
  BY DEF Known, Counted
<1>3. Sizes(gr, counts, n) = [i \in 1..c |-> counts[s[a + i]]]
  BY DEF Sizes
<1> HIDE DEF s, a, c
<1>4. \A i \in 1..c : a + i \in DOMAIN s
  BY <1>1
<1>5. \A i \in 1..c : counts[s[a + i]] \in Nat
  BY <1>2, <1>4
<1>6. Sizes(gr, counts, n) \in Seq(Nat) /\ Len(Sizes(gr, counts, n)) = c
  BY <1>1, <1>3, <1>5
<1>7. /\ IsFiniteSet(Indices(Sizes(gr, counts, n)))
      /\ Cardinality(Indices(Sizes(gr, counts, n))) = Product(Sizes(gr, counts, n))
  BY <1>6, IndicesCounted
<1> QED BY <1>1, <1>6, <1>7, FS_Product DEF Inputs, c

LEMMA NothingMissing ==
  ASSUME NEW gr, Valid(gr), NEW counts, NEW finished, Counted(gr, counts, finished),
         NEW id, id[1] \in NodeNames(gr), NEW s, Fed(gr, counts, finished, id, s)
  PROVE  /\ IsFiniteSet(Missing(gr, counts, finished, id))
         /\ s.remaining = 0 <=> Missing(gr, counts, finished, id) = {}
<1>1. Known(gr, counts, id[1]) /\ s.remaining = Cardinality(Missing(gr, counts, finished, id))
  BY DEF Fed
<1>2. IsFiniteSet(Inputs(gr, counts, id[1]))
  BY <1>1, SizesTyped
<1>3. Missing(gr, counts, finished, id) \subseteq Inputs(gr, counts, id[1])
  BY DEF Missing
<1>4. IsFiniteSet(Missing(gr, counts, finished, id))
  BY <1>2, <1>3, FS_Subset
<1> QED BY <1>1, <1>4, FS_EmptySet

LEMMA ValidInUse ==
  ASSUME Inv, definition.status = "OK"
  PROVE  Valid(g)
  BY ValidGraph DEF Valid


-----------------------------------------------------------------------------
(* The actions that call execute() *)

\* What one call of execute() for session id does to the sessions and the queue.
Stored(r, id, o) == [sessions EXCEPT ![r][id] = o.session]

LEMMA ExecutedSession ==
  ASSUME Inv, NEW r, NEW id, CanExecute(r, id), NEW count, NEW o, Outcomes(r, id, count, o),
         DOMAIN sessions = DOMAIN req, sessions' = Stored(r, id, o),
         req'[r].queue = Pushed(req[r].queue, id, o)
  PROVE  /\ DOMAIN sessions' = DOMAIN sessions
         /\ \A x \in DOMAIN req \ {r} : sessions'[x] = sessions[x]
         /\ sessions'[r][id] = o.session
         /\ Started(req[r], sessions[r], req'[r], sessions'[r], id, Deferred(o))
<1>1. r \in DOMAIN sessions /\ id \in DOMAIN sessions[r]
  BY DEF CanExecute
<1>2. /\ DOMAIN sessions' = DOMAIN sessions
      /\ \A x \in DOMAIN req \ {r} : sessions'[x] = sessions[x]
      /\ DOMAIN sessions'[r] = DOMAIN sessions[r] /\ sessions'[r][id] = o.session
      /\ \A x \in DOMAIN sessions[r] \ {id} : sessions'[r][x] = sessions[r][x]
  BY <1>1 DEF Stored
<1>3. DOMAIN o.session = SessionFields
  BY DEF Outcomes, Kept
<1>4. \/ req'[r].queue = Append(req[r].queue, id) /\ o.session.run # "running" /\ ~Deferred(o)
      \/ req'[r].queue = req[r].queue /\ o.session.run = "running" /\ ~Deferred(o)
      \/ req'[r].queue = req[r].queue /\ o.session.run # "running" /\ Deferred(o)
  BY DEF Outcomes, Pushed, Deferred
<1> QED BY <1>1, <1>2, <1>3, <1>4 DEF Started

LEMMA ExecutedStreams ==
  ASSUME Inv, NEW r, NEW id, CanExecute(r, id), NEW count, NEW o, Outcomes(r, id, count, o),
         DOMAIN sessions = DOMAIN req, sessions' = Stored(r, id, o),
         pool' = o.pool, DOMAIN req' = DOMAIN req, \A x \in DOMAIN req \ {r} : req'[x] = req[x],
         req'[r].queue = Pushed(req[r].queue, id, o), req[r].queue \in Seq(Ids(g)),
         req'[r].started = req[r].started \cup {id}, req'[r].finished = req[r].finished,
         id \notin req[r].finished
  PROVE  PoolInv(g, pool', req', sessions')
<1>1. PoolInv(g, pool, req, sessions)
  BY DEF Inv, AllInv, g
<1>2. /\ DOMAIN sessions' = DOMAIN sessions
      /\ \A x \in DOMAIN req \ {r} : sessions'[x] = sessions[x]
      /\ sessions'[r][id] = o.session
      /\ Started(req[r], sessions[r], req'[r], sessions'[r], id, Deferred(o))
  BY ExecutedSession
<1>3. r \in DOMAIN req /\ id \in Ids(g) /\ id \in DOMAIN sessions[r] /\ id \notin Range(req[r].queue)
  BY DEF CanExecute
<1>4. DOMAIN pool' = DOMAIN pool
      /\ \A m \in DOMAIN pool :
            /\ PoolTyped(Gids(g, DOMAIN req), pool'[m])
            /\ Asking(pool'[m]) \subseteq Asking(pool[m]) \cup {Gid(r, id)}
            /\ pool'[m].held \subseteq pool[m].held \cup {Gid(r, id)}
            /\ Gid(r, id) \in Asking(pool'[m]) \cup pool'[m].held => Place(g, DOMAIN req, m, Gid(r, id))
  BY DEF Outcomes, Moved
<1>5. Range(Append(req[r].queue, id)) = Range(req[r].queue) \cup {id}
  BY <1>3, AppendList
<1>6. \A x \in Ids(g) \ {id} : x \in Range(req'[r].queue) <=> x \in Range(req[r].queue)
  BY <1>5 DEF Pushed
<1>7. \A x \in Ids(g) \ {id} : IsRunning(sessions'[r], x) <=> IsRunning(sessions[r], x)
  BY <1>2 DEF Started, IsRunning
<1>8. \A x \in Ids(g) \ {id} : /\ Asks(req[r], sessions[r], x) => Asks(req'[r], sessions'[r], x)
                               /\ Holds(req[r], sessions[r], x) => Holds(req'[r], sessions'[r], x)
  BY <1>6, <1>7 DEF Asks, Holds
<1>9. id \in req'[r].started \ req'[r].finished /\ id \in DOMAIN sessions'[r]
  BY <1>2, <1>3 DEF Started
<1>10. ASSUME NEW m \in DOMAIN pool, Gid(r, id) \in Asking(pool'[m])
       PROVE  Asks(req'[r], sessions'[r], id)
  <2>1. o.push = FALSE /\ o.session.run # "running"
    BY <1>10 DEF Outcomes
  <2> QED BY <1>2, <1>3, <1>9, <2>1 DEF Asks, Pushed, IsRunning
<1>11. ASSUME NEW m \in DOMAIN pool, Gid(r, id) \in pool'[m].held
       PROVE  Holds(req'[r], sessions'[r], id)
  <2>1. CASE o.push = TRUE
    BY <1>5, <1>9, <2>1 DEF Holds, Pushed
  <2>2. CASE o.session.run = "running"
    BY <1>2, <1>9, <2>2 DEF Holds, IsRunning
  <2> QED BY <1>11, <2>1, <2>2 DEF Outcomes
<1>12. \A m \in DOMAIN pool :
          /\ Gid(r, id) \in Asking(pool'[m]) =>
                Place(g, DOMAIN req, m, Gid(r, id)) /\ Asks(req'[r], sessions'[r], id)
          /\ Gid(r, id) \in pool'[m].held =>
                Place(g, DOMAIN req, m, Gid(r, id)) /\ Holds(req'[r], sessions'[r], id)
  BY <1>4, <1>10, <1>11
<1>13. /\ \A x \in DOMAIN req \ {r} : req'[x] = req[x] /\ sessions'[x] = sessions[x]
       /\ \A m \in DOMAIN pool : /\ PoolTyped(Gids(g, DOMAIN req), pool'[m])
                                 /\ Asking(pool'[m]) \subseteq Asking(pool[m]) \cup {Gid(r, id)}
                                 /\ pool'[m].held \subseteq pool[m].held \cup {Gid(r, id)}
  BY <1>2, <1>4
<1>14. r \in DOMAIN req /\ id \in Ids(g) /\ DOMAIN pool' = DOMAIN pool
  BY <1>3, <1>4
<1>15. SessionStep(g, pool, req, sessions, pool', req', sessions', r, id)
  BY <1>8, <1>12, <1>13, <1>14 DEF SessionStep
<1> QED BY <1>1, <1>15, PoolStep

LEMMA ExecutedFeeds ==
  ASSUME Inv, NEW r, NEW id, CanExecute(r, id), NEW count \in Nat, NEW o, Outcomes(r, id, count, o),
         DOMAIN sessions = DOMAIN req, sessions' = Stored(r, id, o),
         req'[r].queue = Pushed(req[r].queue, id, o),
         req'[r].started = req[r].started \cup {id}, req'[r].finished = req[r].finished,
         req'[r].counts = req[r].counts, req'[r].status = "OK",
         req'[r].status = FirstError(req[r].status, IF Deferred(o) THEN "OK" ELSE o.status),
         FeedInv(g, req[r].counts, req[r].started, req[r].finished, sessions[r]),
         id \in req[r].started \/ sessions[r][id].remaining = 0
  PROVE  FeedInv(g, req'[r].counts, req'[r].started, req'[r].finished, sessions'[r])
<1> DEFINE counts == req[r].counts
           finished == req[r].finished
           S == sessions[r]
           S2 == sessions'[r]
<1>1. S2[id] = o.session /\ Started(req[r], S, req'[r], S2, id, Deferred(o))
  <2>1. /\ sessions'[r][id] = o.session
        /\ Started(req[r], sessions[r], req'[r], sessions'[r], id, Deferred(o))
    BY ExecutedSession
  <2> QED BY <2>1
<1>2. id \in DOMAIN S /\ id \in Ids(g) /\ id[1] \in NodeNames(g)
  BY DEF CanExecute, Ids
<1>3. Valid(g)
  BY ValidInUse DEF CanExecute
<1>4. DOMAIN S2 = DOMAIN S /\ \A x \in DOMAIN S \ {id} : S2[x] = S[x]
  BY <1>1 DEF Started
<1>5. o.status \in {"OK", "PIPELINE_STREAM_ID_NOT_READY_YET"}
  BY DEF FirstError, Deferred
<1>6. Computes(NodeOf(g, id[1])) => o.session.used = TRUE
  BY <1>5 DEF Outcomes
<1>7. /\ o.session.meta = S[id].meta /\ o.session.remaining = S[id].remaining
      /\ o.session.count \in {S[id].count, count}
  BY DEF Outcomes, Kept
<1>8. Fed(g, counts, finished, id, S[id])
  BY <1>2 DEF FeedInv
<1>9. Fed(g, counts, finished, id, S2[id])
  BY <1>1, <1>7, <1>8 DEF Fed
<1>10. \A x \in DOMAIN S2 : Fed(g, counts, finished, x, S2[x])
  BY <1>4, <1>9 DEF FeedInv
<1>11. Known(g, counts, id[1]) /\ Missing(g, counts, finished, id) = {}
  <2>1. CASE id \in req[r].started
    BY <2>1 DEF FeedInv
  <2>2. CASE S[id].remaining = 0
    <3>1. Counted(g, counts, finished)
      BY DEF FeedInv
    <3> QED BY <1>2, <1>3, <1>8, <2>2, <3>1, NothingMissing DEF Fed
  <2> QED BY <2>1, <2>2
<1>12. \A x \in req'[r].started : Known(g, counts, x[1]) /\ Missing(g, counts, finished, x) = {}
  BY <1>11 DEF FeedInv
<1>13. \A x \in req'[r].started \cap DOMAIN S2 : Computes(NodeOf(g, x[1])) => S2[x].used = TRUE
  BY <1>1, <1>4, <1>6 DEF FeedInv
<1>14. \A x \in finished : \A n \in Next_(g, x[1]) : \A key \in ResultKeys(g, counts, x) :
          Target(g, n, key) \in DOMAIN S2 \cup req'[r].started
  BY <1>4 DEF FeedInv
<1>15. Counted(g, counts, finished)
  BY DEF FeedInv
<1> QED BY <1>10, <1>12, <1>13, <1>14, <1>15 DEF FeedInv

\* The counts a computation may produce.
LEMMA CountsAreNumbers ==
  ASSUME NEW n, NEW c, c \in CountsOf(n) \/ c = 0
  PROVE  c \in Nat
<1>1. Counts \subseteq Nat
  BY ScenariosAssumption
<1>2. CountsOf(n) \subseteq Nat
  <2>1. CASE \A o \in DOMAIN NodeOf(g, n).outputs : ~IsDynamic(NodeOf(g, n).outputs[o].shape[1])
    <3>1. CountsOf(n) = {0}
      BY <2>1, Zenon DEF CountsOf
    <3> QED BY <3>1
  <2>2. CASE ~\A o \in DOMAIN NodeOf(g, n).outputs : ~IsDynamic(NodeOf(g, n).outputs[o].shape[1])
    BY <1>1, <2>2, Zenon DEF CountsOf
  <2> QED BY <2>1, <2>2
<1> QED BY <1>2


\* What the caller does with the outcome.
Handled(r, id, o) ==
    /\ DOMAIN req' = DOMAIN req /\ \A x \in DOMAIN req \ {r} : req'[x] = req[x]
    /\ req'[r].queue = Pushed(req[r].queue, id, o)
    /\ req'[r].started = req[r].started \cup {id} /\ req'[r].finished = req[r].finished
    /\ req'[r].counts = req[r].counts /\ req'[r].request = req[r].request /\ req'[r].pc = req[r].pc
    /\ req'[r].status = FirstError(req[r].status, IF Deferred(o) THEN "OK" ELSE o.status)
    /\ pool' = o.pool /\ sessions' = Stored(r, id, o) /\ definition' = definition

LEMMA ExecuteStep ==
  ASSUME Inv, NEW r \in DOMAIN req, req[r].pc \notin {"idle", "ended"}, NEW id, CanExecute(r, id),
         NEW count \in Nat, NEW o, Outcomes(r, id, count, o), Handled(r, id, o),
         id \notin req[r].finished, id \in req[r].started \/ sessions[r][id].remaining = 0,
         RequestInv(g, req'[r], sessions'[r])
  PROVE  Inv'
<1> USE DEF Handled
<1>1. /\ definition.status = "OK" /\ Requested(g, req[r].request)
      /\ DOMAIN sessions = DOMAIN req /\ req[r].queue \in Seq(Ids(g))
      /\ req[r].status = "OK" =>
            FeedInv(g, req[r].counts, req[r].started, req[r].finished, sessions[r])
  BY Active DEF RequestInv, Typed
<1>2. PoolInv(g, pool', req', sessions')
  BY <1>1, ExecutedStreams
<1>3. ASSUME req'[r].status = "OK"
      PROVE  FeedInv(g, req'[r].counts, req'[r].started, req'[r].finished, sessions'[r])
  <2>1. req[r].status = "OK"
    BY <1>3 DEF FirstError
  <2> QED BY <1>1, <1>3, <2>1, ExecutedFeeds
<1>4. /\ DOMAIN sessions' = DOMAIN sessions
      /\ \A x \in DOMAIN req \ {r} : sessions'[x] = sessions[x]
  BY <1>1, ExecutedSession
<1>5. DOMAIN pool' = DOMAIN pool
  BY DEF Outcomes, Moved
<1>6. OneRequest(definition, pool, req, sessions, pool', req', sessions', r)
  BY <1>1, <1>2, <1>3, <1>4, <1>5 DEF OneRequest, g
<1>7. AllInv(definition, pool', req', sessions')
  BY <1>6, RequestStep DEF Inv
<1> QED BY <1>7 DEF Inv

LEMMA DeferredIsModel ==
  ASSUME NEW r, NEW id, NEW fail, NEW count, NEW o, o = Execute(r, id, fail, count), Deferred(o)
  PROVE  NodeOf(g, id[1]).kind = "DL"
<1>1. PICK kind, dl, custom : /\ kind = NodeOf(g, id[1]).kind /\ dl = ExecuteDL(r, id, fail)
                              /\ custom = ExecuteCustom(r, id, fail, count)
  OBVIOUS
<1>2. o = CASE kind = "DL" -> dl [] kind = "CUSTOM" -> custom
            [] OTHER -> Outcome("OK", pool, sessions[r][id], TRUE)
  BY <1>1, Zenon DEF Execute
<1>3. o.status = "PIPELINE_STREAM_ID_NOT_READY_YET"
  BY DEF Deferred
<1>4. CASE kind = "CUSTOM"
  <2>1. o = custom
    BY <1>2, <1>4
  <2>2. custom.status \in {"OK", "NODE_LIBRARY_EXECUTION_FAILED", "NODE_LIBRARY_INVALID_CONTENT_SIZE"}
    BY <1>1 DEF ExecuteCustom, Outcome, CreateTensorStatus
  <2> QED BY <1>3, <2>1, <2>2
<1>5. CASE kind \notin {"DL", "CUSTOM"}
  <2>1. o = Outcome("OK", pool, sessions[r][id], TRUE)
    BY <1>2, <1>5
  <2>2. o.status = "OK"
    BY <2>1 DEF Outcome
  <2> QED BY <1>3, <2>2
<1> QED BY <1>1, <1>4, <1>5

\* Pipeline::execute starts a ready session.
LEMMA ScheduleStep ==
  ASSUME Inv, NEW r \in DOMAIN req, Schedule(r)
  PROVE  Inv'
<1>1. req[r].pc = "schedule" /\ definition' = definition
  BY DEF Schedule
<1>2. PICK id, fail, count :
          /\ id \in req[r].todo /\ count \in Nat /\ pool' = Execute(r, id, fail, count).pool
          /\ sessions' = [sessions EXCEPT ![r][id] = Execute(r, id, fail, count).session]
          /\ req' = [req EXCEPT ![r] = AfterStart(@, id, Execute(r, id, fail, count))]
  <2>1. PICK id \in req[r].todo :
          Executes(r, id, LAMBDA o : req' = [req EXCEPT ![r] = AfterStart(@, id, o)])
    BY DEF Schedule
  <2>2. PICK fail \in DOMAIN InjectedFailures(NodeOf(g, id[1]).kind),
             count \in IF NodeOf(g, id[1]).kind = "CUSTOM" THEN CountsOf(id[1]) ELSE {0} :
          /\ pool' = Execute(r, id, fail, count).pool
          /\ sessions' = [sessions EXCEPT ![r][id] = Execute(r, id, fail, count).session]
          /\ req' = [req EXCEPT ![r] = AfterStart(@, id, Execute(r, id, fail, count))]
    BY <2>1, Zenon DEF Executes
  <2>3. count \in Nat
    BY CountsAreNumbers
  <2> QED BY <2>2, <2>3
<1>3. PICK o : o = Execute(r, id, fail, count)
  OBVIOUS
<1> id \in req[r].todo
  BY <1>2
<1>4. /\ DOMAIN req[r] = Fields /\ RequestInv(g, req[r], sessions[r]) /\ DOMAIN sessions = DOMAIN req
      /\ definition.status = "OK"
  BY <1>1, Active
<1>5. /\ id \in DOMAIN sessions[r] /\ id \notin req[r].started /\ id \notin req[r].finished
      /\ sessions[r][id].remaining = 0 /\ id \in Ids(g)
      /\ DOMAIN sessions[r][id] = SessionFields
  BY <1>1, <1>4 DEF RequestInv, Todo, Typed
<1>6. ~IsRunning(sessions[r], id) /\ id \notin Range(req[r].queue)
  BY <1>4, <1>5 DEF RequestInv, Runs, Queued
<1>7. CanExecute(r, id)
  BY <1>4, <1>5, <1>6 DEF CanExecute
<1>8. Outcomes(r, id, count, o)
  BY <1>3, <1>7, ExecuteOutcomes
<1>9. sessions' = Stored(r, id, o) /\ pool' = o.pool
  BY <1>2, <1>3 DEF Stored
<1>10. /\ DOMAIN req' = DOMAIN req /\ \A x \in DOMAIN req \ {r} : req'[x] = req[x]
       /\ req'[r] = AfterStart(req[r], id, o)
  BY <1>2, <1>3
<1>11. /\ DOMAIN req'[r] = Fields /\ req'[r].queue = Pushed(req[r].queue, id, o)
       /\ req'[r].started = req[r].started \cup {id} /\ req'[r].finished = req[r].finished
       /\ req'[r].counts = req[r].counts /\ req'[r].request = req[r].request /\ req'[r].pc = req[r].pc
       /\ req'[r].status = FirstError(req[r].status, IF Deferred(o) THEN "OK" ELSE o.status)
       /\ req'[r].deferred = req[r].deferred /\ req'[r].left = req[r].left /\ req'[r].kept = req[r].kept
       /\ req'[r].tmp = IF Deferred(o) THEN Append(req[r].tmp, id) ELSE req[r].tmp
  BY <1>4, <1>10 DEF AfterStart, Fields
<1>12. req'[r].todo \subseteq req[r].todo \ {id}
  BY <1>4, <1>10 DEF AfterStart, Fields
<1>13. Handled(r, id, o)
  BY <1>1, <1>9, <1>10, <1>11 DEF Handled
<1>14. Started(req[r], sessions[r], req'[r], sessions'[r], id, Deferred(o))
  BY <1>4, <1>7, <1>8, <1>9, <1>11, ExecutedSession
<1>15. RequestInv(g, req'[r], sessions'[r])
  <2>1. PICK deferred \in BOOLEAN : deferred = Deferred(o)
    BY DEF Deferred
  <2>2. req[r].status # "OK" => req'[r].status # "OK"
    BY <1>11 DEF FirstError
  <2>3. PICK q : q = req[r]
    OBVIOUS
  <2>4. PICK q2 : q2 = req'[r]
    OBVIOUS
  <2>5. PICK S2 : S2 = sessions'[r]
    OBVIOUS
  <2>6. RequestInv(g, q2, S2)
    <3>1. deferred => id \in ModelIds(g)
      BY <1>3, <1>5, <2>1, DeferredIsModel DEF ModelIds
    <3> QED BY <1>1, <1>4, <1>11, <1>12, <1>14, <2>1, <2>2, <2>3, <2>4, <2>5, <3>1, StartedLists
  <2> QED BY <2>4, <2>5, <2>6
<1>16. count \in Nat
  BY <1>2
<1> QED BY <1>1, <1>5, <1>7, <1>8, <1>13, <1>15, <1>16, ExecuteStep

LEMMA TryDeferredStep ==
  ASSUME Inv, NEW r \in DOMAIN req, TryDeferred(r)
  PROVE  Inv'
<1>1. req[r].pc \in {"deferred", "retry"} /\ req[r].left # <<>> /\ definition' = definition
  BY DEF TryDeferred
<1>2. PICK id : id = Head(req[r].left)
  OBVIOUS
<1>3. PICK fail, count :
          /\ count \in Nat /\ pool' = Execute(r, id, fail, count).pool
          /\ sessions' = [sessions EXCEPT ![r][id] = Execute(r, id, fail, count).session]
          /\ req' = [req EXCEPT ![r] = AfterRetry(@, id, Execute(r, id, fail, count))]
  <2>1. PICK fail \in DOMAIN InjectedFailures(NodeOf(g, id[1]).kind),
             count \in IF NodeOf(g, id[1]).kind = "CUSTOM" THEN CountsOf(id[1]) ELSE {0} :
          /\ pool' = Execute(r, id, fail, count).pool
          /\ sessions' = [sessions EXCEPT ![r][id] = Execute(r, id, fail, count).session]
          /\ req' = [req EXCEPT ![r] = AfterRetry(@, id, Execute(r, id, fail, count))]
    BY <1>2, Zenon DEF TryDeferred, Executes
  <2>2. count \in Nat
    BY CountsAreNumbers
  <2> QED BY <2>1, <2>2
<1>4. PICK o : o = Execute(r, id, fail, count)
  OBVIOUS
<1>5. /\ DOMAIN req[r] = Fields /\ RequestInv(g, req[r], sessions[r]) /\ DOMAIN sessions = DOMAIN req
      /\ definition.status = "OK"
  BY <1>1, Active
<1>6. id \in Range(req[r].left)
  BY <1>1, <1>2, <1>5, TailList DEF RequestInv, Typed
<1>7. id \in Pending(req[r]) /\ id \in Line(req[r])
  BY <1>1, <1>6 DEF Pending, Line
<1>8. /\ id \in req[r].started \ req[r].finished /\ id \notin Range(req[r].queue)
      /\ id \in DOMAIN sessions[r] /\ id \in Ids(g) /\ DOMAIN sessions[r][id] = SessionFields
  BY <1>1, <1>5, <1>7 DEF RequestInv, Lined, Typed
<1>9. ~IsRunning(sessions[r], id)
  BY <1>5, <1>7, <1>8 DEF RequestInv, Runs
<1>10. CanExecute(r, id)
  BY <1>5, <1>8, <1>9 DEF CanExecute
<1>11. Outcomes(r, id, count, o)
  BY <1>4, <1>10, ExecuteOutcomes
<1>12. sessions' = Stored(r, id, o) /\ pool' = o.pool
  BY <1>3, <1>4 DEF Stored
<1>13. /\ DOMAIN req' = DOMAIN req /\ \A x \in DOMAIN req \ {r} : req'[x] = req[x]
       /\ req'[r] = AfterRetry(req[r], id, o)
  BY <1>3, <1>4
<1>17. /\ DOMAIN req'[r] = Fields /\ req'[r].queue = Pushed(req[r].queue, id, o)
       /\ req'[r].started = req[r].started /\ req'[r].finished = req[r].finished
       /\ req'[r].counts = req[r].counts /\ req'[r].request = req[r].request /\ req'[r].pc = req[r].pc
       /\ req'[r].status = FirstError(req[r].status, IF Deferred(o) THEN "OK" ELSE o.status)
       /\ req'[r].deferred = req[r].deferred /\ req'[r].left = Tail(req[r].left)
       /\ req'[r].tmp = req[r].tmp
       /\ req'[r].kept = IF o.status = "OK" THEN req[r].kept ELSE Append(req[r].kept, id)
  BY <1>5, <1>13 DEF Fields, AfterRetry
<1>14. Handled(r, id, o)
  BY <1>1, <1>8, <1>12, <1>13, <1>17 DEF Handled
<1>15. Started(req[r], sessions[r], req'[r], sessions'[r], id, Deferred(o))
       /\ sessions'[r][id] = o.session
  BY <1>5, <1>10, <1>11, <1>12, <1>17, ExecutedSession
<1>16. RequestInv(g, req'[r], sessions'[r])
  <2>1. PICK deferred \in BOOLEAN : deferred = Deferred(o)
    BY DEF Deferred
  <2>2. PICK keep \in BOOLEAN : keep = (o.status # "OK")
    OBVIOUS
  <2>3. req[r].status # "OK" => req'[r].status # "OK"
    BY <1>17 DEF FirstError
  <2>4. keep /\ ~deferred => req'[r].status # "OK"
    BY <1>17, <2>1, <2>2 DEF FirstError
  <2>5. deferred => keep
    BY <2>1, <2>2 DEF Deferred
  <2>6. sessions'[r][id].run = "running" => ~keep
    BY <1>11, <1>15, <2>2 DEF Outcomes
  <2>7. req'[r].kept = IF keep THEN Append(req[r].kept, id) ELSE req[r].kept
    BY <1>17, <2>2
  <2>8. PICK q : q = req[r]
    OBVIOUS
  <2>9. PICK q2 : q2 = req'[r]
    OBVIOUS
  <2>10. PICK S2 : S2 = sessions'[r]
    OBVIOUS
  <2>11. RequestInv(g, q2, S2)
    BY <1>1, <1>2, <1>5, <1>17, <1>15, <2>1, <2>3, <2>4, <2>5, <2>6, <2>7, <2>8, <2>9, <2>10, TriedLists
  <2> QED BY <2>9, <2>10, <2>11
<1>18. count \in Nat
  BY <1>3
<1> QED BY <1>1, <1>8, <1>10, <1>11, <1>14, <1>16, <1>18, ExecuteStep


-----------------------------------------------------------------------------
(* The other actions but Pull *)

\* The streams without session gid of request r.
Without(gid, P) ==
    /\ DOMAIN P = DOMAIN pool
    /\ \A m \in DOMAIN pool : /\ PoolTyped(Gids(g, DOMAIN req), P[m])
                              /\ Asking(P[m]) \subseteq Asking(pool[m]) \ {gid}
                              /\ P[m].held \subseteq pool[m].held \ {gid}

\* DLNodeSession::release of a session that does not wait for a stream.
LEMMA ReleasedStreams ==
  ASSUME Inv, NEW r \in DOMAIN req, NEW id \in Ids(g), ~Asks(req[r], sessions[r], id)
  PROVE  Without(Gid(r, id), Release(Gid(r, id)))
<1>1. PoolInv(g, pool, req, sessions)
  BY DEF Inv, AllInv, g
<1>2. PICK gid : gid = Gid(r, id)
  OBVIOUS
<1>3. PICK P : P = Release(gid)
  OBVIOUS
<1>4. DOMAIN P = DOMAIN pool
  BY <1>3 DEF Release
<1>5. ASSUME NEW m \in DOMAIN pool
      PROVE  /\ PoolTyped(Gids(g, DOMAIN req), P[m])
             /\ Asking(P[m]) \subseteq Asking(pool[m]) \ {gid}
             /\ P[m].held \subseteq pool[m].held \ {gid}
  <2>1. gid \notin Asking(pool[m]) /\ gid \notin Range(pool[m].waiting)
    BY <1>2, OwnPool DEF Asking
  <2>2. PoolTyped(Gids(g, DOMAIN req), pool[m])
    BY <1>1 DEF PoolInv
  <2>3. CASE gid \in pool[m].held
    <3>1. P[m] = ReturnStream(pool[m], gid)
      BY <1>3, <2>3 DEF Release
    <3> QED BY <2>1, <2>2, <3>1, Returned
  <2>4. CASE gid \notin pool[m].held
    <3>1. P[m] = pool[m]
      BY <1>3, <2>4 DEF Release
    <3> QED BY <2>1, <2>2, <2>4, <3>1
  <2> QED BY <2>3, <2>4
<1>6. Without(gid, P)
  BY <1>4, <1>5 DEF Without
<1> QED BY <1>2, <1>3, <1>6

\* A session that has finished leaves the streams.
LEMMA FinishedStreams ==
  ASSUME Inv, NEW r \in DOMAIN req, NEW id \in Ids(g), Without(Gid(r, id), pool'),
         DOMAIN req' = DOMAIN req, \A x \in DOMAIN req \ {r} : req'[x] = req[x],
         \A x \in DOMAIN req \ {r} : sessions'[x] = sessions[x],
         \A x \in Ids(g) \ {id} : /\ Asks(req[r], sessions[r], x) => Asks(req'[r], sessions'[r], x)
                                  /\ Holds(req[r], sessions[r], x) => Holds(req'[r], sessions'[r], x)
  PROVE  PoolInv(g, pool', req', sessions')
<1>1. PoolInv(g, pool, req, sessions)
  BY DEF Inv, AllInv, g
<1>2. \A m \in DOMAIN pool : Gid(r, id) \notin Asking(pool'[m]) /\ Gid(r, id) \notin pool'[m].held
  BY DEF Without
<1>3. SessionStep(g, pool, req, sessions, pool', req', sessions', r, id)
  BY <1>2 DEF SessionStep, Without
<1> QED BY <1>1, <1>3, PoolStep

LEMMA PullAfterErrorStep ==
  ASSUME Inv, NEW r \in DOMAIN req, PullAfterError(r)
  PROVE  Inv'
<1>1. /\ req[r].pc = "pull" /\ req[r].queue # <<>> /\ req[r].status # "OK"
      /\ definition' = definition /\ sessions' = sessions
  BY DEF PullAfterError
<1>2. PICK id : id = Head(req[r].queue)
  OBVIOUS
<1>3. /\ pool' = Release(Gid(r, id)) /\ req' = [req EXCEPT ![r] = Continue(Finish(@, id))]
  BY <1>2 DEF PullAfterError, Gid
<1>4. /\ DOMAIN req[r] = Fields /\ RequestInv(g, req[r], sessions[r]) /\ DOMAIN sessions = DOMAIN req
      /\ definition.status = "OK" /\ Requested(g, req[r].request)
  BY <1>1, Active
<1>5. /\ DOMAIN req' = DOMAIN req /\ \A x \in DOMAIN req \ {r} : req'[x] = req[x]
      /\ req'[r] = Continue(Finish(req[r], id))
  BY <1>3
<1>6. /\ DOMAIN req'[r] = Fields /\ req'[r].queue = Tail(req[r].queue)
      /\ req'[r].finished = req[r].finished \cup {id}
      /\ req'[r].started = req[r].started /\ req'[r].deferred = req[r].deferred
      /\ req'[r].tmp = req[r].tmp /\ req'[r].left = req[r].left /\ req'[r].kept = req[r].kept
      /\ req'[r].status = req[r].status /\ req'[r].request = req[r].request
  BY <1>4, <1>5 DEF Continue, Finish, Fields
<1>7. req'[r].pc \in {"pull", "ended"} /\ (req'[r].pc = "ended" => req'[r].started = req'[r].finished)
  BY <1>4, <1>5 DEF Continue, Finish, Fields
<1>8. /\ RequestInv(g, req'[r], sessions[r]) /\ id \in Range(req[r].queue)
      /\ id \in req[r].started \ req[r].finished
  <2>1. PICK q : q = req[r]
    OBVIOUS
  <2>2. PICK q2 : q2 = req'[r]
    OBVIOUS
  <2>3. PICK S : S = sessions[r]
    OBVIOUS
  <2>4. /\ DOMAIN S \subseteq Ids(g) /\ \A x \in DOMAIN S : DOMAIN S[x] = SessionFields
        /\ \A x \in DOMAIN S \ q.started : ~IsRunning(S, x)
    BY <1>4, <2>1, <2>3 DEF RequestInv, Typed, Runs
  <2>5. Pulled(g, q, S, q2, S, id)
    BY <1>1, <1>2, <1>6, <1>7, <2>1, <2>2, <2>4 DEF Pulled
  <2>6. RequestInv(g, q2, S) /\ id \in Range(q.queue) /\ id \in q.started \ q.finished
    BY <1>4, <2>1, <2>3, <2>5, PulledLists
  <2> QED BY <2>1, <2>2, <2>3, <2>6
<1>9. id \in Ids(g) /\ ~Asks(req[r], sessions[r], id)
  BY <1>4, <1>8 DEF Asks, RequestInv, Typed
<1>10. Without(Gid(r, id), pool')
  BY <1>3, <1>9, ReleasedStreams
<1>11. Range(req[r].queue) = Range(req'[r].queue) \cup {id}
  BY <1>1, <1>2, <1>4, <1>6, TailList DEF RequestInv, Typed
<1>12. \A x \in Ids(g) \ {id} : /\ Asks(req[r], sessions[r], x) => Asks(req'[r], sessions'[r], x)
                                /\ Holds(req[r], sessions[r], x) => Holds(req'[r], sessions'[r], x)
  BY <1>1, <1>6, <1>11 DEF Asks, Holds
<1>13. PoolInv(g, pool', req', sessions')
  BY <1>1, <1>5, <1>9, <1>10, <1>12, FinishedStreams
<1>14. OneRequest(definition, pool, req, sessions, pool', req', sessions', r)
  BY <1>1, <1>4, <1>5, <1>6, <1>7, <1>8, <1>10, <1>13 DEF OneRequest, Without, g
<1>15. AllInv(definition, pool', req', sessions')
  BY <1>14, RequestStep DEF Inv
<1> QED BY <1>1, <1>15 DEF Inv

LEMMA DisarmStep ==
  ASSUME Inv, NEW r \in DOMAIN req, Disarm(r)
  PROVE  Inv'
<1>1. /\ req[r].pc = "disarm" /\ req[r].left # <<>> /\ definition' = definition /\ sessions' = sessions
  BY DEF Disarm
<1>2. PICK id : id = Head(req[r].left)
  OBVIOUS
<1>3. PICK gid : gid = Gid(r, id)
  OBVIOUS
<1>4. PICK m : m = ModelOf(id[1])
  OBVIOUS
<1> DEFINE waits == gid \in Range(pool[m].waiting)
<1>5. waits <=> gid \in Range(pool[m].waiting)
  OBVIOUS
<1>6. /\ pool' = IF gid \in pool[m].granted THEN [pool EXCEPT ![m] = ReturnStream(@, gid)] ELSE pool
      /\ req' = [req EXCEPT ![r] = AfterDisarm(@, id, waits)]
  BY <1>2, <1>3, <1>4 DEF Disarm, Gid
<1> HIDE DEF waits
<1>7. /\ DOMAIN req[r] = Fields /\ RequestInv(g, req[r], sessions[r]) /\ DOMAIN sessions = DOMAIN req
      /\ definition.status = "OK" /\ Requested(g, req[r].request) /\ req[r].status # "OK"
  BY <1>1, Active DEF RequestInv, Phases
<1>8. /\ DOMAIN req' = DOMAIN req /\ \A x \in DOMAIN req \ {r} : req'[x] = req[x]
      /\ req'[r] = AfterDisarm(req[r], id, waits)
  BY <1>6
<1>9. /\ DOMAIN req'[r] = Fields /\ req'[r].queue = req[r].queue /\ req'[r].pc = req[r].pc
      /\ req'[r].status = req[r].status /\ req'[r].request = req[r].request
      /\ req'[r].started = req[r].started /\ req'[r].deferred = req[r].deferred
      /\ req'[r].tmp = req[r].tmp /\ req'[r].left = Tail(req[r].left)
      /\ req'[r].kept = IF waits THEN Append(req[r].kept, id) ELSE req[r].kept
      /\ req'[r].finished = IF waits THEN req[r].finished ELSE req[r].finished \cup {id}
  BY <1>7, <1>8 DEF AfterDisarm, Fields
<1>10. /\ RequestInv(g, req'[r], sessions[r])
       /\ id \in req[r].started /\ id \in Ids(g) /\ id \notin Range(req[r].queue)
       /\ ~IsRunning(sessions[r], id)
  <2>1. PICK q : q = req[r]
    OBVIOUS
  <2>2. PICK q2 : q2 = req'[r]
    OBVIOUS
  <2>3. /\ RequestInv(g, q2, sessions[r])
        /\ id \in q.started /\ id \in Ids(g) /\ id \notin Range(q.queue) /\ ~IsRunning(sessions[r], id)
    <3>1. /\ q.pc = "disarm" /\ q.left # <<>> /\ id = Head(q.left) /\ RequestInv(g, q, sessions[r])
          /\ DOMAIN q2 = Fields /\ q2.pc = q.pc /\ q2.status = q.status /\ q2.queue = q.queue
          /\ q2.started = q.started /\ q2.deferred = q.deferred /\ q2.tmp = q.tmp
          /\ q2.left = Tail(q.left)
      BY <1>1, <1>2, <1>7, <1>9, <2>1, <2>2
    <3>2. \/ q2.kept = Append(q.kept, id) /\ q2.finished = q.finished
          \/ q2.kept = q.kept /\ q2.finished = q.finished \cup {id}
      BY <1>9, <2>1, <2>2
    <3> QED BY <3>1, <3>2, DisarmedLists
  <2> QED BY <2>1, <2>2, <2>3
<1>11. PoolInv(g, pool, req, sessions)
  BY DEF Inv, AllInv, g
<1>12. \A x \in DOMAIN pool : gid \notin pool[x].held
  BY <1>3, <1>10, OwnPool DEF Holds
<1>13. \A x \in DOMAIN pool \ {m} : gid \notin Asking(pool[x])
  BY <1>3, <1>4, <1>10, OwnPool
<1>14. \A x \in DOMAIN pool : PoolTyped(Gids(g, DOMAIN req), pool[x])
  BY <1>11 DEF PoolInv
<1>15. \A x \in Ids(g) \ {id} : /\ Asks(req[r], sessions[r], x) => Asks(req'[r], sessions'[r], x)
                                /\ Holds(req[r], sessions[r], x) => Holds(req'[r], sessions'[r], x)
  BY <1>1, <1>9 DEF Asks, Holds
<1>16. PoolInv(g, pool', req', sessions') /\ DOMAIN pool' = DOMAIN pool
  <2>1. CASE waits
    <3>1. CASE m \in DOMAIN pool
      <4>1. gid \notin pool[m].granted
        BY <1>5, <1>14, <2>1, <3>1 DEF PoolTyped
      <4>2. pool' = pool
        BY <1>6, <4>1
      <4>3. gid \in Asking(pool[m])
        BY <1>5, <2>1 DEF Asking
      <4>4. Asks(req[r], sessions[r], id)
        BY <1>3, <1>10, <3>1, <4>3, OwnPool
      <4>5. Asks(req'[r], sessions'[r], id)
        BY <1>1, <1>9, <2>1, <4>4 DEF Asks
      <4>6. \A x \in DOMAIN pool : gid \in Asking(pool[x]) => Place(g, DOMAIN req, x, gid)
        BY <1>11 DEF PoolInv
      <4>7. SessionStep(g, pool, req, sessions, pool', req', sessions', r, id)
        BY <1>1, <1>3, <1>8, <1>10, <1>12, <1>14, <1>15, <4>2, <4>5, <4>6 DEF SessionStep
      <4> QED BY <1>11, <4>2, <4>7, PoolStep
    <3>2. CASE m \notin DOMAIN pool
      <4>1. DOMAIN pool' = DOMAIN pool /\ \A x \in DOMAIN pool : pool'[x] = pool[x]
        BY <1>6, <3>2
      <4>2. Without(gid, pool')
        BY <1>12, <1>13, <1>14, <3>2, <4>1 DEF Without
      <4> QED BY <1>1, <1>3, <1>8, <1>10, <1>15, <4>1, <4>2, FinishedStreams
    <3> QED BY <3>1, <3>2
  <2>2. CASE ~waits
    <3>1. Without(gid, pool')
      <4>1. CASE m \in DOMAIN pool /\ gid \in pool[m].granted
        <5>1. /\ DOMAIN pool' = DOMAIN pool /\ pool'[m] = ReturnStream(pool[m], gid)
              /\ \A x \in DOMAIN pool \ {m} : pool'[x] = pool[x]
          BY <1>6, <4>1
        <5>2. /\ PoolTyped(Gids(g, DOMAIN req), pool'[m]) /\ Asking(pool'[m]) = Asking(pool[m]) \ {gid}
              /\ pool'[m].held = pool[m].held \ {gid}
          <6>1. gid \notin Range(pool[m].waiting) /\ PoolTyped(Gids(g, DOMAIN req), pool[m])
            BY <1>5, <1>14, <2>2, <4>1
          <6> QED BY <5>1, <6>1, Returned
        <5> QED BY <1>12, <1>13, <1>14, <5>1, <5>2 DEF Without
      <4>2. CASE m \notin DOMAIN pool
        <5>1. DOMAIN pool' = DOMAIN pool /\ \A x \in DOMAIN pool : pool'[x] = pool[x]
          BY <1>6, <4>2
        <5> QED BY <1>12, <1>13, <1>14, <4>2, <5>1 DEF Without
      <4>3. CASE m \in DOMAIN pool /\ gid \notin pool[m].granted
        <5>1. pool' = pool
          BY <1>6, <4>3
        <5>2. gid \notin Asking(pool[m])
          BY <1>5, <2>2, <4>3 DEF Asking
        <5> QED BY <1>12, <1>13, <1>14, <5>1, <5>2 DEF Without
      <4> QED BY <4>1, <4>2, <4>3
    <3>2. PoolInv(g, pool', req', sessions')
      BY <1>1, <1>3, <1>8, <1>10, <1>15, <3>1, FinishedStreams
    <3> QED BY <3>1, <3>2 DEF Without
  <2> QED BY <2>1, <2>2
<1>17. OneRequest(definition, pool, req, sessions, pool', req', sessions', r)
  BY <1>1, <1>7, <1>8, <1>9, <1>10, <1>16 DEF OneRequest, g
<1>18. AllInv(definition, pool', req', sessions')
  BY <1>17, RequestStep DEF Inv
<1> QED BY <1>1, <1>18 DEF Inv


LEMMA CompleteStep ==
  ASSUME Inv, NEW r \in DOMAIN req, NEW id \in DOMAIN sessions[r], Complete(r, id)
  PROVE  Inv'
<1>1. /\ sessions[r][id].run = "running" /\ pool' = pool /\ definition' = definition
      /\ req' = [req EXCEPT ![r].queue = Append(@, id)]
  BY DEF Complete
<1>2. PICK run \in {"done", "failed"}, count \in CountsOf(id[1]) :
          sessions' = [sessions EXCEPT ![r][id].run = run, ![r][id].count = count]
  BY DEF Complete
<1>3. count \in Nat
  BY CountsAreNumbers
<1>4. /\ RequestInv(g, req[r], sessions[r]) /\ DOMAIN sessions = DOMAIN req
  BY DEF Inv, AllInv, DefinitionInv, g
<1>5. /\ id \in req[r].started \ req[r].finished /\ id \notin Range(req[r].queue)
      /\ DOMAIN sessions[r][id] = SessionFields /\ id \in Ids(g) /\ DOMAIN req[r] = Fields
      /\ req[r].queue \in Seq(Ids(g)) /\ IsRunning(sessions[r], id)
  BY <1>1, <1>4 DEF RequestInv, Runs, IsRunning, Typed
<1>6. req[r].pc \notin {"idle", "ended"}
  BY <1>4, <1>5 DEF RequestInv, Phases
<1>7. /\ definition.status = "OK" /\ Requested(g, req[r].request)
      /\ req[r].status = "OK" =>
            FeedInv(g, req[r].counts, req[r].started, req[r].finished, sessions[r])
  BY <1>6, Active
<1>8. /\ DOMAIN req' = DOMAIN req /\ \A x \in DOMAIN req \ {r} : req'[x] = req[x]
      /\ DOMAIN req'[r] = Fields /\ req'[r].queue = Append(req[r].queue, id)
      /\ \A f \in Fields \ {"queue"} : req'[r][f] = req[r][f]
  BY <1>1, <1>5 DEF Fields
<1>9. /\ req'[r].pc = req[r].pc /\ req'[r].status = req[r].status /\ req'[r].started = req[r].started
      /\ req'[r].finished = req[r].finished /\ req'[r].deferred = req[r].deferred
      /\ req'[r].tmp = req[r].tmp /\ req'[r].left = req[r].left /\ req'[r].kept = req[r].kept
      /\ req'[r].todo = req[r].todo /\ req'[r].counts = req[r].counts /\ req'[r].request = req[r].request
  BY <1>8 DEF Fields
<1>10. /\ DOMAIN sessions' = DOMAIN sessions /\ \A x \in DOMAIN req \ {r} : sessions'[x] = sessions[x]
       /\ DOMAIN sessions'[r] = DOMAIN sessions[r]
       /\ \A x \in DOMAIN sessions[r] \ {id} : sessions'[r][x] = sessions[r][x]
  BY <1>2, <1>4
<1>11. sessions'[r][id] = [sessions[r][id] EXCEPT !.run = run, !.count = count]
  BY <1>2, <1>4
<1>12. /\ DOMAIN sessions'[r][id] = SessionFields /\ sessions'[r][id].run # "running"
       /\ sessions'[r][id].remaining = sessions[r][id].remaining
       /\ sessions'[r][id].meta = sessions[r][id].meta /\ sessions'[r][id].count \in Nat
       /\ sessions'[r][id].used = sessions[r][id].used
  BY <1>3, <1>5, <1>11 DEF SessionFields
<1>13. RequestInv(g, req'[r], sessions'[r])
  <2>1. PICK q : q = req[r]
    OBVIOUS
  <2>2. PICK q2 : q2 = req'[r]
    OBVIOUS
  <2>3. PICK S2 : S2 = sessions'[r]
    OBVIOUS
  <2>4. RequestInv(g, q2, S2)
    BY <1>4, <1>5, <1>8, <1>9, <1>10, <1>12, <2>1, <2>2, <2>3, CompletedLists
  <2> QED BY <2>2, <2>3, <2>4
<1>14. PoolInv(g, pool', req', sessions')
  <2>1. PoolInv(g, pool, req, sessions)
    BY DEF Inv, AllInv, g
  <2>2. Range(req'[r].queue) = Range(req[r].queue) \cup {id}
    BY <1>5, <1>8, AppendList
  <2>3. \A x \in Ids(g) \ {id} : /\ Asks(req[r], sessions[r], x) => Asks(req'[r], sessions'[r], x)
                                 /\ Holds(req[r], sessions[r], x) => Holds(req'[r], sessions'[r], x)
    BY <1>9, <1>10, <2>2 DEF Asks, Holds, IsRunning
  <2>4. Holds(req'[r], sessions'[r], id)
    BY <1>5, <1>9, <2>2 DEF Holds
  <2>5. \A m \in DOMAIN pool : Gid(r, id) \notin Asking(pool[m])
    BY <1>5, OwnPool DEF Asks
  <2>6. \A m \in DOMAIN pool : Gid(r, id) \in pool[m].held => Place(g, DOMAIN req, m, Gid(r, id))
    BY <2>1 DEF PoolInv
  <2>7. SessionStep(g, pool, req, sessions, pool', req', sessions', r, id)
    BY <1>1, <1>5, <1>8, <1>10, <2>1, <2>3, <2>4, <2>5, <2>6 DEF SessionStep, PoolInv
  <2> QED BY <2>1, <2>7, PoolStep
<1>15. ASSUME req'[r].status = "OK"
       PROVE  FeedInv(g, req'[r].counts, req'[r].started, req'[r].finished, sessions'[r])
  <2>1. FeedInv(g, req[r].counts, req[r].started, req[r].finished, sessions[r])
    BY <1>7, <1>9, <1>15
  <2>2. \A x \in DOMAIN sessions'[r] : Fed(g, req[r].counts, req[r].finished, x, sessions'[r][x])
    BY <1>10, <1>12, <2>1 DEF FeedInv, Fed
  <2>3. \A x \in req[r].started \cap DOMAIN sessions'[r] :
            Computes(NodeOf(g, x[1])) => sessions'[r][x].used = TRUE
    BY <1>10, <1>12, <2>1 DEF FeedInv
  <2> QED BY <1>9, <1>10, <2>1, <2>2, <2>3 DEF FeedInv
<1>16. OneRequest(definition, pool, req, sessions, pool', req', sessions', r)
  BY <1>1, <1>6, <1>7, <1>8, <1>9, <1>10, <1>13, <1>14, <1>15 DEF OneRequest, g
<1>17. AllInv(definition, pool', req', sessions')
  BY <1>16, RequestStep DEF Inv
<1> QED BY <1>1, <1>17 DEF Inv


-----------------------------------------------------------------------------
(* The entry session *)

LEMMA EmptySizes ==
  CollapsedSizes(<<>>) = <<>> /\ <<>> \in Seq(Nat) /\ Product(CollapsedSizes(<<>>)) \in Nat
<1>1. CollapsedSizes(<<>>) = <<>> /\ <<>> \in Seq(Nat)
  BY DEF CollapsedSizes
<1> QED BY <1>1, IndicesCounted

LEMMA EntryFeeds ==
  ASSUME Valid(g), NEW n, n = EntryName(g), NEW id, id = <<n, <<>>>>, NEW S, DOMAIN S = {id},
         S[id] = NewSession(n, <<>>, <<>>)
  PROVE  /\ n \in NodeNames(g) /\ id \in Ids(g) /\ DOMAIN S[id] = SessionFields
         /\ S[id].run = "new" /\ FeedInv(g, <<>>, {id}, {}, S)
<1>1. n \in NodeNames(g) /\ Inside(g)[n] = <<>> /\ Dependencies(g, n) = {}
  BY DEF Valid, WellNested
<1>2. id \in Ids(g) /\ id[1] = n /\ id[2] = <<>>
  <2>1. <<>> \in Keys(g)
    BY EmptyList DEF Keys
  <2> QED BY <1>1, <2>1 DEF Ids
<1>3. /\ DOMAIN S[id] = SessionFields /\ S[id].meta = <<>> /\ S[id].count = 0 /\ S[id].run = "new"
      /\ S[id].remaining = Cardinality(Dependencies(g, n)) * Product(CollapsedSizes(<<>>))
  BY DEF NewSession, SessionFields
<1>4. S[id].remaining = 0
  BY <1>1, <1>3, EmptySizes, FS_EmptySet
<1>5. Around(g, n) = <<>>
  <2>1. Around(g, n) \in Seq(NodeNames(g)) /\ Len(Inside(g)[n]) = 0
        /\ Len(Around(g, n)) = Len(Inside(g)[n]) - Cardinality(NodeOf(g, n).gather)
        /\ Cardinality(NodeOf(g, n).gather) \in Nat
    BY <1>1, Nested
  <2>2. Len(Around(g, n)) \in Nat
    BY <2>1
  <2>3. Len(Around(g, n)) = 0
    BY <2>1, <2>2
  <2> QED BY <2>1, <2>3
<1>6. Known(g, <<>>, n)
  BY <1>1 DEF Known
<1>7. Inputs(g, <<>>, n) = {}
  BY <1>1 DEF Inputs
<1>8. Missing(g, <<>>, {}, id) = {}
  BY <1>2, <1>7 DEF Missing
<1>9. Metadata(g, <<>>, Around(g, n), S[id].meta) /\ Key(S[id].meta) = <<>>
  <2>1. <<>> \in Seq(NodeNames(g) \X Nat \X Nat) /\ Len(<<>>) = 0 /\ DOMAIN <<>> = {}
    OBVIOUS
  <2>2. Key(<<>>) = <<>>
    BY DEF Key
  <2> QED BY <1>3, <1>5, <2>1, <2>2 DEF Metadata
<1>10. Fed(g, <<>>, {}, id, S[id])
  <2>1. S[id].count \in Nat
    BY <1>3
  <2>2. S[id].remaining = Cardinality(Missing(g, <<>>, {}, id))
    BY <1>4, <1>8, FS_EmptySet
  <2> QED BY <1>2, <1>6, <1>9, <2>1, <2>2 DEF Fed
<1>11. ~Computes(NodeOf(g, n))
  BY DEF Valid, WellConnected, Computes
<1>12. Counted(g, <<>>, {})
  BY DEF Counted
<1>13. FeedInv(g, <<>>, {id}, {}, S)
  BY <1>2, <1>6, <1>8, <1>10, <1>11, <1>12 DEF FeedInv
<1> QED BY <1>1, <1>2, <1>3, <1>13

LEMMA BroughtLengths ==
  ASSUME Inv, definition.status = "OK", NEW s \in Scenarios, s.graph = g, NEW request \in Requests(s)
  PROVE  Requested(g, request)
<1>1. Validate(s.graph) = "OK"
  BY DEF Inv, AllInv, DefinitionInv, g
<1>2. HasLengths(s)
  BY <1>1, ScenariosAssumption
<1>3. PICK dims \in s.requests :
        request = [a \in DOMAIN dims |->
                     [dims |-> dims[a], val |-> << <<EntryName(s.graph), a>>, <<>>, <<>> >>]]
  BY DEF Requests
<1>4. SUFFICES ASSUME NEW n \in NodeNames(g), NEW d \in Dependencies(g, n), NEW p \in g.connections[n][d],
                      NodeOf(g, d).kind = "ENTRY"
               PROVE  request[p[1]].dims \in Seq(Nat)
  BY DEF Requested
<1>5. p[1] \in DOMAIN dims /\ dims[p[1]] \in Seq(Nat)
  BY <1>2, <1>4 DEF HasLengths
<1> QED BY <1>3, <1>5

LEMMA BeginStep ==
  ASSUME Inv, NEW r \in DOMAIN req, NEW s \in Scenarios, s.graph = g, NEW request \in Requests(s),
         Begin(r, request)
  PROVE  Inv'
<1>1. req[r] = Idle /\ sessions[r] = <<>> /\ pool' = pool /\ definition' = definition
      /\ DOMAIN sessions = DOMAIN req
  BY DEF Begin, Inv, AllInv, DefinitionInv
<1>2. PICK id : id = <<EntryName(g), <<>>>>
  OBVIOUS
<1>3. /\ Range(<<>>) = {} /\ Distinct(<<>>) /\ <<>> \in Seq(ModelIds(g)) /\ <<>> \in Seq(Ids(g))
      /\ DOMAIN <<>> = {}
  BY EmptyList
<1>4. PoolInv(g, pool, req, sessions)
  BY DEF Inv, AllInv, g
<1>5. \A x : ~Asks(req[r], sessions[r], x) /\ ~Holds(req[r], sessions[r], x)
  <2>1. Idle.started = {}
    BY DEF Idle
  <2>2. req[r].started = {}
    BY <1>1, <2>1
  <2> QED BY <2>2 DEF Asks, Holds
<1>6. CASE definition.status # "OK"
  <2>1. /\ req' = [req EXCEPT ![r].pc = "ended", ![r].status = definition.status]
        /\ sessions' = sessions
    BY <1>6 DEF Begin
  <2>2. /\ DOMAIN req' = DOMAIN req /\ \A x \in DOMAIN req \ {r} : req'[x] = req[x]
        /\ req'[r] = [Idle EXCEPT !.pc = "ended", !.status = definition.status]
    BY <1>1, <2>1
  <2>3. /\ DOMAIN req'[r] = Fields /\ req'[r].pc = "ended" /\ req'[r].status = definition.status
        /\ req'[r].queue = <<>> /\ req'[r].started = {} /\ req'[r].finished = {}
        /\ req'[r].deferred = <<>> /\ req'[r].tmp = <<>> /\ req'[r].left = <<>> /\ req'[r].kept = <<>>
    BY <2>2 DEF Idle, Fields
  <2>4. Line(req'[r]) = {} /\ Pending(req'[r]) = {} /\ Deferrals(req'[r]) = <<>>
    BY <1>3, <2>3 DEF Line, Pending, Deferrals
  <2>5. Typed(g, req'[r], sessions'[r])
    BY <1>1, <1>3, <2>1, <2>3 DEF Typed
  <2>6. Phases(req'[r]) /\ Queued(req'[r]) /\ Lined(req'[r])
    BY <1>3, <2>3, <2>4 DEF Phases, Queued, Lined, Apart
  <2>7. Runs(req'[r], sessions'[r]) /\ Todo(req'[r], sessions'[r])
    BY <1>1, <1>3, <2>1, <2>3 DEF Runs, Todo
  <2>8. RequestInv(g, req'[r], sessions'[r])
    BY <2>5, <2>6, <2>7 DEF RequestInv
  <2>9. PoolInv(g, pool, req', sessions)
    BY <1>4, <1>5, <2>2, SamePlaces
  <2>10. OneRequest(definition, pool, req, sessions, pool', req', sessions', r)
    BY <1>1, <1>6, <2>1, <2>2, <2>3, <2>8, <2>9 DEF OneRequest, g
  <2>11. AllInv(definition, pool', req', sessions')
    BY <2>10, RequestStep DEF Inv
  <2> QED BY <1>1, <2>11 DEF Inv
<1>7. CASE definition.status = "OK"
  <2>1. /\ req' = [req EXCEPT ![r].pc = "pull", ![r].request = request,
                              ![r].started = {id}, ![r].queue = <<id>>]
        /\ sessions' = [sessions EXCEPT ![r] = [x \in {id} |-> NewSession(id[1], <<>>, <<>>)]]
    BY <1>2, <1>7 DEF Begin
  <2>2. /\ DOMAIN req' = DOMAIN req /\ \A x \in DOMAIN req \ {r} : req'[x] = req[x]
        /\ req'[r] = [Idle EXCEPT !.pc = "pull", !.request = request, !.started = {id}, !.queue = <<id>>]
    BY <1>1, <2>1
  <2>3. /\ DOMAIN req'[r] = Fields /\ req'[r].pc = "pull" /\ req'[r].status = "OK"
        /\ req'[r].queue = <<id>> /\ req'[r].started = {id} /\ req'[r].finished = {}
        /\ req'[r].deferred = <<>> /\ req'[r].tmp = <<>> /\ req'[r].left = <<>> /\ req'[r].kept = <<>>
        /\ req'[r].counts = <<>> /\ req'[r].request = request
    BY <2>2 DEF Idle, Fields
  <2>4. /\ DOMAIN sessions' = DOMAIN sessions /\ \A x \in DOMAIN req \ {r} : sessions'[x] = sessions[x]
        /\ DOMAIN sessions'[r] = {id} /\ sessions'[r][id] = NewSession(EntryName(g), <<>>, <<>>)
    BY <1>1, <1>2, <2>1
  <2>5. /\ id \in Ids(g) /\ DOMAIN sessions'[r][id] = SessionFields /\ sessions'[r][id].run = "new"
        /\ FeedInv(g, <<>>, {id}, {}, sessions'[r])
    <3>1. Valid(g)
      BY <1>7, ValidInUse
    <3>2. PICK S : S = sessions'[r]
      OBVIOUS
    <3>3. PICK n : n = EntryName(g)
      OBVIOUS
    <3>4. id = <<n, <<>>>> /\ DOMAIN S = {id} /\ S[id] = NewSession(n, <<>>, <<>>)
      BY <1>2, <2>4, <3>2, <3>3
    <3>5. /\ id \in Ids(g) /\ DOMAIN S[id] = SessionFields /\ S[id].run = "new"
          /\ FeedInv(g, <<>>, {id}, {}, S)
      BY <3>1, <3>3, <3>4, EntryFeeds
    <3> QED BY <3>2, <3>5
  <2>6. Range(<<id>>) = {id} /\ Distinct(<<id>>) /\ <<id>> \in Seq(Ids(g))
    BY <2>5 DEF Range, Distinct
  <2>7. Line(req'[r]) = {} /\ Pending(req'[r]) = {} /\ Deferrals(req'[r]) = <<>>
    BY <1>3, <2>3 DEF Line, Pending, Deferrals
  <2>8. Typed(g, req'[r], sessions'[r])
    BY <1>3, <2>3, <2>4, <2>5, <2>6 DEF Typed
  <2>9. Phases(req'[r]) /\ Queued(req'[r]) /\ Lined(req'[r])
    BY <1>3, <2>3, <2>6, <2>7 DEF Phases, Queued, Lined, Apart
  <2>10. Runs(req'[r], sessions'[r]) /\ Todo(req'[r], sessions'[r])
    BY <2>3, <2>4, <2>5 DEF Runs, Todo, IsRunning
  <2>11. RequestInv(g, req'[r], sessions'[r])
    BY <2>8, <2>9, <2>10 DEF RequestInv
  <2>12. PoolInv(g, pool, req', sessions')
    BY <1>4, <1>5, <2>2, <2>4, SamePlaces
  <2>13. Requested(g, request)
    BY <1>7, BroughtLengths
  <2>14. OneRequest(definition, pool, req, sessions, pool', req', sessions', r)
    BY <1>1, <1>7, <2>2, <2>3, <2>4, <2>5, <2>11, <2>12, <2>13 DEF OneRequest, g
  <2>15. AllInv(definition, pool', req', sessions')
    BY <2>14, RequestStep DEF Inv
  <2> QED BY <1>1, <2>15 DEF Inv
<1> QED BY <1>6, <1>7


-----------------------------------------------------------------------------
(* Keys of sessions and of results *)

\* The indices of a result that node n gathers.
Index(gr, n, meta) ==
    [i \in 1..Cardinality(NodeOf(gr, n).gather) |-> meta[Len(Around(gr, n)) + i][2]]

\* A key of a session (or of a result) inside of these demultiplexers.
Inner(gr, counts, levels, key) ==
    /\ key \in Keys(gr) /\ Len(key) = Len(levels)
    /\ \A i \in 1..Len(levels) : key[i][1] = levels[i] /\ key[i][2] < counts[levels[i]]

LEMMA InnerKey ==
  ASSUME NEW gr, NEW counts, NEW levels, Len(levels) \in Nat, NEW meta,
         Metadata(gr, counts, levels, meta)
  PROVE  /\ Inner(gr, counts, levels, Key(meta)) /\ Len(meta) = Len(levels)
         /\ Len(Key(meta)) = Len(levels) /\ DOMAIN meta = 1..Len(levels)
         /\ \A i \in 1..Len(levels) : Key(meta)[i] = <<meta[i][1], meta[i][2]>>
<1>1. /\ meta \in Seq(NodeNames(gr) \X Nat \X Nat) /\ Len(meta) = Len(levels)
      /\ \A i \in DOMAIN meta : /\ meta[i][1] = levels[i]
                                /\ meta[i][3] = counts[meta[i][1]] /\ meta[i][2] < meta[i][3]
  BY DEF Metadata
<1>2. DOMAIN meta = 1..Len(levels) /\ \A i \in DOMAIN meta : meta[i] \in NodeNames(gr) \X Nat \X Nat
  BY <1>1
<1>3. \A i \in DOMAIN meta : <<meta[i][1], meta[i][2]>> \in NodeNames(gr) \X Nat
  BY <1>2
<1>4. Key(meta) = [i \in 1..Len(levels) |-> <<meta[i][1], meta[i][2]>>]
  BY <1>2 DEF Key
<1>5. Key(meta) \in Seq(NodeNames(gr) \X Nat) /\ Len(Key(meta)) = Len(levels)
  BY <1>2, <1>3, <1>4
<1>6. \A i \in 1..Len(levels) : Key(meta)[i] = <<meta[i][1], meta[i][2]>>
  BY <1>4
<1>7. \A i \in 1..Len(levels) : Key(meta)[i][1] = levels[i] /\ Key(meta)[i][2] < counts[levels[i]]
  <2>1. TAKE i \in 1..Len(levels)
  <2>2. Key(meta)[i][1] = meta[i][1] /\ Key(meta)[i][2] = meta[i][2]
    BY <1>6
  <2> QED BY <1>1, <1>2, <2>2
<1>8. Inner(gr, counts, levels, Key(meta))
  BY <1>5, <1>7 DEF Inner, Keys
<1> QED BY <1>1, <1>2, <1>5, <1>6, <1>8

\* The sizes are those of the demultiplexers, so keys identify metadata.
LEMMA SameKey ==
  ASSUME NEW gr, NEW counts, NEW levels, Len(levels) \in Nat, NEW m1, NEW m2,
         Metadata(gr, counts, levels, m1), Metadata(gr, counts, levels, m2), Key(m1) = Key(m2)
  PROVE  m1 = m2
<1> DEFINE l == Len(levels)
<1>1. /\ DOMAIN m1 = 1..l /\ DOMAIN m2 = 1..l
      /\ \A i \in 1..l : m1[i][1] = m2[i][1] /\ m1[i][2] = m2[i][2]
  <2>1. ASSUME NEW m, Metadata(gr, counts, levels, m)
        PROVE  DOMAIN m = 1..l /\ \A i \in 1..l : Key(m)[i] = <<m[i][1], m[i][2]>>
    <3>1. DOMAIN m = 1..l
      BY <2>1 DEF Metadata
    <3> QED BY <3>1 DEF Key
  <2>2. DOMAIN m1 = 1..l /\ \A i \in 1..l : Key(m1)[i] = <<m1[i][1], m1[i][2]>>
    BY <2>1
  <2>3. DOMAIN m2 = 1..l /\ \A i \in 1..l : Key(m2)[i] = <<m2[i][1], m2[i][2]>>
    BY <2>1
  <2> QED BY <2>2, <2>3
<1>2. \A i \in 1..l : m1[i] \in NodeNames(gr) \X Nat \X Nat /\ m2[i] \in NodeNames(gr) \X Nat \X Nat
  BY <1>1 DEF Metadata
<1>3. \A i \in 1..l : m1[i][3] = m2[i][3]
  <2>1. \A i \in 1..l : m1[i][3] = counts[m1[i][1]] /\ m2[i][3] = counts[m2[i][1]]
    BY <1>1 DEF Metadata
  <2> QED BY <1>1, <2>1
<1>4. \A i \in 1..l : m1[i] = m2[i]
  BY <1>1, <1>2, <1>3
<1>5. m1 \in Seq(NodeNames(gr) \X Nat \X Nat) /\ m2 \in Seq(NodeNames(gr) \X Nat \X Nat)
  BY DEF Metadata
<1> QED BY <1>1, <1>4, <1>5

\* The session a result is fed to and the place it has there.
LEMMA Collapse ==
  ASSUME NEW gr, Valid(gr), NEW n \in NodeNames(gr), NEW counts, NEW finished,
         Counted(gr, counts, finished), Known(gr, counts, n), NEW meta,
         Metadata(gr, counts, Inside(gr)[n], meta), NEW c, c = CollapsedMetadata(meta, NodeOf(gr, n).gather)
  PROVE  /\ Metadata(gr, counts, Around(gr, n), c)
         /\ <<n, Key(c)>> = Target(gr, n, Key(meta)) /\ Target(gr, n, Key(meta)) \in Ids(gr)
         /\ CollapsedSizes(CollapsedLevels(meta, NodeOf(gr, n).gather)) = Sizes(gr, counts, n)
         /\ Index(gr, n, meta) \in Indices(Sizes(gr, counts, n))
         /\ ResultKey(gr, n, Key(c), Index(gr, n, meta)) = Key(meta)
<1> DEFINE k == Cardinality(NodeOf(gr, n).gather)
           s == Inside(gr)[n]
           a == Len(Around(gr, n))
<1>1. /\ s \in Seq(NodeNames(gr)) /\ Len(s) \in Nat /\ k \in Nat /\ k <= Len(s) /\ a = Len(s) - k
      /\ \A i \in 1..a : Around(gr, n)[i] = s[i]
  BY Nested
<1>2. /\ meta \in Seq(NodeNames(gr) \X Nat \X Nat) /\ Len(meta) = Len(s) /\ DOMAIN meta = 1..Len(s)
      /\ \A i \in 1..Len(s) : /\ meta[i] \in NodeNames(gr) \X Nat \X Nat /\ meta[i][1] = s[i]
                              /\ meta[i][3] = counts[s[i]] /\ meta[i][2] < meta[i][3]
  BY <1>1 DEF Metadata
<1>3. /\ Len(Key(meta)) = Len(s) /\ Key(meta) \in Keys(gr)
      /\ \A i \in 1..Len(s) : Key(meta)[i] = <<meta[i][1], meta[i][2]>>
  <2>1. PICK levels : levels = Inside(gr)[n]
    OBVIOUS
  <2>2. Len(levels) \in Nat /\ Metadata(gr, counts, levels, meta)
    BY <1>1, <2>1
  <2>3. /\ Inner(gr, counts, levels, Key(meta)) /\ Len(Key(meta)) = Len(levels)
        /\ \A i \in 1..Len(levels) : Key(meta)[i] = <<meta[i][1], meta[i][2]>>
    BY <2>2, InnerKey
  <2> QED BY <2>1, <2>3 DEF Inner
<1>4. c = SubSeq(meta, 1, a) /\ CollapsedLevels(meta, NodeOf(gr, n).gather) = SubSeq(meta, a + 1, Len(s))
  BY <1>1, <1>2 DEF CollapsedMetadata, CollapsedLevels
<1>5. Sizes(gr, counts, n) = [i \in 1..k |-> counts[s[a + i]]]
  BY DEF Sizes
<1>6. Index(gr, n, meta) = [i \in 1..k |-> meta[a + i][2]]
  BY DEF Index
<1>7. Target(gr, n, Key(meta)) = <<n, SubSeq(Key(meta), 1, a)>>
  BY DEF Target
<1>8. \A key, f : ResultKey(gr, n, key, f) =
                    [i \in 1..Len(s) |-> IF i <= Len(key) THEN key[i] ELSE <<s[i], f[i - Len(key)]>>]
  BY DEF ResultKey
<1>9. \A i \in 1..Len(s) : counts[s[i]] \in Nat
  <2>1. \A i \in 1..Len(s) : s[i] \in DOMAIN counts
    BY <1>1 DEF Known
  <2> QED BY <2>1 DEF Counted
<1>10. Len(c) = a /\ c \in Seq(NodeNames(gr) \X Nat \X Nat) /\ \A i \in 1..a : c[i] = meta[i]
  <2>1. a \in Nat /\ a <= Len(meta)
    BY <1>1, <1>2
  <2> HIDE DEF a, s, k
  <2> QED BY <1>2, <1>4, <2>1
<1> HIDE DEF k, s, a
<1>11. Metadata(gr, counts, Around(gr, n), c)
  <2>1. DOMAIN c = 1..a
    BY <1>10
  <2>2. \A i \in 1..a : i \in 1..Len(s) /\ Around(gr, n)[i] = s[i]
    BY <1>1
  <2>3. \A i \in DOMAIN c : /\ c[i][1] = Around(gr, n)[i]
                            /\ c[i][3] = counts[c[i][1]] /\ c[i][2] < c[i][3]
    BY <1>2, <1>10, <2>1, <2>2
  <2>4. Len(c) = Len(Around(gr, n))
    BY <1>10 DEF a
  <2> QED BY <1>10, <2>3, <2>4 DEF Metadata
<1>12. /\ SubSeq(Key(meta), 1, a) \in Keys(gr) /\ Len(SubSeq(Key(meta), 1, a)) = a
       /\ \A i \in 1..a : SubSeq(Key(meta), 1, a)[i] = Key(meta)[i]
  <2>1. a \in Nat /\ a <= Len(Key(meta))
    BY <1>1, <1>3
  <2> QED BY <1>3, <2>1 DEF Keys
<1>13. /\ Key(c) \in Keys(gr) /\ Len(Key(c)) = a /\ \A i \in 1..a : Key(c)[i] = <<c[i][1], c[i][2]>>
  <2>1. Len(Around(gr, n)) \in Nat
    BY <1>1 DEF a
  <2>2. /\ Inner(gr, counts, Around(gr, n), Key(c)) /\ Len(Key(c)) = Len(Around(gr, n))
        /\ \A i \in 1..Len(Around(gr, n)) : Key(c)[i] = <<c[i][1], c[i][2]>>
    BY <1>11, <2>1, InnerKey
  <2> QED BY <2>2 DEF Inner, a
<1>14. Key(c) = SubSeq(Key(meta), 1, a)
  <2>1. \A i \in 1..a : Key(c)[i] = Key(meta)[i]
    <3>1. \A i \in 1..a : i \in 1..Len(s)
      BY <1>1
    <3> QED BY <1>3, <1>10, <1>13, <3>1
  <2>2. \A i \in 1..a : Key(c)[i] = SubSeq(Key(meta), 1, a)[i]
    BY <1>12, <2>1
  <2> QED BY <1>1, <1>12, <1>13, <2>2 DEF Keys
<1>15. <<n, Key(c)>> = Target(gr, n, Key(meta)) /\ Target(gr, n, Key(meta)) \in Ids(gr)
  <2>1. Target(gr, n, Key(meta)) = <<n, Key(c)>>
    BY <1>7, <1>14
  <2> QED BY <1>13, <2>1 DEF Ids
<1>16. CollapsedSizes(CollapsedLevels(meta, NodeOf(gr, n).gather)) = Sizes(gr, counts, n)
  <2>1. PICK levels : levels = SubSeq(meta, a + 1, Len(s))
    OBVIOUS
  <2>2. a + 1 \in Nat /\ a + 1 >= 1 /\ Len(s) <= Len(meta) /\ Len(s) - (a + 1) + 1 = k
    BY <1>1, <1>2
  <2>3. Len(levels) = k /\ DOMAIN levels = 1..k /\ \A i \in 1..k : levels[i] = meta[a + i]
    BY <1>1, <1>2, <2>1, <2>2
  <2>4. \A i \in 1..k : levels[i][3] = counts[s[a + i]]
    <3>1. \A i \in 1..k : a + i \in 1..Len(s)
      BY <1>1
    <3>2. \A i \in 1..Len(s) : meta[i][3] = counts[s[i]]
      BY <1>2
    <3> QED BY <2>3, <3>1, <3>2
  <2>5. CollapsedSizes(levels) = [i \in 1..k |-> counts[s[a + i]]]
    BY <2>3, <2>4 DEF CollapsedSizes
  <2> QED BY <1>4, <1>5, <2>1, <2>5
<1>17. Index(gr, n, meta) \in Indices(Sizes(gr, counts, n))
  <2>1. \A i \in 1..k : a + i \in 1..Len(s)
    BY <1>1
  <2>2. \A i \in 1..k : meta[a + i][2] \in Nat /\ meta[a + i][2] < counts[s[a + i]]
    BY <1>2, <2>1
  <2> QED BY <1>5, <1>6, <2>2 DEF Indices
<1>18. ResultKey(gr, n, Key(c), Index(gr, n, meta)) = Key(meta)
  <2>1. ResultKey(gr, n, Key(c), Index(gr, n, meta)) =
          [i \in 1..Len(s) |-> IF i <= a THEN Key(c)[i] ELSE <<s[i], Index(gr, n, meta)[i - a]>>]
    <3>1. PICK key : key = Key(c)
      OBVIOUS
    <3>2. PICK f : f = Index(gr, n, meta)
      OBVIOUS
    <3>3. ResultKey(gr, n, key, f) =
            [i \in 1..Len(s) |-> IF i <= Len(key) THEN key[i] ELSE <<s[i], f[i - Len(key)]>>]
      BY <1>8
    <3>4. Len(key) = a
      BY <1>13, <3>1
    <3>5. ResultKey(gr, n, key, f) =
            [i \in 1..Len(s) |-> IF i <= a THEN key[i] ELSE <<s[i], f[i - a]>>]
      BY <3>3, <3>4
    <3> QED BY <3>1, <3>2, <3>5
  <2>2. ASSUME NEW i \in 1..Len(s)
        PROVE  (IF i <= a THEN Key(c)[i] ELSE <<s[i], Index(gr, n, meta)[i - a]>>) = Key(meta)[i]
    <3>1. CASE i <= a
      BY <1>1, <1>12, <1>14, <3>1
    <3>2. CASE ~(i <= a)
      <4>1. i - a \in 1..k /\ a + (i - a) = i
        BY <1>1, <3>2
      <4>2. Index(gr, n, meta)[i - a] = meta[i][2]
        BY <1>6, <4>1
      <4> QED BY <1>2, <1>3, <3>2, <4>2
    <3> QED BY <3>1, <3>2
  <2>3. Key(meta) = [i \in 1..Len(s) |-> Key(meta)[i]]
    BY <1>1, <1>3 DEF Keys
  <2>4. [i \in 1..Len(s) |-> IF i <= a THEN Key(c)[i] ELSE <<s[i], Index(gr, n, meta)[i - a]>>]
        = [i \in 1..Len(s) |-> Key(meta)[i]]
    BY <2>2
  <2> QED BY <2>1, <2>3, <2>4
<1> QED BY <1>11, <1>15, <1>16, <1>17, <1>18


\* Which result of node n session <<n, k>> has at indices f.
LEMMA Gathered ==
  ASSUME NEW gr, Valid(gr), NEW n \in NodeNames(gr), NEW counts, NEW finished,
         Counted(gr, counts, finished), Known(gr, counts, n), NEW k, Inner(gr, counts, Around(gr, n), k),
         NEW f \in Indices(Sizes(gr, counts, n)), NEW key, key = ResultKey(gr, n, k, f)
  PROVE  /\ Inner(gr, counts, Inside(gr)[n], key) /\ Target(gr, n, key) = <<n, k>>
         /\ \A meta : Key(meta) = key => Index(gr, n, meta) = f
<1> DEFINE c == Cardinality(NodeOf(gr, n).gather)
           s == Inside(gr)[n]
           a == Len(Around(gr, n))
<1>1. /\ s \in Seq(NodeNames(gr)) /\ Len(s) \in Nat /\ c \in Nat /\ c <= Len(s) /\ a = Len(s) - c
      /\ \A i \in 1..a : Around(gr, n)[i] = s[i]
  BY Nested
<1>2. /\ k \in Keys(gr) /\ Len(k) = a
      /\ \A i \in 1..a : k[i][1] = Around(gr, n)[i] /\ k[i][2] < counts[Around(gr, n)[i]]
  BY DEF Inner
<1>3. Sizes(gr, counts, n) = [i \in 1..c |-> counts[s[a + i]]]
  BY DEF Sizes
<1>4. key = [i \in 1..Len(s) |-> IF i <= a THEN k[i] ELSE <<s[i], f[i - a]>>]
  BY <1>2 DEF ResultKey
<1>5. \A meta : Index(gr, n, meta) = [i \in 1..c |-> meta[a + i][2]]
  BY DEF Index
<1>6. Target(gr, n, key) = <<n, SubSeq(key, 1, a)>>
  BY DEF Target
<1>7. f \in [1..c -> Nat] /\ \A i \in 1..c : f[i] < counts[s[a + i]]
  BY <1>3 DEF Indices
<1>8. ASSUME NEW key2, NEW l, key2 \in Keys(gr), Len(key2) = l, l = Len(s),
             \A i \in 1..l : key2[i][1] = s[i] /\ key2[i][2] < counts[s[i]]
      PROVE  Inner(gr, counts, Inside(gr)[n], key2)
  BY <1>8 DEF Inner
<1> HIDE DEF c, s, a
<1>9. \A i \in 1..a : /\ i \in 1..Len(s) /\ k[i] \in NodeNames(gr) \X Nat
                      /\ k[i][1] = s[i] /\ k[i][2] < counts[s[i]]
  BY <1>1, <1>2 DEF Keys
<1>10. \A i \in 1..Len(s) : ~(i <= a) => i - a \in 1..c /\ a + (i - a) = i
  BY <1>1
<1>11. \A i \in 1..Len(s) : ~(i <= a) => f[i - a] \in Nat /\ f[i - a] < counts[s[i]]
  BY <1>7, <1>10
<1>12. \A i \in 1..Len(s) : /\ key[i] \in NodeNames(gr) \X Nat
                            /\ key[i][1] = s[i] /\ key[i][2] < counts[s[i]]
  <2>1. TAKE i \in 1..Len(s)
  <2>2. CASE i <= a
    <3>1. i \in 1..a /\ key[i] = k[i]
      BY <1>1, <1>4, <2>2
    <3> QED BY <1>9, <3>1
  <2>3. CASE ~(i <= a)
    <3>1. key[i] = <<s[i], f[i - a]>> /\ s[i] \in NodeNames(gr)
      BY <1>1, <1>4, <2>3
    <3> QED BY <1>11, <2>3, <3>1
  <2> QED BY <2>2, <2>3
<1>13. key \in Keys(gr) /\ Len(key) = Len(s)
  BY <1>1, <1>4, <1>12 DEF Keys
<1>14. Inner(gr, counts, Inside(gr)[n], key)
  BY <1>8, <1>12, <1>13
<1>15. SubSeq(key, 1, a) = k
  <2>1. a \in Nat /\ a <= Len(key)
    BY <1>1, <1>13
  <2>2. SubSeq(key, 1, a) \in Keys(gr) /\ Len(SubSeq(key, 1, a)) = a
        /\ \A i \in 1..a : SubSeq(key, 1, a)[i] = key[i]
    BY <1>13, <2>1 DEF Keys
  <2>3. \A i \in 1..a : key[i] = k[i]
    BY <1>4, <1>9
  <2>4. PICK k2 : k2 = SubSeq(key, 1, a)
    OBVIOUS
  <2>5. /\ k2 \in Seq(NodeNames(gr) \X Nat) /\ k \in Seq(NodeNames(gr) \X Nat) /\ Len(k2) = Len(k)
        /\ \A i \in 1..Len(k) : k2[i] = k[i]
    BY <1>2, <2>2, <2>3, <2>4 DEF Keys
  <2>6. k2 = [i \in 1..Len(k) |-> k2[i]] /\ k = [i \in 1..Len(k) |-> k[i]]
    BY <2>5
  <2>7. k2 = k
    BY <2>5, <2>6
  <2> QED BY <2>4, <2>7
<1>16. ASSUME NEW meta, Key(meta) = key
       PROVE  Index(gr, n, meta) = f
  <2>1. DOMAIN key = 1..Len(s) /\ DOMAIN meta = DOMAIN key
    BY <1>4, <1>16 DEF Key
  <2>2. \A i \in 1..Len(s) : meta[i][2] = key[i][2]
    BY <1>16, <2>1 DEF Key
  <2>3. \A i \in 1..c : a + i \in 1..Len(s) /\ ~(a + i <= a) /\ (a + i) - a = i
    BY <1>1
  <2>4. \A i \in 1..c : key[a + i][2] = f[i]
    BY <1>4, <2>3
  <2>5. \A i \in 1..c : meta[a + i][2] = f[i]
    BY <2>2, <2>3, <2>4
  <2>6. [i \in 1..c |-> meta[a + i][2]] = f
    BY <1>7, <2>5
  <2> QED BY <1>5, <2>6
<1> QED BY <1>6, <1>14, <1>15, <1>16

\* Counts that are known do not change.
Extends(counts, counts2) == \A x \in DOMAIN counts : x \in DOMAIN counts2 /\ counts2[x] = counts[x]

LEMMA MoreCounts ==
  ASSUME NEW gr, Valid(gr), NEW n \in NodeNames(gr), NEW counts, NEW counts2,
         Extends(counts, counts2), Known(gr, counts, n)
  PROVE  /\ Known(gr, counts2, n)
         /\ \A finished, k : Missing(gr, counts2, finished, <<n, k>>) = Missing(gr, counts, finished, <<n, k>>)
         /\ \A meta : Metadata(gr, counts, Around(gr, n), meta) => Metadata(gr, counts2, Around(gr, n), meta)
<1> DEFINE c == Cardinality(NodeOf(gr, n).gather)
           s == Inside(gr)[n]
           a == Len(Around(gr, n))
<1>1. /\ s \in Seq(NodeNames(gr)) /\ Len(s) \in Nat /\ c \in Nat /\ c <= Len(s) /\ a = Len(s) - c
      /\ \A i \in 1..a : Around(gr, n)[i] = s[i]
  BY Nested
<1>2. \A i \in 1..Len(s) : s[i] \in DOMAIN counts /\ s[i] \in DOMAIN counts2 /\ counts2[s[i]] = counts[s[i]]
  <2>1. \A i \in 1..Len(s) : s[i] \in DOMAIN counts
    BY <1>1 DEF Known
  <2> QED BY <2>1 DEF Extends
<1>3. Known(gr, counts2, n)
  BY <1>1, <1>2 DEF Known
<1>4. Sizes(gr, counts2, n) = Sizes(gr, counts, n)
  <2>1. \A i \in 1..c : counts2[s[a + i]] = counts[s[a + i]]
    <3>1. \A i \in 1..c : a + i \in 1..Len(s)
      BY <1>1
    <3> HIDE DEF c, s, a
    <3> QED BY <1>2, <3>1
  <2>2. [i \in 1..c |-> counts2[s[a + i]]] = [i \in 1..c |-> counts[s[a + i]]]
    BY <2>1
  <2> QED BY <2>2 DEF Sizes
<1>5. Inputs(gr, counts2, n) = Inputs(gr, counts, n)
  BY <1>4 DEF Inputs
<1>6. ASSUME NEW finished, NEW k
      PROVE  Missing(gr, counts2, finished, <<n, k>>) = Missing(gr, counts, finished, <<n, k>>)
  BY <1>5 DEF Missing
<1>7. ASSUME NEW meta, Metadata(gr, counts, Around(gr, n), meta)
      PROVE  Metadata(gr, counts2, Around(gr, n), meta)
  <2>1. DOMAIN meta = 1..a
    BY <1>7 DEF Metadata
  <2>2. \A i \in 1..a : counts2[meta[i][1]] = counts[meta[i][1]]
    <3>1. \A i \in 1..a : meta[i][1] = s[i] /\ i \in 1..Len(s)
      BY <1>1, <1>7, <2>1 DEF Metadata
    <3> HIDE DEF c, s, a
    <3> QED BY <1>2, <3>1
  <2> QED BY <1>7, <2>1, <2>2 DEF Metadata
<1> QED BY <1>3, <1>6, <1>7


-----------------------------------------------------------------------------
(* Feeding the results one after another *)

Step(n, results, w, acc) ==
    CHOOSE fed \in {SetInputs(w[1], n, w[2], results[w[2]], a) : a \in {acc}} : TRUE

LEMMA StepFeeds ==
  ASSUME NEW n, NEW results, NEW w, NEW acc
  PROVE  Step(n, results, w, acc) = SetInputs(w[1], n, w[2], results[w[2]], acc)
<1>1. PICK fed : fed = SetInputs(w[1], n, w[2], results[w[2]], acc)
  OBVIOUS
<1>2. {SetInputs(w[1], n, w[2], results[w[2]], a) : a \in {acc}} = {fed}
  BY <1>1, Zenon
<1>3. Step(n, results, w, acc) = CHOOSE x \in {fed} : TRUE
  BY <1>2, Zenon DEF Step
<1> QED BY <1>1, <1>3

\* The results some of which have been fed, and the one that was fed last.
Small(W, k) == {s \in SUBSET W : Cardinality(s) <= k}
Latest(s) == CHOOSE x \in s : TRUE

FoldOn(n, results, sess, sets, f) ==
    f = [s \in sets |-> IF s = {} THEN <<"OK", sess>>
                        ELSE Step(n, results, Latest(s), f[s \ {Latest(s)}])]

LEMMA FoldExists ==
  ASSUME NEW n, NEW results, NEW sess, NEW W, IsFiniteSet(W), NEW k \in Nat
  PROVE  \E f : FoldOn(n, results, sess, Small(W, k), f)
<1> DEFINE wrong == {i \in Nat : ~\E f : FoldOn(n, results, sess, Small(W, i), f)}
           base == <<"OK", sess>>
<1>1. SUFFICES ASSUME wrong # {} PROVE FALSE
  OBVIOUS
<1>2. PICK i \in wrong : \A j \in wrong : i <= j
  BY <1>1, LeastNumber
<1>3. \A s \in SUBSET W : IsFiniteSet(s) /\ Cardinality(s) \in Nat
  BY FS_Subset, FS_CardinalityType
<1>4. \A s \in SUBSET W : Cardinality(s) = 0 <=> s = {}
  BY <1>3, FS_EmptySet
<1>5. CASE i = 0
  <2>1. \A s \in Small(W, 0) : s = {}
    BY <1>3, <1>4 DEF Small
  <2>2. PICK f : f = [s \in Small(W, 0) |-> base]
    OBVIOUS
  <2>3. FoldOn(n, results, sess, Small(W, 0), f)
    BY <2>1, <2>2 DEF FoldOn
  <2> QED BY <1>2, <1>5, <2>3
<1>6. CASE i # 0
  <2>1. i \in Nat /\ i - 1 \in Nat /\ ~(i <= i - 1)
    BY <1>6
  <2>2. PICK f : FoldOn(n, results, sess, Small(W, i - 1), f)
    BY <1>2, <2>1
  <2>3. PICK h : h = [s \in Small(W, i) |-> IF s = {} THEN base
                                            ELSE Step(n, results, Latest(s), f[s \ {Latest(s)}])]
    OBVIOUS
  <2>4. \A s \in Small(W, i - 1) : s \in Small(W, i)
    BY <1>3, <2>1 DEF Small
  <2>5. \A s \in Small(W, i - 1) : h[s] = f[s]
    BY <2>2, <2>3, <2>4 DEF FoldOn
  <2>6. \A s \in Small(W, i) \ {{}} : s \ {Latest(s)} \in Small(W, i - 1)
    <3>1. TAKE s \in Small(W, i) \ {{}}
    <3>2. PICK x : x = Latest(s)
      OBVIOUS
    <3>3. x \in s /\ s \in SUBSET W /\ Cardinality(s) <= i
      BY <3>2 DEF Latest, Small
    <3>4. Cardinality(s \ {x}) = Cardinality(s) - 1
      BY <1>3, <3>3, FS_RemoveElement
    <3>5. Cardinality(s \ {x}) <= i - 1
      BY <1>3, <2>1, <3>3, <3>4
    <3> QED BY <3>2, <3>3, <3>5 DEF Small
  <2>7. \A s \in Small(W, i) : h[s] = IF s = {} THEN base
                                      ELSE Step(n, results, Latest(s), h[s \ {Latest(s)}])
    <3>1. TAKE s \in Small(W, i)
    <3>2. CASE s = {}
      BY <2>3, <3>2
    <3>3. CASE s # {}
      <4>1. h[s \ {Latest(s)}] = f[s \ {Latest(s)}]
        BY <2>5, <2>6, <3>3
      <4>2. h[s] = Step(n, results, Latest(s), f[s \ {Latest(s)}])
        BY <2>3, <3>3
      <4> QED BY <3>3, <4>1, <4>2
    <3> QED BY <3>2, <3>3
  <2>8. FoldOn(n, results, sess, Small(W, i), h)
    BY <2>3, <2>7 DEF FoldOn
  <2> QED BY <1>2, <2>8
<1> QED BY <1>5, <1>6

\* f[s] is what has become of the sessions when the results s have been fed.
IsFeed(n, results, sess, W, f) ==
    /\ Feed(n, results, sess) = f[W] /\ f[{}] = <<"OK", sess>>
    /\ \A s \in SUBSET W : s # {} => \E w \in s :
          f[s] = SetInputs(w[1], n, w[2], results[w[2]], f[s \ {w}])

LEMMA FeedComputes ==
  ASSUME NEW n, NEW results, NEW sess, NEW W, IsFiniteSet(W), W = NextNodes(n) \X DOMAIN results
  PROVE  \E f : IsFeed(n, results, sess, W, f)
<1> DEFINE f == CHOOSE h : FoldOn(n, results, sess, SUBSET W, h)
<1>1. Cardinality(W) \in Nat /\ Small(W, Cardinality(W)) = SUBSET W
  <2>1. \A s \in SUBSET W : Cardinality(s) <= Cardinality(W)
    BY FS_Subset
  <2> QED BY <2>1, FS_CardinalityType DEF Small
<1>2. FoldOn(n, results, sess, SUBSET W, f)
  <2>1. PICK k \in Nat : Small(W, k) = SUBSET W
    BY <1>1
  <2>2. \E h : FoldOn(n, results, sess, Small(W, k), h)
    BY FoldExists
  <2>3. \E h : FoldOn(n, results, sess, SUBSET W, h)
    BY <2>1, <2>2, Zenon
  <2> QED BY <2>3, Zenon
<1>3. Feed(n, results, sess) = f[W]
  BY Zenon DEF Feed, FoldSet, MapThenFoldSet, FoldOn, Step, Latest
<1> HIDE DEF f
<1>4. \A s \in SUBSET W : f[s] = IF s = {} THEN <<"OK", sess>>
                                 ELSE Step(n, results, Latest(s), f[s \ {Latest(s)}])
  BY <1>2 DEF FoldOn
<1>5. ASSUME NEW s \in SUBSET W, s # {}
      PROVE  \E w \in s : f[s] = SetInputs(w[1], n, w[2], results[w[2]], f[s \ {w}])
  <2>1. PICK w : w = Latest(s)
    OBVIOUS
  <2>2. w \in s /\ f[s] = Step(n, results, w, f[s \ {w}])
    BY <1>4, <1>5, <2>1 DEF Latest
  <2>3. f[s] = SetInputs(w[1], n, w[2], results[w[2]], f[s \ {w}])
    BY <2>2, StepFeeds
  <2> QED BY <2>2, <2>3
<1>6. IsFeed(n, results, sess, W, f)
  BY <1>3, <1>4, <1>5 DEF IsFeed
<1> QED BY <1>6


\* What is left of session s when it has been fed with one more result.
Notified(s, s2) ==
    /\ DOMAIN s2 = SessionFields /\ s2.meta = s.meta /\ s2.run = s.run /\ s2.count = s.count
    /\ s2.remaining = s.remaining - 1

\* One result is fed to node n, unless there is or was an error.
SetOnce(gr, n, meta, acc, acc2) ==
    \/ acc2[1] # "OK" /\ acc2[2] = acc[2]
    \/ /\ acc[1] = "OK"
       /\ \E c, t, s, s2 :
             /\ c = CollapsedMetadata(meta, NodeOf(gr, n).gather) /\ t = <<n, Key(c)>>
             /\ IF t \in DOMAIN acc[2] THEN s = acc[2][t]
                ELSE /\ DOMAIN s = SessionFields /\ s.meta = c /\ s.run = "new" /\ s.count = 0
                     /\ s.remaining = Cardinality(Dependencies(gr, n))
                           * Product(CollapsedSizes(CollapsedLevels(meta, NodeOf(gr, n).gather)))
             /\ Notified(s, s2) /\ acc2[2] = Put(acc[2], t, s2)

LEMMA InputSet ==
  ASSUME NEW n, NEW d, NEW meta, NEW tensors, NEW acc,
         \A x \in DOMAIN acc[2] : DOMAIN acc[2][x] = SessionFields
  PROVE  SetOnce(g, n, meta, acc, SetInputs(n, d, meta, tensors, acc))
<1>1. PICK c : c = CollapsedMetadata(meta, NodeOf(g, n).gather)
  OBVIOUS
<1>2. PICK levels : levels = CollapsedLevels(meta, NodeOf(g, n).gather)
  OBVIOUS
<1>3. PICK t : t = <<n, Key(c)>>
  OBVIOUS
<1>4. PICK s : s = IF t \in DOMAIN acc[2] THEN acc[2][t] ELSE NewSession(n, c, levels)
  OBVIOUS
<1>5. DOMAIN s = SessionFields
  <2>1. CASE t \in DOMAIN acc[2]
    BY <1>4, <2>1
  <2>2. CASE t \notin DOMAIN acc[2]
    BY <1>4, <2>2 DEF NewSession, SessionFields
  <2> QED BY <2>1, <2>2
<1>6. IF t \in DOMAIN acc[2] THEN s = acc[2][t]
      ELSE /\ DOMAIN s = SessionFields /\ s.meta = c /\ s.run = "new" /\ s.count = 0
           /\ s.remaining = Cardinality(Dependencies(g, n)) * Product(CollapsedSizes(levels))
  BY <1>4, <1>5 DEF NewSession
<1>7. PICK fed : fed = [x \in {p[2] : p \in g.connections[n][d]} |->
                          tensors[(CHOOSE p \in g.connections[n][d] : p[2] = x)[1]]]
  OBVIOUS
<1>8. PICK set : set = IF levels = <<>> THEN SetInput(s, fed) ELSE SetShard(s, fed, ShardId(levels))
  OBVIOUS
<1>9. /\ DOMAIN set = SessionFields /\ set.meta = s.meta /\ set.run = s.run /\ set.count = s.count
      /\ set.remaining = s.remaining
  <2>1. CASE levels = <<>>
    BY <1>5, <1>8, <2>1 DEF SetInput, SessionFields
  <2>2. CASE levels # <<>>
    BY <1>5, <1>8, <2>2 DEF SetShard, SessionFields
  <2> QED BY <2>1, <2>2
<1>10. PICK notified : notified = NotifyFinishedDependency(set)
  OBVIOUS
<1>11. Notified(s, notified[2])
  BY <1>9, <1>10 DEF Notified, NotifyFinishedDependency, SessionFields
<1>12. PICK acc2 : acc2 = SetInputs(n, d, meta, tensors, acc)
  OBVIOUS
<1>13. \/ acc[1] # "OK" /\ acc2 = acc
       \/ acc[1] = "OK" /\ acc2 = <<"INTERNAL_ERROR", acc[2]>>
       \/ acc[1] = "OK" /\ \E status : status # "OK" /\ acc2 = <<status, acc[2]>>
       \/ acc[1] = "OK" /\ acc2 = <<notified[1], Put(acc[2], t, notified[2])>>
  <2>1. PICK status : status = IF levels = <<>> THEN SetInputStatus(s, g.connections[n][d])
                               ELSE SetShardStatus(s, g.connections[n][d], ShardId(levels))
    OBVIOUS
  <2>2. acc2 = IF acc[1] # "OK" THEN acc
               ELSE IF ~Collapsible(meta, NodeOf(g, n).gather) THEN <<"INTERNAL_ERROR", acc[2]>>
               ELSE IF status # "OK" THEN <<status, acc[2]>>
               ELSE <<notified[1], Put(acc[2], t, notified[2])>>
    BY <1>1, <1>2, <1>3, <1>4, <1>7, <1>8, <1>10, <1>12, <2>1, Zenon DEF SetInputs
  <2>3. CASE acc[1] # "OK"
    BY <2>2, <2>3
  <2>4. CASE acc[1] = "OK" /\ ~Collapsible(meta, NodeOf(g, n).gather)
    BY <2>2, <2>4
  <2>5. CASE acc[1] = "OK" /\ Collapsible(meta, NodeOf(g, n).gather) /\ status # "OK"
    BY <2>2, <2>5
  <2>6. CASE acc[1] = "OK" /\ Collapsible(meta, NodeOf(g, n).gather) /\ status = "OK"
    BY <2>2, <2>6
  <2> QED BY <2>3, <2>4, <2>5, <2>6
<1>14. CASE acc2[1] # "OK" /\ acc2[2] = acc[2]
  BY <1>12, <1>14 DEF SetOnce
<1>15. CASE acc[1] = "OK" /\ acc2 = <<notified[1], Put(acc[2], t, notified[2])>>
  <2>1. PICK s2 : s2 = notified[2]
    OBVIOUS
  <2>2. Notified(s, s2) /\ acc2[2] = Put(acc[2], t, s2)
    BY <1>11, <1>15, <2>1
  <2>3. SetOnce(g, n, meta, acc, acc2)
    BY <1>1, <1>2, <1>3, <1>6, <1>15, <2>2, Zenon DEF SetOnce
  <2> QED BY <1>12, <2>3
<1> QED BY <1>13, <1>14, <1>15


\* The finished session id has results with metadata M; counts has their
\* number already.
Resulting(gr, counts, finished, id, M) ==
    /\ Valid(gr) /\ Counted(gr, counts, finished \cup {id}) /\ id \notin finished
    /\ \A m \in M : /\ Metadata(gr, counts, ResultLevels(gr, Inside(gr), id[1]), m)
                    /\ Source(gr, id[1], Key(m)) = id
    /\ \A n \in Next_(gr, id[1]) : Known(gr, counts, n)

\* They are fed to the other sessions.
Feeding(gr, counts, finished, id, M, others) ==
    /\ Resulting(gr, counts, finished, id, M)
    /\ \A x \in DOMAIN others : /\ x \in Ids(gr) /\ DOMAIN others[x] = SessionFields
                                /\ Fed(gr, counts, finished, x, others[x])
    /\ \A n \in Next_(gr, id[1]), m \in M : \A t :
          t = Target(gr, n, Key(m)) =>
             IF t \in DOMAIN others THEN others[t].run # "running"
             ELSE Missing(gr, counts, finished, t) = Inputs(gr, counts, n)

\* What of the inputs of session x has been fed with the results D.
Given(gr, d, D, x) ==
    {<<d, Index(gr, w[1], w[2])>> : w \in {v \in D : Target(gr, v[1], Key(v[2])) = x}}

Seated(gr, counts, x, s) ==
    /\ x \in Ids(gr) /\ DOMAIN s = SessionFields /\ s.count \in Nat /\ Known(gr, counts, x[1])
    /\ Metadata(gr, counts, Around(gr, x[1]), s.meta) /\ Key(s.meta) = x[2]

\* The sessions when the results D have been fed.
FedSo(gr, counts, finished, id, others, D, acc) ==
    /\ DOMAIN others \subseteq DOMAIN acc[2]
    /\ \A x \in DOMAIN acc[2] :
          /\ Seated(gr, counts, x, acc[2][x])
          /\ \/ x \in DOMAIN others /\ acc[2][x] = others[x]
             \/ acc[2][x].run # "running" /\ \E w \in D : x = Target(gr, w[1], Key(w[2]))
    /\ acc[1] = "OK" =>
          /\ \A w \in D : Target(gr, w[1], Key(w[2])) \in DOMAIN acc[2]
          /\ \A x \in DOMAIN acc[2] :
                acc[2][x].remaining = Cardinality(Missing(gr, counts, finished, x) \ Given(gr, id[1], D, x))

\* One input less is missing.
LEMMA OneLess ==
  ASSUME NEW I, IsFiniteSet(I), NEW A \in SUBSET I, NEW B, NEW x \in A, x \notin B, NEW k,
         k = Cardinality(A \ B)
  PROVE  k \in Nat /\ Cardinality(A \ (B \cup {x})) = k - 1
<1>1. PICK C : C = A \ B
  OBVIOUS
<1>2. C \in SUBSET I /\ x \in C /\ A \ (B \cup {x}) = C \ {x} /\ k = Cardinality(C)
  BY <1>1
<1>3. IsFiniteSet(C)
  BY <1>2, FS_Subset
<1>4. Cardinality(C) \in Nat
  BY <1>3, FS_CardinalityType
<1>5. Cardinality(C \ {x}) = Cardinality(C) - 1
  BY <1>2, <1>3, FS_RemoveElement
<1> QED BY <1>2, <1>4, <1>5

\* A result that is fed is one of the inputs its target t misses.
Taken(gr, counts, finished, id, w, t, c) ==
    /\ t \in Ids(gr) /\ t[1] = w[1] /\ t = <<w[1], Key(c)>> /\ Known(gr, counts, w[1])
    /\ Metadata(gr, counts, Around(gr, w[1]), c)
    /\ CollapsedSizes(CollapsedLevels(w[2], NodeOf(gr, w[1]).gather)) = Sizes(gr, counts, w[1])
    /\ <<id[1], Index(gr, w[1], w[2])>> \in Missing(gr, counts, finished, t)
    /\ ResultKey(gr, w[1], t[2], Index(gr, w[1], w[2])) = Key(w[2])

LEMMA GivenInput ==
  ASSUME NEW gr, NEW counts, NEW finished, NEW id, NEW M,
         Resulting(gr, counts, finished, id, M), NEW w \in Next_(gr, id[1]) \X M
  PROVE  Taken(gr, counts, finished, id, w, Target(gr, w[1], Key(w[2])),
               CollapsedMetadata(w[2], NodeOf(gr, w[1]).gather))
<1> USE DEF Resulting
<1> DEFINE t == Target(gr, w[1], Key(w[2]))
           c == CollapsedMetadata(w[2], NodeOf(gr, w[1]).gather)
<1>1. PICK n, m : n = w[1] /\ m = w[2]
  OBVIOUS
<1>2. n \in NodeNames(gr) /\ id[1] \in Dependencies(gr, n) /\ m \in M /\ Known(gr, counts, n)
  BY <1>1 DEF Next_
<1>3. Metadata(gr, counts, Inside(gr)[n], m) /\ Source(gr, id[1], Key(m)) = id
  <2>1. WellNested(gr, Inside(gr))
    BY DEF Valid
  <2>2. Inside(gr)[n] = ResultLevels(gr, Inside(gr), id[1])
    BY <1>2, <2>1 DEF WellNested
  <2>3. Metadata(gr, counts, ResultLevels(gr, Inside(gr), id[1]), m) /\ Source(gr, id[1], Key(m)) = id
    BY <1>2
  <2> QED BY <2>2, <2>3
<1>4. PICK f2 : f2 = finished \cup {id}
  OBVIOUS
<1>5. /\ Metadata(gr, counts, Around(gr, n), c)
      /\ <<n, Key(c)>> = Target(gr, n, Key(m)) /\ Target(gr, n, Key(m)) \in Ids(gr)
      /\ CollapsedSizes(CollapsedLevels(m, NodeOf(gr, n).gather)) = Sizes(gr, counts, n)
      /\ Index(gr, n, m) \in Indices(Sizes(gr, counts, n))
      /\ ResultKey(gr, n, Key(c), Index(gr, n, m)) = Key(m)
  <2>1. Valid(gr) /\ Counted(gr, counts, f2) /\ c = CollapsedMetadata(m, NodeOf(gr, n).gather)
    BY <1>1, <1>4
  <2> QED BY <1>2, <1>3, <2>1, Collapse
<1>6. t = <<n, Key(c)>> /\ t[1] = n /\ t[2] = Key(c)
  BY <1>1, <1>5
<1>7. <<id[1], Index(gr, n, m)>> \in Inputs(gr, counts, n)
  BY <1>2, <1>5 DEF Inputs
<1>8. <<id[1], Index(gr, n, m)>> \in Missing(gr, counts, finished, t)
  <2>1. PICK v : v = <<id[1], Index(gr, n, m)>>
    OBVIOUS
  <2>2. v[1] = id[1] /\ v[2] = Index(gr, n, m) /\ v \in Inputs(gr, counts, t[1])
    BY <1>6, <1>7, <2>1
  <2>3. Source(gr, v[1], ResultKey(gr, t[1], t[2], v[2])) = id
    BY <1>3, <1>5, <1>6, <2>2
  <2>4. id \notin finished
    OBVIOUS
  <2>5. v \in Missing(gr, counts, finished, t)
    BY <2>2, <2>3, <2>4 DEF Missing
  <2> QED BY <2>1, <2>5
<1> HIDE DEF t, c
<1> QED BY <1>1, <1>2, <1>5, <1>6, <1>8 DEF Taken, t, c

\* No result is fed twice to the same place.
LEMMA GivenOnce ==
  ASSUME NEW gr, NEW counts, NEW finished, NEW id, NEW M, NEW others,
         Feeding(gr, counts, finished, id, M, others), NEW D \in SUBSET (Next_(gr, id[1]) \X M),
         NEW w \in (Next_(gr, id[1]) \X M) \ D, NEW t, t = Target(gr, w[1], Key(w[2]))
  PROVE  <<id[1], Index(gr, w[1], w[2])>> \notin Given(gr, id[1], D, t)
<1>1. SUFFICES ASSUME NEW v \in D, Target(gr, v[1], Key(v[2])) = t,
                      <<id[1], Index(gr, v[1], v[2])>> = <<id[1], Index(gr, w[1], w[2])>>
               PROVE  FALSE
  BY DEF Given
<1>3. ASSUME NEW u \in Next_(gr, id[1]) \X M, t = Target(gr, u[1], Key(u[2]))
      PROVE  t[1] = u[1] /\ ResultKey(gr, u[1], t[2], Index(gr, u[1], u[2])) = Key(u[2])
  <2>1. Taken(gr, counts, finished, id, u, Target(gr, u[1], Key(u[2])),
              CollapsedMetadata(u[2], NodeOf(gr, u[1]).gather))
    BY <1>3, GivenInput DEF Feeding
  <2> QED BY <1>3, <2>1 DEF Taken
<1>4. /\ t[1] = v[1] /\ ResultKey(gr, v[1], t[2], Index(gr, v[1], v[2])) = Key(v[2])
      /\ t[1] = w[1] /\ ResultKey(gr, w[1], t[2], Index(gr, w[1], w[2])) = Key(w[2])
  <2>1. v \in Next_(gr, id[1]) \X M /\ w \in Next_(gr, id[1]) \X M
    OBVIOUS
  <2> QED BY <1>1, <1>3, <2>1
<1>5. v[1] = w[1] /\ Index(gr, v[1], v[2]) = Index(gr, w[1], w[2])
  BY <1>1, <1>4
<1>6. Key(v[2]) = Key(w[2])
  BY <1>4, <1>5
<1>7. PICK levels : levels = ResultLevels(gr, Inside(gr), id[1])
  OBVIOUS
<1>8. Metadata(gr, counts, levels, v[2]) /\ Metadata(gr, counts, levels, w[2])
  <2>1. v[2] \in M /\ w[2] \in M
    OBVIOUS
  <2> QED BY <1>7, <2>1 DEF Feeding, Resulting
<1>9. Len(levels) \in Nat
  BY <1>8 DEF Metadata
<1>10. v[2] = w[2]
  BY <1>6, <1>8, <1>9, SameKey
<1>11. v = <<v[1], v[2]>> /\ w = <<w[1], w[2]>>
  OBVIOUS
<1> QED BY <1>5, <1>10, <1>11

\* The session that is fed, before this result.
LEMMA TargetSession ==
  ASSUME NEW gr, NEW counts, NEW finished, NEW id, NEW M, NEW others,
         Feeding(gr, counts, finished, id, M, others), NEW D \in SUBSET (Next_(gr, id[1]) \X M),
         NEW w \in (Next_(gr, id[1]) \X M) \ D, NEW t, t = Target(gr, w[1], Key(w[2])),
         NEW acc, FedSo(gr, counts, finished, id, others, D, acc), acc[1] = "OK", NEW s, NEW c,
         c = CollapsedMetadata(w[2], NodeOf(gr, w[1]).gather),
         IF t \in DOMAIN acc[2] THEN s = acc[2][t]
         ELSE /\ DOMAIN s = SessionFields /\ s.meta = c /\ s.run = "new" /\ s.count = 0
              /\ s.remaining = Cardinality(Dependencies(gr, w[1]))
                    * Product(CollapsedSizes(CollapsedLevels(w[2], NodeOf(gr, w[1]).gather)))
  PROVE  /\ Seated(gr, counts, t, s) /\ s.run # "running"
         /\ s.remaining = Cardinality(Missing(gr, counts, finished, t) \ Given(gr, id[1], D, t))
<1>1. /\ t \in Ids(gr) /\ t[1] = w[1] /\ t = <<w[1], Key(c)>> /\ Known(gr, counts, w[1])
      /\ Metadata(gr, counts, Around(gr, w[1]), c)
      /\ CollapsedSizes(CollapsedLevels(w[2], NodeOf(gr, w[1]).gather)) = Sizes(gr, counts, w[1])
  <2>1. w \in Next_(gr, id[1]) \X M
    OBVIOUS
  <2>2. Taken(gr, counts, finished, id, w, Target(gr, w[1], Key(w[2])),
              CollapsedMetadata(w[2], NodeOf(gr, w[1]).gather))
    BY <2>1, GivenInput DEF Feeding
  <2>3. Taken(gr, counts, finished, id, w, t, c)
    BY <2>2
  <2> QED BY <2>3 DEF Taken
<1>2. CASE t \in DOMAIN acc[2]
  <2>1. s = acc[2][t]
    BY <1>2
  <2>2. /\ Seated(gr, counts, t, s)
        /\ s.remaining = Cardinality(Missing(gr, counts, finished, t) \ Given(gr, id[1], D, t))
    BY <1>2, <2>1 DEF FedSo
  <2>3. s.run # "running"
    <3>1. \A n \in Next_(gr, id[1]), m \in M : \A x :
            x = Target(gr, n, Key(m)) => (x \in DOMAIN others => others[x].run # "running")
      BY DEF Feeding
    <3>2. w[1] \in Next_(gr, id[1]) /\ w[2] \in M
      OBVIOUS
    <3>3. t \in DOMAIN others => others[t].run # "running"
      BY <3>1, <3>2
    <3> QED BY <1>2, <2>1, <3>3 DEF FedSo
  <2> QED BY <2>2, <2>3
<1>3. CASE t \notin DOMAIN acc[2]
  <2>1. /\ DOMAIN s = SessionFields /\ s.meta = c /\ s.run = "new" /\ s.count = 0
        /\ s.remaining = Cardinality(Dependencies(gr, w[1])) * Product(Sizes(gr, counts, w[1]))
    BY <1>1, <1>3
  <2>2. Seated(gr, counts, t, s)
    <3>1. t[2] = Key(c)
      BY <1>1
    <3> QED BY <1>1, <2>1, <3>1 DEF Seated
  <2>3. Given(gr, id[1], D, t) = {}
    <3>1. \A v \in D : Target(gr, v[1], Key(v[2])) # t
      BY <1>3 DEF FedSo
    <3> QED BY <3>1 DEF Given
  <2>4. Missing(gr, counts, finished, t) = Inputs(gr, counts, w[1])
    <3>1. t \notin DOMAIN others
      BY <1>3 DEF FedSo
    <3>2. \A n \in Next_(gr, id[1]), m \in M : \A x :
            x = Target(gr, n, Key(m)) =>
               (x \notin DOMAIN others => Missing(gr, counts, finished, x) = Inputs(gr, counts, n))
      BY DEF Feeding
    <3>3. w[1] \in Next_(gr, id[1]) /\ w[2] \in M
      OBVIOUS
    <3> QED BY <3>1, <3>2, <3>3
  <2>5. Cardinality(Inputs(gr, counts, w[1])) =
          Cardinality(Dependencies(gr, w[1])) * Product(Sizes(gr, counts, w[1]))
    <3>1. PICK n : n = w[1]
      OBVIOUS
    <3>2. PICK f2 : f2 = finished \cup {id}
      OBVIOUS
    <3>3. n \in NodeNames(gr) /\ Valid(gr) /\ Counted(gr, counts, f2) /\ Known(gr, counts, n)
      BY <1>1, <3>1, <3>2 DEF Feeding, Resulting, Next_
    <3>4. Cardinality(Inputs(gr, counts, n)) = Cardinality(Dependencies(gr, n)) * Product(Sizes(gr, counts, n))
      BY <3>3, SizesTyped
    <3> QED BY <3>1, <3>4
  <2>6. Missing(gr, counts, finished, t) \ Given(gr, id[1], D, t) = Inputs(gr, counts, w[1])
    BY <2>3, <2>4
  <2> QED BY <2>1, <2>2, <2>5, <2>6
<1> QED BY <1>2, <1>3


\* One more result is fed.
LEMMA FedMore ==
  ASSUME NEW gr, NEW counts, NEW finished, NEW id, NEW M, NEW others,
         Feeding(gr, counts, finished, id, M, others), NEW D \in SUBSET (Next_(gr, id[1]) \X M),
         NEW w \in (Next_(gr, id[1]) \X M) \ D, NEW acc, FedSo(gr, counts, finished, id, others, D, acc),
         NEW acc2, SetOnce(gr, w[1], w[2], acc, acc2)
  PROVE  FedSo(gr, counts, finished, id, others, D \cup {w}, acc2)
<1>1. CASE acc2[1] # "OK" /\ acc2[2] = acc[2]
  BY <1>1 DEF FedSo
<1>2. CASE ~(acc2[1] # "OK" /\ acc2[2] = acc[2])
  <2>1. acc[1] = "OK"
    BY <1>2 DEF SetOnce
  <2>2. PICK c, t, s, s2 :
             /\ c = CollapsedMetadata(w[2], NodeOf(gr, w[1]).gather) /\ t = <<w[1], Key(c)>>
             /\ IF t \in DOMAIN acc[2] THEN s = acc[2][t]
                ELSE /\ DOMAIN s = SessionFields /\ s.meta = c /\ s.run = "new" /\ s.count = 0
                     /\ s.remaining = Cardinality(Dependencies(gr, w[1]))
                           * Product(CollapsedSizes(CollapsedLevels(w[2], NodeOf(gr, w[1]).gather)))
             /\ Notified(s, s2) /\ acc2[2] = Put(acc[2], t, s2)
    BY <1>2, Zenon DEF SetOnce
  <2>3. /\ t = Target(gr, w[1], Key(w[2])) /\ t \in Ids(gr) /\ t[1] = w[1] /\ Known(gr, counts, w[1])
        /\ <<id[1], Index(gr, w[1], w[2])>> \in Missing(gr, counts, finished, t)
    <3>1. w \in Next_(gr, id[1]) \X M
      OBVIOUS
    <3>2. Taken(gr, counts, finished, id, w, Target(gr, w[1], Key(w[2])),
                CollapsedMetadata(w[2], NodeOf(gr, w[1]).gather))
      BY <3>1, GivenInput DEF Feeding
    <3> QED BY <2>2, <3>2 DEF Taken
  <2>4. /\ Seated(gr, counts, t, s) /\ s.run # "running"
        /\ s.remaining = Cardinality(Missing(gr, counts, finished, t) \ Given(gr, id[1], D, t))
    BY <2>1, <2>2, <2>3, TargetSession
  <2>5. PICK v : v = <<id[1], Index(gr, w[1], w[2])>>
    OBVIOUS
  <2>6. v \notin Given(gr, id[1], D, t) /\ v \in Missing(gr, counts, finished, t)
    BY <2>3, <2>5, GivenOnce
  <2>7. /\ Given(gr, id[1], D \cup {w}, t) = Given(gr, id[1], D, t) \cup {v}
        /\ \A x : x # t => Given(gr, id[1], D \cup {w}, x) = Given(gr, id[1], D, x)
    BY <2>3, <2>5 DEF Given
  <2>8. s2.remaining = Cardinality(Missing(gr, counts, finished, t) \ Given(gr, id[1], D \cup {w}, t))
    <3>1. PICK I, A, B : /\ I = Inputs(gr, counts, t[1]) /\ A = Missing(gr, counts, finished, t)
                         /\ B = Given(gr, id[1], D, t)
      OBVIOUS
    <3>2. IsFiniteSet(I)
      <4>1. PICK n, f2 : n = t[1] /\ f2 = finished \cup {id}
        OBVIOUS
      <4>2. n \in NodeNames(gr) /\ Valid(gr) /\ Counted(gr, counts, f2) /\ Known(gr, counts, n)
        BY <2>3, <4>1 DEF Feeding, Resulting, Next_
      <4>3. IsFiniteSet(Inputs(gr, counts, n))
        BY <4>2, SizesTyped
      <4> QED BY <3>1, <4>1, <4>3
    <3>3. A \in SUBSET I
      BY <3>1 DEF Missing
    <3>4. PICK k : k = s.remaining
      OBVIOUS
    <3>5. k = Cardinality(A \ B) /\ v \in A /\ v \notin B
      BY <2>4, <2>6, <3>1, <3>4
    <3>6. Cardinality(A \ (B \cup {v})) = k - 1
      BY <3>2, <3>3, <3>5, OneLess
    <3> QED BY <2>2, <2>7, <3>1, <3>4, <3>6 DEF Notified
  <2>9. Seated(gr, counts, t, s2) /\ s2.run # "running"
    BY <2>2, <2>4 DEF Notified, Seated
  <2>10. /\ DOMAIN acc2[2] = DOMAIN acc[2] \cup {t} /\ acc2[2][t] = s2
         /\ \A x \in DOMAIN acc[2] \ {t} : acc2[2][x] = acc[2][x]
    BY <2>2 DEF Put
  <2>11. DOMAIN others \subseteq DOMAIN acc2[2]
    BY <2>10 DEF FedSo
  <2>12. ASSUME NEW x \in DOMAIN acc2[2]
         PROVE  /\ Seated(gr, counts, x, acc2[2][x])
                /\ \/ x \in DOMAIN others /\ acc2[2][x] = others[x]
                   \/ acc2[2][x].run # "running" /\ \E u \in D \cup {w} : x = Target(gr, u[1], Key(u[2]))
    <3>1. CASE x = t
      BY <2>3, <2>9, <2>10, <3>1
    <3>2. CASE x # t
      BY <2>10, <3>2 DEF FedSo
    <3> QED BY <3>1, <3>2
  <2>13. \A u \in D \cup {w} : Target(gr, u[1], Key(u[2])) \in DOMAIN acc2[2]
    BY <2>1, <2>3, <2>10 DEF FedSo
  <2>14. ASSUME NEW x \in DOMAIN acc2[2]
         PROVE  acc2[2][x].remaining =
                  Cardinality(Missing(gr, counts, finished, x) \ Given(gr, id[1], D \cup {w}, x))
    <3>1. CASE x = t
      BY <2>8, <2>10, <3>1
    <3>2. CASE x # t
      BY <2>1, <2>7, <2>10, <3>2 DEF FedSo
    <3> QED BY <3>1, <3>2
  <2> QED BY <2>11, <2>12, <2>13, <2>14 DEF FedSo
<1> QED BY <1>1, <1>2


\* All results are fed.
LEMMA FedAll ==
  ASSUME NEW counts, NEW finished, NEW id, NEW results, NEW M, M = DOMAIN results, IsFiniteSet(M),
         NEW others, Feeding(g, counts, finished, id, M, others), NEW W, W = Next_(g, id[1]) \X M
  PROVE  FedSo(g, counts, finished, id, others, W, Feed(id[1], results, others))
<1>1. IsFiniteSet(W)
  <2>1. Next_(g, id[1]) \in SUBSET NodeNames(g) /\ IsFiniteSet(NodeNames(g))
    BY DEF Feeding, Resulting, Valid, Next_
  <2>2. IsFiniteSet(Next_(g, id[1]))
    BY <2>1, FS_Subset
  <2> QED BY <2>2, FS_Product
<1>2. W = NextNodes(id[1]) \X DOMAIN results
  BY DEF Next_, NextNodes
<1>3. PICK n : n = id[1]
  OBVIOUS
<1>4. PICK f : IsFeed(n, results, others, W, f)
  <2>1. W = NextNodes(n) \X DOMAIN results
    BY <1>2, <1>3
  <2> QED BY <1>1, <2>1, FeedComputes
<1> DEFINE right(s) == FedSo(g, counts, finished, id, others, s, f[s])
           wrong == {k \in Nat : \E s \in SUBSET W : Cardinality(s) = k /\ ~right(s)}
<1>5. right({})
  <2>1. PICK acc : acc = f[{}]
    OBVIOUS
  <2>2. acc[1] = "OK" /\ acc[2] = others
    BY <1>4, <2>1 DEF IsFeed
  <2>3. \A x : Given(g, id[1], {}, x) = {}
    BY DEF Given
  <2>4. \A x \in DOMAIN others : Seated(g, counts, x, others[x])
    BY DEF Feeding, Fed, Seated
  <2>5. \A x \in DOMAIN others :
          others[x].remaining = Cardinality(Missing(g, counts, finished, x) \ Given(g, id[1], {}, x))
    <3>1. TAKE x \in DOMAIN others
    <3>2. others[x].remaining = Cardinality(Missing(g, counts, finished, x))
      BY DEF Feeding, Fed
    <3>3. Missing(g, counts, finished, x) \ Given(g, id[1], {}, x) = Missing(g, counts, finished, x)
      BY <2>3
    <3> QED BY <3>2, <3>3
  <2>6. FedSo(g, counts, finished, id, others, {}, acc)
    BY <2>2, <2>4, <2>5 DEF FedSo
  <2> QED BY <2>1, <2>6
<1>6. wrong = {}
  <2>1. SUFFICES ASSUME wrong # {} PROVE FALSE
    OBVIOUS
  <2>2. wrong \in SUBSET Nat
    OBVIOUS
  <2>3. PICK k \in wrong : \A j \in wrong : k <= j
    BY <2>1, <2>2, LeastNumber
  <2>4. PICK s \in SUBSET W : Cardinality(s) = k /\ ~right(s)
    OBVIOUS
  <2>5. s # {}
    BY <1>5, <2>4
  <2>6. PICK w \in s : f[s] = SetInputs(w[1], n, w[2], results[w[2]], f[s \ {w}])
    BY <1>4, <2>5, Zenon DEF IsFeed
  <2>7. PICK D : D = s \ {w}
    OBVIOUS
  <2>8. D \in SUBSET W /\ w \in W \ D /\ s = D \cup {w}
    BY <2>7
  <2>9. Cardinality(D) \in Nat /\ ~(k <= Cardinality(D))
    <3>1. IsFiniteSet(s) /\ Cardinality(s) \in Nat
      BY <1>1, FS_Subset, FS_CardinalityType
    <3>2. Cardinality(D) = Cardinality(s) - 1 /\ IsFiniteSet(D)
      BY <2>7, <3>1, FS_RemoveElement
    <3>3. Cardinality(D) \in Nat
      BY <3>2, FS_CardinalityType
    <3> QED BY <2>4, <3>1, <3>2, <3>3
  <2>10. right(D)
    BY <2>3, <2>8, <2>9
  <2>11. PICK acc, acc2 : acc = f[D] /\ acc2 = f[s]
    OBVIOUS
  <2>12. FedSo(g, counts, finished, id, others, D, acc)
    BY <2>10, <2>11
  <2>13. acc2 = SetInputs(w[1], n, w[2], results[w[2]], acc)
    BY <2>6, <2>7, <2>11
  <2>14. SetOnce(g, w[1], w[2], acc, acc2)
    <3>1. \A x \in DOMAIN acc[2] : DOMAIN acc[2][x] = SessionFields
      BY <2>12 DEF FedSo, Seated
    <3> QED BY <2>13, <3>1, InputSet
  <2>15. FedSo(g, counts, finished, id, others, D \cup {w}, acc2)
    BY <2>8, <2>12, <2>14, FedMore
  <2>16. right(s)
    BY <2>8, <2>11, <2>15
  <2> QED BY <2>4, <2>16
<1>7. Cardinality(W) \in Nat /\ W \in SUBSET W
  BY <1>1, FS_CardinalityType
<1>8. right(W)
  BY <1>6, <1>7
<1>9. Feed(n, results, others) = f[W]
  BY <1>4 DEF IsFeed
<1> QED BY <1>3, <1>8, <1>9


-----------------------------------------------------------------------------
(* What feeding preserves *)

\* Session id has finished: the request's sessions, its counts before and
\* after, and the metadata M of the results.
Finishing(gr, counts, counts2, started, finished, S, others, id, M) ==
    /\ Valid(gr) /\ FeedInv(gr, counts, started, finished, S)
    /\ id \in started \ finished /\ id \in DOMAIN S /\ DOMAIN S \subseteq Ids(gr)
    /\ started \subseteq Ids(gr) /\ finished \subseteq started
    /\ \A x \in DOMAIN S : DOMAIN S[x] = SessionFields
    /\ \A x \in DOMAIN S \ started : S[x].run # "running"
    /\ DOMAIN others = DOMAIN S \ {id} /\ \A x \in DOMAIN others : others[x] = S[x]
    /\ Extends(counts, counts2) /\ Counted(gr, counts2, finished \cup {id})
    /\ \A m \in M : /\ Metadata(gr, counts2, ResultLevels(gr, Inside(gr), id[1]), m)
                    /\ Source(gr, id[1], Key(m)) = id
    /\ Next_(gr, id[1]) # {} =>
          M # {} /\ \A key \in ResultKeys(gr, counts2, id) : \E m \in M : Key(m) = key

\* A key of a result is one of the results of its source.
LEMMA SourceHas ==
  ASSUME NEW gr, Valid(gr), NEW d \in NodeNames(gr), NEW counts, NEW key,
         Inner(gr, counts, ResultLevels(gr, Inside(gr), d), key),
         NodeOf(gr, d).demultiply # {} => counts[d] \in Nat
  PROVE  key \in ResultKeys(gr, counts, Source(gr, d, key)) /\ Source(gr, d, key)[1] = d
<1>1. PICK y : y = Source(gr, d, key)
  OBVIOUS
<1>2. CASE NodeOf(gr, d).demultiply = {}
  BY <1>1, <1>2 DEF Source, ResultKeys
<1>3. CASE NodeOf(gr, d).demultiply # {}
  <2>1. y[1] = d /\ y[2] = SubSeq(key, 1, Len(key) - 1)
    BY <1>1, <1>3 DEF Source
  <2>2. PICK s : s = Around(gr, d)
    OBVIOUS
  <2>3. s \in Seq(NodeNames(gr)) /\ ResultLevels(gr, Inside(gr), d) = Append(s, d)
    BY <1>3, <2>2, Nested DEF ResultLevels, Around
  <2>4. /\ Len(Append(s, d)) = Len(s) + 1 /\ Append(s, d)[Len(s) + 1] = d /\ Len(s) \in Nat
        /\ Len(s) + 1 \in 1..(Len(s) + 1)
    BY <2>3
  <2>5. PICK l : l = Len(s) + 1
    OBVIOUS
  <2>6. /\ key \in Seq(NodeNames(gr) \X Nat) /\ Len(key) = l /\ key[l][1] = d /\ key[l][2] < counts[d]
        /\ l \in 1..l /\ l - 1 \in Nat
    BY <2>3, <2>4, <2>5 DEF Inner, Keys
  <2>7. PICK i : i = key[l][2]
    OBVIOUS
  <2>8. i \in Nat /\ key[l] = <<d, i>>
    BY <2>6, <2>7
  <2>9. i \in 0..(counts[d] - 1)
    BY <1>3, <2>6, <2>7, <2>8
  <2>10. key = Append(SubSeq(key, 1, l - 1), key[l])
    <3>1. PICK first, last : first = SubSeq(key, 1, l - 1) /\ last = key[l]
      OBVIOUS
    <3>2. /\ first \in Seq(NodeNames(gr) \X Nat) /\ Len(first) = l - 1 /\ last \in NodeNames(gr) \X Nat
          /\ \A j \in 1..(l - 1) : first[j] = key[j]
      BY <2>6, <3>1
    <3>3. /\ Append(first, last) \in Seq(NodeNames(gr) \X Nat) /\ Len(Append(first, last)) = l
          /\ \A j \in 1..l : Append(first, last)[j] = key[j]
      BY <2>6, <3>1, <3>2
    <3>4. PICK k2 : k2 = Append(first, last)
      OBVIOUS
    <3>5. k2 \in Seq(NodeNames(gr) \X Nat) /\ Len(k2) = l /\ \A j \in 1..l : k2[j] = key[j]
      BY <3>3, <3>4
    <3>6. k2 = [j \in 1..l |-> k2[j]] /\ key = [j \in 1..l |-> key[j]]
      BY <2>6, <3>5
    <3>7. k2 = key
      BY <3>5, <3>6
    <3> QED BY <3>1, <3>4, <3>7
  <2>11. key = Append(y[2], <<y[1], i>>)
    BY <2>1, <2>6, <2>8, <2>10
  <2>12. key \in {Append(y[2], <<y[1], j>>) : j \in 0..(counts[y[1]] - 1)}
    BY <2>1, <2>9, <2>11
  <2>13. key \in ResultKeys(gr, counts, y)
    BY <1>3, <2>1, <2>12 DEF ResultKeys
  <2> QED BY <1>1, <2>1, <2>13
<1> QED BY <1>2, <1>3

\* The nodes that are fed have their counts.
LEMMA NowKnown ==
  ASSUME NEW gr, NEW counts, NEW counts2, NEW started, NEW finished, NEW S, NEW others, NEW id, NEW M,
         Finishing(gr, counts, counts2, started, finished, S, others, id, M)
  PROVE  Resulting(gr, counts2, finished, id, M)
<1> USE DEF Finishing
<1>1. PICK d : d = id[1]
  OBVIOUS
<1>2. d \in NodeNames(gr) /\ Known(gr, counts, d)
  BY <1>1 DEF Ids, FeedInv
<1>3. Known(gr, counts2, d)
  BY <1>2, MoreCounts
<1>4. NodeOf(gr, d).demultiply # {} => d \in DOMAIN counts2
  BY <1>1 DEF Counted
<1>5. ASSUME NEW n \in Next_(gr, d)
      PROVE  Known(gr, counts2, n)
  <2>1. n \in NodeNames(gr) /\ d \in Dependencies(gr, n)
    BY DEF Next_
  <2>2. Inside(gr)[n] = ResultLevels(gr, Inside(gr), d)
    BY <2>1 DEF Valid, WellNested
  <2>3. PICK s, a : s = Inside(gr)[d] /\ a = Around(gr, d)
    OBVIOUS
  <2>4. /\ s \in Seq(NodeNames(gr)) /\ a \in Seq(NodeNames(gr)) /\ Len(a) <= Len(s)
        /\ \A i \in 1..Len(a) : a[i] = s[i]
    <3>1. /\ Inside(gr)[d] \in Seq(NodeNames(gr)) /\ Len(Inside(gr)[d]) \in Nat
          /\ Cardinality(NodeOf(gr, d).gather) \in Nat /\ Around(gr, d) \in Seq(NodeNames(gr))
          /\ Len(Around(gr, d)) = Len(Inside(gr)[d]) - Cardinality(NodeOf(gr, d).gather)
          /\ \A i \in 1..Len(Around(gr, d)) : Around(gr, d)[i] = Inside(gr)[d][i]
      BY <1>2, Nested
    <3> QED BY <2>3, <3>1
  <2>5. \A i \in 1..Len(a) : a[i] \in DOMAIN counts2
    <3>1. \A i \in 1..Len(a) : i \in DOMAIN s
      BY <2>4
    <3>2. \A i \in DOMAIN s : s[i] \in DOMAIN counts2
      BY <1>3, <2>3 DEF Known
    <3> QED BY <2>4, <3>1, <3>2
  <2>6. CASE NodeOf(gr, d).demultiply = {}
    <3>1. Inside(gr)[n] = a
      BY <2>2, <2>3, <2>6 DEF ResultLevels, Around
    <3> QED BY <2>4, <2>5, <3>1 DEF Known
  <2>7. CASE NodeOf(gr, d).demultiply # {}
    <3>1. Inside(gr)[n] = Append(a, d)
      BY <2>2, <2>3, <2>7 DEF ResultLevels, Around
    <3>2. \A i \in DOMAIN Append(a, d) : (i \in 1..Len(a) /\ Append(a, d)[i] = a[i]) \/ Append(a, d)[i] = d
      BY <2>4
    <3>3. \A i \in DOMAIN Append(a, d) : Append(a, d)[i] \in DOMAIN counts2
      BY <1>4, <2>5, <2>7, <3>2
    <3> QED BY <3>1, <3>3 DEF Known
  <2> QED BY <2>6, <2>7
<1> QED BY <1>1, <1>5 DEF Resulting


\* A session that has been started is not fed again: all of its inputs were
\* results of sessions that had finished.
LEMMA NotStarted ==
  ASSUME NEW gr, NEW counts, NEW counts2, NEW started, NEW finished, NEW S, NEW others, NEW id, NEW M,
         Finishing(gr, counts, counts2, started, finished, S, others, id, M),
         NEW w \in Next_(gr, id[1]) \X M
  PROVE  Target(gr, w[1], Key(w[2])) \notin started
<1>1. PICK t, c : /\ t = Target(gr, w[1], Key(w[2]))
                  /\ c = CollapsedMetadata(w[2], NodeOf(gr, w[1]).gather)
  OBVIOUS
<1>2. Taken(gr, counts2, finished, id, w, t, c)
  BY <1>1, NowKnown, GivenInput
<1>3. t = <<w[1], Key(c)>> /\ Missing(gr, counts2, finished, t) # {} /\ t[1] = w[1]
  BY <1>2 DEF Taken
<1>4. SUFFICES ASSUME t \in started PROVE FALSE
  BY <1>1
<1>5. PICK n, k : n = w[1] /\ k = Key(c)
  OBVIOUS
<1>6. t = <<n, k>> /\ t[1] = n
  BY <1>3, <1>5
<1>7. Known(gr, counts, n) /\ Missing(gr, counts, finished, <<n, k>>) = {}
  <2>1. FeedInv(gr, counts, started, finished, S)
    BY DEF Finishing
  <2>2. Known(gr, counts, t[1]) /\ Missing(gr, counts, finished, t) = {}
    BY <1>4, <2>1 DEF FeedInv
  <2> QED BY <1>6, <2>2
<1>8. Missing(gr, counts2, finished, <<n, k>>) = Missing(gr, counts, finished, <<n, k>>)
  <2>1. n \in NodeNames(gr) /\ Valid(gr) /\ Extends(counts, counts2)
    BY <1>5 DEF Finishing, Next_
  <2> QED BY <1>7, <2>1, MoreCounts
<1> QED BY <1>3, <1>6, <1>7, <1>8

\* A target that has no session yet has got none of its inputs.
LEMMA NoneGiven ==
  ASSUME NEW gr, NEW counts, NEW counts2, NEW started, NEW finished, NEW S, NEW others, NEW id, NEW M,
         Finishing(gr, counts, counts2, started, finished, S, others, id, M),
         NEW w \in Next_(gr, id[1]) \X M, NEW t, t = Target(gr, w[1], Key(w[2])), t \notin DOMAIN others
  PROVE  Missing(gr, counts2, finished, t) = Inputs(gr, counts2, w[1])
<1>1. PICK n, c : n = w[1] /\ c = CollapsedMetadata(w[2], NodeOf(gr, w[1]).gather)
  OBVIOUS
<1>2. Taken(gr, counts2, finished, id, w, t, c)
  BY <1>1, NowKnown, GivenInput
<1>3. /\ n \in NodeNames(gr) /\ t[1] = n /\ t[2] = Key(c) /\ t = <<n, Key(c)>> /\ Known(gr, counts2, n)
      /\ Metadata(gr, counts2, Around(gr, n), c)
  <2>1. n \in NodeNames(gr)
    BY <1>1 DEF Next_
  <2>2. t = <<n, Key(c)>> /\ Known(gr, counts2, n) /\ Metadata(gr, counts2, Around(gr, n), c)
    BY <1>1, <1>2 DEF Taken
  <2> QED BY <2>1, <2>2
<1>4. t \notin started /\ t \notin DOMAIN S
  <2>1. t \notin started
    BY NotStarted
  <2> QED BY <2>1 DEF Finishing
<1>5. Inner(gr, counts2, Around(gr, n), t[2])
  <2>1. PICK levels : levels = Around(gr, n)
    OBVIOUS
  <2>2. Metadata(gr, counts2, levels, c)
    BY <1>3, <2>1
  <2>3. Len(levels) \in Nat
    BY <2>2 DEF Metadata
  <2>4. Inner(gr, counts2, levels, Key(c))
    BY <2>2, <2>3, InnerKey
  <2> QED BY <1>3, <2>1, <2>4
<1> USE DEF Finishing
<1>6. ASSUME NEW v \in Inputs(gr, counts2, n),
             Source(gr, v[1], ResultKey(gr, n, t[2], v[2])) \in finished
      PROVE  FALSE
  <2>1. PICK d, f, key : d = v[1] /\ f = v[2] /\ key = ResultKey(gr, n, t[2], v[2])
    OBVIOUS
  <2>2. d \in Dependencies(gr, n) /\ f \in Indices(Sizes(gr, counts2, n))
    BY <1>6, <2>1 DEF Inputs
  <2>3. PICK y : y = Source(gr, d, key)
    OBVIOUS
  <2>4. y \in finished
    BY <1>6, <2>1, <2>3
  <2>5. d \in NodeNames(gr) /\ Inside(gr)[n] = ResultLevels(gr, Inside(gr), d) /\ n \in Next_(gr, d)
    BY <1>3, <2>2 DEF Valid, WellNested, Next_
  <2>6. Inner(gr, counts2, Inside(gr)[n], key) /\ Target(gr, n, key) = t
    <3>1. PICK k, f2 : k = t[2] /\ f2 = finished \cup {id}
      OBVIOUS
    <3>2. /\ Counted(gr, counts2, f2) /\ Inner(gr, counts2, Around(gr, n), k)
          /\ key = ResultKey(gr, n, k, f) /\ t = <<n, k>>
      BY <1>3, <1>5, <2>1, <3>1
    <3>3. Inner(gr, counts2, Inside(gr)[n], key) /\ Target(gr, n, key) = <<n, k>>
      BY <1>3, <2>2, <3>2, Gathered
    <3> QED BY <3>2, <3>3
  <2>7. y[1] = d
    BY <2>3 DEF Source
  <2>8. NodeOf(gr, d).demultiply # {} => counts2[d] \in Nat /\ counts2[d] = counts[d]
    <3>1. Counted(gr, counts, finished)
      BY DEF FeedInv
    <3>2. NodeOf(gr, d).demultiply # {} => d \in DOMAIN counts
      BY <2>4, <2>7, <3>1 DEF Counted
    <3>3. d \in DOMAIN counts => counts[d] \in Nat
      BY <3>1 DEF Counted
    <3> QED BY <3>2, <3>3 DEF Extends
  <2>9. key \in ResultKeys(gr, counts2, y)
    <3>1. Inner(gr, counts2, ResultLevels(gr, Inside(gr), d), key)
      BY <2>5, <2>6
    <3> QED BY <2>3, <2>5, <2>8, <3>1, SourceHas
  <2>10. ResultKeys(gr, counts2, y) = ResultKeys(gr, counts, y)
    <3>1. CASE NodeOf(gr, d).demultiply = {}
      BY <2>7, <3>1 DEF ResultKeys
    <3>2. CASE NodeOf(gr, d).demultiply # {}
      BY <2>7, <2>8, <3>2 DEF ResultKeys
    <3> QED BY <3>1, <3>2
  <2>11. FeedInv(gr, counts, started, finished, S)
    OBVIOUS
  <2>12. Target(gr, n, key) \in DOMAIN S \cup started
    BY <2>4, <2>5, <2>7, <2>9, <2>10, <2>11 DEF FeedInv
  <2> QED BY <1>4, <2>6, <2>12
<1> QED BY <1>1, <1>3, <1>6 DEF Missing

LEMMA NowFeeding ==
  ASSUME NEW gr, NEW counts, NEW counts2, NEW started, NEW finished, NEW S, NEW others, NEW id, NEW M,
         Finishing(gr, counts, counts2, started, finished, S, others, id, M)
  PROVE  Feeding(gr, counts2, finished, id, M, others)
<1>1. Resulting(gr, counts2, finished, id, M)
  BY NowKnown
<1>2. ASSUME NEW x \in DOMAIN others
      PROVE  x \in Ids(gr) /\ DOMAIN others[x] = SessionFields /\ Fed(gr, counts2, finished, x, others[x])
  <2>1. x \in DOMAIN S /\ x \in Ids(gr) /\ others[x] = S[x] /\ DOMAIN S[x] = SessionFields
    BY DEF Finishing
  <2>2. Fed(gr, counts, finished, x, S[x])
    BY <2>1 DEF Finishing, FeedInv
  <2>3. PICK n, k : x = <<n, k>> /\ n = x[1] /\ n \in NodeNames(gr)
    BY <2>1 DEF Ids
  <2>4. Valid(gr) /\ Extends(counts, counts2) /\ Known(gr, counts, n)
    BY <2>2, <2>3 DEF Finishing, Fed
  <2>5. /\ Known(gr, counts2, n)
        /\ Missing(gr, counts2, finished, <<n, k>>) = Missing(gr, counts, finished, <<n, k>>)
        /\ \A meta : Metadata(gr, counts, Around(gr, n), meta) => Metadata(gr, counts2, Around(gr, n), meta)
    BY <2>3, <2>4, MoreCounts
  <2>6. Missing(gr, counts2, finished, x) = Missing(gr, counts, finished, x)
    BY <2>3, <2>5
  <2> QED BY <2>1, <2>2, <2>3, <2>5, <2>6 DEF Fed
<1>3. ASSUME NEW n \in Next_(gr, id[1]), NEW m \in M, NEW t, t = Target(gr, n, Key(m))
      PROVE  IF t \in DOMAIN others THEN others[t].run # "running"
             ELSE Missing(gr, counts2, finished, t) = Inputs(gr, counts2, n)
  <2>1. PICK w : w = <<n, m>>
    OBVIOUS
  <2>2. w \in Next_(gr, id[1]) \X M /\ w[1] = n /\ w[2] = m /\ t = Target(gr, w[1], Key(w[2]))
    BY <1>3, <2>1
  <2>3. t \notin started
    BY <2>2, NotStarted
  <2>4. t \in DOMAIN others => others[t].run # "running"
    BY <2>3 DEF Finishing
  <2>5. t \notin DOMAIN others => Missing(gr, counts2, finished, t) = Inputs(gr, counts2, w[1])
    BY <2>2, NoneGiven
  <2> QED BY <2>2, <2>4, <2>5
<1> QED BY <1>1, <1>2, <1>3 DEF Feeding


\* The sessions S become S2: those that were started keep their state, the
\* others do not run, and what is ready now has not been started.
Undisturbed(gr, started, S, S2, id) ==
    /\ DOMAIN S \ {id} \subseteq DOMAIN S2 /\ DOMAIN S2 \subseteq Ids(gr)
    /\ \A x \in DOMAIN S2 : DOMAIN S2[x] = SessionFields
    /\ \A x \in started : x \in DOMAIN S2 => x \in DOMAIN S \ {id} /\ S2[x] = S[x]
    /\ \A x \in DOMAIN S2 \ started : S2[x].run # "running"
    /\ \A x \in DOMAIN S2 : x[1] \in Next_(gr, id[1]) /\ IsReady(S2[x]) => x \notin started

LEMMA FedOthers ==
  ASSUME NEW gr, NEW counts, NEW counts2, NEW started, NEW finished, NEW S, NEW others, NEW id, NEW M,
         Finishing(gr, counts, counts2, started, finished, S, others, id, M), NEW acc,
         FedSo(gr, counts2, finished, id, others, Next_(gr, id[1]) \X M, acc)
  PROVE  Undisturbed(gr, started, S, acc[2], id)
<1>1. PICK S2, W : S2 = acc[2] /\ W = Next_(gr, id[1]) \X M
  OBVIOUS
<1>2. \A w \in W : Target(gr, w[1], Key(w[2])) \notin started
  BY <1>1, NotStarted
<1>3. /\ DOMAIN others \subseteq DOMAIN S2
      /\ \A x \in DOMAIN S2 :
            /\ Seated(gr, counts2, x, S2[x])
            /\ \/ x \in DOMAIN others /\ S2[x] = others[x]
               \/ S2[x].run # "running" /\ \E w \in W : x = Target(gr, w[1], Key(w[2]))
  BY <1>1 DEF FedSo
<1>4. /\ DOMAIN others = DOMAIN S \ {id} /\ \A x \in DOMAIN others : others[x] = S[x]
      /\ \A x \in DOMAIN S \ started : S[x].run # "running"
  BY DEF Finishing
<1>5. DOMAIN S \ {id} \subseteq DOMAIN S2
  BY <1>3, <1>4
<1>6. DOMAIN S2 \subseteq Ids(gr) /\ \A x \in DOMAIN S2 : DOMAIN S2[x] = SessionFields
  BY <1>3 DEF Seated
<1>7. \A x \in started : x \in DOMAIN S2 => x \in DOMAIN S \ {id} /\ S2[x] = S[x]
  BY <1>2, <1>3, <1>4
<1>8. \A x \in DOMAIN S2 \ started : S2[x].run # "running"
  BY <1>3, <1>4
<1>9. ASSUME NEW x \in DOMAIN S2, x[1] \in Next_(gr, id[1]), IsReady(S2[x]), x \in started
      PROVE  FALSE
  <2>1. x \in DOMAIN S \ {id} /\ S2[x] = S[x] /\ x \in started \cap DOMAIN S
    BY <1>7, <1>9
  <2>2. ~Computes(NodeOf(gr, x[1]))
    <3>1. Computes(NodeOf(gr, x[1])) => S[x].used = TRUE
      BY <2>1 DEF Finishing, FeedInv
    <3> QED BY <1>9, <2>1, <3>1 DEF IsReady
  <2>3. PICK n : n = x[1]
    OBVIOUS
  <2>4. n \in NodeNames(gr) /\ Around(gr, n) = <<>>
    <3>1. n \in NodeNames(gr)
      BY <1>9, <2>3 DEF Next_
    <3>2. Context(gr, Inside(gr), n) = <<>>
      BY <2>2, <2>3, <3>1 DEF Finishing, Valid, WellNested
    <3> QED BY <3>1, <3>2 DEF Around
  <2>5. x[2] = <<>> /\ x = <<n, <<>>>>
    <3>1. Seated(gr, counts2, x, S2[x])
      BY <1>3
    <3>2. PICK meta : meta = S2[x].meta
      OBVIOUS
    <3>3. x \in Ids(gr) /\ Metadata(gr, counts2, <<>>, meta) /\ Key(meta) = x[2]
      BY <2>3, <2>4, <3>1, <3>2 DEF Seated
    <3>4. meta = <<>>
      BY <3>3 DEF Metadata
    <3>5. Key(<<>>) = <<>>
      BY DEF Key
    <3> QED BY <2>3, <3>3, <3>4, <3>5 DEF Ids
  <2>6. PICK m \in M : TRUE
    BY <1>9 DEF Finishing
  <2>7. Target(gr, n, Key(m)) = x
    <3>1. SubSeq(Key(m), 1, 0) = <<>>
      OBVIOUS
    <3> QED BY <2>4, <2>5, <3>1 DEF Target
  <2>8. <<n, m>> \in W /\ <<n, m>>[1] = n /\ <<n, m>>[2] = m
    BY <1>1, <1>9, <2>3, <2>6
  <2> QED BY <1>2, <1>9, <2>7, <2>8
<1>10. Undisturbed(gr, started, S, S2, id)
  BY <1>5, <1>6, <1>7, <1>8, <1>9 DEF Undisturbed
<1> QED BY <1>1, <1>10


\* What a session misses when id has finished too.
LessMissing(gr, counts, finished, id, M, x) ==
    Missing(gr, counts, finished \cup {id}, x)
        = Missing(gr, counts, finished, x) \ Given(gr, id[1], Next_(gr, id[1]) \X M, x)

LEMMA MissingAfter ==
  ASSUME NEW gr, NEW counts, NEW counts2, NEW started, NEW finished, NEW S, NEW others, NEW id, NEW M,
         Finishing(gr, counts, counts2, started, finished, S, others, id, M), NEW x, NEW s,
         Seated(gr, counts2, x, s)
  PROVE  LessMissing(gr, counts2, finished, id, M, x)
<1>0. PICK W : W = Next_(gr, id[1]) \X M
  OBVIOUS
<1>1. PICK n, k : n = x[1] /\ k = x[2]
  OBVIOUS
<1>2. /\ n \in NodeNames(gr) /\ x = <<n, k>> /\ Known(gr, counts2, n)
      /\ Metadata(gr, counts2, Around(gr, n), s.meta) /\ Key(s.meta) = k
  BY <1>1 DEF Seated, Ids
<1>3. Inner(gr, counts2, Around(gr, n), k)
  <2>1. PICK levels, meta : levels = Around(gr, n) /\ meta = s.meta
    OBVIOUS
  <2>2. Metadata(gr, counts2, levels, meta) /\ Key(meta) = k
    BY <1>2, <2>1
  <2>3. Len(levels) \in Nat
    BY <2>2 DEF Metadata
  <2>4. Inner(gr, counts2, levels, Key(meta))
    BY <2>2, <2>3, InnerKey
  <2> QED BY <2>1, <2>2, <2>4
<1>4. Resulting(gr, counts2, finished, id, M)
  BY NowKnown
<1>5. ASSUME NEW v \in Inputs(gr, counts2, n), Source(gr, v[1], ResultKey(gr, n, k, v[2])) = id
      PROVE  v \in Given(gr, id[1], W, x)
  <2>1. PICK f, key : f = v[2] /\ key = ResultKey(gr, n, k, v[2])
    OBVIOUS
  <2>2. /\ v[1] = id[1] /\ v = <<id[1], f>> /\ id[1] \in Dependencies(gr, n)
        /\ f \in Indices(Sizes(gr, counts2, n)) /\ Source(gr, id[1], key) = id
    <3>1. v[1] = id[1]
      BY <1>5 DEF Source
    <3> QED BY <1>5, <2>1, <3>1 DEF Inputs
  <2>3. id[1] \in NodeNames(gr) /\ n \in Next_(gr, id[1]) /\ Inside(gr)[n] = ResultLevels(gr, Inside(gr), id[1])
    BY <1>2, <2>2 DEF Finishing, Valid, WellNested, Next_
  <2>4. /\ Inner(gr, counts2, Inside(gr)[n], key) /\ Target(gr, n, key) = <<n, k>>
        /\ \A meta : Key(meta) = key => Index(gr, n, meta) = f
    <3>1. PICK f2 : f2 = finished \cup {id}
      OBVIOUS
    <3>2. Valid(gr) /\ Counted(gr, counts2, f2) /\ key = ResultKey(gr, n, k, f)
      BY <2>1, <3>1 DEF Finishing
    <3> QED BY <1>2, <1>3, <2>2, <3>2, Gathered
  <2>5. key \in ResultKeys(gr, counts2, id)
    <3>1. PICK d : d = id[1]
      OBVIOUS
    <3>2. NodeOf(gr, d).demultiply # {} => counts2[d] \in Nat
      BY <3>1 DEF Finishing, Counted
    <3>3. Valid(gr) /\ d \in NodeNames(gr) /\ Inner(gr, counts2, ResultLevels(gr, Inside(gr), d), key)
      BY <2>3, <2>4, <3>1 DEF Finishing
    <3>4. key \in ResultKeys(gr, counts2, Source(gr, d, key))
      BY <3>2, <3>3, SourceHas
    <3> QED BY <2>2, <3>1, <3>4
  <2>6. PICK m \in M : Key(m) = key
    BY <2>3, <2>5 DEF Finishing
  <2>7. PICK w : w = <<n, m>>
    OBVIOUS
  <2>8. w \in W /\ w[1] = n /\ w[2] = m
    BY <1>0, <2>3, <2>6, <2>7
  <2>9. Target(gr, w[1], Key(w[2])) = x /\ Index(gr, w[1], w[2]) = f
    BY <1>2, <2>4, <2>6, <2>8
  <2>10. v = <<id[1], Index(gr, w[1], w[2])>>
    BY <2>2, <2>9
  <2> QED BY <2>8, <2>9, <2>10 DEF Given
<1>6. ASSUME NEW v \in Given(gr, id[1], W, x)
      PROVE  Source(gr, v[1], ResultKey(gr, n, k, v[2])) = id
  <2>1. PICK w \in W : Target(gr, w[1], Key(w[2])) = x /\ v = <<id[1], Index(gr, w[1], w[2])>>
    BY <1>6 DEF Given
  <2>2. PICK c : c = CollapsedMetadata(w[2], NodeOf(gr, w[1]).gather)
    OBVIOUS
  <2>3. Taken(gr, counts2, finished, id, w, Target(gr, w[1], Key(w[2])),
              CollapsedMetadata(w[2], NodeOf(gr, w[1]).gather))
    <3>1. w \in Next_(gr, id[1]) \X M
      BY <1>0
    <3> QED BY <1>4, <3>1, GivenInput
  <2>4. x[1] = w[1] /\ ResultKey(gr, w[1], x[2], Index(gr, w[1], w[2])) = Key(w[2])
    BY <2>1, <2>3 DEF Taken
  <2>5. Source(gr, id[1], Key(w[2])) = id
    BY <1>0, <1>4 DEF Resulting
  <2>6. v[1] = id[1] /\ v[2] = Index(gr, w[1], w[2])
    BY <2>1
  <2> QED BY <1>1, <2>4, <2>5, <2>6
<1>7. \A fin : Missing(gr, counts2, fin, x) =
         {v \in Inputs(gr, counts2, n) : Source(gr, v[1], ResultKey(gr, n, k, v[2])) \notin fin}
  BY <1>1 DEF Missing
<1>8. PICK D : D = Given(gr, id[1], W, x) /\ D = Given(gr, id[1], Next_(gr, id[1]) \X M, x)
  BY <1>0
<1>9. ASSUME NEW v \in Inputs(gr, counts2, n)
      PROVE  Source(gr, v[1], ResultKey(gr, n, k, v[2])) = id <=> v \in D
  BY <1>5, <1>6, <1>8
<1>10. PICK A, B, src : /\ A = Missing(gr, counts2, finished, x)
                        /\ B = Missing(gr, counts2, finished \cup {id}, x)
                        /\ src = [v \in Inputs(gr, counts2, n) |-> Source(gr, v[1], ResultKey(gr, n, k, v[2]))]
  OBVIOUS
<1>11. /\ A = {v \in Inputs(gr, counts2, n) : src[v] \notin finished}
       /\ B = {v \in Inputs(gr, counts2, n) : src[v] \notin finished \cup {id}}
  BY <1>7, <1>10
<1>12. \A v \in Inputs(gr, counts2, n) : src[v] = id <=> v \in D
  BY <1>9, <1>10
<1>13. B = A \ D
  BY <1>11, <1>12
<1> QED BY <1>8, <1>10, <1>13 DEF LessMissing

\* The sessions that were fed, and those that wait, are as the counts say.
LEMMA FedFeeds ==
  ASSUME NEW gr, NEW counts, NEW counts2, NEW started, NEW finished, NEW S, NEW others, NEW id, NEW M,
         Finishing(gr, counts, counts2, started, finished, S, others, id, M), NEW acc, acc[1] = "OK",
         FedSo(gr, counts2, finished, id, others, Next_(gr, id[1]) \X M, acc)
  PROVE  FeedInv(gr, counts2, started, finished \cup {id}, acc[2])
<1>1. PICK S2, W, fin : S2 = acc[2] /\ W = Next_(gr, id[1]) \X M /\ fin = finished \cup {id}
  OBVIOUS
<1>2. Undisturbed(gr, started, S, S2, id)
  BY <1>1, FedOthers
<1>3. Counted(gr, counts2, fin) /\ FeedInv(gr, counts, started, finished, S)
  BY <1>1 DEF Finishing
<1>4. ASSUME NEW x \in DOMAIN S2
      PROVE  Fed(gr, counts2, fin, x, S2[x])
  <2>1. PICK s : s = S2[x]
    OBVIOUS
  <2>2. /\ Seated(gr, counts2, x, s)
        /\ s.remaining = Cardinality(Missing(gr, counts2, finished, x) \ Given(gr, id[1], W, x))
    BY <1>1, <2>1 DEF FedSo
  <2>3. Missing(gr, counts2, finished \cup {id}, x)
            = Missing(gr, counts2, finished, x) \ Given(gr, id[1], W, x)
    <3>1. LessMissing(gr, counts2, finished, id, M, x)
      BY <2>2, MissingAfter
    <3> QED BY <1>1, <3>1 DEF LessMissing
  <2>4. s.remaining = Cardinality(Missing(gr, counts2, fin, x))
    BY <1>1, <2>2, <2>3
  <2> QED BY <2>1, <2>2, <2>4 DEF Fed, Seated
<1>5. ASSUME NEW x \in started
      PROVE  Known(gr, counts2, x[1]) /\ Missing(gr, counts2, fin, x) = {}
  <2>1. x \in Ids(gr) /\ Known(gr, counts, x[1]) /\ Missing(gr, counts, finished, x) = {}
    BY <1>3 DEF Finishing, FeedInv
  <2>2. PICK n, k : x = <<n, k>> /\ n = x[1] /\ n \in NodeNames(gr)
    BY <2>1 DEF Ids
  <2>3. /\ Known(gr, counts2, n)
        /\ Missing(gr, counts2, finished, <<n, k>>) = Missing(gr, counts, finished, <<n, k>>)
    <3>1. Valid(gr) /\ Extends(counts, counts2) /\ Known(gr, counts, n)
      BY <2>1, <2>2 DEF Finishing
    <3> QED BY <2>2, <3>1, MoreCounts
  <2>4. Missing(gr, counts2, fin, x) \subseteq Missing(gr, counts2, finished, x)
    BY <1>1 DEF Missing
  <2> QED BY <2>1, <2>2, <2>3, <2>4
<1>6. \A x \in started \cap DOMAIN S2 : Computes(NodeOf(gr, x[1])) => S2[x].used = TRUE
  BY <1>2, <1>3 DEF Undisturbed, FeedInv
<1>7. ASSUME NEW y \in fin, NEW n \in Next_(gr, y[1]), NEW key \in ResultKeys(gr, counts2, y)
      PROVE  Target(gr, n, key) \in DOMAIN S2 \cup started
  <2>1. CASE y = id
    <3>1. PICK m \in M : Key(m) = key
      BY <2>1 DEF Finishing
    <3>2. PICK w : w = <<n, m>>
      OBVIOUS
    <3>3. w \in W /\ w[1] = n /\ w[2] = m
      BY <1>1, <2>1, <3>2
    <3>4. Target(gr, w[1], Key(w[2])) \in DOMAIN S2
      BY <1>1, <3>3 DEF FedSo
    <3> QED BY <3>1, <3>3, <3>4
  <2>2. CASE y # id
    <3>1. y \in finished
      BY <1>1, <2>2
    <3>2. NodeOf(gr, y[1]).demultiply # {} => counts2[y[1]] = counts[y[1]]
      <4>1. NodeOf(gr, y[1]).demultiply # {} => y[1] \in DOMAIN counts
        BY <1>3, <3>1 DEF FeedInv, Counted
      <4> QED BY <4>1 DEF Finishing, Extends
    <3>3. ResultKeys(gr, counts2, y) = ResultKeys(gr, counts, y)
      <4>1. CASE NodeOf(gr, y[1]).demultiply = {}
        BY <4>1 DEF ResultKeys
      <4>2. CASE NodeOf(gr, y[1]).demultiply # {}
        BY <3>2, <4>2 DEF ResultKeys
      <4> QED BY <4>1, <4>2
    <3>4. Target(gr, n, key) \in DOMAIN S \cup started
      BY <1>3, <3>1, <3>3 DEF FeedInv
    <3> QED BY <1>2, <3>4 DEF Undisturbed, Finishing
  <2> QED BY <2>1, <2>2
<1>8. FeedInv(gr, counts2, started, fin, S2)
  BY <1>3, <1>4, <1>5, <1>6, <1>7 DEF FeedInv
<1> QED BY <1>1, <1>8


-----------------------------------------------------------------------------
(* The results of a session *)

\* m is the metadata of the part i of c parts.
Part(gr, meta, n, i, c, m) ==
    /\ meta \in Seq(NodeNames(gr) \X Nat \X Nat) /\ n \in NodeNames(gr) /\ i \in Nat /\ c \in Nat
    /\ m = Append(meta, <<n, i, c>>)

PartKey(n, i, k, key) == key = Append(k, <<n, i>>) /\ SubSeq(key, 1, Len(key) - 1) = k

LEMMA KeyOfPart ==
  ASSUME NEW gr, NEW meta, NEW n, NEW i, NEW c, NEW m, Part(gr, meta, n, i, c, m)
  PROVE  PartKey(n, i, Key(meta), Key(m))
<1>0. PICK k : k = Key(meta)
  OBVIOUS
<1>1. /\ meta \in Seq(NodeNames(gr) \X Nat \X Nat) /\ n \in NodeNames(gr) /\ i \in Nat /\ c \in Nat
       /\ m = Append(meta, <<n, i, c>>)
  BY DEF Part
<1>2. PICK l \in Nat : l = Len(meta)
  BY <1>1
<1>3. /\ DOMAIN meta = 1..l /\ DOMAIN m = 1..(l + 1) /\ m[l + 1] = <<n, i, c>>
      /\ \A j \in 1..l : m[j] = meta[j] /\ meta[j] \in NodeNames(gr) \X Nat \X Nat
  BY <1>2, <1>1
<1>4. k = [j \in 1..l |-> <<meta[j][1], meta[j][2]>>]
  BY <1>0, <1>3 DEF Key
<1>5. k \in Seq(NodeNames(gr) \X Nat) /\ Len(k) = l
  <2>1. \A j \in 1..l : <<meta[j][1], meta[j][2]>> \in NodeNames(gr) \X Nat
    BY <1>3
  <2>2. PICK T : T = NodeNames(gr) \X Nat
    OBVIOUS
  <2>3. k = [j \in 1..l |-> k[j]] /\ \A j \in 1..l : k[j] \in T
    BY <1>4, <2>1, <2>2
  <2>4. k \in Seq(T) /\ Len(k) = l
    BY <2>3
  <2> QED BY <2>2, <2>4
<1>6. PICK k2, a : k2 = Key(m) /\ a = Append(k, <<n, i>>)
  OBVIOUS
<1>7. k2 = [j \in 1..(l + 1) |-> <<m[j][1], m[j][2]>>]
  BY <1>3, <1>6 DEF Key
<1>8. a = [j \in 1..(l + 1) |-> a[j]] /\ Len(a) = l + 1
  <2>1. <<n, i>> \in NodeNames(gr) \X Nat
    BY <1>1
  <2>2. a \in Seq(NodeNames(gr) \X Nat) /\ Len(a) = l + 1
    BY <1>5, <1>6, <2>1
  <2> QED BY <2>2
<1>9. \A j \in 1..(l + 1) : a[j] = k2[j]
  <2>1. \A j \in 1..l : a[j] = k[j] /\ k[j] = <<meta[j][1], meta[j][2]>>
    BY <1>4, <1>5, <1>6
  <2>2. a[l + 1] = <<n, i>> /\ k2[l + 1] = <<n, i>>
    <3>1. a[l + 1] = <<n, i>>
      BY <1>5, <1>6, <1>1
    <3>2. k2[l + 1] = <<n, i>>
      BY <1>3, <1>7
    <3> QED BY <3>1, <3>2
  <2>3. \A j \in 1..l : k2[j] = <<meta[j][1], meta[j][2]>>
    BY <1>3, <1>7
  <2>4. \A j \in 1..(l + 1) : j \in 1..l \/ j = l + 1
    OBVIOUS
  <2> QED BY <2>1, <2>2, <2>3, <2>4
<1>10. k2 = a
  BY <1>7, <1>8, <1>9
<1>11. SubSeq(a, 1, Len(a) - 1) = k
  <2>1. PICK b : b = SubSeq(a, 1, Len(a) - 1)
    OBVIOUS
  <2>2. a \in Seq(NodeNames(gr) \X Nat) /\ l \in 0..Len(a) /\ Len(a) - 1 = l
    BY <1>5, <1>6, <1>8, <1>1
  <2>3. b = [j \in 1..l |-> a[j]]
    BY <2>1, <2>2
  <2>4. \A j \in 1..l : a[j] = k[j]
    BY <1>5, <1>6, <1>1
  <2>5. k = [j \in 1..l |-> k[j]]
    BY <1>5
  <2> QED BY <2>1, <2>3, <2>4, <2>5
<1>12. PartKey(n, i, k, k2)
  BY <1>6, <1>10, <1>11 DEF PartKey
<1> QED BY <1>0, <1>6, <1>12

\* Session id is about to finish.
AboutToFinish(gr, counts, started, finished, S, others, id) ==
    /\ Valid(gr) /\ FeedInv(gr, counts, started, finished, S)
    /\ id \in started \ finished /\ id \in DOMAIN S /\ DOMAIN S \subseteq Ids(gr)
    /\ started \subseteq Ids(gr) /\ finished \subseteq started
    /\ \A x \in DOMAIN S : DOMAIN S[x] = SessionFields
    /\ \A x \in DOMAIN S \ started : S[x].run # "running"
    /\ DOMAIN others = DOMAIN S \ {id} /\ \A x \in DOMAIN others : others[x] = S[x]

\* The metadata M of its results: none of the exit, one of a node that does
\* not demultiply, c of a demultiplexer whose outputs have c parts.
Demultiplied(gr, counts, counts2, id, meta, M, c) ==
    /\ NodeOf(gr, id[1]).demultiply # {} /\ c \in Nat \ {0}
    /\ NodeOf(gr, id[1]).demultiply = {-1} \/ NodeOf(gr, id[1]).demultiply = {c}
    /\ M = GenerateSubsessions(meta, id[1], c) /\ counts2 = Put(counts, id[1], c)

Results(gr, counts, counts2, id, meta, M) ==
    \/ NodeOf(gr, id[1]).kind = "EXIT" /\ M = {} /\ counts2 = counts
    \/ NodeOf(gr, id[1]).demultiply = {} /\ M = {meta} /\ counts2 = counts
    \/ \E c : Demultiplied(gr, counts, counts2, id, meta, M, c)


LEMMA NoResults ==
  ASSUME NEW gr, NEW counts, NEW started, NEW finished, NEW S, NEW others, NEW id,
         AboutToFinish(gr, counts, started, finished, S, others, id), NodeOf(gr, id[1]).kind = "EXIT"
  PROVE  Finishing(gr, counts, counts, started, finished, S, others, id, {})
<1>1. Next_(gr, id[1]) = {} /\ id[1] \in NodeNames(gr)
  BY DEF AboutToFinish, Valid, WellConnected, Next_, Ids
<1>2. NodeOf(gr, id[1]).demultiply = {}
  BY <1>1 DEF AboutToFinish, Valid, WellConnected, Next_
<1>3. Counted(gr, counts, finished)
  BY DEF AboutToFinish, FeedInv
<1>4. Counted(gr, counts, finished \cup {id})
  BY <1>2, <1>3 DEF Counted
<1>5. Extends(counts, counts)
  BY DEF Extends
<1> QED BY <1>1, <1>4, <1>5 DEF AboutToFinish, Finishing

LEMMA OneResult ==
  ASSUME NEW gr, NEW counts, NEW started, NEW finished, NEW S, NEW others, NEW id,
         AboutToFinish(gr, counts, started, finished, S, others, id), NodeOf(gr, id[1]).demultiply = {}
  PROVE  Finishing(gr, counts, counts, started, finished, S, others, id, {S[id].meta})
<1>1. PICK meta : meta = S[id].meta
  OBVIOUS
<1>2. id \in Ids(gr) /\ Fed(gr, counts, finished, id, S[id])
  BY DEF AboutToFinish, FeedInv
<1>3. Metadata(gr, counts, Around(gr, id[1]), meta) /\ Key(meta) = id[2] /\ id = <<id[1], id[2]>>
  BY <1>1, <1>2 DEF Fed, Ids
<1>4. ResultLevels(gr, Inside(gr), id[1]) = Around(gr, id[1])
  BY DEF ResultLevels, Around
<1>5. Source(gr, id[1], Key(meta)) = id
  BY <1>3 DEF Source
<1>6. ResultKeys(gr, counts, id) = {Key(meta)}
  BY <1>3 DEF ResultKeys
<1>7. Counted(gr, counts, finished \cup {id})
  BY DEF AboutToFinish, FeedInv, Counted
<1>8. Extends(counts, counts)
  BY DEF Extends
<1>9. \A m \in {meta} : /\ Metadata(gr, counts, ResultLevels(gr, Inside(gr), id[1]), m)
                        /\ Source(gr, id[1], Key(m)) = id
  BY <1>3, <1>4, <1>5
<1>10. {meta} # {} /\ \A key \in ResultKeys(gr, counts, id) : \E m \in {meta} : Key(m) = key
  BY <1>6
<1>11. Finishing(gr, counts, counts, started, finished, S, others, id, {meta})
  BY <1>7, <1>8, <1>9, <1>10 DEF AboutToFinish, Finishing
<1> QED BY <1>1, <1>11

LEMMA CountKnown ==
  ASSUME NEW gr, NEW counts, NEW counts2, NEW started, NEW finished, NEW S, NEW others, NEW id, NEW M, NEW c,
         AboutToFinish(gr, counts, started, finished, S, others, id),
         Demultiplied(gr, counts, counts2, id, S[id].meta, M, c)
  PROVE  Extends(counts, counts2) /\ Counted(gr, counts2, finished \cup {id})
<1>1. PICK n : n = id[1]
  OBVIOUS
<1>2. /\ n \in NodeNames(gr) /\ id = <<n, id[2]>> /\ id \notin finished
      /\ Fed(gr, counts, finished, id, S[id]) /\ Counted(gr, counts, finished)
  BY <1>1 DEF AboutToFinish, FeedInv, Ids
<1>3. /\ NodeOf(gr, n).demultiply = {-1} \/ NodeOf(gr, n).demultiply = {c}
      /\ c \in Nat \ {0} /\ counts2 = Put(counts, n, c)
  BY <1>1 DEF Demultiplied
<1>4. NodeOf(gr, n).demultiply = {-1} => id = <<n, <<>>>>
  <2>1. SUFFICES ASSUME NodeOf(gr, n).demultiply = {-1}
                 PROVE  id[2] = <<>>
    BY <1>2
  <2>2. Around(gr, n) = <<>>
    BY <1>2, <2>1 DEF AboutToFinish, Valid, WellNested, Around
  <2>3. PICK meta : meta = S[id].meta
    OBVIOUS
  <2>4. Len(meta) = Len(Around(gr, n)) /\ meta \in Seq(NodeNames(gr) \X Nat \X Nat) /\ Key(meta) = id[2]
    BY <1>1, <1>2, <2>3 DEF Fed, Metadata
  <2>5. Len(Around(gr, n)) = 0
    BY <2>2
  <2>6. DOMAIN meta = {}
    BY <2>4, <2>5
  <2>7. Key(meta) = [i \in {} |-> <<meta[i][1], meta[i][2]>>]
    BY <2>6 DEF Key
  <2>8. Key(meta) = <<>>
    BY <2>7
  <2> QED BY <2>4, <2>8
<1>5. DOMAIN counts2 = DOMAIN counts \cup {n} /\ counts2[n] = c
      /\ \A x \in DOMAIN counts : x # n => counts2[x] = counts[x]
  BY <1>3 DEF Put
<1>6. n \in DOMAIN counts => counts[n] = c
  <2>1. SUFFICES ASSUME n \in DOMAIN counts
                 PROVE  counts[n] = c
    OBVIOUS
  <2>2. NodeOf(gr, n).demultiply # {-1}
    BY <1>2, <1>4, <2>1 DEF Counted
  <2>3. NodeOf(gr, n).demultiply = {counts[n]}
    BY <1>2, <2>1, <2>2 DEF Counted
  <2> QED BY <1>3, <2>2, <2>3
<1>7. Extends(counts, counts2)
  BY <1>5, <1>6 DEF Extends
<1>8. PICK fin : fin = finished \cup {id}
  OBVIOUS
<1>9. ASSUME NEW x \in DOMAIN counts2
      PROVE  /\ x \in NodeNames(gr) /\ counts2[x] \in Nat
             /\ IF NodeOf(gr, x).demultiply = {-1} THEN <<x, <<>>>> \in fin
                ELSE NodeOf(gr, x).demultiply = {counts2[x]}
  <2>1. CASE x = n
    BY <1>2, <1>3, <1>4, <1>5, <1>8, <2>1
  <2>2. CASE x # n
    <3>1. x \in DOMAIN counts /\ counts2[x] = counts[x]
      BY <1>5, <2>2
    <3>2. /\ x \in NodeNames(gr) /\ counts[x] \in Nat
          /\ IF NodeOf(gr, x).demultiply = {-1} THEN <<x, <<>>>> \in finished
             ELSE NodeOf(gr, x).demultiply = {counts[x]}
      BY <1>2, <3>1 DEF Counted
    <3> QED BY <1>8, <3>1, <3>2
  <2> QED BY <2>1, <2>2
<1>10. ASSUME NEW y \in fin, NodeOf(gr, y[1]).demultiply # {}
       PROVE  y[1] \in DOMAIN counts2
  BY <1>1, <1>2, <1>5, <1>8, <1>10 DEF Counted
<1>11. Counted(gr, counts2, fin)
  BY <1>9, <1>10 DEF Counted
<1> QED BY <1>7, <1>8, <1>11


LEMMA PartMetadata ==
  ASSUME NEW gr, NEW counts2, NEW levels, NEW n \in NodeNames(gr), NEW meta, Len(levels) \in Nat,
         Metadata(gr, counts2, levels, meta), NEW c \in Nat, counts2[n] = c, NEW i \in 0..(c - 1),
         levels \in Seq(NodeNames(gr)), NEW m, m = Append(meta, <<n, i, c>>)
  PROVE  Metadata(gr, counts2, Append(levels, n), m)
<1>1. PICK l, more : l \in Nat /\ l = Len(levels) /\ more = Append(levels, n)
  OBVIOUS
<1>2. /\ meta \in Seq(NodeNames(gr) \X Nat \X Nat) /\ Len(meta) = l
      /\ \A j \in 1..l : /\ meta[j][1] = levels[j]
                         /\ meta[j][3] = counts2[meta[j][1]] /\ meta[j][2] < meta[j][3]
  <2>1. /\ meta \in Seq(NodeNames(gr) \X Nat \X Nat) /\ Len(meta) = l
        /\ \A j \in DOMAIN meta : /\ meta[j][1] = levels[j]
                                  /\ meta[j][3] = counts2[meta[j][1]] /\ meta[j][2] < meta[j][3]
    BY <1>1 DEF Metadata
  <2>2. DOMAIN meta = 1..l
    BY <2>1
  <2> QED BY <2>1, <2>2
<1>3. <<n, i, c>> \in NodeNames(gr) \X Nat \X Nat
  OBVIOUS
<1>4. /\ m \in Seq(NodeNames(gr) \X Nat \X Nat) /\ Len(m) = l + 1 /\ DOMAIN m = 1..(l + 1)
      /\ m[l + 1] = <<n, i, c>> /\ \A j \in 1..l : m[j] = meta[j]
  BY <1>2, <1>3
<1>5. Len(more) = l + 1 /\ more[l + 1] = n /\ \A j \in 1..l : more[j] = levels[j]
  BY <1>1
<1>6. ASSUME NEW j \in 1..(l + 1)
      PROVE  m[j][1] = more[j] /\ m[j][3] = counts2[m[j][1]] /\ m[j][2] < m[j][3]
  <2>1. CASE j \in 1..l
    BY <1>2, <1>4, <1>5, <2>1
  <2>2. CASE j = l + 1
    BY <1>4, <1>5, <2>2
  <2>3. j \in 1..l \/ j = l + 1
    BY <1>1, <1>6
  <2> QED BY <2>1, <2>2, <2>3
<1>7. Metadata(gr, counts2, more, m)
  BY <1>4, <1>5, <1>6 DEF Metadata
<1> QED BY <1>1, <1>7

LEMMA SeveralResults ==
  ASSUME NEW gr, NEW counts, NEW counts2, NEW started, NEW finished, NEW S, NEW others, NEW id, NEW M, NEW c,
         AboutToFinish(gr, counts, started, finished, S, others, id),
         Demultiplied(gr, counts, counts2, id, S[id].meta, M, c)
  PROVE  Finishing(gr, counts, counts2, started, finished, S, others, id, M) /\ IsFiniteSet(M)
<1>1. PICK n, meta, levels : n = id[1] /\ meta = S[id].meta /\ levels = Around(gr, n)
  OBVIOUS
<1>2. Extends(counts, counts2) /\ Counted(gr, counts2, finished \cup {id})
  BY CountKnown
<1>3. /\ n \in NodeNames(gr) /\ id = <<n, id[2]>> /\ Valid(gr) /\ Fed(gr, counts, finished, id, S[id])
  BY <1>1 DEF AboutToFinish, FeedInv, Ids
<1>4. /\ NodeOf(gr, n).demultiply # {} /\ c \in Nat \ {0}
      /\ M = GenerateSubsessions(meta, n, c) /\ counts2 = Put(counts, n, c)
  BY <1>1 DEF Demultiplied
<1>5. counts2[n] = c
  BY <1>4 DEF Put
<1>6. Known(gr, counts, n) /\ Metadata(gr, counts, levels, meta) /\ Key(meta) = id[2]
  BY <1>1, <1>3 DEF Fed
<1>7. Metadata(gr, counts2, levels, meta)
  <2>1. \A x : Metadata(gr, counts, Around(gr, n), x) => Metadata(gr, counts2, Around(gr, n), x)
    BY <1>2, <1>3, <1>6, MoreCounts
  <2> QED BY <1>1, <1>6, <2>1
<1>8. levels \in Seq(NodeNames(gr)) /\ Len(levels) \in Nat
  <2>1. Around(gr, n) \in Seq(NodeNames(gr))
    BY <1>3, Nested
  <2> QED BY <1>1, <2>1
<1>9. ResultLevels(gr, Inside(gr), n) = Append(levels, n)
  BY <1>1, <1>4 DEF ResultLevels, Around
<1>10. M = {Append(meta, <<n, i, c>>) : i \in 0..(c - 1)}
  BY <1>4 DEF GenerateSubsessions
<1>11. ASSUME NEW i \in 0..(c - 1), NEW m, m = Append(meta, <<n, i, c>>)
       PROVE  /\ Metadata(gr, counts2, ResultLevels(gr, Inside(gr), n), m)
              /\ Source(gr, n, Key(m)) = id /\ Key(m) = Append(id[2], <<n, i>>)
  <2>1. Metadata(gr, counts2, Append(levels, n), m)
    BY <1>3, <1>4, <1>5, <1>7, <1>8, <1>11, PartMetadata
  <2>2. meta \in Seq(NodeNames(gr) \X Nat \X Nat) /\ i \in Nat
    BY <1>4, <1>7 DEF Metadata
  <2>3. Key(m) = Append(id[2], <<n, i>>) /\ SubSeq(Key(m), 1, Len(Key(m)) - 1) = id[2]
    <3>1. Part(gr, meta, n, i, c, m)
      BY <1>3, <1>4, <1>11, <2>2 DEF Part
    <3>2. PartKey(n, i, Key(meta), Key(m))
      BY <3>1, KeyOfPart
    <3> QED BY <1>6, <3>2 DEF PartKey
  <2>4. Source(gr, n, Key(m)) = <<n, SubSeq(Key(m), 1, Len(Key(m)) - 1)>>
    BY <1>4 DEF Source
  <2> QED BY <1>3, <1>9, <2>1, <2>3, <2>4
<1>12. \A m \in M : /\ Metadata(gr, counts2, ResultLevels(gr, Inside(gr), id[1]), m)
                    /\ Source(gr, id[1], Key(m)) = id
  BY <1>1, <1>10, <1>11
<1>13. ASSUME NEW key \in ResultKeys(gr, counts2, id)
       PROVE  \E m \in M : Key(m) = key
  <2>1. PICK i \in 0..(c - 1) : key = Append(id[2], <<n, i>>)
    BY <1>1, <1>4, <1>5 DEF ResultKeys
  <2>2. PICK m : m = Append(meta, <<n, i, c>>)
    OBVIOUS
  <2>3. m \in M /\ Key(m) = key
    BY <1>10, <1>11, <2>1, <2>2
  <2> QED BY <2>3
<1>14. M # {}
  <2>1. 0 \in 0..(c - 1)
    BY <1>4
  <2> QED BY <1>10, <2>1
<1>15. Finishing(gr, counts, counts2, started, finished, S, others, id, M)
  BY <1>2, <1>12, <1>13, <1>14 DEF AboutToFinish, Finishing
<1>16. IsFiniteSet(M)
  <2>1. IsFiniteSet(0..(c - 1))
    BY <1>4, FS_Interval
  <2>2. PICK f : f = [i \in 0..(c - 1) |-> Append(meta, <<n, i, c>>)]
    OBVIOUS
  <2>3. M = {f[i] : i \in 0..(c - 1)} /\ f \in [0..(c - 1) -> M]
    BY <1>10, <2>2
  <2>4. f \in Surjection(0..(c - 1), M)
    BY <2>3 DEF Surjection
  <2> QED BY <2>1, <2>4, FS_Surjection
<1> QED BY <1>15, <1>16

\* Whatever the node, what feeding needs holds of its results.
LEMMA Fetched ==
  ASSUME NEW gr, NEW counts, NEW counts2, NEW started, NEW finished, NEW S, NEW others, NEW id, NEW M,
         AboutToFinish(gr, counts, started, finished, S, others, id),
         Results(gr, counts, counts2, id, S[id].meta, M)
  PROVE  Finishing(gr, counts, counts2, started, finished, S, others, id, M) /\ IsFiniteSet(M)
<1>1. CASE NodeOf(gr, id[1]).kind = "EXIT" /\ M = {} /\ counts2 = counts
  BY <1>1, NoResults, FS_EmptySet
<1>2. CASE NodeOf(gr, id[1]).demultiply = {} /\ M = {S[id].meta} /\ counts2 = counts
  BY <1>2, OneResult, FS_Singleton
<1>3. CASE \E c : Demultiplied(gr, counts, counts2, id, S[id].meta, M, c)
  BY <1>3, SeveralResults
<1> QED BY <1>1, <1>2, <1>3 DEF Results


\* The first length of a tensor a node takes is a natural number.
LEMMA OutputLength ==
  ASSUME NEW info, NEW output, info.outputs[output].shape \in Seq(Dimension), NEW count \in Nat,
         NEW dims, dims = OutputDims(info, output, count), ~(Len(dims) < 3)
  PROVE  dims[1] \in Nat
<1>1. PICK shape : shape = info.outputs[output].shape
  OBVIOUS
<1>2. shape \in Seq(Dimension) /\ DOMAIN shape = 1..Len(shape) /\ Len(shape) \in Nat
  BY <1>1
<1>3. dims = [i \in DOMAIN shape |-> IF i = 1 /\ IsDynamic(shape[1]) THEN count ELSE shape[i][1]]
  BY <1>1 DEF OutputDims
<1>4. Len(dims) = Len(shape)
  BY <1>2, <1>3
<1>5. 1 \in DOMAIN shape
  BY <1>2, <1>4
<1>6. dims[1] = IF IsDynamic(shape[1]) THEN count ELSE shape[1][1]
  BY <1>3, <1>5
<1>7. shape[1] \in Dimension
  BY <1>2, <1>5
<1>8. ~IsDynamic(shape[1]) => shape[1][1] \in Nat
  BY <1>7 DEF IsDynamic, Dimension, AnyDimension, DYNAMIC_DIMENSION
<1> QED BY <1>6, <1>8

LEMMA FirstLength ==
  ASSUME Inv, definition.status = "OK", NEW r, NEW id, id[1] \in NodeNames(g),
         sessions[r][id].count \in Nat, Requested(g, req[r].request), NEW tensors, tensors = Outputs(r, id),
         NEW a \in DOMAIN tensors, ~(Len(tensors[a].dims) < 3)
  PROVE  tensors[a].dims[1] \in Nat
<1>1. PICK n, s, info : n = id[1] /\ s = sessions[r][id] /\ info = NodeOf(g, n)
  OBVIOUS
<1>2. PICK needed : needed = {p[1] : p \in UNION {g.connections[m][n] : m \in NextNodes(n)}}
  OBVIOUS
<1>3. tensors = [x \in needed |->
          IF info.kind = "ENTRY" THEN req[r].request[x]
          ELSE [dims |-> OutputDims(info, info.aliases[x], s.count),
                val |-> << <<n, info.aliases[x]>>, <<>>, Arguments(s.inputs) >>]]
  BY <1>1, <1>2 DEF Outputs
<1>4. PICK m \in NextNodes(n) : \E p \in g.connections[m][n] : a = p[1]
  BY <1>2, <1>3
<1>8. PICK p \in g.connections[m][n] : a = p[1]
  BY <1>4
<1>5. m \in NodeNames(g) /\ n \in Dependencies(g, m)
  BY DEF NextNodes
<1>6. CASE info.kind = "ENTRY"
  <2>1. tensors[a] = req[r].request[a]
    BY <1>3, <1>6
  <2>2. req[r].request[a].dims \in Seq(Nat)
    BY <1>1, <1>5, <1>6, <1>8 DEF Requested
  <2>3. PICK dims : dims = tensors[a].dims
    OBVIOUS
  <2>4. dims \in Seq(Nat) /\ ~(Len(dims) < 3)
    BY <2>1, <2>2, <2>3
  <2>5. dims[1] \in Nat
    BY <2>4
  <2> QED BY <2>3, <2>5
<1>7. CASE info.kind # "ENTRY"
  <2>1. PICK dims : dims = OutputDims(info, info.aliases[a], s.count)
    OBVIOUS
  <2>2. tensors[a] = [dims |-> dims, val |-> << <<n, info.aliases[a]>>, <<>>, Arguments(s.inputs) >>]
    BY <1>3, <1>7, <2>1
  <2>3. tensors[a].dims = dims
    BY <2>2
  <2>4. info.outputs[info.aliases[a]].shape \in Seq(Dimension)
    <3>1. PICK sc \in Scenarios : g = sc.graph /\ HasLengths(sc)
      BY ValidGraph
    <3> QED BY <1>1, <1>5, <1>7, <1>8, <3>1, Zenon DEF HasLengths
  <2>5. dims[1] \in Nat
    BY <1>1, <2>1, <2>3, <2>4, OutputLength
  <2> QED BY <2>3, <2>5
<1> QED BY <1>6, <1>7

LEMMA SomeOutput ==
  ASSUME Valid(g), NEW r, NEW id, id[1] \in NodeNames(g), NodeOf(g, id[1]).demultiply # {}
  PROVE  DOMAIN Outputs(r, id) # {}
<1>1. PICK n : n = id[1]
  OBVIOUS
<1>2. PICK m \in NodeNames(g) : n \in Dependencies(g, m)
  BY <1>1 DEF Valid, WellConnected
<1>3. m \in NextNodes(n) /\ g.connections[m][n] # {}
  BY <1>2 DEF NextNodes, Valid, WellConnected
<1>4. PICK p : p \in g.connections[m][n]
  BY <1>3
<1>5. DOMAIN Outputs(r, id) = {x[1] : x \in UNION {g.connections[y][n] : y \in NextNodes(n)}}
  BY <1>1 DEF Outputs
<1> QED BY <1>3, <1>4, <1>5


\* What demultiplyOutputs returns when it succeeds.
LEMMA DemultiplySucceeds ==
  ASSUME NEW n, NEW meta, NEW tensors, NEW d, d = Demultiply(n, meta, tensors), d[1] = "OK",
         NEW first, first = tensors[CHOOSE a \in DOMAIN tensors : TRUE].dims[1], NEW info, info = NodeOf(g, n)
  PROVE  \/ info.demultiply = {} /\ DOMAIN d[2] = {meta}
         \/ /\ info.demultiply # {} /\ first # 0
            /\ \A a \in DOMAIN tensors : ~(Len(tensors[a].dims) < 3)
            /\ info.demultiply # {-1} => \A a \in DOMAIN tensors : tensors[a].dims[1] \in info.demultiply
            /\ DOMAIN d[2] = GenerateSubsessions(meta, n, first)
<1>1. PICK plain, parts : /\ plain = [m \in {meta} |-> tensors]
                          /\ parts = [m \in GenerateSubsessions(meta, n, first) |->
                                         [a \in DOMAIN tensors |-> ShardOf(tensors[a], Last(m)[2])]]
  OBVIOUS
<1>2. d = IF info.demultiply = {} THEN <<"OK", plain>>
          ELSE IF first > DEMULTIPLY_LIMIT
               THEN <<"PIPELINE_TOO_LARGE_DIMENSION_SIZE_TO_DEMULTIPLY", <<>>>>
          ELSE IF \E a \in DOMAIN tensors : Len(tensors[a].dims) < 3
               THEN <<"PIPELINE_WRONG_NUMBER_OF_DIMENSIONS_TO_DEMULTIPLY", <<>>>>
          ELSE IF info.demultiply # {-1} /\ \E a \in DOMAIN tensors : tensors[a].dims[1] \notin info.demultiply
               THEN <<"PIPELINE_WRONG_DIMENSION_SIZE_TO_DEMULTIPLY", <<>>>>
          ELSE IF first = 0 THEN <<"PIPELINE_DEMULTIPLEXER_NO_RESULTS", <<>>>>
          ELSE <<"OK", parts>>
  BY <1>1 DEF Demultiply
<1>3. CASE info.demultiply = {}
  <2>1. d[2] = plain
    BY <1>2, <1>3
  <2> QED BY <1>1, <1>3, <2>1
<1>4. CASE info.demultiply # {}
  <2>1. /\ first # 0 /\ ~\E a \in DOMAIN tensors : Len(tensors[a].dims) < 3
        /\ ~(info.demultiply # {-1} /\ \E a \in DOMAIN tensors : tensors[a].dims[1] \notin info.demultiply)
        /\ d[2] = parts
    BY <1>2, <1>4
  <2> QED BY <1>1, <1>4, <2>1
<1> QED BY <1>3, <1>4

LEMMA FetchSucceeds ==
  ASSUME NEW r, NEW id, NEW fetched, fetched = FetchResults(r, id), fetched[1] = "OK"
  PROVE  \/ NodeOf(g, id[1]).kind = "EXIT" /\ fetched[2] = <<>>
         \/ fetched = Demultiply(id[1], sessions[r][id].meta, Outputs(r, id))
<1>1. PICK kind, s, d, wrong : /\ kind = NodeOf(g, id[1]).kind /\ s = sessions[r][id]
                               /\ d = Demultiply(id[1], sessions[r][id].meta, Outputs(r, id))
                               /\ wrong = RequestStatus(req[r].request)
  OBVIOUS
<1>2. fetched = CASE kind = "ENTRY" /\ wrong # "OK" -> <<wrong, <<>>>>
                  [] kind = "DL" /\ s.run = "failed" -> <<"INTERNAL_ERROR", <<>>>>
                  [] kind = "CUSTOM" /\ s.run = "failed" -> <<"NODE_LIBRARY_MISSING_OUTPUT", <<>>>>
                  [] kind = "EXIT" -> <<"OK", <<>>>>
                  [] OTHER -> d
  BY <1>1, Zenon DEF FetchResults
<1>3. CASE kind = "EXIT"
  BY <1>1, <1>2, <1>3
<1>4. CASE kind = "ENTRY"
  BY <1>1, <1>2, <1>4
<1>5. CASE kind = "DL"
  BY <1>1, <1>2, <1>5
<1>6. CASE kind = "CUSTOM"
  BY <1>1, <1>2, <1>6
<1>7. CASE kind \notin {"EXIT", "ENTRY", "DL", "CUSTOM"}
  BY <1>1, <1>2, <1>7
<1> QED BY <1>3, <1>4, <1>5, <1>6, <1>7

\* The number of parts is the size that the metadata of each tells.
LEMMA PartSizes ==
  ASSUME NEW gr, NEW meta \in Seq(NodeNames(gr) \X Nat \X Nat), NEW n \in NodeNames(gr), NEW c \in Nat \ {0}
  PROVE  /\ GenerateSubsessions(meta, n, c) # {}
         /\ \A m \in GenerateSubsessions(meta, n, c) : Last(m)[3] = c
<1>1. ASSUME NEW i \in 0..(c - 1), NEW m, m = Append(meta, <<n, i, c>>)
      PROVE  Last(m)[3] = c
  <2>1. <<n, i, c>> \in NodeNames(gr) \X Nat \X Nat
    OBVIOUS
  <2>2. m[Len(m)] = <<n, i, c>>
    BY <1>1, <2>1
  <2> QED BY <2>2 DEF Last
<1>2. GenerateSubsessions(meta, n, c) = {Append(meta, <<n, i, c>>) : i \in 0..(c - 1)}
  BY DEF GenerateSubsessions
<1>3. \A m \in GenerateSubsessions(meta, n, c) : Last(m)[3] = c
  BY <1>1, <1>2
<1>4. \E m : m \in GenerateSubsessions(meta, n, c)
  <2>1. 0 \in 0..(c - 1)
    OBVIOUS
  <2> QED BY <1>2, <2>1
<1> QED BY <1>3, <1>4


SizeOf(M) == CHOOSE n \in {Last(m)[3] : m \in M} : TRUE

NewCounts(gr, counts, n, M) == IF NodeOf(gr, n).demultiply = {} THEN counts ELSE Put(counts, n, SizeOf(M))

LEMMA ResultsFetched ==
  ASSUME Inv, definition.status = "OK", NEW r, NEW id, id[1] \in NodeNames(g), NEW meta,
         meta = sessions[r][id].meta, meta \in Seq(NodeNames(g) \X Nat \X Nat),
         sessions[r][id].count \in Nat, Requested(g, req[r].request), NEW fetched,
         fetched = FetchResults(r, id), fetched[1] = "OK", NEW counts, NEW counts2, NEW M, M = DOMAIN fetched[2],
         counts2 = NewCounts(g, counts, id[1], M)
  PROVE  Results(g, counts, counts2, id, meta, M)
<1>1. PICK n, info : n = id[1] /\ info = NodeOf(g, n)
  OBVIOUS
<1>2. Valid(g)
  BY ValidInUse
<1>3. CASE info.kind = "EXIT" /\ fetched[2] = <<>>
  <2>1. info.demultiply = {}
    BY <1>1, <1>2, <1>3 DEF Valid, WellConnected
  <2>2. M = {}
    BY <1>3
  <2> QED BY <1>1, <1>3, <2>1, <2>2 DEF Results, NewCounts
<1>4. CASE fetched = Demultiply(n, meta, Outputs(r, id))
  <2>1. PICK tensors : tensors = Outputs(r, id)
    OBVIOUS
  <2>2. PICK first : first = tensors[CHOOSE a \in DOMAIN tensors : TRUE].dims[1]
    OBVIOUS
  <2>3. \/ info.demultiply = {} /\ M = {meta}
        \/ /\ info.demultiply # {} /\ first # 0
           /\ \A a \in DOMAIN tensors : ~(Len(tensors[a].dims) < 3)
           /\ info.demultiply # {-1} => \A a \in DOMAIN tensors : tensors[a].dims[1] \in info.demultiply
           /\ M = GenerateSubsessions(meta, n, first)
    BY <1>1, <1>4, <2>1, <2>2, DemultiplySucceeds
  <2>4. CASE info.demultiply = {} /\ M = {meta}
    BY <1>1, <2>4 DEF Results, NewCounts
  <2>5. CASE /\ info.demultiply # {} /\ first # 0
             /\ \A a \in DOMAIN tensors : ~(Len(tensors[a].dims) < 3)
             /\ info.demultiply # {-1} => \A a \in DOMAIN tensors : tensors[a].dims[1] \in info.demultiply
             /\ M = GenerateSubsessions(meta, n, first)
    <3>1. PICK a \in DOMAIN tensors : first = tensors[a].dims[1]
      <4>1. DOMAIN tensors # {}
        BY <1>1, <1>2, <2>1, <2>5, SomeOutput
      <4> QED BY <2>2, <4>1
    <3>2. first \in Nat \ {0}
      <4>1. ~(Len(tensors[a].dims) < 3)
        BY <2>5
      <4>2. tensors[a].dims[1] \in Nat
        BY <2>1, <4>1, FirstLength
      <4> QED BY <2>5, <3>1, <4>2
    <3>3. info.demultiply = {-1} \/ info.demultiply = {first}
      <4>1. PICK c : info.demultiply = {c}
        BY <1>1, <1>2, <2>5 DEF Valid, WellConnected
      <4> QED BY <2>5, <3>1, <4>1
    <3>4. {Last(m)[3] : m \in M} = {first}
      <4>1. n \in NodeNames(g) /\ M = GenerateSubsessions(meta, n, first)
        BY <1>1, <2>5
      <4>2. M # {} /\ \A m \in M : Last(m)[3] = first
        BY <3>2, <4>1, PartSizes
      <4> QED BY <4>2
    <3>5. counts2 = Put(counts, n, first)
      <4>1. SizeOf(M) = first
        BY <3>4 DEF SizeOf
      <4> QED BY <1>1, <2>5, <4>1 DEF NewCounts
    <3>6. Demultiplied(g, counts, counts2, id, meta, M, first)
      BY <1>1, <2>5, <3>2, <3>3, <3>5 DEF Demultiplied
    <3> QED BY <3>6 DEF Results
  <2> QED BY <2>3, <2>4, <2>5
<1>5. \/ NodeOf(g, id[1]).kind = "EXIT" /\ fetched[2] = <<>>
      \/ fetched = Demultiply(id[1], sessions[r][id].meta, Outputs(r, id))
  BY FetchSucceeds
<1> QED BY <1>1, <1>3, <1>4, <1>5


-----------------------------------------------------------------------------
(* Pulling a message *)

\* The message of id is pulled, its stream goes back, the sessions change.
PullsTo(r, id) ==
    /\ definition' = definition /\ pool' = Release(Gid(r, id))
    /\ DOMAIN req' = DOMAIN req /\ \A x \in DOMAIN req \ {r} : req'[x] = req[x]
    /\ DOMAIN sessions' = DOMAIN sessions /\ \A x \in DOMAIN sessions \ {r} : sessions'[x] = sessions[x]
    /\ Pulled(g, req[r], sessions[r], req'[r], sessions'[r], id)
    /\ req'[r].request = req[r].request
    /\ req'[r].status = "OK" =>
          FeedInv(g, req'[r].counts, req'[r].started, req'[r].finished, sessions'[r])

LEMMA PulledStep ==
  ASSUME Inv, NEW r \in DOMAIN req, NEW id, PullsTo(r, id)
  PROVE  Inv'
<1>1. PICK q, q2, S, S2 : q = req[r] /\ q2 = req'[r] /\ S = sessions[r] /\ S2 = sessions'[r]
  OBVIOUS
<1>2. Pulled(g, q, S, q2, S2, id)
  BY <1>1 DEF PullsTo
<1>3. q.pc = "pull" /\ q.queue # <<>> /\ id = Head(q.queue)
  BY <1>2 DEF Pulled
<1>4. /\ DOMAIN sessions = DOMAIN req /\ definition.status = "OK" /\ Requested(g, req[r].request)
      /\ RequestInv(g, q, S)
  BY <1>1, <1>3, Active
<1>5. RequestInv(g, q2, S2) /\ id \in Range(q.queue) /\ id \in q.started \ q.finished
  BY <1>2, <1>4, PulledLists
<1>6. id \in Ids(g) /\ ~Asks(q, S, id)
  BY <1>4, <1>5 DEF Asks, RequestInv, Typed
<1>7. Without(Gid(r, id), pool')
  <2>1. pool' = Release(Gid(r, id))
    BY DEF PullsTo
  <2> QED BY <1>1, <1>6, <2>1, ReleasedStreams
<1>8. Range(q.queue) = Range(q2.queue) \cup {id}
  <2>1. q2.queue = Tail(q.queue) /\ q.queue \in Seq(Ids(g))
    BY <1>2, <1>4 DEF Pulled, RequestInv, Typed
  <2> QED BY <1>3, <2>1, TailList
<1>9. /\ q2.started = q.started /\ q2.finished = q.finished \cup {id}
      /\ \A x \in q.started : x \in DOMAIN S2 => x \in DOMAIN S /\ S2[x] = S[x]
      /\ \A x \in q.started \ {id} : x \in DOMAIN S => x \in DOMAIN S2
  BY <1>2 DEF Pulled
<1>10. ASSUME NEW x \in q.started \ {id}
       PROVE  IsRunning(S2, x) <=> IsRunning(S, x)
  BY <1>9 DEF IsRunning
<1>11. ASSUME NEW x \in Ids(g) \ {id}
       PROVE  (Asks(q, S, x) => Asks(q2, S2, x)) /\ (Holds(q, S, x) => Holds(q2, S2, x))
  BY <1>8, <1>9, <1>10 DEF Asks, Holds
<1>12. PoolInv(g, pool', req', sessions')
  <2>1. /\ DOMAIN req' = DOMAIN req /\ \A x \in DOMAIN req \ {r} : req'[x] = req[x]
        /\ \A x \in DOMAIN req \ {r} : sessions'[x] = sessions[x]
    BY <1>4 DEF PullsTo
  <2>2. \A x \in Ids(g) \ {id} : /\ Asks(req[r], sessions[r], x) => Asks(req'[r], sessions'[r], x)
                                 /\ Holds(req[r], sessions[r], x) => Holds(req'[r], sessions'[r], x)
    BY <1>1, <1>11
  <2> QED BY <1>6, <1>7, <2>1, <2>2, FinishedStreams
<1>13. q2.pc # "idle"
  BY <1>2 DEF Pulled
<1>14. DOMAIN pool' = DOMAIN pool
  BY <1>7 DEF Without
<1>15. OneRequest(definition, pool, req, sessions, pool', req', sessions', r)
  BY <1>1, <1>4, <1>5, <1>12, <1>13, <1>14 DEF OneRequest, PullsTo, g
<1>16. AllInv(definition, pool', req', sessions')
  BY <1>15, RequestStep DEF Inv
<1> QED BY <1>16 DEF Inv, PullsTo


\* The results could not be fetched: the session is only removed.
LEMMA FailedPull ==
  ASSUME Inv, NEW r \in DOMAIN req, req[r].pc = "pull", req[r].queue # <<>>, NEW id, id = Head(req[r].queue),
         definition' = definition, pool' = Release(Gid(r, id)), NEW error, error # "OK", NEW others,
         others = [x \in DOMAIN sessions[r] \ {id} |-> sessions[r][x]],
         req' = [req EXCEPT ![r] = Continue([Finish(req[r], id) EXCEPT !.status = error])],
         sessions' = [sessions EXCEPT ![r] = others]
  PROVE  Inv'
<1>1. /\ DOMAIN req[r] = Fields /\ RequestInv(g, req[r], sessions[r]) /\ DOMAIN sessions = DOMAIN req
  BY Active
<1>2. /\ DOMAIN req' = DOMAIN req /\ \A x \in DOMAIN req \ {r} : req'[x] = req[x]
      /\ req'[r] = Continue([Finish(req[r], id) EXCEPT !.status = error])
      /\ DOMAIN sessions' = DOMAIN sessions /\ \A x \in DOMAIN sessions \ {r} : sessions'[x] = sessions[x]
      /\ sessions'[r] = others
  BY <1>1
<1>3. PICK q, q1, q2, S : q = req[r] /\ q1 = Finish(q, id) /\ q2 = req'[r] /\ S = sessions[r]
  OBVIOUS
<1>4. /\ DOMAIN q1 = Fields /\ q1.queue = Tail(q.queue)
      /\ q1.finished = q.finished \cup {id}
      /\ q1.started = q.started /\ q1.deferred = q.deferred
      /\ q1.tmp = q.tmp /\ q1.left = q.left /\ q1.kept = q.kept /\ q1.request = q.request
  BY <1>1, <1>3 DEF Finish, Fields
<1>5. /\ DOMAIN q2 = Fields /\ q2.queue = q1.queue /\ q2.finished = q1.finished
      /\ q2.started = q1.started /\ q2.deferred = q1.deferred
      /\ q2.tmp = q1.tmp /\ q2.left = q1.left /\ q2.kept = q1.kept /\ q2.request = q1.request
      /\ q2.status = error
  BY <1>2, <1>3, <1>4 DEF Continue, Fields
<1>6. q2.pc \in {"pull", "ended"} /\ (q2.pc = "ended" => q2.started = q2.finished)
  BY <1>2, <1>3, <1>4, <1>5 DEF Continue, Fields
<1>7. DOMAIN others = DOMAIN S \ {id} /\ \A x \in DOMAIN others : others[x] = S[x]
  BY <1>3
<1>8. /\ DOMAIN S \subseteq Ids(g) /\ \A x \in DOMAIN S : DOMAIN S[x] = SessionFields
      /\ \A x \in DOMAIN S \ q.started : ~IsRunning(S, x)
      /\ q.pc = "pull" /\ q.queue # <<>> /\ id = Head(q.queue)
  BY <1>1, <1>3 DEF RequestInv, Typed, Runs
<1>9. \A x \in DOMAIN others \ q.started : ~IsRunning(others, x)
  BY <1>7, <1>8 DEF IsRunning
<1>10. Pulled(g, q, S, q2, others, id)
  BY <1>4, <1>5, <1>6, <1>7, <1>8, <1>9 DEF Pulled
<1>11. PullsTo(r, id)
  BY <1>2, <1>3, <1>4, <1>5, <1>10 DEF PullsTo
<1> QED BY <1>11, PulledStep

\* The results are fed to the next nodes.
Pulls(r, id, M, fed) ==
    req'[r] = [Finish(req[r], id) EXCEPT
                 !.pc = "schedule", !.status = fed[1], !.last = "",
                 !.todo = ReadySessions(fed[2], NextNodes(id[1])),
                 !.counts = IF NodeOf(g, id[1]).demultiply = {} THEN @ ELSE Put(@, id[1], SizeOf(M)),
                 !.response = IF NodeOf(g, id[1]).kind = "EXIT" THEN sessions[r][id].inputs ELSE @]

LEMMA FedPull ==
  ASSUME Inv, NEW r \in DOMAIN req, req[r].pc = "pull", req[r].queue # <<>>, req[r].status = "OK",
         NEW id, id = Head(req[r].queue), definition' = definition, pool' = Release(Gid(r, id)), NEW others,
         others = [x \in DOMAIN sessions[r] \ {id} |-> sessions[r][x]], NEW fetched,
         fetched = FetchResults(r, id), fetched[1] = "OK", DOMAIN req' = DOMAIN req,
         \A x \in DOMAIN req \ {r} : req'[x] = req[x], NEW M, M = DOMAIN fetched[2],
         NEW fed, fed = Feed(id[1], fetched[2], others), Pulls(r, id, M, fed),
         sessions' = [sessions EXCEPT ![r] = fed[2]]
  PROVE  Inv'
<1>1. /\ DOMAIN req[r] = Fields /\ RequestInv(g, req[r], sessions[r]) /\ DOMAIN sessions = DOMAIN req
      /\ FeedInv(g, req[r].counts, req[r].started, req[r].finished, sessions[r])
      /\ definition.status = "OK" /\ Requested(g, req[r].request)
  BY Active
<1>2. PICK q, q2, S : q = req[r] /\ q2 = req'[r] /\ S = sessions[r]
  OBVIOUS
<1>3. PICK S2, counts, counts2 : /\ S2 = fed[2] /\ counts = q.counts
                                 /\ counts2 = NewCounts(g, counts, id[1], M)
  OBVIOUS
<1>4. /\ DOMAIN sessions' = DOMAIN sessions /\ \A x \in DOMAIN sessions \ {r} : sessions'[x] = sessions[x]
      /\ sessions'[r] = S2
  BY <1>1, <1>2, <1>3
<1>5. PICK q1 : q1 = Finish(q, id)
  OBVIOUS
<1>6. /\ DOMAIN q1 = Fields /\ q1.queue = Tail(q.queue)
      /\ q1.finished = q.finished \cup {id}
      /\ q1.started = q.started /\ q1.deferred = q.deferred /\ q1.counts = q.counts
      /\ q1.tmp = q.tmp /\ q1.left = q.left /\ q1.kept = q.kept /\ q1.request = q.request
  BY <1>1, <1>2, <1>5 DEF Finish, Fields
<1>22. PICK todo : todo = ReadySessions(S2, NextNodes(id[1]))
  OBVIOUS
<1> DEFINE response == IF NodeOf(g, id[1]).kind = "EXIT" THEN sessions[r][id].inputs ELSE q1.response
<1>7. q2 = [q1 EXCEPT !.pc = "schedule", !.status = fed[1], !.last = "", !.todo = todo,
                      !.counts = counts2, !.response = response]
  <2>1. q2 = [q1 EXCEPT !.pc = "schedule", !.status = fed[1], !.last = "", !.todo = todo,
                        !.counts = IF NodeOf(g, id[1]).demultiply = {} THEN q1.counts
                                   ELSE Put(q1.counts, id[1], SizeOf(M)),
                        !.response = response]
    BY <1>2, <1>3, <1>5, <1>22, Zenon DEF Pulls
  <2> QED BY <1>3, <1>6, <2>1 DEF NewCounts
<1> HIDE DEF response
<1>8. /\ DOMAIN q2 = Fields /\ q2.queue = q1.queue /\ q2.finished = q1.finished
      /\ q2.started = q1.started /\ q2.deferred = q1.deferred
      /\ q2.tmp = q1.tmp /\ q2.left = q1.left /\ q2.kept = q1.kept /\ q2.request = q1.request
      /\ q2.status = fed[1] /\ q2.pc = "schedule" /\ q2.todo = todo /\ q2.counts = counts2
  BY <1>6, <1>7 DEF Fields
<1>9. /\ DOMAIN S \subseteq Ids(g) /\ \A x \in DOMAIN S : DOMAIN S[x] = SessionFields
      /\ \A x \in DOMAIN S \ q.started : S[x].run # "running"
      /\ q.pc = "pull" /\ q.queue # <<>> /\ id = Head(q.queue)
      /\ q.queue \in Seq(Ids(g)) /\ Range(q.queue) \subseteq q.started \ q.finished
      /\ q.started \ q.finished \subseteq DOMAIN S
      /\ q.started \subseteq Ids(g) /\ q.finished \subseteq q.started
  BY <1>1, <1>2 DEF RequestInv, Typed, Runs, IsRunning, Queued
<1>10. id \in q.started \ q.finished /\ id \in DOMAIN S /\ id \in Ids(g)
  <2>1. id \in Range(q.queue)
    BY <1>9, TailList
  <2> QED BY <1>9, <2>1
<1>11. AboutToFinish(g, counts, q.started, q.finished, S, others, id)
  <2>1. Valid(g)
    BY <1>1, ValidInUse
  <2>2. DOMAIN others = DOMAIN S \ {id} /\ \A x \in DOMAIN others : others[x] = S[x]
    BY <1>2
  <2>3. FeedInv(g, counts, q.started, q.finished, S)
    BY <1>1, <1>2, <1>3
  <2> QED BY <1>9, <1>10, <2>1, <2>2, <2>3 DEF AboutToFinish
<1>12. Results(g, counts, counts2, id, S[id].meta, M)
  <2>1. PICK meta : meta = S[id].meta
    OBVIOUS
  <2>2. Fed(g, counts, q.finished, id, S[id])
    BY <1>10, <1>11 DEF AboutToFinish, FeedInv
  <2>3. /\ meta = sessions[r][id].meta /\ meta \in Seq(NodeNames(g) \X Nat \X Nat)
        /\ sessions[r][id].count \in Nat /\ id[1] \in NodeNames(g)
    <3>1. meta \in Seq(NodeNames(g) \X Nat \X Nat) /\ S[id].count \in Nat
      BY <2>1, <2>2, Zenon DEF Fed, Metadata
    <3>2. id[1] \in NodeNames(g)
      BY <1>10 DEF Ids
    <3> QED BY <1>2, <2>1, <3>1, <3>2
  <2>4. Results(g, counts, counts2, id, meta, M)
    BY <1>1, <1>2, <1>3, <2>3, ResultsFetched
  <2> QED BY <2>1, <2>4
<1>13. Finishing(g, counts, counts2, q.started, q.finished, S, others, id, M) /\ IsFiniteSet(M)
  BY <1>11, <1>12, Fetched
<1>14. FedSo(g, counts2, q.finished, id, others, Next_(g, id[1]) \X M, fed)
  <2>1. Feeding(g, counts2, q.finished, id, M, others)
    BY <1>13, NowFeeding
  <2> QED BY <1>2, <1>13, <2>1, FedAll
<1>15. Undisturbed(g, q.started, S, S2, id)
  BY <1>3, <1>13, <1>14, FedOthers
<1>16. fed[1] = "OK" => FeedInv(g, counts2, q.started, q.finished \cup {id}, S2)
  <2>1. ASSUME fed[1] = "OK"
        PROVE  FeedInv(g, counts2, q.started, q.finished \cup {id}, fed[2])
    BY <1>13, <1>14, <2>1, FedFeeds
  <2> QED BY <1>3, <2>1
<1>17. \A x \in todo : x \in DOMAIN S2 \ q.started /\ S2[x].remaining = 0
  <2>1. NextNodes(id[1]) = Next_(g, id[1])
    BY DEF NextNodes, Next_
  <2>2. \A x \in todo : x \in DOMAIN S2 /\ x[1] \in Next_(g, id[1]) /\ IsReady(S2[x])
    BY <1>22, <2>1 DEF ReadySessions
  <2>3. \A x \in todo : S2[x].remaining = 0
    BY <2>2 DEF IsReady
  <2> QED BY <1>15, <2>2, <2>3 DEF Undisturbed
<1>18. Pulled(g, q, S, q2, S2, id)
  <2>1. /\ q2.queue = Tail(q.queue) /\ q2.finished = q.finished \cup {id} /\ q2.started = q.started
        /\ q2.deferred = q.deferred /\ q2.tmp = q.tmp /\ q2.left = q.left /\ q2.kept = q.kept
    BY <1>6, <1>8
  <2>2. /\ DOMAIN S2 \subseteq Ids(g) /\ \A x \in DOMAIN S2 : DOMAIN S2[x] = SessionFields
        /\ \A x \in q.started : x \in DOMAIN S2 => x \in DOMAIN S /\ S2[x] = S[x]
        /\ \A x \in q.started \ {id} : x \in DOMAIN S => x \in DOMAIN S2
        /\ \A x \in DOMAIN S2 \ q.started : ~IsRunning(S2, x)
    BY <1>15 DEF Undisturbed, IsRunning
  <2>3. q.status = "OK"
    BY <1>2
  <2> QED BY <1>8, <1>9, <1>17, <2>1, <2>2, <2>3 DEF Pulled
<1>19. q2.status = "OK" => FeedInv(g, q2.counts, q2.started, q2.finished, S2)
  BY <1>6, <1>8, <1>16
<1>20. q2.request = q.request
  BY <1>6, <1>8
<1>21. PullsTo(r, id)
  BY <1>2, <1>4, <1>18, <1>19, <1>20 DEF PullsTo
<1> QED BY <1>21, PulledStep


LEMMA PullStep ==
  ASSUME Inv, NEW r \in DOMAIN req, Pull(r)
  PROVE  Inv'
<1>1. /\ req[r].pc = "pull" /\ req[r].queue # <<>> /\ req[r].status = "OK" /\ definition' = definition
  BY DEF Pull
<1>2. PICK id : id = Head(req[r].queue)
  OBVIOUS
<1>3. PICK fetched, others : /\ fetched = FetchResults(r, id)
                             /\ others = [x \in DOMAIN sessions[r] \ {id} |-> sessions[r][x]]
  OBVIOUS
<1>4. PICK fed, M : fed = Feed(id[1], fetched[2], others) /\ M = DOMAIN fetched[2]
  OBVIOUS
<1>5. pool' = Release(Gid(r, id))
  BY <1>2 DEF Pull, Gid
<1>6. CASE fetched[1] # "OK"
  <2>1. /\ req' = [req EXCEPT ![r] = Continue([Finish(req[r], id) EXCEPT !.status = fetched[1]])]
        /\ sessions' = [sessions EXCEPT ![r] = others]
    BY <1>2, <1>3, <1>6, Zenon DEF Pull
  <2> QED BY <1>1, <1>2, <1>3, <1>5, <1>6, <2>1, FailedPull
<1>7. CASE fetched[1] = "OK"
  <2>1. req' = [req EXCEPT ![r] = AfterFeed(Finish(req[r], id), id, fetched[2], fed, sessions[r][id].inputs)]
    BY <1>2, <1>3, <1>4, <1>7, Zenon DEF Pull
  <2>2. sessions' = [sessions EXCEPT ![r] = fed[2]]
    BY <1>2, <1>3, <1>4, <1>7, Zenon DEF Pull
  <2>3. DOMAIN req' = DOMAIN req /\ \A x \in DOMAIN req \ {r} : req'[x] = req[x]
    BY <2>1
  <2>4. Pulls(r, id, M, fed)
    <3>1. req'[r] = AfterFeed(Finish(req[r], id), id, fetched[2], fed, sessions[r][id].inputs)
      BY <2>1
    <3> QED BY <1>4, <3>1, Zenon DEF Pulls, SizeOf, AfterFeed
  <2> QED BY <1>1, <1>2, <1>3, <1>4, <1>5, <1>7, <2>2, <2>3, <2>4, FedPull
<1> QED BY <1>6, <1>7


-----------------------------------------------------------------------------
(* The invariant holds *)

LEMMA InitInv ==
  ASSUME Init
  PROVE  Inv
<1>1. PICK s \in Scenarios :
        /\ definition = LET v == Validate(s.graph)
                        IN [graph |-> s.graph, status |-> v,
                            inputsInfo |-> IF v = "OK" THEN InputsInfo(s.graph) ELSE <<>>,
                            outputsInfo |-> IF v = "OK" THEN OutputsInfo(s.graph) ELSE <<>>]
        /\ pool = [m \in Models(s.graph) |->
                      [free |-> s.streams, waiting |-> <<>>, granted |-> {}, held |-> {}]]
        /\ req = [r \in s.clients |-> Idle]
        /\ sessions = [r \in s.clients |-> <<>>]
  BY DEF Init
<1>2. definition.graph = s.graph /\ definition.status = Validate(s.graph)
  BY <1>1
<1>3. /\ Range(<<>>) = {} /\ Distinct(<<>>) /\ <<>> \in Seq(ModelIds(g)) /\ <<>> \in Seq(Ids(g))
      /\ \A T : <<>> \in Seq(T)
      /\ DOMAIN <<>> = {}
  BY EmptyList
<1>4. DefinitionInv(definition, pool, req, sessions)
  <2>1. Idle.started = {} /\ Idle.pc = "idle"
    BY DEF Idle
  <2>2. DOMAIN pool = Models(definition.graph) /\ DOMAIN sessions = DOMAIN req
    BY <1>1, <1>2
  <2>3. \A r \in DOMAIN req : req[r] = Idle /\ sessions[r] = <<>>
    BY <1>1
  <2> QED BY <1>2, <2>1, <2>2, <2>3 DEF DefinitionInv
<1>5. RequestInv(g, Idle, <<>>)
  <2>1. PICK q : q = Idle
    OBVIOUS
  <2>2. /\ DOMAIN q = Fields /\ q.pc = "idle" /\ q.status = "OK"
        /\ q.queue = <<>> /\ q.started = {} /\ q.finished = {}
        /\ q.deferred = <<>> /\ q.tmp = <<>> /\ q.left = <<>> /\ q.kept = <<>>
    BY <2>1 DEF Idle, Fields
  <2>3. Line(q) = {} /\ Pending(q) = {} /\ Deferrals(q) = <<>>
    BY <1>3, <2>2 DEF Line, Pending, Deferrals
  <2>4. Typed(g, q, <<>>)
    BY <1>3, <2>2 DEF Typed
  <2>5. Phases(q) /\ Queued(q) /\ Lined(q)
    BY <1>3, <2>2, <2>3 DEF Phases, Queued, Lined, Apart
  <2>6. Runs(q, <<>>) /\ Todo(q, <<>>)
    BY <1>3, <2>2 DEF Runs, Todo
  <2> QED BY <2>1, <2>4, <2>5, <2>6 DEF RequestInv
<1>6. PoolInv(g, pool, req, sessions)
  <2>1. ASSUME NEW m \in DOMAIN pool
        PROVE  Asking(pool[m]) = {} /\ pool[m].held = {} /\ PoolTyped(Gids(g, DOMAIN req), pool[m])
    <3>1. PICK p : p = pool[m]
      OBVIOUS
    <3>2. /\ DOMAIN p = {"free", "waiting", "granted", "held"}
          /\ p.waiting = <<>> /\ p.granted = {} /\ p.held = {}
      BY <1>1, <3>1
    <3> QED BY <1>3, <3>1, <3>2 DEF Asking, PoolTyped
  <2> QED BY <2>1 DEF PoolInv
<1>7. \A r \in DOMAIN req : req[r] = Idle /\ sessions[r] = <<>>
  BY <1>1
<1>8. Idle.pc = "idle"
  BY DEF Idle
<1> QED BY <1>4, <1>5, <1>6, <1>7, <1>8 DEF Inv, AllInv, g

LEMMA NextInv ==
  ASSUME Inv, [Next]_vars
  PROVE  Inv'
<1>1. CASE \E s \in {t \in Scenarios : t.graph = g} : \E r \in DOMAIN req, request \in Requests(s) :
              Begin(r, request)
  <2>1. PICK s \in Scenarios : s.graph = g /\ \E r \in DOMAIN req, request \in Requests(s) : Begin(r, request)
    BY <1>1
  <2>2. PICK r \in DOMAIN req, request \in Requests(s) : Begin(r, request)
    BY <2>1
  <2> QED BY <2>1, <2>2, BeginStep
<1>2. ASSUME NEW r \in DOMAIN req, Thread(r)
      PROVE  Inv'
  <2>1. CASE PullAfterError(r)
    BY <2>1, PullAfterErrorStep
  <2>2. CASE Pull(r)
    BY <2>2, PullStep
  <2>3. CASE Schedule(r)
    BY <2>3, ScheduleStep
  <2>4. CASE Scheduled(r)
    BY <2>4, ScheduledStep
  <2>5. CASE TryDeferred(r)
    BY <2>5, TryDeferredStep
  <2>6. CASE DeferredTried(r)
    BY <2>6, DeferredTriedStep
  <2>7. CASE Retried(r)
    BY <2>7, RetriedStep
  <2>8. CASE Timeout(r)
    BY <2>8, TimeoutStep
  <2>9. CASE Disarm(r)
    BY <2>9, DisarmStep
  <2>10. CASE Disarmed(r)
    BY <2>10, DisarmedStep
  <2> QED BY <1>2, <2>1, <2>2, <2>3, <2>4, <2>5, <2>6, <2>7, <2>8, <2>9, <2>10 DEF Thread
<1>3. ASSUME NEW r \in DOMAIN req, NEW id \in DOMAIN sessions[r], Complete(r, id)
      PROVE  Inv'
  BY <1>3, CompleteStep
<1>4. CASE UNCHANGED vars
  BY <1>4 DEF vars, Inv
<1> QED BY <1>1, <1>2, <1>3, <1>4 DEF Next

LEMMA ModelHasPool ==
  ASSUME Inv, definition.status = "OK", NEW id \in ModelIds(g)
  PROVE  ModelOf(id[1]) \in DOMAIN pool
<1>1. id[1] \in NodeNames(g) /\ NodeOf(g, id[1]).kind = "DL"
  BY DEF ModelIds, Ids
<1>2. NodeOf(g, id[1]).model # {}
  BY <1>1, ValidGraph DEF WellConnected
<1>3. ModelOf(id[1]) \in NodeOf(g, id[1]).model /\ NodeOf(g, id[1]) \in Infos(g)
  BY <1>1, <1>2, NodeFound DEF ModelOf
<1>4. DOMAIN pool = Models(g)
  BY DEF Inv, AllInv, DefinitionInv, g
<1> QED BY <1>3, <1>4 DEF Models

LEMMA LeavesNothing ==
  ASSUME Inv
  PROVE  NothingLeft
<1>1. ASSUME NEW r \in DOMAIN req, req[r].pc = "ended"
      PROVE  /\ \A id \in DOMAIN sessions[r] : sessions[r][id].run # "running"
             /\ \A m \in DOMAIN pool :
                   r \notin {id[1] : id \in Range(pool[m].waiting) \cup pool[m].granted \cup pool[m].held}
  <2>1. RequestInv(g, req[r], sessions[r]) /\ PoolInv(g, pool, req, sessions)
    BY DEF Inv, AllInv, g
  <2>2. req[r].started = req[r].finished
    BY <1>1, <2>1 DEF RequestInv, Phases
  <2>3. \A id \in DOMAIN sessions[r] : sessions[r][id].run # "running"
    BY <2>1, <2>2 DEF RequestInv, Runs, IsRunning
  <2>4. \A x : ~Asks(req[r], sessions[r], x) /\ ~Holds(req[r], sessions[r], x)
    BY <2>2 DEF Asks, Holds
  <2>5. ASSUME NEW m \in DOMAIN pool, NEW gid \in Asking(pool[m]) \cup pool[m].held
        PROVE  gid[1] # r
    BY <2>1, <2>4 DEF PoolInv
  <2> QED BY <2>3, <2>5 DEF Asking
<1>2. ASSUME NEW r \in DOMAIN req, req[r].pc = "disarm", NEW i \in DOMAIN req[r].left
      PROVE  <<r, req[r].left[i][1], req[r].left[i][2]>> \notin pool[ModelOf(req[r].left[i][1])].held
  <2>1. PICK id, q : id = req[r].left[i] /\ q = req[r]
    OBVIOUS
  <2>2. RequestInv(g, q, sessions[r]) /\ definition.status = "OK"
    BY <1>2, <2>1, Active
  <2>3. id \in ModelIds(g) /\ id \in Range(q.left)
    BY <1>2, <2>1, <2>2 DEF RequestInv, Typed, Range
  <2>4. id \in Ids(g)
    BY <2>3 DEF ModelIds
  <2>5. ModelOf(id[1]) \in DOMAIN pool
    BY <2>2, <2>3, ModelHasPool
  <2>6. q.status # "OK"
    BY <1>2, <2>1, <2>2 DEF RequestInv, Phases
  <2>7. id \in Line(q) /\ id \in Pending(q)
    BY <1>2, <2>1, <2>3, <2>6 DEF Line, Pending
  <2>8. id \notin Range(q.queue)
    BY <2>2, <2>7 DEF RequestInv, Lined
  <2>9. ~IsRunning(sessions[r], id)
    BY <2>2, <2>7 DEF RequestInv, Runs, IsRunning
  <2>10. ~Holds(req[r], sessions[r], id)
    BY <2>1, <2>8, <2>9 DEF Holds
  <2>11. Gid(r, id) \notin pool[ModelOf(id[1])].held
    BY <2>4, <2>5, <2>10, OwnPool
  <2> QED BY <2>1, <2>11 DEF Gid
<1> QED BY <1>1, <1>2 DEF NothingLeft

\* The lists, the streams and the missing inputs of every request agree, in
\* every reachable state.
THEOREM Invariance == Spec => []Inv
<1>1. Init => Inv
  BY InitInv
<1>2. Inv /\ [Next]_vars => Inv'
  BY NextInv
<1> QED BY <1>1, <1>2, PTL DEF Spec

\* When Pipeline::execute returns, with success or with an error, none of its
\* inferences runs and none of its sessions holds or waits for an infer
\* request, and no session is disarmed while it holds one: for every graph that
\* validates, any number of requests and any number of infer requests.
THEOREM NothingLeftHolds == Spec => []NothingLeft
<1>1. Inv => NothingLeft
  BY LeavesNothing
<1> QED BY <1>1, Invariance, PTL

-----------------------------------------------------------------------------
(* What the intersections of dimensions and shapes mean for the tensors that *)
(* fit: they give a pipeline input that is connected to several nodes one    *)
(* declared shape (pipelinedefinition.cpp, tensorinfo.cpp).                  *)

\* A dimension is any length or a range of them.
LEMMA DimensionCases ==
  ASSUME NEW d \in Dimension
  PROVE  \/ IsAny(d)
         \/ ~IsAny(d) /\ d[1] \in Nat /\ d[2] \in Nat /\ d[1] <= d[2]
  BY DEF Dimension, IsAny, AnyDimension, DYNAMIC_DIMENSION

\* Dimension::partiallyFitsInto holds exactly if some length fits both: a node
\* is connected to another one only if a tensor can flow between them.
THEOREM FitsIffCommonLength ==
  ASSUME NEW d \in Dimension, NEW e \in Dimension
  PROVE  PartiallyFitsInto(d, e) <=> \E v \in Nat : Match(d, v) /\ Match(e, v)
<1>1. CASE IsAny(d) \/ IsAny(e)
  <2>1. PartiallyFitsInto(d, e)
    BY <1>1 DEF PartiallyFitsInto
  <2>2. CASE IsAny(d)
    <3>1. CASE IsAny(e)
      BY <2>1, <2>2, <3>1, 0 \in Nat DEF Match
    <3>2. CASE ~IsAny(e)
      <4>1. e[1] \in Nat /\ e[1] <= e[2]
        BY <3>2, DimensionCases
      <4>2. Match(d, e[1]) /\ Match(e, e[1])
        BY <2>2, <4>1 DEF Match
      <4> QED BY <2>1, <4>1, <4>2
    <3> QED BY <3>1, <3>2
  <2>3. CASE ~IsAny(d)
    <3>1. IsAny(e)
      BY <1>1, <2>3
    <3>2. d[1] \in Nat /\ d[1] <= d[2]
      BY <2>3, DimensionCases
    <3>3. Match(d, d[1]) /\ Match(e, d[1])
      BY <3>1, <3>2 DEF Match
    <3> QED BY <2>1, <3>2, <3>3
  <2> QED BY <2>2, <2>3
<1>2. CASE ~IsAny(d) /\ ~IsAny(e)
  <2>1. /\ d[1] \in Nat /\ d[2] \in Nat /\ d[1] <= d[2]
        /\ e[1] \in Nat /\ e[2] \in Nat /\ e[1] <= e[2]
    BY <1>2, DimensionCases
  <2>2. \A v \in Nat : /\ Match(d, v) <=> d[1] <= v /\ v <= d[2]
                       /\ Match(e, v) <=> e[1] <= v /\ v <= e[2]
    BY <1>2, <2>1 DEF Match
  <2>3. PartiallyFitsInto(d, e) <=> e[1] <= d[2] /\ d[1] <= e[2]
    BY <1>2, <2>1, <2>2 DEF PartiallyFitsInto, IsDynamic, DYNAMIC_DIMENSION
  <2>4. ASSUME e[1] <= d[2], d[1] <= e[2]
        PROVE  \E v \in Nat : Match(d, v) /\ Match(e, v)
    <3>1. CASE d[1] <= e[1]
      BY <2>1, <2>2, <2>4, <3>1
    <3>2. CASE e[1] <= d[1]
      BY <2>1, <2>2, <2>4, <3>2
    <3> QED BY <2>1, <3>1, <3>2
  <2>5. ASSUME NEW v \in Nat, Match(d, v), Match(e, v)
        PROVE  e[1] <= d[2] /\ d[1] <= e[2]
    BY <2>1, <2>2, <2>5
  <2> QED BY <2>3, <2>4, <2>5
<1> QED BY <1>1, <1>2

\* Dimension::createIntersection gives at most one dimension, and a length
\* matches it exactly if it matches both of the dimensions.
THEOREM DimensionIntersectionExact ==
  ASSUME NEW d \in Dimension, NEW e \in Dimension
  PROVE  /\ \A x, y \in DimensionIntersection(d, e) : x = y
         /\ \A v \in Nat : (\E x \in DimensionIntersection(d, e) : Match(x, v))
                             <=> Match(d, v) /\ Match(e, v)
<1>1. CASE IsAny(d) \/ IsAny(e)
  <2>1. DimensionIntersection(d, e) = IF IsAny(d) THEN {e} ELSE {d}
    BY <1>1 DEF DimensionIntersection
  <2>2. \A v \in Nat : (IsAny(d) => Match(d, v)) /\ (IsAny(e) => Match(e, v))
    BY DEF Match
  <2>3. CASE IsAny(d)
    BY <2>1, <2>2, <2>3
  <2>4. CASE ~IsAny(d)
    BY <1>1, <2>1, <2>2, <2>4
  <2> QED BY <2>3, <2>4
<1>2. CASE ~IsAny(d) /\ ~IsAny(e)
  <2> DEFINE start == IF d[1] > e[1] THEN d[1] ELSE e[1]
             end == IF d[2] < e[2] THEN d[2] ELSE e[2]
  <2>1. /\ d[1] \in Nat /\ d[2] \in Nat /\ d[1] <= d[2]
        /\ e[1] \in Nat /\ e[2] \in Nat /\ e[1] <= e[2]
    BY <1>2, DimensionCases
  <2>2. DimensionIntersection(d, e) = IF end < start THEN {} ELSE {<<start, end>>}
    BY <1>2 DEF DimensionIntersection
  <2>3. \A v \in Nat : Match(d, v) /\ Match(e, v) <=> start <= v /\ v <= end
    BY <1>2, <2>1 DEF Match
  <2>4. start \in Nat /\ end \in Nat
    BY <2>1
  <2> HIDE DEF start, end
  <2>5. ~IsAny(<<start, end>>)
    BY <2>4 DEF IsAny, AnyDimension, DYNAMIC_DIMENSION
  <2>6. \A v \in Nat : Match(<<start, end>>, v) <=> start <= v /\ v <= end
    BY <2>4, <2>5 DEF Match
  <2>7. CASE end < start
    BY <2>2, <2>3, <2>4, <2>7
  <2>8. CASE ~(end < start)
    BY <2>2, <2>3, <2>6, <2>8
  <2> QED BY <2>7, <2>8
<1> QED BY <1>1, <1>2

\* Shape::createIntersection: a tensor matches the intersection of two shapes,
\* if there is one, exactly if it matches both; if there is none, no tensor
\* matches both.
THEOREM ShapeIntersectionExact ==
  ASSUME NEW a \in Seq(Dimension), NEW b \in Seq(Dimension), NEW dims \in Seq(Nat)
  PROVE  (\E s \in ShapeIntersection(a, b) : ShapeMatch(s, dims))
           <=> ShapeMatch(a, dims) /\ ShapeMatch(b, dims)
<1> DEFINE Meet(i) == CHOOSE x \in DimensionIntersection(a[i], b[i]) : TRUE
           meet == [i \in DOMAIN a |-> Meet(i)]
<1>1. CASE Len(a) # Len(b)
  BY <1>1 DEF ShapeIntersection, ShapeMatch
<1>2. CASE Len(a) = Len(b)
  <2>1. DOMAIN a = 1..Len(a) /\ DOMAIN b = DOMAIN a /\ DOMAIN dims = 1..Len(dims)
    BY <1>2
  <2>2. \A i \in DOMAIN a : a[i] \in Dimension /\ b[i] \in Dimension
    BY <2>1
  <2>3. CASE \E i \in DOMAIN a : DimensionIntersection(a[i], b[i]) = {}
    <3>1. PICK i \in DOMAIN a : DimensionIntersection(a[i], b[i]) = {}
      BY <2>3
    <3>2. ShapeIntersection(a, b) = {}
      BY <2>3 DEF ShapeIntersection
    <3>3. \A v \in Nat : ~(Match(a[i], v) /\ Match(b[i], v))
      BY <2>2, <3>1, DimensionIntersectionExact
    <3>4. ASSUME ShapeMatch(a, dims), ShapeMatch(b, dims) PROVE FALSE
      <4>1. i \in DOMAIN dims /\ dims[i] \in Nat
        BY <2>1, <3>4 DEF ShapeMatch
      <4>2. Match(a[i], dims[i]) /\ Match(b[i], dims[i])
        BY <2>1, <3>4 DEF ShapeMatch
      <4> QED BY <3>3, <4>1, <4>2
    <3> QED BY <3>2, <3>4
  <2>4. CASE \A i \in DOMAIN a : DimensionIntersection(a[i], b[i]) # {}
    <3>1. ShapeIntersection(a, b) = {meet}
      BY <1>2, <2>4 DEF ShapeIntersection
    <3>2. ASSUME NEW i \in DOMAIN a
          PROVE  \A v \in Nat : Match(meet[i], v) <=> Match(a[i], v) /\ Match(b[i], v)
      <4>1. Meet(i) \in DimensionIntersection(a[i], b[i])
        BY <2>4
      <4>2. meet[i] = Meet(i)
        OBVIOUS
      <4> HIDE DEF Meet, meet
      <4>3. /\ \A x, y \in DimensionIntersection(a[i], b[i]) : x = y
            /\ \A v \in Nat : (\E x \in DimensionIntersection(a[i], b[i]) : Match(x, v))
                                <=> Match(a[i], v) /\ Match(b[i], v)
        BY <2>2, DimensionIntersectionExact
      <4> QED BY <4>1, <4>2, <4>3
    <3>3. Len(meet) = Len(a) /\ DOMAIN meet = DOMAIN a
      BY <2>1
    <3> HIDE DEF meet
    <3>4. ASSUME Len(a) = Len(dims)
          PROVE  ShapeMatch(meet, dims) <=> ShapeMatch(a, dims) /\ ShapeMatch(b, dims)
      <4>1. \A i \in DOMAIN a : dims[i] \in Nat
        BY <2>1, <3>4
      <4>2. \A i \in DOMAIN a : Match(meet[i], dims[i])
                                  <=> Match(a[i], dims[i]) /\ Match(b[i], dims[i])
        BY <3>2, <4>1
      <4> QED BY <1>2, <2>1, <3>3, <3>4, <4>2 DEF ShapeMatch
    <3>5. ASSUME Len(a) # Len(dims)
          PROVE  ~ShapeMatch(meet, dims) /\ ~ShapeMatch(a, dims)
      BY <3>3, <3>5 DEF ShapeMatch
    <3> QED BY <3>1, <3>4, <3>5
  <2> QED BY <2>3, <2>4
<1> QED BY <1>1, <1>2

-----------------------------------------------------------------------------
(* The gathered dimensions that getNodeGatherShape finds on the way up *)

\* A graph in which everything is computed from the request, by numbers that
\* grow along the connections.
Layered(gr, rank) ==
    /\ Valid(gr) /\ rank \in [NodeNames(gr) -> Nat] /\ Ranked(gr, rank)
    /\ \E k \in Nat : \A n \in NodeNames(gr) : rank[n] <= k
    /\ \A i, j \in DOMAIN gr.nodes : gr.nodes[i].name = gr.nodes[j].name => i = j
    /\ \A n \in NodeNames(gr) : Dependencies(gr, n) = {} => n = EntryName(gr) \/ NodeOf(gr, n).kind = "EXIT"

First(gr, n) == CHOOSE d \in Dependencies(gr, n) : TRUE

Own(gr, gather, n) == IF n \in gather THEN <<GatherDimension(NodeOf(gr, n))>> ELSE <<>>
Above(gr, f, n) == IF Dependencies(gr, n) = {} THEN <<>> ELSE f[First(gr, n)]

IsPath(gr, gather, nodes, f) == f = [n \in nodes |-> Own(gr, gather, n) \o Above(gr, f, n)]

UpTo(gr, rank, k) == {n \in NodeNames(gr) : rank[n] <= k}

LEMMA FirstDependency ==
  ASSUME NEW gr, NEW rank, Layered(gr, rank), NEW n \in NodeNames(gr), Dependencies(gr, n) # {}
  PROVE  /\ First(gr, n) \in Dependencies(gr, n) /\ First(gr, n) \in NodeNames(gr)
         /\ rank[First(gr, n)] < rank[n] /\ rank[First(gr, n)] \in Nat /\ rank[n] \in Nat
         /\ Inside(gr)[n] = ResultLevels(gr, Inside(gr), First(gr, n))
         /\ NodeOf(gr, First(gr, n)).kind # "EXIT"
<1>1. PICK d : d = First(gr, n)
  OBVIOUS
<1>2. d \in Dependencies(gr, n)
  BY <1>1 DEF First
<1>3. d \in NodeNames(gr)
  BY <1>2, Nested DEF Layered
<1>4. rank[d] < rank[n] /\ rank[d] \in Nat /\ rank[n] \in Nat
  BY <1>2, <1>3 DEF Layered, Ranked
<1>5. Inside(gr)[n] = ResultLevels(gr, Inside(gr), d)
  BY <1>2 DEF Layered, Valid, WellNested
<1>6. NodeOf(gr, d).kind # "EXIT"
  BY <1>2 DEF Layered, Valid, WellConnected
<1> QED BY <1>1, <1>2, <1>3, <1>4, <1>5, <1>6

LEMMA PathExists ==
  ASSUME NEW gr, NEW rank, Layered(gr, rank), NEW gather, NEW k \in Nat
  PROVE  \E f : IsPath(gr, gather, UpTo(gr, rank, k), f)
<1> DEFINE wrong == {i \in Nat : ~\E f : IsPath(gr, gather, UpTo(gr, rank, i), f)}
<1>1. SUFFICES ASSUME wrong # {} PROVE FALSE
  OBVIOUS
<1>2. PICK i \in wrong : \A j \in wrong : i <= j
  BY <1>1, LeastNumber
<1>3. PICK f : i = 0 \/ IsPath(gr, gather, UpTo(gr, rank, i - 1), f)
  <2>1. CASE i # 0
    <3>1. i - 1 \in Nat /\ ~(i <= i - 1)
      BY <2>1
    <3> QED BY <1>2, <3>1
  <2> QED BY <2>1
<1>4. PICK h : h = [n \in UpTo(gr, rank, i) |-> Own(gr, gather, n) \o Above(gr, f, n)]
  OBVIOUS
<1>5. ASSUME NEW n \in UpTo(gr, rank, i) PROVE Above(gr, h, n) = Above(gr, f, n)
  <2>1. CASE Dependencies(gr, n) = {}
    BY <2>1 DEF Above
  <2>2. CASE Dependencies(gr, n) # {}
    <3>1. PICK d : d = First(gr, n)
      OBVIOUS
    <3>2. d \in NodeNames(gr) /\ rank[d] < rank[n] /\ rank[n] <= i /\ rank[d] \in Nat /\ rank[n] \in Nat
      BY <2>2, <3>1, FirstDependency DEF UpTo
    <3>3. i # 0 /\ d \in UpTo(gr, rank, i - 1) /\ d \in UpTo(gr, rank, i)
      BY <3>2 DEF UpTo
    <3>4. f[d] = Own(gr, gather, d) \o Above(gr, f, d)
      BY <1>3, <3>3, Zenon DEF IsPath
    <3>5. h[d] = Own(gr, gather, d) \o Above(gr, f, d)
      BY <1>4, <3>3
    <3> QED BY <2>2, <3>1, <3>4, <3>5 DEF Above
  <2> QED BY <2>1, <2>2
<1>6. IsPath(gr, gather, UpTo(gr, rank, i), h)
  BY <1>4, <1>5, Zenon DEF IsPath
<1> QED BY <1>2, <1>6

WalksUp(gr, gather, f) ==
    /\ \A n : GatherPath(gr, gather, n) = f[n]
    /\ \A n \in NodeNames(gr) : f[n] = Own(gr, gather, n) \o Above(gr, f, n)

LEMMA PathComputes ==
  ASSUME NEW gr, NEW rank, Layered(gr, rank), NEW gather
  PROVE  \E f : WalksUp(gr, gather, f)
<1> DEFINE f == CHOOSE h : IsPath(gr, gather, NodeNames(gr), h)
<1>1. PICK k \in Nat : UpTo(gr, rank, k) = NodeNames(gr)
  <2>1. PICK k \in Nat : \A n \in NodeNames(gr) : rank[n] <= k
    BY DEF Layered
  <2> QED BY <2>1 DEF UpTo
<1>2. IsPath(gr, gather, NodeNames(gr), f)
  <2>1. \E h : IsPath(gr, gather, UpTo(gr, rank, k), h)
    BY PathExists
  <2>2. \E h : IsPath(gr, gather, NodeNames(gr), h)
    BY <1>1, <2>1, Zenon
  <2> QED BY <2>2, Zenon
<1>3. ASSUME NEW n PROVE GatherPath(gr, gather, n) = f[n]
  BY Zenon DEF GatherPath, IsPath, Own, Above, First
<1> HIDE DEF f
<1>4. \A n \in NodeNames(gr) : f[n] = Own(gr, gather, n) \o Above(gr, f, n)
  BY <1>2, Zenon DEF IsPath
<1> QED BY <1>3, <1>4 DEF WalksUp

\* The levels around the results of d are those of d, and d itself.
Outwards(gr, d, levels, a, s) ==
    /\ a \in Nat /\ a <= Len(s) /\ Len(s) \in Nat /\ s \in Seq(NodeNames(gr))
    /\ levels \in Seq(NodeNames(gr)) /\ \A i \in 1..a : levels[i] = s[i]
    /\ IF NodeOf(gr, d).demultiply = {} THEN Len(levels) = a
       ELSE Len(levels) = a + 1 /\ levels[a + 1] = d

LEMMA LevelsOfResults ==
  ASSUME NEW gr, Valid(gr), NEW d \in NodeNames(gr)
  PROVE  Outwards(gr, d, ResultLevels(gr, Inside(gr), d), Len(Around(gr, d)), Inside(gr)[d])
<1>1. PICK around, a, s, levels, c :
         /\ around = Around(gr, d) /\ a = Len(around) /\ s = Inside(gr)[d]
         /\ levels = ResultLevels(gr, Inside(gr), d) /\ c = Cardinality(NodeOf(gr, d).gather)
  OBVIOUS
<1>2. /\ a \in Nat /\ a <= Len(s) /\ Len(s) \in Nat /\ around \in Seq(NodeNames(gr))
      /\ s \in Seq(NodeNames(gr)) /\ \A i \in 1..a : around[i] = s[i]
  <2>1. /\ s \in Seq(NodeNames(gr)) /\ Len(s) \in Nat /\ c \in Nat /\ c <= Len(s)
        /\ around \in Seq(NodeNames(gr)) /\ a = Len(s) - c
        /\ \A i \in 1..Len(around) : around[i] = s[i]
    BY <1>1, Nested
  <2> QED BY <1>1, <2>1
<1>3. levels = IF NodeOf(gr, d).demultiply = {} THEN around ELSE Append(around, d)
  BY <1>1 DEF ResultLevels, Around
<1>4. CASE NodeOf(gr, d).demultiply = {}
  <2>1. Outwards(gr, d, levels, a, s)
    BY <1>1, <1>2, <1>3, <1>4 DEF Outwards
  <2> QED BY <1>1, <2>1
<1>5. CASE NodeOf(gr, d).demultiply # {}
  <2>1. levels = Append(around, d)
    BY <1>3, <1>5
  <2>2. levels \in Seq(NodeNames(gr)) /\ Len(levels) = a + 1 /\ levels[a + 1] = d
    BY <1>1, <1>2, <2>1
  <2>3. \A i \in 1..a : levels[i] = around[i]
    BY <1>1, <1>2, <2>1
  <2>4. Outwards(gr, d, levels, a, s)
    BY <1>2, <1>5, <2>2, <2>3 DEF Outwards
  <2> QED BY <1>1, <2>4
<1> QED BY <1>4, <1>5

\* The demultiplexers around what is fed to a node come before it.
Reached(gr, n) == n \in NodeNames(gr) /\ (Dependencies(gr, n) # {} \/ NodeOf(gr, n).kind # "EXIT")
RanksBefore(gr, rank, n) == \A i \in 1..Len(Inside(gr)[n]) : rank[Inside(gr)[n][i]] < rank[n]

LEMMA InsideBefore ==
  ASSUME NEW gr, NEW rank, Layered(gr, rank), NEW n, Reached(gr, n)
  PROVE  RanksBefore(gr, rank, n)
<1> DEFINE wrong == {i \in Nat : \E m : Reached(gr, m) /\ rank[m] = i /\ ~RanksBefore(gr, rank, m)}
<1>1. SUFFICES ASSUME wrong # {} PROVE FALSE
  <2>1. rank[n] \in Nat
    BY DEF Reached, Layered
  <2> QED BY <2>1
<1>2. PICK i \in wrong : \A j \in wrong : i <= j
  BY <1>1, LeastNumber
<1>3. PICK m : Reached(gr, m) /\ rank[m] = i /\ ~RanksBefore(gr, rank, m)
  BY <1>2
<1>4. m \in NodeNames(gr)
  BY <1>3 DEF Reached
<1>5. CASE Dependencies(gr, m) = {}
  <2>1. m = EntryName(gr)
    BY <1>3, <1>4, <1>5 DEF Layered, Reached
  <2>2. Inside(gr)[m] = <<>>
    BY <2>1 DEF Layered, Valid, WellNested
  <2>3. RanksBefore(gr, rank, m)
    BY <2>2 DEF RanksBefore
  <2> QED BY <1>3, <2>3
<1>6. CASE Dependencies(gr, m) # {}
  <2>1. PICK d : d = First(gr, m)
    OBVIOUS
  <2>2. /\ d \in NodeNames(gr) /\ rank[d] < rank[m] /\ rank[d] \in Nat /\ rank[m] \in Nat
        /\ Inside(gr)[m] = ResultLevels(gr, Inside(gr), d) /\ NodeOf(gr, d).kind # "EXIT"
    BY <1>4, <1>6, <2>1, FirstDependency
  <2>3. Reached(gr, d)
    BY <2>2 DEF Reached
  <2>4. RanksBefore(gr, rank, d)
    <3>1. ~(i <= rank[d])
      BY <1>3, <2>2
    <3> QED BY <1>2, <2>2, <2>3, <3>1
  <2>5. PICK levels, a, s : levels = Inside(gr)[m] /\ a = Len(Around(gr, d)) /\ s = Inside(gr)[d]
    OBVIOUS
  <2>6. /\ a \in Nat /\ a <= Len(s) /\ Len(s) \in Nat /\ s \in Seq(NodeNames(gr))
        /\ levels \in Seq(NodeNames(gr)) /\ \A j \in 1..a : levels[j] = s[j]
        /\ IF NodeOf(gr, d).demultiply = {} THEN Len(levels) = a
           ELSE Len(levels) = a + 1 /\ levels[a + 1] = d
    <3>1. Outwards(gr, d, ResultLevels(gr, Inside(gr), d), Len(Around(gr, d)), Inside(gr)[d])
      BY <2>2, LevelsOfResults DEF Layered
    <3>2. Outwards(gr, d, levels, a, s)
      BY <2>2, <2>5, <3>1
    <3> QED BY <3>2 DEF Outwards
  <2>7. \A j \in 1..Len(s) : rank[s[j]] < rank[d] /\ s[j] \in NodeNames(gr)
    BY <2>4, <2>5, <2>6 DEF RanksBefore
  <2>8. \A x \in NodeNames(gr) : rank[x] \in Nat
    BY DEF Layered
  <2>9. ASSUME NEW j \in 1..Len(levels) PROVE rank[levels[j]] < rank[m]
    <3>1. CASE j <= a
      <4>1. levels[j] = s[j] /\ j \in 1..Len(s)
        BY <2>6, <3>1
      <4>2. rank[s[j]] < rank[d] /\ rank[s[j]] \in Nat
        BY <2>7, <2>8, <4>1
      <4> QED BY <2>2, <4>1, <4>2
    <3>2. CASE ~(j <= a)
      <4>1. levels[j] = d
        BY <2>6, <3>2
      <4> QED BY <2>2, <4>1
    <3> QED BY <3>1, <3>2
  <2>10. RanksBefore(gr, rank, m)
    BY <2>5, <2>9 DEF RanksBefore
  <2> QED BY <1>3, <2>10
<1> QED BY <1>5, <1>6

LEMMA InsideDemultiplies ==
  ASSUME NEW gr, NEW rank, Layered(gr, rank), NEW n \in NodeNames(gr), NEW i \in 1..Len(Inside(gr)[n])
  PROVE  /\ Inside(gr)[n][i] \in NodeNames(gr)
         /\ NodeOf(gr, Inside(gr)[n][i]).demultiply # {}
<1> DEFINE names == {gr.nodes[j].name : j \in Demultiplexers(gr)}
<1>1. Inside(gr) \in [NodeNames(gr) -> UNION {[1..k -> names] : k \in 0..Cardinality(names)}]
  BY DEF Layered, Valid, Levels
<1>2. /\ Len(Inside(gr)[n]) \in Nat /\ Inside(gr)[n] \in Seq(NodeNames(gr))
  BY Nested DEF Layered
<1> HIDE DEF names
<1>3. PICK k \in 0..Cardinality(names) : Inside(gr)[n] \in [1..k -> names]
  BY <1>1
<1>4. Inside(gr)[n][i] \in names
  <2>1. PICK s : s = Inside(gr)[n]
    OBVIOUS
  <2>2. DOMAIN s = 1..Len(s) /\ s \in [1..k -> names]
    BY <1>2, <1>3, <2>1
  <2>3. i \in DOMAIN s
    BY <2>1, <2>2
  <2> QED BY <2>1, <2>2, <2>3
<1>5. PICK j \in Demultiplexers(gr) : Inside(gr)[n][i] = gr.nodes[j].name
  BY <1>4 DEF names
<1>6. j \in DOMAIN gr.nodes /\ gr.nodes[j].demultiply # {}
  BY DEF Demultiplexers
<1>7. NodeOf(gr, gr.nodes[j].name) = gr.nodes[j] /\ gr.nodes[j].name \in NodeNames(gr)
  BY <1>6, NodeAt DEF Layered
<1> QED BY <1>5, <1>6, <1>7

\* The nodes before n that are gathered are the outermost k around n.
GathersFirst(gr, rank, gather, n, k) ==
    \A m \in NodeNames(gr) : rank[m] < rank[n] =>
        (m \in gather <=> \E i \in 1..k : Inside(gr)[n][i] = m)

\* Their dimensions, innermost first.
Upwards(gr, n, k) == [j \in 1..k |-> GatherDimension(NodeOf(gr, Inside(gr)[n][k + 1 - j]))]

ShapeAbove(gr, rank, gather, f, n) ==
    \A k \in 0..Len(Inside(gr)[n]) :
        GathersFirst(gr, rank, gather, n, k) => Above(gr, f, n) = Upwards(gr, n, k)

\* On the way from n to its first dependency d: d is the k-th of the gathered
\* ones, or the gathered ones are all around d too.
Climbs(gr, rank, gather, n, d, k) ==
    IF d \in gather
    THEN /\ k # 0 /\ k - 1 \in 0..Len(Inside(gr)[d]) /\ GathersFirst(gr, rank, gather, d, k - 1)
         /\ Inside(gr)[n][k] = d /\ \A i \in 1..(k - 1) : Inside(gr)[n][i] = Inside(gr)[d][i]
    ELSE /\ k \in 0..Len(Inside(gr)[d]) /\ GathersFirst(gr, rank, gather, d, k)
         /\ \A i \in 1..k : Inside(gr)[n][i] = Inside(gr)[d][i]

LEMMA GathersAbove ==
  ASSUME NEW gr, NEW rank, Layered(gr, rank), NEW gather, NEW n \in NodeNames(gr), NEW d \in NodeNames(gr),
         Reached(gr, d), rank[d] < rank[n], Inside(gr)[n] = ResultLevels(gr, Inside(gr), d),
         NEW k \in 0..Len(Inside(gr)[n]), GathersFirst(gr, rank, gather, n, k)
  PROVE  Climbs(gr, rank, gather, n, d, k)
<1>1. PICK levels, a, s : levels = Inside(gr)[n] /\ a = Len(Around(gr, d)) /\ s = Inside(gr)[d]
  OBVIOUS
<1>2. /\ a \in Nat /\ a <= Len(s) /\ Len(s) \in Nat /\ s \in Seq(NodeNames(gr))
      /\ levels \in Seq(NodeNames(gr)) /\ \A j \in 1..a : levels[j] = s[j]
      /\ IF NodeOf(gr, d).demultiply = {} THEN Len(levels) = a
         ELSE Len(levels) = a + 1 /\ levels[a + 1] = d
  <2>1. Outwards(gr, d, ResultLevels(gr, Inside(gr), d), Len(Around(gr, d)), Inside(gr)[d])
    BY LevelsOfResults DEF Layered
  <2>2. Outwards(gr, d, levels, a, s)
    BY <1>1, <2>1
  <2> QED BY <2>2 DEF Outwards
<1>3. \A j \in 1..Len(s) : rank[s[j]] < rank[d]
  BY <1>1, InsideBefore DEF RanksBefore
<1>4. \A x \in NodeNames(gr) : rank[x] \in Nat
  BY DEF Layered
<1>5. \A m \in NodeNames(gr) : rank[m] < rank[n] => (m \in gather <=> \E i \in 1..k : levels[i] = m)
  BY <1>1 DEF GathersFirst
<1>6. k \in Nat /\ k <= Len(levels)
  BY <1>1, <1>2
<1>7. \A j \in 1..a : levels[j] = s[j] /\ rank[s[j]] < rank[d] /\ s[j] \in NodeNames(gr) /\ levels[j] # d
  <2>1. TAKE j \in 1..a
  <2>2. j \in 1..Len(s)
    BY <1>2
  <2>3. levels[j] = s[j] /\ rank[s[j]] < rank[d] /\ s[j] \in NodeNames(gr)
    BY <1>2, <1>3, <2>2
  <2>4. rank[s[j]] # rank[d]
    BY <1>4, <2>3
  <2> QED BY <2>3, <2>4
<1>8. \A m \in NodeNames(gr) : rank[m] < rank[d] => rank[m] < rank[n]
  BY <1>4
<1>9. ASSUME NEW l \in 0..a, \A m \in NodeNames(gr) : rank[m] < rank[d] =>
                                (m \in gather <=> \E i \in 1..l : levels[i] = m)
      PROVE  /\ l \in 0..Len(s) /\ GathersFirst(gr, rank, gather, d, l)
             /\ \A i \in 1..l : levels[i] = s[i]
  <2>1. \A i \in 1..l : levels[i] = s[i]
    BY <1>2, <1>9
  <2>2. \A m \in NodeNames(gr) : rank[m] < rank[d] => (m \in gather <=> \E i \in 1..l : s[i] = m)
    BY <1>9, <2>1
  <2>3. GathersFirst(gr, rank, gather, d, l)
    BY <1>1, <2>2 DEF GathersFirst
  <2> QED BY <1>2, <1>9, <2>1, <2>3
<1>10. CASE d \in gather
  <2>1. PICK i \in 1..k : levels[i] = d
    BY <1>5, <1>10
  <2>2. i = a + 1 /\ k = a + 1 /\ NodeOf(gr, d).demultiply # {}
    <3>1. ~(i \in 1..a)
      BY <1>7, <2>1
    <3> QED BY <1>2, <1>6, <2>1, <3>1
  <2>3. ASSUME NEW m \in NodeNames(gr), rank[m] < rank[d]
        PROVE  m \in gather <=> \E j \in 1..a : levels[j] = m
    <3>1. m \in gather <=> \E j \in 1..k : levels[j] = m
      BY <1>5, <1>8, <2>3
    <3>2. levels[a + 1] # m
      <4>1. m # d
        BY <1>4, <2>3
      <4> QED BY <2>1, <2>2, <4>1
    <3>3. \A j \in 1..k : j \in 1..a \/ j = a + 1
      BY <1>2, <2>2
    <3>4. \A j \in 1..a : j \in 1..k
      BY <1>2, <2>2
    <3> QED BY <3>1, <3>2, <3>3, <3>4
  <2>4. a \in 0..a /\ k - 1 = a /\ k # 0
    BY <1>2, <2>2
  <2>5. /\ a \in 0..Len(s) /\ GathersFirst(gr, rank, gather, d, a) /\ \A j \in 1..a : levels[j] = s[j]
    BY <1>9, <2>3, <2>4
  <2> QED BY <1>1, <1>10, <2>1, <2>2, <2>4, <2>5 DEF Climbs
<1>11. CASE d \notin gather
  <2>1. \A i \in 1..k : levels[i] # d
    BY <1>5, <1>11
  <2>2. k \in 0..a
    <3>1. CASE k = a + 1
      <4>1. NodeOf(gr, d).demultiply # {} /\ a + 1 \in 1..k
        BY <1>2, <1>6, <3>1
      <4> QED BY <1>2, <2>1, <4>1
    <3> QED BY <1>2, <1>6, <3>1
  <2>3. \A m \in NodeNames(gr) : rank[m] < rank[d] => (m \in gather <=> \E i \in 1..k : levels[i] = m)
    BY <1>5, <1>8
  <2>4. /\ k \in 0..Len(s) /\ GathersFirst(gr, rank, gather, d, k) /\ \A i \in 1..k : levels[i] = s[i]
    BY <1>9, <2>2, <2>3
  <2> QED BY <1>1, <1>11, <2>4 DEF Climbs
<1> QED BY <1>10, <1>11

\* The shape of the path above n, by the least node for which it is wrong.
LEMMA AboveShape ==
  ASSUME NEW gr, NEW rank, Layered(gr, rank), NEW gather, NEW f,
         \A n \in NodeNames(gr) : f[n] = Own(gr, gather, n) \o Above(gr, f, n), NEW n, Reached(gr, n)
  PROVE  ShapeAbove(gr, rank, gather, f, n)
<1> DEFINE wrong == {i \in Nat : \E m : Reached(gr, m) /\ rank[m] = i /\ ~ShapeAbove(gr, rank, gather, f, m)}
<1>1. SUFFICES ASSUME wrong # {} PROVE FALSE
  <2>1. rank[n] \in Nat
    BY DEF Reached, Layered
  <2> QED BY <2>1
<1>2. PICK i \in wrong : \A j \in wrong : i <= j
  BY <1>1, LeastNumber
<1>3. PICK m : Reached(gr, m) /\ rank[m] = i /\ ~ShapeAbove(gr, rank, gather, f, m)
  BY <1>2
<1>4. m \in NodeNames(gr)
  BY <1>3 DEF Reached
<1>5. PICK k \in 0..Len(Inside(gr)[m]) :
         GathersFirst(gr, rank, gather, m, k) /\ Above(gr, f, m) # Upwards(gr, m, k)
  BY <1>3 DEF ShapeAbove
<1>6. CASE Dependencies(gr, m) = {}
  <2>1. m = EntryName(gr)
    BY <1>3, <1>4, <1>6 DEF Layered, Reached
  <2>2. Inside(gr)[m] = <<>>
    BY <2>1 DEF Layered, Valid, WellNested
  <2>3. k = 0
    BY <1>5, <2>2
  <2>4. Upwards(gr, m, 0) = <<>>
    BY DEF Upwards
  <2> QED BY <1>5, <1>6, <2>3, <2>4 DEF Above
<1>7. CASE Dependencies(gr, m) # {}
  <2>1. PICK d : d = First(gr, m)
    OBVIOUS
  <2>2. /\ d \in NodeNames(gr) /\ rank[d] < rank[m] /\ rank[d] \in Nat /\ rank[m] \in Nat
        /\ Inside(gr)[m] = ResultLevels(gr, Inside(gr), d) /\ NodeOf(gr, d).kind # "EXIT"
    BY <1>4, <1>7, <2>1, FirstDependency
  <2>3. Reached(gr, d)
    BY <2>2 DEF Reached
  <2>4. ShapeAbove(gr, rank, gather, f, d)
    <3>1. ~(i <= rank[d])
      BY <1>3, <2>2
    <3> QED BY <1>2, <2>2, <2>3, <3>1
  <2>5. Above(gr, f, m) = Own(gr, gather, d) \o Above(gr, f, d)
    BY <1>7, <2>1, <2>2 DEF Above
  <2>6. IF d \in gather
        THEN /\ k # 0 /\ k - 1 \in 0..Len(Inside(gr)[d]) /\ GathersFirst(gr, rank, gather, d, k - 1)
             /\ Inside(gr)[m][k] = d /\ \A j \in 1..(k - 1) : Inside(gr)[m][j] = Inside(gr)[d][j]
        ELSE /\ k \in 0..Len(Inside(gr)[d]) /\ GathersFirst(gr, rank, gather, d, k)
             /\ \A j \in 1..k : Inside(gr)[m][j] = Inside(gr)[d][j]
    <3>1. Climbs(gr, rank, gather, m, d, k)
      BY <1>4, <1>5, <2>2, <2>3, GathersAbove
    <3> QED BY <3>1 DEF Climbs
  <2>7. k \in Nat
    BY <1>4, <1>5, Nested DEF Layered
  <2>8. CASE d \notin gather
    <3>1. Above(gr, f, d) = Upwards(gr, d, k)
      BY <2>4, <2>6, <2>8 DEF ShapeAbove
    <3>2. Upwards(gr, d, k) = Upwards(gr, m, k)
      <4>1. \A j \in 1..k : k + 1 - j \in 1..k
        BY <2>7
      <4> QED BY <2>6, <2>8, <4>1 DEF Upwards
    <3>3. Own(gr, gather, d) = <<>>
      BY <2>8 DEF Own
    <3>4. Upwards(gr, d, k) = [j \in 1..k |-> GatherDimension(NodeOf(gr, Inside(gr)[d][k + 1 - j]))]
      BY DEF Upwards
    <3>5. PICK u, R : u = Upwards(gr, d, k) /\ R = {GatherDimension(NodeOf(gr, Inside(gr)[d][k + 1 - j])) : j \in 1..k}
      OBVIOUS
    <3>6. u \in Seq(R)
      BY <2>7, <3>4, <3>5
    <3>7. <<>> \o u = u
      BY <3>6
    <3> QED BY <1>5, <2>5, <3>1, <3>2, <3>3, <3>5, <3>7
  <2>9. CASE d \in gather
    <3>1. PICK l \in Nat : l = k - 1 /\ k = l + 1
      BY <2>6, <2>7, <2>9
    <3>2. Above(gr, f, d) = Upwards(gr, d, l)
      BY <2>4, <2>6, <2>9, <3>1 DEF ShapeAbove
    <3>3. PICK u, x, R, v : /\ u = Upwards(gr, d, l) /\ x = GatherDimension(NodeOf(gr, d))
                            /\ R = {GatherDimension(NodeOf(gr, Inside(gr)[d][l + 1 - j])) : j \in 1..l} \cup {x}
                            /\ v = Upwards(gr, m, k)
      OBVIOUS
    <3>4. u = [j \in 1..l |-> GatherDimension(NodeOf(gr, Inside(gr)[d][l + 1 - j]))]
      BY <3>3 DEF Upwards
    <3>5. u \in Seq(R) /\ x \in R /\ Len(u) = l
      <4>1. x \in R /\ \A j \in 1..l : u[j] \in R
        BY <3>3, <3>4
      <4> QED BY <3>1, <3>4, <4>1
    <3>6. <<x>> \o u = [j \in 1..(l + 1) |-> IF j = 1 THEN x ELSE u[j - 1]]
      <4>1. PICK t : t = <<x>>
        OBVIOUS
      <4>2. t \in Seq(R) /\ Len(t) = 1 /\ t[1] = x
        BY <3>5, <4>1
      <4>3. PICK w : w = t \o u
        OBVIOUS
      <4>4. /\ w \in Seq(R) /\ Len(w) = l + 1
            /\ \A j \in 1..(l + 1) : w[j] = IF j <= 1 THEN t[j] ELSE u[j - 1]
        <5>1. /\ t \o u \in Seq(R) /\ Len(t \o u) = Len(t) + Len(u)
              /\ \A j \in 1..(Len(t) + Len(u)) : (t \o u)[j] = IF j <= Len(t) THEN t[j] ELSE u[j - Len(t)]
          BY <3>5, <4>2, ConcatProperties
        <5>2. Len(t) + Len(u) = l + 1
          BY <3>1, <3>5, <4>2
        <5> QED BY <4>2, <4>3, <5>1, <5>2
      <4>5. w = [j \in 1..(l + 1) |-> w[j]]
        BY <4>4
      <4>6. \A j \in 1..(l + 1) : w[j] = IF j = 1 THEN x ELSE u[j - 1]
        BY <3>1, <4>2, <4>4
      <4> QED BY <4>1, <4>3, <4>5, <4>6
    <3>7. v = [j \in 1..(l + 1) |-> GatherDimension(NodeOf(gr, Inside(gr)[m][l + 2 - j]))]
      <4>1. \A j \in 1..(l + 1) : k + 1 - j = l + 2 - j
        BY <3>1
      <4> QED BY <3>1, <3>3, <4>1 DEF Upwards
    <3>8. ASSUME NEW j \in 1..(l + 1)
          PROVE  v[j] = IF j = 1 THEN x ELSE u[j - 1]
      <4>1. CASE j = 1
        <5>1. l + 2 - j = k
          BY <3>1, <4>1
        <5>2. Inside(gr)[m][l + 2 - j] = d
          BY <2>6, <2>9, <5>1
        <5>3. v[j] = GatherDimension(NodeOf(gr, Inside(gr)[m][l + 2 - j]))
          BY <3>7
        <5> QED BY <3>3, <4>1, <5>2, <5>3
      <4>2. CASE j # 1
        <5>1. j - 1 \in 1..l /\ l + 2 - j \in 1..l /\ l + 1 - (j - 1) = l + 2 - j
          BY <3>1, <4>2
        <5>2. u[j - 1] = GatherDimension(NodeOf(gr, Inside(gr)[d][l + 2 - j]))
          BY <3>4, <5>1
        <5>3. Inside(gr)[m][l + 2 - j] = Inside(gr)[d][l + 2 - j]
          BY <2>6, <2>9, <3>1, <5>1
        <5>4. v[j] = GatherDimension(NodeOf(gr, Inside(gr)[m][l + 2 - j]))
          BY <3>7
        <5> QED BY <4>2, <5>2, <5>3, <5>4
      <4> QED BY <4>1, <4>2
    <3>9. <<x>> \o u = v
      BY <3>6, <3>7, <3>8
    <3>10. Own(gr, gather, d) = <<x>>
      BY <2>9, <3>3 DEF Own
    <3> QED BY <1>5, <2>5, <3>2, <3>3, <3>9, <3>10
  <2> QED BY <2>8, <2>9
<1> QED BY <1>6, <1>7

\* getNodeGatherShape declares the demultiplexers around n, outermost first,
\* when n gathers all of them.
LEMMA GatheredShape ==
  ASSUME NEW gr, NEW rank, Layered(gr, rank), NEW n, Reached(gr, n), NEW s, s = Inside(gr)[n],
         NodeOf(gr, n).gather = {s[i] : i \in 1..Len(s)}
  PROVE  NodeGatherShape(gr, NodeOf(gr, n)) = [i \in 1..Len(s) |-> GatherDimension(NodeOf(gr, s[i]))]
<1>1. n \in NodeNames(gr) /\ s \in Seq(NodeNames(gr)) /\ Len(s) \in Nat /\ NodeOf(gr, n).name = n
  BY Nested, NodeFound DEF Reached, Layered
<1>2. PICK gather, k : gather = NodeOf(gr, n).gather /\ k = Len(s)
  OBVIOUS
<1>3. CASE gather = {}
  <2>1. k = 0
    <3>1. ~(1 \in 1..k)
      BY <1>2, <1>3
    <3> QED BY <1>1, <1>2, <3>1
  <2> QED BY <1>2, <1>3, <2>1 DEF NodeGatherShape
<1>4. CASE gather # {}
  <2>14. PICK f : WalksUp(gr, gather, f)
    BY PathComputes
  <2>1. /\ \A m : GatherPath(gr, gather, m) = f[m]
        /\ \A m \in NodeNames(gr) : f[m] = Own(gr, gather, m) \o Above(gr, f, m)
    BY <2>14, Zenon DEF WalksUp
  <2>2. \A i \in 1..k : rank[s[i]] < rank[n]
    BY <1>2, InsideBefore DEF RanksBefore
  <2>3. GathersFirst(gr, rank, gather, n, k)
    BY <1>2 DEF GathersFirst
  <2>4. k \in 0..Len(Inside(gr)[n])
    BY <1>1, <1>2
  <2>5. Above(gr, f, n) = Upwards(gr, n, k)
    <3>1. ShapeAbove(gr, rank, gather, f, n)
      BY <2>1, AboveShape
    <3> QED BY <2>3, <2>4, <3>1 DEF ShapeAbove
  <2>6. n \notin gather
    <3>1. \A i \in 1..k : s[i] # n
      <4>1. rank[n] \in Nat
        BY <1>1 DEF Layered
      <4> QED BY <2>2, <4>1
    <3> QED BY <1>2, <3>1
  <2>7. PICK u, R : /\ u = Upwards(gr, n, k)
                    /\ R = {GatherDimension(NodeOf(gr, s[i])) : i \in 1..k}
    OBVIOUS
  <2>8. u = [j \in 1..k |-> GatherDimension(NodeOf(gr, s[k + 1 - j]))]
    BY <2>7 DEF Upwards
  <2>9. u \in Seq(R) /\ Len(u) = k /\ k \in Nat
    <3>1. \A j \in 1..k : k + 1 - j \in 1..k
      BY <1>1, <1>2
    <3>2. \A j \in 1..k : u[j] \in R
      BY <2>7, <2>8, <3>1
    <3>3. k \in Nat /\ u = [j \in 1..k |-> u[j]]
      BY <1>1, <1>2, <2>8
    <3> QED BY <3>2, <3>3
  <2>10. f[n] = u
    <3>1. Own(gr, gather, n) = <<>>
      BY <2>6 DEF Own
    <3>2. <<>> \o u = u
      BY <2>9
    <3> QED BY <1>1, <2>1, <2>5, <2>7, <3>1, <3>2
  <2>11. NodeGatherShape(gr, NodeOf(gr, n)) = Reverse(u)
    BY <1>1, <1>2, <1>4, <2>1, <2>10 DEF NodeGatherShape
  <2>12. Reverse(u) = [i \in 1..k |-> u[(k - i) + 1]]
    BY <2>9 DEF Reverse
  <2>13. \A i \in 1..k : u[(k - i) + 1] = GatherDimension(NodeOf(gr, s[i]))
    <3>1. \A i \in 1..k : (k - i) + 1 \in 1..k /\ k + 1 - ((k - i) + 1) = i
      BY <2>9
    <3> QED BY <2>8, <3>1
  <2> QED BY <1>2, <2>11, <2>12, <2>13
<1> QED BY <1>3, <1>4

\* A kind of which there is at most one node.
LEMMA OneOfKind ==
  ASSUME NEW gr, IsGraph(gr), NEW kind, ~(Cardinality(NodesOfKind(gr, kind)) > 1),
         NEW i \in NodesOfKind(gr, kind), NEW j \in NodesOfKind(gr, kind)
  PROVE  i = j
<1>1. PICK N : N = NodesOfKind(gr, kind)
  OBVIOUS
<1>2. IsFiniteSet(N)
  <2>1. IsFiniteSet(DOMAIN gr.nodes)
    BY FS_Interval DEF IsGraph
  <2> QED BY <1>1, <2>1, FS_Subset DEF NodesOfKind
<1>3. SUFFICES ASSUME i # j PROVE FALSE
  OBVIOUS
<1>4. Cardinality({i, j}) = 2
  <2>1. IsFiniteSet({i}) /\ Cardinality({i}) = 1
    BY FS_Singleton
  <2>2. Cardinality({i} \cup {j}) = 2
    BY <1>3, <2>1, FS_AddElement
  <2>3. {i} \cup {j} = {i, j}
    OBVIOUS
  <2> QED BY <2>2, <2>3
<1>5. Cardinality({i, j}) <= Cardinality(N) /\ Cardinality(N) \in Nat
  BY <1>1, <1>2, FS_Subset, FS_CardinalityType
<1> QED BY <1>1, <1>4, <1>5

\* What the response relies on: one entry and one exit, nodes of four kinds,
\* and connections that lead to outputs.
Checked(gr) ==
    /\ Valid(gr) /\ \E rank : Layered(gr, rank)
    /\ ExitName(gr) \in NodeNames(gr) /\ NodeOf(gr, ExitName(gr)).kind = "EXIT"
    /\ \A n \in NodeNames(gr) :
          /\ NodeOf(gr, n).kind \in {"ENTRY", "EXIT", "DL", "CUSTOM"}
          /\ NodeOf(gr, n).kind = "ENTRY" => n = EntryName(gr)
          /\ NodeOf(gr, n).kind = "EXIT" => n = ExitName(gr)
          /\ \A d \in Dependencies(gr, n) : \A p \in gr.connections[n][d] :
                Computes(NodeOf(gr, d)) => NodeOf(gr, d).aliases[p[1]] \in DOMAIN NodeOf(gr, d).outputs

\* NodeValidator: what a node takes is an output, and all its inputs are fed.
LEMMA ConnectionsValid ==
  ASSUME NEW gr, NEW info, NodeStatus(gr, info) = "OK"
  PROVE  /\ \A d \in Dependencies(gr, info.name) : \A p \in gr.connections[info.name][d] :
               Computes(NodeOf(gr, d)) => NodeOf(gr, d).aliases[p[1]] \in DOMAIN NodeOf(gr, d).outputs
         /\ Computes(info) /\ DOMAIN info.inputs # {} => Dependencies(gr, info.name) # {}
<1> DEFINE wrong == {d \in Dependencies(gr, info.name) : DependencyStatus(gr, info, d) # "OK"}
           fed(x) == {f \in Feeds(gr, info.name) : f[3] = x}
<1>1. wrong = {}
  <2>1. wrong = {} \/ DependencyStatus(gr, info, CHOOSE d \in wrong : TRUE) = "OK"
    BY DEF NodeStatus
  <2>2. wrong # {} => (CHOOSE d \in wrong : TRUE) \in wrong
    BY Zenon
  <2> QED BY <2>1, <2>2
<1>2. ASSUME NEW d \in Dependencies(gr, info.name), NEW p \in gr.connections[info.name][d], Computes(NodeOf(gr, d))
      PROVE  NodeOf(gr, d).aliases[p[1]] \in DOMAIN NodeOf(gr, d).outputs
  <2>1. PICK dep, pairs : dep = NodeOf(gr, d) /\ pairs = gr.connections[info.name][d]
    OBVIOUS
  <2> DEFINE bad == {q \in pairs : PairStatus(gr, info, dep, q) # "OK"}
  <2>2. DependencyStatus(gr, info, d) = "OK"
    BY <1>1
  <2>3. bad = {} \/ PairStatus(gr, info, dep, CHOOSE q \in bad : TRUE) = "OK"
    BY <2>1, <2>2 DEF DependencyStatus
  <2>4. bad # {} => (CHOOSE q \in bad : TRUE) \in bad
    BY Zenon
  <2>5. PairStatus(gr, info, dep, p) = "OK"
    BY <2>1, <2>3, <2>4
  <2>6. dep.aliases[p[1]] \in DOMAIN dep.outputs
    <3>1. Computes(dep)
      BY <1>2, <2>1
    <3> QED BY <2>5, <3>1 DEF PairStatus, Computes
  <2> QED BY <2>1, <2>6
<1>3. ASSUME Computes(info), DOMAIN info.inputs # {} PROVE Dependencies(gr, info.name) # {}
  <2>1. PICK x \in DOMAIN info.inputs : TRUE
    BY <1>3
  <2>2. fed(x) # {}
    BY <1>1, <1>3 DEF NodeStatus
  <2>3. Feeds(gr, info.name) # {}
    BY <2>2
  <2> QED BY <2>3 DEF Feeds
<1> QED BY <1>2, <1>3

LEMMA CheckedGraph ==
  ASSUME NEW gr, IsGraph(gr), Validate(gr) = "OK", OrderEnsured(gr), Valid(gr)
  PROVE  Checked(gr)
<1>1. \A i, j \in DOMAIN gr.nodes : gr.nodes[i].name = gr.nodes[j].name => i = j
  BY NodesValid
<1>2. ASSUME NEW n \in NodeNames(gr)
      PROVE  \E i \in DOMAIN gr.nodes : NodeOf(gr, n) = gr.nodes[i] /\ gr.nodes[i].name = n
  <2>1. PICK i \in DOMAIN gr.nodes : n = gr.nodes[i].name
    BY <1>2 DEF NodeNames, Infos, Range
  <2> QED BY <1>1, <2>1, NodeAt
<1>3. /\ NodesOfKind(gr, "EXIT") # {} /\ NodesOfKind(gr, "ENTRY") # {}
      /\ ~(Cardinality(NodesOfKind(gr, "ENTRY")) > 1) /\ ~(Cardinality(NodesOfKind(gr, "EXIT")) > 1)
  <2>1. ValidateNodes(gr) = "OK"
    BY DEF Validate
  <2> QED BY <2>1 DEF ValidateNodes
<1>4. PICK x \in NodesOfKind(gr, "EXIT") : ExitName(gr) = gr.nodes[x].name
  BY <1>3, Zenon DEF ExitName
<1>5. PICK y \in NodesOfKind(gr, "ENTRY") : EntryName(gr) = gr.nodes[y].name
  BY <1>3, Zenon DEF EntryName
<1>6. ExitName(gr) \in NodeNames(gr) /\ NodeOf(gr, ExitName(gr)).kind = "EXIT"
  <2>1. x \in DOMAIN gr.nodes /\ gr.nodes[x].kind = "EXIT"
    BY <1>4 DEF NodesOfKind
  <2>2. gr.nodes[x].name \in NodeNames(gr) /\ NodeOf(gr, gr.nodes[x].name) = gr.nodes[x]
    BY <1>1, <2>1, NodeAt
  <2> QED BY <1>4, <2>1, <2>2
<1>7. ASSUME NEW n \in NodeNames(gr)
      PROVE  /\ NodeOf(gr, n).kind \in {"ENTRY", "EXIT", "DL", "CUSTOM"}
             /\ NodeOf(gr, n).kind = "ENTRY" => n = EntryName(gr)
             /\ NodeOf(gr, n).kind = "EXIT" => n = ExitName(gr)
             /\ \A d \in Dependencies(gr, n) : \A p \in gr.connections[n][d] :
                   Computes(NodeOf(gr, d)) => NodeOf(gr, d).aliases[p[1]] \in DOMAIN NodeOf(gr, d).outputs
             /\ Computes(NodeOf(gr, n)) => Dependencies(gr, n) # {}
  <2>1. PICK i \in DOMAIN gr.nodes : NodeOf(gr, n) = gr.nodes[i] /\ gr.nodes[i].name = n
    BY <1>2, <1>7
  <2>2. NodeStatus(gr, NodeOf(gr, n)) = "OK" /\ NodeOf(gr, n).name = n
    BY <2>1, NodesValid
  <2>3. /\ NodeOf(gr, n).kind \in {"ENTRY", "EXIT", "DL", "CUSTOM"}
        /\ Computes(NodeOf(gr, n)) => DOMAIN NodeOf(gr, n).inputs # {}
    BY <2>1 DEF IsGraph
  <2>4. ASSUME NodeOf(gr, n).kind = "ENTRY" PROVE n = EntryName(gr)
    <3>1. i \in NodesOfKind(gr, "ENTRY")
      BY <2>1, <2>4 DEF NodesOfKind
    <3>2. i = y
      BY <1>3, <1>5, <3>1, OneOfKind
    <3> QED BY <1>5, <2>1, <3>2
  <2>5. ASSUME NodeOf(gr, n).kind = "EXIT" PROVE n = ExitName(gr)
    <3>1. i \in NodesOfKind(gr, "EXIT")
      BY <2>1, <2>5 DEF NodesOfKind
    <3>2. i = x
      BY <1>3, <1>4, <3>1, OneOfKind
    <3> QED BY <1>4, <2>1, <3>2
  <2>6. /\ \A d \in Dependencies(gr, n) : \A p \in gr.connections[n][d] :
              Computes(NodeOf(gr, d)) => NodeOf(gr, d).aliases[p[1]] \in DOMAIN NodeOf(gr, d).outputs
        /\ Computes(NodeOf(gr, n)) /\ DOMAIN NodeOf(gr, n).inputs # {} => Dependencies(gr, n) # {}
    BY <2>2, ConnectionsValid
  <2> QED BY <2>3, <2>4, <2>5, <2>6
<1>8. \E rank : Layered(gr, rank)
  <2>1. PICK rank \in [NodeNames(gr) -> 0..Cardinality(NodeNames(gr))] : Ranked(gr, rank)
    BY DEF OrderEnsured
  <2>2. Cardinality(NodeNames(gr)) \in Nat
    BY FS_CardinalityType DEF Valid
  <2>3. /\ rank \in [NodeNames(gr) -> Nat]
        /\ \A n \in NodeNames(gr) : rank[n] <= Cardinality(NodeNames(gr))
    BY <2>2
  <2>4. \A n \in NodeNames(gr) : Dependencies(gr, n) = {} => n = EntryName(gr) \/ NodeOf(gr, n).kind = "EXIT"
    BY <1>7 DEF Computes
  <2>5. Layered(gr, rank)
    BY <1>1, <2>1, <2>2, <2>3, <2>4 DEF Layered
  <2> QED BY <2>5
<1> QED BY <1>6, <1>7, <1>8 DEF Checked

LEMMA CheckedInUse ==
  ASSUME Inv, definition.status = "OK"
  PROVE  Checked(g)
<1>1. PICK s \in Scenarios : definition.graph = s.graph /\ definition.status = Validate(s.graph)
  BY DEF Inv, AllInv, DefinitionInv
<1>2. IsGraph(g) /\ Validate(g) = "OK" /\ OrderEnsured(g)
  BY <1>1, ScenariosAssumption DEF g
<1> QED BY <1>2, ValidInUse, CheckedGraph

-----------------------------------------------------------------------------
(* The lengths of outputs and of their parts *)

\* The first length that a computation gave to its outputs is one they may have.
Counting(gr, n, count) ==
    \/ \A o \in DOMAIN NodeOf(gr, n).outputs : ~IsDynamic(NodeOf(gr, n).outputs[o].shape[1])
    \/ \A o \in DOMAIN NodeOf(gr, n).outputs : Match(NodeOf(gr, n).outputs[o].shape[1], count)

LEMMA CountsCount ==
  ASSUME NEW n, NEW count \in CountsOf(n)
  PROVE  Counting(g, n, count)
<1>1. CASE \A o \in DOMAIN NodeOf(g, n).outputs : ~IsDynamic(NodeOf(g, n).outputs[o].shape[1])
  BY <1>1, Zenon DEF Counting
<1>2. CASE ~\A o \in DOMAIN NodeOf(g, n).outputs : ~IsDynamic(NodeOf(g, n).outputs[o].shape[1])
  <2>1. CountsOf(n) = {c \in Counts : \A o \in DOMAIN NodeOf(g, n).outputs :
                                          Match(NodeOf(g, n).outputs[o].shape[1], c)}
    BY <1>2, Zenon DEF CountsOf
  <2> QED BY <2>1, Zenon DEF Counting
<1> QED BY <1>1, <1>2

LEMMA LeastMatches ==
  ASSUME NEW d \in Dimension
  PROVE  /\ Match(d, d[1]) /\ d[1] \in Int
         /\ \A v \in Nat : ~IsDynamic(d) /\ Match(d, v) => v = d[1]
  BY DEF Dimension, Match, IsAny, IsDynamic, AnyDimension, DYNAMIC_DIMENSION

LEMMA OutputFits ==
  ASSUME NEW info, NEW output, NEW shape, shape = info.outputs[output].shape, shape \in Seq(Dimension),
         NEW count \in Nat, NEW dims, dims = OutputDims(info, output, count),
         IsDynamic(shape[1]) => Match(shape[1], count)
  PROVE  dims \in Seq(Int) /\ Len(dims) = Len(shape) /\ ShapeMatch(shape, dims)
<1>1. DOMAIN shape = 1..Len(shape) /\ Len(shape) \in Nat /\ \A i \in DOMAIN shape : shape[i] \in Dimension
  OBVIOUS
<1>2. dims = [i \in DOMAIN shape |-> IF i = 1 /\ IsDynamic(shape[1]) THEN count ELSE shape[i][1]]
  BY DEF OutputDims
<1>3. \A i \in DOMAIN shape : dims[i] \in Int /\ Match(shape[i], dims[i])
  <2>1. TAKE i \in DOMAIN shape
  <2>2. PICK d : d = shape[i]
    OBVIOUS
  <2>3. d \in Dimension /\ Match(d, d[1]) /\ d[1] \in Int
    BY <1>1, <2>2, LeastMatches
  <2>4. CASE i = 1 /\ IsDynamic(shape[1])
    BY <1>2, <2>4
  <2>5. CASE ~(i = 1 /\ IsDynamic(shape[1]))
    <3>1. dims[i] = d[1]
      BY <1>2, <2>2, <2>5
    <3> QED BY <2>2, <2>3, <3>1
  <2> QED BY <2>4, <2>5
<1>4. dims = [i \in 1..Len(shape) |-> dims[i]]
  BY <1>1, <1>2
<1>5. dims \in Seq(Int) /\ Len(dims) = Len(shape)
  BY <1>1, <1>3, <1>4
<1> QED BY <1>3, <1>5 DEF ShapeMatch

LEMMA TailFits ==
  ASSUME NEW shape \in Seq(Dimension), NEW dims \in Seq(Int), ShapeMatch(shape, dims), ~(Len(dims) < 3)
  PROVE  Tail(dims) \in Seq(Int) /\ Tail(shape) \in Seq(Dimension) /\ ShapeMatch(Tail(shape), Tail(dims))
<1>1. /\ Len(shape) = Len(dims) /\ Len(dims) \in Nat \ {0}
      /\ \A i \in 1..Len(dims) : Match(shape[i], dims[i])
  BY DEF ShapeMatch
<1>2. /\ Tail(dims) \in Seq(Int) /\ Len(Tail(dims)) = Len(dims) - 1
      /\ \A i \in 1..(Len(dims) - 1) : Tail(dims)[i] = dims[i + 1]
  BY <1>1
<1>3. /\ Tail(shape) \in Seq(Dimension) /\ Len(Tail(shape)) = Len(dims) - 1
      /\ DOMAIN Tail(shape) = 1..(Len(dims) - 1)
      /\ \A i \in 1..(Len(dims) - 1) : Tail(shape)[i] = shape[i + 1]
  BY <1>1
<1>4. \A i \in 1..(Len(dims) - 1) : i + 1 \in 1..Len(dims)
  BY <1>1
<1>5. \A i \in 1..(Len(dims) - 1) : Match(Tail(shape)[i], Tail(dims)[i])
  BY <1>1, <1>2, <1>3, <1>4
<1> QED BY <1>2, <1>3, <1>5 DEF ShapeMatch

LEMMA ConcatFits ==
  ASSUME NEW T, NEW a \in Seq(T), NEW b \in Seq(T), NEW u \in Seq(Int), NEW v \in Seq(Int),
         ShapeMatch(a, u), ShapeMatch(b, v)
  PROVE  ShapeMatch(a \o b, u \o v)
<1>1. PICK k, l : k = Len(a) /\ l = Len(b)
  OBVIOUS
<1>2. /\ Len(a) = k /\ Len(b) = l /\ Len(u) = k /\ Len(v) = l /\ k \in Nat /\ l \in Nat
      /\ \A i \in 1..k : Match(a[i], u[i])
      /\ \A i \in 1..l : Match(b[i], v[i])
  <2>1. k \in Nat /\ l \in Nat /\ DOMAIN a = 1..k /\ DOMAIN b = 1..l
    BY <1>1
  <2>2. Len(a) = Len(u) /\ \A i \in DOMAIN a : Match(a[i], u[i])
    BY Zenon DEF ShapeMatch
  <2>3. Len(b) = Len(v) /\ \A i \in DOMAIN b : Match(b[i], v[i])
    BY Zenon DEF ShapeMatch
  <2>4. \A i \in 1..k : Match(a[i], u[i])
    BY <2>1, <2>2, Zenon
  <2>5. \A i \in 1..l : Match(b[i], v[i])
    BY <2>1, <2>3, Zenon
  <2>6. Len(a) = k /\ Len(b) = l /\ Len(u) = k /\ Len(v) = l
    BY <1>1, <2>2, <2>3, Zenon
  <2> QED BY <2>1, <2>4, <2>5, <2>6, Zenon
<1>3. PICK c, w : c = a \o b /\ w = u \o v
  OBVIOUS
<1>4. /\ c \in Seq(T) /\ Len(c) = Len(a) + Len(b)
      /\ \A i \in 1..(Len(a) + Len(b)) : c[i] = IF i <= Len(a) THEN a[i] ELSE b[i - Len(a)]
  BY <1>3, ConcatProperties
<1>5. /\ w \in Seq(Int) /\ Len(w) = Len(u) + Len(v)
      /\ \A i \in 1..(Len(u) + Len(v)) : w[i] = IF i <= Len(u) THEN u[i] ELSE v[i - Len(u)]
  BY <1>3, ConcatProperties
<1>6. /\ Len(c) = k + l /\ Len(w) = k + l /\ DOMAIN c = 1..(k + l)
      /\ \A i \in 1..(k + l) : c[i] = IF i <= k THEN a[i] ELSE b[i - k]
      /\ \A i \in 1..(k + l) : w[i] = IF i <= k THEN u[i] ELSE v[i - k]
  BY <1>2, <1>4, <1>5
<1>7. \A i \in 1..(k + l) : Match(c[i], w[i])
  <2>1. TAKE i \in 1..(k + l)
  <2>2. CASE i <= k
    <3>1. i \in 1..k /\ c[i] = a[i] /\ w[i] = u[i]
      BY <1>2, <1>6, <2>2
    <3> QED BY <1>2, <3>1
  <2>3. CASE ~(i <= k)
    <3>1. i - k \in 1..l /\ c[i] = b[i - k] /\ w[i] = v[i - k]
      BY <1>2, <1>6, <2>3
    <3> QED BY <1>2, <3>1
  <2> QED BY <2>2, <2>3
<1> QED BY <1>3, <1>6, <1>7 DEF ShapeMatch

-----------------------------------------------------------------------------
(* The results that are fed to the exit *)

\* What the exit is declared to take from an output of node n.
Declared(gr, n, a) == Shard(NodeOf(gr, n).outputs[NodeOf(gr, n).aliases[a]].shape, NodeOf(gr, n))

TensorsFit(gr, n, tensors) ==
    \A p \in gr.connections[ExitName(gr)][n] :
        /\ Declared(gr, n, p[1]) \in Seq(Dimension)
        /\ tensors[p[1]].dims \in Seq(Int) /\ ShapeMatch(Declared(gr, n, p[1]), tensors[p[1]].dims)

\* demultiplyOutputs: the tensors themselves, or the parts of each.
LEMMA DemultiplyGives ==
  ASSUME NEW n, NEW meta, NEW tensors, NEW d, d = Demultiply(n, meta, tensors), d[1] = "OK",
         NEW info, info = NodeOf(g, n), NEW m \in DOMAIN d[2]
  PROVE  \/ info.demultiply = {} /\ d[2][m] = tensors
         \/ /\ info.demultiply # {} /\ \A a \in DOMAIN tensors : ~(Len(tensors[a].dims) < 3)
            /\ \A a \in DOMAIN tensors : d[2][m][a].dims = Tail(tensors[a].dims)
<1>1. PICK first : first = tensors[CHOOSE a \in DOMAIN tensors : TRUE].dims[1]
  OBVIOUS
<1>2. PICK plain, parts : /\ plain = [x \in {meta} |-> tensors]
                          /\ parts = [x \in GenerateSubsessions(meta, n, first) |->
                                         [a \in DOMAIN tensors |-> ShardOf(tensors[a], Last(x)[2])]]
  OBVIOUS
<1>3. d = IF info.demultiply = {} THEN <<"OK", plain>>
          ELSE IF first > DEMULTIPLY_LIMIT
               THEN <<"PIPELINE_TOO_LARGE_DIMENSION_SIZE_TO_DEMULTIPLY", <<>>>>
          ELSE IF \E a \in DOMAIN tensors : Len(tensors[a].dims) < 3
               THEN <<"PIPELINE_WRONG_NUMBER_OF_DIMENSIONS_TO_DEMULTIPLY", <<>>>>
          ELSE IF info.demultiply # {-1} /\ \E a \in DOMAIN tensors : tensors[a].dims[1] \notin info.demultiply
               THEN <<"PIPELINE_WRONG_DIMENSION_SIZE_TO_DEMULTIPLY", <<>>>>
          ELSE IF first = 0 THEN <<"PIPELINE_DEMULTIPLEXER_NO_RESULTS", <<>>>>
          ELSE <<"OK", parts>>
  BY <1>1, <1>2 DEF Demultiply
<1>4. CASE info.demultiply = {}
  <2>1. d[2] = plain
    BY <1>3, <1>4
  <2> QED BY <1>2, <1>4, <2>1
<1>5. CASE info.demultiply # {}
  <2>1. (~\E a \in DOMAIN tensors : Len(tensors[a].dims) < 3) /\ d[2] = parts
    BY <1>3, <1>5
  <2>2. ASSUME NEW a \in DOMAIN tensors PROVE d[2][m][a].dims = Tail(tensors[a].dims)
    <3>1. m \in GenerateSubsessions(meta, n, first)
      BY <1>2, <2>1
    <3>2. d[2][m] = [x \in DOMAIN tensors |-> ShardOf(tensors[x], Last(m)[2])]
      BY <1>2, <2>1, <3>1, Zenon
    <3>3. d[2][m][a] = ShardOf(tensors[a], Last(m)[2])
      BY <3>2, Zenon
    <3>4. ShardOf(tensors[a], Last(m)[2]).dims = Tail(tensors[a].dims)
      BY DEF ShardOf
    <3> QED BY <3>3, <3>4
  <2> QED BY <1>5, <2>1, <2>2
<1> QED BY <1>4, <1>5

\* The outputs of a computing node, before they are demultiplied.
LEMMA OutputsFit ==
  ASSUME Inv, definition.status = "OK", NEW r, NEW id, NEW n, n = id[1], Computes(NodeOf(g, n)),
         sessions[r][id].count \in Nat, Counting(g, n, sessions[r][id].count),
         NEW m \in NodeNames(g), n \in Dependencies(g, m), NEW p \in g.connections[m][n],
         NEW tensors, tensors = Outputs(r, id),
         NEW shape, shape = NodeOf(g, n).outputs[NodeOf(g, n).aliases[p[1]]].shape
  PROVE  /\ p[1] \in DOMAIN tensors /\ shape \in Seq(Dimension)
         /\ tensors[p[1]].dims = OutputDims(NodeOf(g, n), NodeOf(g, n).aliases[p[1]], sessions[r][id].count)
         /\ tensors[p[1]].dims \in Seq(Int) /\ ShapeMatch(shape, tensors[p[1]].dims)
<1>1. PICK s, info, a : s = sessions[r][id] /\ info = NodeOf(g, n) /\ a = p[1]
  OBVIOUS
<1>2. PICK needed : needed = {x[1] : x \in UNION {g.connections[k][n] : k \in NextNodes(n)}}
  OBVIOUS
<1>3. tensors = [x \in needed |->
          IF info.kind = "ENTRY" THEN req[r].request[x]
          ELSE [dims |-> OutputDims(info, info.aliases[x], s.count),
                val |-> << <<n, info.aliases[x]>>, <<>>, Arguments(s.inputs) >>]]
  BY <1>1, <1>2 DEF Outputs
<1>4. a \in needed
  <2>1. m \in NextNodes(n)
    BY DEF NextNodes
  <2> QED BY <1>1, <1>2, <2>1
<1>5. info.kind # "ENTRY"
  BY <1>1 DEF Computes
<1>6. PICK dims : dims = OutputDims(info, info.aliases[a], s.count)
  OBVIOUS
<1>7. tensors[a] = [dims |-> dims, val |-> << <<n, info.aliases[a]>>, <<>>, Arguments(s.inputs) >>]
  BY <1>3, <1>4, <1>5, <1>6
<1>8. tensors[a].dims = dims
  BY <1>7
<1>9. shape \in Seq(Dimension)
  <2>1. PICK sc \in Scenarios : g = sc.graph /\ HasLengths(sc)
    BY ValidGraph
  <2> QED BY <1>1, <1>5, <2>1, Zenon DEF HasLengths
<1>10. info.aliases[a] \in DOMAIN info.outputs
  BY <1>1, CheckedInUse DEF Checked
<1>11. PICK count : count = s.count
  OBVIOUS
<1>12. IsDynamic(shape[1]) => Match(shape[1], count)
  BY <1>1, <1>10, <1>11 DEF Counting
<1>13. PICK output : output = info.aliases[a]
  OBVIOUS
<1>14. dims = OutputDims(info, output, count) /\ shape = info.outputs[output].shape /\ count \in Nat
  BY <1>1, <1>6, <1>11, <1>13
<1>15. dims \in Seq(Int) /\ ShapeMatch(shape, dims)
  BY <1>9, <1>12, <1>14, OutputFits
<1> QED BY <1>1, <1>3, <1>4, <1>6, <1>8, <1>9, <1>15

LEMMA ResultsFit ==
  ASSUME Inv, definition.status = "OK", NEW r, NEW id, NEW n, n = id[1], Computes(NodeOf(g, n)),
         sessions[r][id].count \in Nat, Counting(g, n, sessions[r][id].count),
         ExitName(g) \in NodeNames(g), n \in Dependencies(g, ExitName(g)),
         NEW fetched, fetched = FetchResults(r, id), fetched[1] = "OK", NEW m \in DOMAIN fetched[2]
  PROVE  TensorsFit(g, n, fetched[2][m])
<1>1. PICK tensors, meta, info, results :
         tensors = Outputs(r, id) /\ meta = sessions[r][id].meta /\ info = NodeOf(g, n) /\ results = fetched[2]
  OBVIOUS
<1>2. fetched = Demultiply(n, meta, tensors)
  BY <1>1, FetchSucceeds DEF Computes
<1>3. \/ info.demultiply = {} /\ results[m] = tensors
      \/ /\ info.demultiply # {} /\ \A a \in DOMAIN tensors : ~(Len(tensors[a].dims) < 3)
         /\ \A a \in DOMAIN tensors : results[m][a].dims = Tail(tensors[a].dims)
  BY <1>1, <1>2, DemultiplyGives
<1>4. ASSUME NEW p \in g.connections[ExitName(g)][n]
      PROVE  /\ Declared(g, n, p[1]) \in Seq(Dimension)
             /\ results[m][p[1]].dims \in Seq(Int) /\ ShapeMatch(Declared(g, n, p[1]), results[m][p[1]].dims)
  <2>1. PICK a, dims, shape : /\ a = p[1] /\ dims = tensors[p[1]].dims
                              /\ shape = info.outputs[info.aliases[p[1]]].shape
    OBVIOUS
  <2>2. a \in DOMAIN tensors /\ shape \in Seq(Dimension) /\ dims \in Seq(Int) /\ ShapeMatch(shape, dims)
    BY <1>1, <2>1, OutputsFit
  <2>3. Declared(g, n, a) = IF info.demultiply = {} THEN shape ELSE Tail(shape)
    BY <1>1, <2>1 DEF Declared, Shard
  <2>4. CASE info.demultiply = {} /\ results[m] = tensors
    BY <2>1, <2>2, <2>3, <2>4
  <2>5. CASE /\ info.demultiply # {} /\ \A x \in DOMAIN tensors : ~(Len(tensors[x].dims) < 3)
             /\ \A x \in DOMAIN tensors : results[m][x].dims = Tail(tensors[x].dims)
    <3>1. ~(Len(dims) < 3) /\ results[m][a].dims = Tail(dims)
      BY <2>1, <2>2, <2>5
    <3>2. Tail(dims) \in Seq(Int) /\ Tail(shape) \in Seq(Dimension) /\ ShapeMatch(Tail(shape), Tail(dims))
      BY <2>2, <3>1, TailFits
    <3> QED BY <2>1, <2>3, <2>5, <3>1, <3>2
  <2> QED BY <1>3, <2>4, <2>5
<1> QED BY <1>1, <1>4 DEF TensorsFit

-----------------------------------------------------------------------------
(* The session of the exit *)

\* The numbers of results so far are ones that the metadata allows.
CountsFit(gr, counts) == \A n \in DOMAIN counts : Match(GatherDimension(NodeOf(gr, n)), counts[n])

LevelsFit(gr, levels) ==
    /\ Len(levels) = Len(Inside(gr)[ExitName(gr)]) /\ DOMAIN levels = 1..Len(levels)
    /\ \A i \in 1..Len(levels) :
          /\ levels[i][3] \in Nat
          /\ Match(GatherDimension(NodeOf(gr, Inside(gr)[ExitName(gr)][i])), levels[i][3])

\* f alone is answered under the name x.
Only(gr, x, f) ==
    f \in Feeds(gr, ExitName(gr)) /\ {h \in Feeds(gr, ExitName(gr)) : h[3] = x} = {f}

\* Something is answered under the name x.
Named(gr, x) == \E f \in Feeds(gr, ExitName(gr)) : f[3] = x

\* The lengths of one part, and of a whole tensor of the response.
PartFits(gr, x, dims) ==
    /\ Named(gr, x)
    /\ \A f : Only(gr, x, f) /\ f[1] # EntryName(gr) =>
          /\ Declared(gr, f[1], f[2]) \in Seq(Dimension)
          /\ dims \in Seq(Int) /\ ShapeMatch(Declared(gr, f[1], f[2]), dims)

Fits(gr, x, dims) ==
    /\ Named(gr, x)
    /\ \A f : Only(gr, x, f) /\ f[1] # EntryName(gr) =>
          ShapeMatch(NodeGatherShape(gr, NodeOf(gr, ExitName(gr))) \o Declared(gr, f[1], f[2]), dims)

\* The exit gathers all demultiplexers around its inputs.
GathersAll(gr) ==
    NodeOf(gr, ExitName(gr)).gather =
        {Inside(gr)[ExitName(gr)][i] : i \in 1..Len(Inside(gr)[ExitName(gr)])}

ExitShaped(gr, s) ==
    /\ GathersAll(gr) /\ LevelsFit(gr, s.levels)
    /\ \A x \in DOMAIN s.shards :
          DOMAIN s.shards[x] # {} /\ \A i \in DOMAIN s.shards[x] : PartFits(gr, x, s.shards[x][i].dims)
    /\ \A x \in DOMAIN s.inputs : Fits(gr, x, s.inputs[x].dims)

\* Gathering the parts.
LEMMA PartsGathered ==
  ASSUME NEW gr, Checked(gr), Dependencies(gr, ExitName(gr)) # {}, GathersAll(gr), NEW levels,
         LevelsFit(gr, levels), NEW x, NEW dims, PartFits(gr, x, dims)
  PROVE  Fits(gr, x, CollapsedSizes(levels) \o dims)
<1>1. PICK e, s, k : e = ExitName(gr) /\ s = Inside(gr)[e] /\ k = Len(s)
  OBVIOUS
<1>2. Valid(gr) /\ e \in NodeNames(gr) /\ s \in Seq(NodeNames(gr)) /\ k \in Nat
  BY <1>1, Nested DEF Checked
<1>3. PICK rank : Layered(gr, rank)
  BY DEF Checked
<1>4. PICK shape : shape = NodeGatherShape(gr, NodeOf(gr, e))
  OBVIOUS
<1>5. shape = [i \in 1..k |-> GatherDimension(NodeOf(gr, s[i]))]
  <2>1. Reached(gr, e)
    BY <1>1, <1>2 DEF Reached
  <2>2. NodeOf(gr, e).gather = {s[i] : i \in 1..Len(s)}
    BY <1>1 DEF GathersAll
  <2>3. NodeGatherShape(gr, NodeOf(gr, e)) = [i \in 1..Len(s) |-> GatherDimension(NodeOf(gr, s[i]))]
    BY <1>1, <1>3, <2>1, <2>2, GatheredShape
  <2> QED BY <1>1, <1>4, <2>3
<1>6. PICK T : T = Dimension \cup {shape[i] : i \in 1..k}
  OBVIOUS
<1>7. shape \in Seq(T) /\ Len(shape) = k
  <2>1. \A i \in 1..k : shape[i] \in T
    BY <1>6
  <2>2. shape = [i \in 1..k |-> shape[i]]
    BY <1>5
  <2> QED BY <1>2, <2>1, <2>2
<1>8. PICK sizes : sizes = CollapsedSizes(levels)
  OBVIOUS
<1>9. /\ Len(levels) = k /\ DOMAIN levels = 1..k
      /\ \A i \in 1..k : levels[i][3] \in Nat /\ Match(GatherDimension(NodeOf(gr, s[i])), levels[i][3])
  BY <1>1 DEF LevelsFit
<1>10. sizes = [i \in 1..k |-> levels[i][3]]
  BY <1>8, <1>9 DEF CollapsedSizes
<1>11. sizes \in Seq(Int) /\ Len(sizes) = k
  <2>1. \A i \in 1..k : sizes[i] \in Int
    BY <1>9, <1>10
  <2>2. sizes = [i \in 1..k |-> sizes[i]]
    BY <1>10
  <2> QED BY <1>2, <2>1, <2>2
<1>12. ShapeMatch(shape, sizes)
  <2>1. \A i \in 1..k : shape[i] = GatherDimension(NodeOf(gr, s[i])) /\ sizes[i] = levels[i][3]
    BY <1>5, <1>10
  <2>2. DOMAIN shape = 1..k
    BY <1>5
  <2> QED BY <1>7, <1>9, <1>11, <2>1, <2>2 DEF ShapeMatch
<1>13. ASSUME NEW f, Only(gr, x, f), f[1] # EntryName(gr)
       PROVE  ShapeMatch(shape \o Declared(gr, f[1], f[2]), sizes \o dims)
  <2>1. PICK b : b = Declared(gr, f[1], f[2])
    OBVIOUS
  <2>2. b \in Seq(Dimension) /\ dims \in Seq(Int) /\ ShapeMatch(b, dims)
    BY <1>13, <2>1 DEF PartFits
  <2>3. b \in Seq(T)
    BY <1>6, <2>2
  <2>4. ShapeMatch(shape \o b, sizes \o dims)
    BY <1>7, <1>11, <1>12, <2>2, <2>3, ConcatFits
  <2> QED BY <2>1, <2>4
<1>14. Named(gr, x)
  BY DEF PartFits
<1> QED BY <1>1, <1>4, <1>8, <1>13, <1>14 DEF Fits

LEMMA PartAlone ==
  ASSUME NEW gr, GathersAll(gr), Len(Inside(gr)[ExitName(gr)]) = 0, NEW x, NEW dims, PartFits(gr, x, dims)
  PROVE  Fits(gr, x, dims)
<1>1. NodeOf(gr, ExitName(gr)).gather = {}
  BY DEF GathersAll
<1>2. NodeGatherShape(gr, NodeOf(gr, ExitName(gr))) = <<>>
  BY <1>1 DEF NodeGatherShape
<1>3. ASSUME NEW f, Only(gr, x, f), f[1] # EntryName(gr)
      PROVE  ShapeMatch(<<>> \o Declared(gr, f[1], f[2]), dims)
  <2>1. PICK b : b = Declared(gr, f[1], f[2])
    OBVIOUS
  <2>2. b \in Seq(Dimension) /\ ShapeMatch(b, dims)
    BY <1>3, <2>1 DEF PartFits
  <2>3. <<>> \o b = b
    BY <2>2, ConcatEmptySeq
  <2> QED BY <2>1, <2>2, <2>3
<1>4. Named(gr, x)
  BY DEF PartFits
<1> QED BY <1>2, <1>3, <1>4 DEF Fits

\* notifyFinishedDependency.
LEMMA NotifiedFits ==
  ASSUME NEW gr, Checked(gr), Dependencies(gr, ExitName(gr)) # {}, NEW s, DOMAIN s = SessionFields,
         ExitShaped(gr, s), NEW notified, notified = NotifyFinishedDependency(s), notified[1] = "OK"
  PROVE  ExitShaped(gr, notified[2])
<1>1. PICK s2 : s2 = notified[2]
  OBVIOUS
<1>2. CASE s.levels # <<>> /\ s.remaining = 1
  <2>1. \A x \in DOMAIN s.shards : \A i \in DOMAIN s.shards[x] : s.shards[x][i].dims = s.shards[x][0].dims
    BY <1>2 DEF NotifyFinishedDependency
  <2>2. s2 = [s EXCEPT !.remaining = @ - 1,
                       !.inputs = [x \in DOMAIN s.shards |-> Consolidated(s.shards[x], s.levels)]]
    <3>1. ~\E x \in DOMAIN s.shards : \E i \in DOMAIN s.shards[x] : s.shards[x][i].dims # s.shards[x][0].dims
      BY <2>1
    <3> QED BY <1>1, <1>2, <3>1 DEF NotifyFinishedDependency
  <2>3. PICK inputs : inputs = [x \in DOMAIN s.shards |-> Consolidated(s.shards[x], s.levels)]
    OBVIOUS
  <2>4. s2.levels = s.levels /\ s2.shards = s.shards /\ s2.inputs = inputs
    BY <2>2, <2>3 DEF SessionFields
  <2>5. ASSUME NEW x \in DOMAIN inputs PROVE Fits(gr, x, inputs[x].dims)
    <3>1. PICK dims, levels : dims = s.shards[x][0].dims /\ levels = s.levels
      OBVIOUS
    <3>2. inputs[x].dims = CollapsedSizes(levels) \o dims
      BY <2>3, <3>1 DEF Consolidated
    <3>3. PICK i \in DOMAIN s.shards[x] : TRUE
      BY <2>3 DEF ExitShaped
    <3>4. PartFits(gr, x, dims)
      BY <2>1, <2>3, <3>1, <3>3 DEF ExitShaped
    <3>5. Fits(gr, x, CollapsedSizes(levels) \o dims)
      BY <3>1, <3>4, PartsGathered DEF ExitShaped
    <3> QED BY <3>2, <3>5
  <2> QED BY <1>1, <2>4, <2>5 DEF ExitShaped
<1>3. CASE ~(s.levels # <<>> /\ s.remaining = 1)
  <2>1. s2.levels = s.levels /\ s2.shards = s.shards /\ s2.inputs = s.inputs
    BY <1>1, <1>3 DEF NotifyFinishedDependency, SessionFields
  <2> QED BY <1>1, <2>1 DEF ExitShaped
<1> QED BY <1>2, <1>3

\* What the exit is given under a name is the one output answered under it.
LEMMA GivenFits ==
  ASSUME NEW gr, NEW n \in Dependencies(gr, ExitName(gr)), NEW tensors,
         n # EntryName(gr) => TensorsFit(gr, n, tensors), NEW pairs, pairs = gr.connections[ExitName(gr)][n],
         NEW x \in {p[2] : p \in pairs}, NEW t, t = tensors[(CHOOSE p \in pairs : p[2] = x)[1]]
  PROVE  PartFits(gr, x, t.dims)
<1>1. PICK p : p = CHOOSE y \in pairs : y[2] = x
  OBVIOUS
<1>2. p \in pairs /\ p[2] = x /\ t = tensors[p[1]]
  BY <1>1, Zenon
<1>3. PICK h : h = <<n, p[1], p[2]>>
  OBVIOUS
<1>4. h \in Feeds(gr, ExitName(gr)) /\ h[1] = n /\ h[2] = p[1] /\ h[3] = x
  BY <1>2, <1>3 DEF Feeds
<1>5. ASSUME NEW f, Only(gr, x, f), f[1] # EntryName(gr)
      PROVE  /\ Declared(gr, f[1], f[2]) \in Seq(Dimension)
             /\ t.dims \in Seq(Int) /\ ShapeMatch(Declared(gr, f[1], f[2]), t.dims)
  <2>1. f = h
    BY <1>4, <1>5 DEF Only
  <2>2. TensorsFit(gr, n, tensors)
    BY <1>4, <1>5, <2>1
  <2> QED BY <1>2, <1>4, <2>1, <2>2 DEF TensorsFit
<1>6. Named(gr, x)
  BY <1>4 DEF Named
<1> QED BY <1>5, <1>6 DEF PartFits

\* The levels of what is fed to the exit.
LEMMA ExitLevels ==
  ASSUME NEW gr, Checked(gr), NEW e, e = ExitName(gr), NEW meta, NEW counts,
         Metadata(gr, counts, Inside(gr)[e], meta), Known(gr, counts, e), CountsFit(gr, counts),
         NEW gather, gather = NodeOf(gr, e).gather
  PROVE  /\ CollapsedLevels(meta, gather) = meta /\ LevelsFit(gr, meta)
         /\ Collapsible(meta, gather) => GathersAll(gr)
<1>1. PICK s, k : s = Inside(gr)[e] /\ k = Len(s)
  OBVIOUS
<1>2. Valid(gr) /\ e \in NodeNames(gr) /\ NodeOf(gr, e).kind = "EXIT"
  BY DEF Checked
<1>3. Around(gr, e) = <<>>
  BY <1>2 DEF Valid, WellNested, Computes, Around
<1>4. s \in Seq(NodeNames(gr)) /\ k \in Nat /\ Cardinality(gather) = k
  <2>1. /\ s \in Seq(NodeNames(gr)) /\ k \in Nat /\ Cardinality(gather) \in Nat
        /\ Len(Around(gr, e)) = k - Cardinality(gather)
    BY <1>1, <1>2, Nested
  <2> QED BY <1>3, <2>1
<1>5. /\ meta \in Seq(NodeNames(gr) \X Nat \X Nat) /\ Len(meta) = k /\ DOMAIN meta = 1..k
      /\ \A i \in 1..k : meta[i][1] = s[i] /\ meta[i][3] = counts[s[i]] /\ meta[i][3] \in Nat
  <2>1. meta \in Seq(NodeNames(gr) \X Nat \X Nat) /\ Len(meta) = k
    BY <1>1 DEF Metadata
  <2>2. DOMAIN meta = 1..k /\ \A i \in 1..k : meta[i] \in NodeNames(gr) \X Nat \X Nat
    BY <2>1
  <2>3. \A i \in 1..k : meta[i][1] = s[i] /\ meta[i][3] = counts[meta[i][1]]
    BY <1>1, <2>2 DEF Metadata
  <2> QED BY <2>1, <2>2, <2>3
<1>6. CollapsedLevels(meta, gather) = meta
  <2>1. k - k + 1 = 1 /\ SubSeq(meta, 1, k) = meta
    BY <1>4, <1>5
  <2> QED BY <1>4, <1>5, <2>1 DEF CollapsedLevels
<1>7. LevelsFit(gr, meta)
  <2>1. \A i \in 1..k : s[i] \in DOMAIN counts
    BY <1>1, <1>4 DEF Known
  <2>2. \A i \in 1..k : Match(GatherDimension(NodeOf(gr, s[i])), meta[i][3])
    BY <1>5, <2>1 DEF CountsFit
  <2> QED BY <1>1, <1>5, <2>2 DEF LevelsFit
<1>8. ASSUME Collapsible(meta, gather) PROVE GathersAll(gr)
  <2>1. {meta[i][1] : i \in (Len(meta) - Cardinality(gather) + 1)..Len(meta)} = gather
    BY <1>8 DEF Collapsible
  <2>2. Len(meta) - Cardinality(gather) + 1 = 1 /\ Len(meta) = k
    BY <1>4, <1>5
  <2>3. {meta[i][1] : i \in 1..k} = gather
    BY <2>1, <2>2
  <2>4. {s[i] : i \in 1..k} = gather
    <3>1. \A i \in 1..k : meta[i][1] = s[i]
      BY <1>5
    <3>2. {meta[i][1] : i \in 1..k} = {s[i] : i \in 1..k}
      BY <3>1
    <3> QED BY <2>3, <3>2
  <2> QED BY <1>1, <2>4 DEF GathersAll
<1> QED BY <1>6, <1>7, <1>8

\* One result is set in the session of the exit.
LEMMA SetFits ==
  ASSUME NEW gr, NEW s, DOMAIN s = SessionFields, ExitShaped(gr, s), NEW levels, LevelsFit(gr, levels),
         NEW fed, \A x \in DOMAIN fed : PartFits(gr, x, fed[x].dims), NEW shardId,
         NEW set, set = IF levels = <<>> THEN SetInput(s, fed) ELSE SetShard(s, fed, shardId)
  PROVE  DOMAIN set = SessionFields /\ ExitShaped(gr, set)
<1>1. CASE levels = <<>>
  <2>1. PICK inputs : inputs = [x \in DOMAIN s.inputs \cup DOMAIN fed |->
                                  IF x \in DOMAIN fed THEN fed[x] ELSE s.inputs[x]]
    OBVIOUS
  <2>2. set = [s EXCEPT !.inputs = inputs]
    BY <1>1, <2>1 DEF SetInput, SessionFields
  <2>3. /\ DOMAIN set = SessionFields /\ set.levels = s.levels /\ set.shards = s.shards
        /\ set.inputs = inputs
    BY <2>2 DEF SessionFields
  <2>4. Len(Inside(gr)[ExitName(gr)]) = 0 /\ GathersAll(gr)
    BY <1>1 DEF LevelsFit, ExitShaped
  <2>5. ASSUME NEW x \in DOMAIN inputs PROVE Fits(gr, x, inputs[x].dims)
    <3>1. CASE x \in DOMAIN fed
      <4>1. PICK dims : dims = fed[x].dims
        OBVIOUS
      <4>2. Fits(gr, x, dims)
        BY <2>4, <3>1, <4>1, PartAlone
      <4> QED BY <2>1, <3>1, <4>1, <4>2
    <3>2. CASE x \notin DOMAIN fed
      BY <2>1, <3>2 DEF ExitShaped
    <3> QED BY <3>1, <3>2
  <2> QED BY <2>3, <2>5 DEF ExitShaped
<1>2. CASE levels # <<>>
  <2>1. PICK shards : shards = [x \in DOMAIN s.shards \cup DOMAIN fed |->
                                  IF x \in DOMAIN fed THEN Put(ShardsOf(s, x), shardId, fed[x]) ELSE s.shards[x]]
    OBVIOUS
  <2>2. set = [s EXCEPT !.shards = shards]
    BY <1>2, <2>1 DEF SetShard, SessionFields
  <2>3. /\ DOMAIN set = SessionFields /\ set.levels = s.levels /\ set.shards = shards
        /\ set.inputs = s.inputs
    BY <2>2 DEF SessionFields
  <2>4. ASSUME NEW x \in DOMAIN shards
        PROVE  DOMAIN shards[x] # {} /\ \A i \in DOMAIN shards[x] : PartFits(gr, x, shards[x][i].dims)
    <3>1. CASE x \in DOMAIN fed
      <4>1. PICK old, new : old = ShardsOf(s, x) /\ new = shards[x]
        OBVIOUS
      <4>2. new = Put(old, shardId, fed[x])
        BY <2>1, <3>1, <4>1
      <4>3. /\ DOMAIN new = DOMAIN old \cup {shardId} /\ new[shardId] = fed[x]
            /\ \A i \in DOMAIN old \ {shardId} : new[i] = old[i]
        BY <4>2 DEF Put
      <4>4. \A i \in DOMAIN old : PartFits(gr, x, old[i].dims)
        <5>1. CASE x \in DOMAIN s.shards
          BY <4>1, <5>1 DEF ShardsOf, ExitShaped
        <5>2. CASE x \notin DOMAIN s.shards
          <6>1. old = <<>>
            BY <4>1, <5>2 DEF ShardsOf
          <6>2. DOMAIN old = {}
            BY <6>1
          <6> QED BY <6>2
        <5> QED BY <5>1, <5>2
      <4>5. ASSUME NEW i \in DOMAIN new PROVE PartFits(gr, x, new[i].dims)
        <5>1. CASE i = shardId
          BY <3>1, <4>3, <5>1
        <5>2. CASE i # shardId
          BY <4>3, <4>4, <5>2
        <5> QED BY <5>1, <5>2
      <4> QED BY <4>1, <4>3, <4>5
    <3>2. CASE x \notin DOMAIN fed
      BY <2>1, <3>2 DEF ExitShaped
    <3> QED BY <3>1, <3>2
  <2> QED BY <2>3, <2>4 DEF ExitShaped
<1> QED BY <1>1, <1>2

\* The sessions of the exit, as long as there was no error.
Fielded(sess) == \A x \in DOMAIN sess : DOMAIN sess[x] = SessionFields
Exits(gr, sess) == \A x \in DOMAIN sess : x[1] = ExitName(gr) => ExitShaped(gr, sess[x])
Served(gr, acc) == Fielded(acc[2]) /\ (acc[1] = "OK" => Exits(gr, acc[2]))

LEMMA NewExit ==
  ASSUME NEW gr, NEW n, NEW c, NEW levels, LevelsFit(gr, levels), GathersAll(gr), NEW s,
         s = NewSession(n, c, levels)
  PROVE  DOMAIN s = SessionFields /\ ExitShaped(gr, s)
<1>1. DOMAIN s = SessionFields /\ s.levels = levels /\ s.shards = <<>> /\ s.inputs = <<>>
  BY DEF NewSession, SessionFields
<1>2. DOMAIN s.shards = {} /\ DOMAIN s.inputs = {}
  BY <1>1
<1> QED BY <1>1, <1>2 DEF ExitShaped

\* Node::setInputs of the exit.
LEMMA ExitSet ==
  ASSUME Checked(g), NEW e, e = ExitName(g), NEW n \in Dependencies(g, e), NEW meta, NEW counts,
         Metadata(g, counts, Inside(g)[e], meta), Known(g, counts, e), CountsFit(g, counts), NEW tensors,
         n # EntryName(g) => TensorsFit(g, n, tensors), NEW acc, Fielded(acc[2]), Exits(g, acc[2]),
         NEW acc2, acc2 = SetInputs(e, n, meta, tensors, acc), acc2[1] = "OK"
  PROVE  Exits(g, acc2[2])
<1>1. PICK gather, c : gather = NodeOf(g, e).gather /\ c = CollapsedMetadata(meta, NodeOf(g, e).gather)
  OBVIOUS
<1>2. PICK levels : levels = CollapsedLevels(meta, gather)
  OBVIOUS
<1>3. PICK t : t = <<e, Key(c)>>
  OBVIOUS
<1>4. PICK s : s = IF t \in DOMAIN acc[2] THEN acc[2][t] ELSE NewSession(e, c, levels)
  OBVIOUS
<1>6. PICK fed : fed = [x \in {p[2] : p \in g.connections[e][n]} |->
                          tensors[(CHOOSE p \in g.connections[e][n] : p[2] = x)[1]]]
  OBVIOUS
<1>7. PICK set : set = IF levels = <<>> THEN SetInput(s, fed) ELSE SetShard(s, fed, ShardId(levels))
  OBVIOUS
<1>8. PICK notified : notified = NotifyFinishedDependency(set)
  OBVIOUS
<1>9. acc[1] = "OK" /\ Collapsible(meta, gather) /\ acc2 = <<notified[1], Put(acc[2], t, notified[2])>>
  <2>1. PICK status : status = IF levels = <<>> THEN SetInputStatus(s, g.connections[e][n])
                               ELSE SetShardStatus(s, g.connections[e][n], ShardId(levels))
    OBVIOUS
  <2>2. acc2 = IF acc[1] # "OK" THEN acc
               ELSE IF ~Collapsible(meta, gather) THEN <<"INTERNAL_ERROR", acc[2]>>
               ELSE IF status # "OK" THEN <<status, acc[2]>>
               ELSE <<notified[1], Put(acc[2], t, notified[2])>>
    <3>1. c = CollapsedMetadata(meta, NodeOf(g, e).gather) /\ levels = CollapsedLevels(meta, NodeOf(g, e).gather)
      BY <1>1, <1>2
    <3>2. acc2 = IF acc[1] # "OK" THEN acc
                 ELSE IF ~Collapsible(meta, NodeOf(g, e).gather) THEN <<"INTERNAL_ERROR", acc[2]>>
                 ELSE IF status # "OK" THEN <<status, acc[2]>>
                 ELSE <<notified[1], Put(acc[2], t, notified[2])>>
      BY <1>3, <1>4, <1>6, <1>7, <1>8, <2>1, <3>1, Zenon DEF SetInputs
    <3> QED BY <1>1, <3>2
  <2>3. CASE acc[1] # "OK"
    BY <2>2, <2>3
  <2>4. CASE acc[1] = "OK" /\ ~Collapsible(meta, gather)
    BY <2>2, <2>4
  <2>5. CASE acc[1] = "OK" /\ Collapsible(meta, gather) /\ status # "OK"
    BY <2>2, <2>5
  <2>6. CASE acc[1] = "OK" /\ Collapsible(meta, gather) /\ status = "OK"
    BY <2>2, <2>6
  <2> QED BY <2>3, <2>4, <2>5, <2>6
<1>10. levels = meta /\ LevelsFit(g, levels) /\ GathersAll(g)
  BY <1>1, <1>2, <1>9, ExitLevels
<1>11. DOMAIN s = SessionFields /\ ExitShaped(g, s)
  <2>1. CASE t \in DOMAIN acc[2]
    <3>1. t[1] = e
      BY <1>3
    <3> QED BY <1>4, <2>1, <3>1 DEF Fielded, Exits
  <2>2. CASE t \notin DOMAIN acc[2]
    BY <1>4, <1>10, <2>2, NewExit
  <2> QED BY <2>1, <2>2
<1>12. \A x \in DOMAIN fed : PartFits(g, x, fed[x].dims)
  <2>1. TAKE x \in DOMAIN fed
  <2>2. x \in {p[2] : p \in g.connections[e][n]}
    BY <1>6
  <2>3. PICK f : f = fed[x]
    OBVIOUS
  <2>4. f = tensors[(CHOOSE p \in g.connections[e][n] : p[2] = x)[1]]
    BY <1>6, <2>2, <2>3, Zenon
  <2>5. PartFits(g, x, f.dims)
    BY <2>2, <2>4, GivenFits
  <2> QED BY <2>3, <2>5
<1>13. DOMAIN set = SessionFields /\ ExitShaped(g, set)
  BY <1>7, <1>10, <1>11, <1>12, SetFits
<1>14. notified[1] = "OK"
  BY <1>9
<1>15. ExitShaped(g, notified[2])
  BY <1>8, <1>13, <1>14, NotifiedFits
<1>16. PICK S, s2 : S = acc[2] /\ s2 = notified[2]
  OBVIOUS
<1>17. acc2[2] = Put(S, t, s2)
  BY <1>9, <1>16
<1>18. Exits(g, Put(S, t, s2))
  BY <1>15, <1>16 DEF Exits, Put
<1> QED BY <1>17, <1>18

\* One result is fed.
LEMMA ServedMore ==
  ASSUME NEW n, NEW m, NEW meta, NEW tensors, NEW acc, Served(g, acc), NEW acc2,
         acc2 = SetInputs(m, n, meta, tensors, acc),
         m = ExitName(g) /\ acc2[1] = "OK" /\ Exits(g, acc[2]) => Exits(g, acc2[2])
  PROVE  Served(g, acc2)
<1>1. SetOnce(g, m, meta, acc, acc2)
  BY InputSet DEF Served, Fielded
<1>2. CASE acc2[1] # "OK" /\ acc2[2] = acc[2]
  BY <1>2 DEF Served
<1>3. CASE acc[1] = "OK" /\ ~(acc2[1] # "OK" /\ acc2[2] = acc[2])
  <2>1. PICK t, s2 : t[1] = m /\ DOMAIN s2 = SessionFields /\ acc2[2] = Put(acc[2], t, s2)
    <3>1. PICK c, t, s, s2 : /\ c = CollapsedMetadata(meta, NodeOf(g, m).gather) /\ t = <<m, Key(c)>>
                             /\ Notified(s, s2) /\ acc2[2] = Put(acc[2], t, s2)
      BY <1>1, <1>3, Zenon DEF SetOnce
    <3> QED BY <3>1 DEF Notified
  <2>2. Fielded(acc2[2])
    BY <2>1 DEF Served, Fielded, Put
  <2>3. Exits(g, acc[2])
    BY <1>3 DEF Served
  <2>4. acc2[1] = "OK" => Exits(g, acc2[2])
    <3>1. CASE m = ExitName(g)
      BY <2>3, <3>1
    <3>2. CASE m # ExitName(g)
      BY <2>1, <2>3, <3>2 DEF Exits, Put
    <3> QED BY <3>1, <3>2
  <2> QED BY <2>2, <2>4 DEF Served
<1> QED BY <1>1, <1>2, <1>3 DEF SetOnce

\* What is fed to the exit fits.
Serves(gr, counts, n, results) ==
    n \in Dependencies(gr, ExitName(gr)) =>
        /\ Known(gr, counts, ExitName(gr)) /\ CountsFit(gr, counts)
        /\ \A m \in DOMAIN results :
              /\ Metadata(gr, counts, Inside(gr)[ExitName(gr)], m)
              /\ n # EntryName(gr) => TensorsFit(gr, n, results[m])

LEMMA ExitFed ==
  ASSUME Checked(g), NEW n, NEW counts, NEW results, IsFiniteSet(DOMAIN results),
         Serves(g, counts, n, results), NEW others, Fielded(others), Exits(g, others)
  PROVE  Served(g, Feed(n, results, others))
<1>1. PICK W : W = NextNodes(n) \X DOMAIN results
  OBVIOUS
<1>2. IsFiniteSet(W)
  <2>1. NextNodes(n) \in SUBSET NodeNames(g) /\ IsFiniteSet(NodeNames(g))
    BY DEF Checked, Valid, NextNodes
  <2>2. IsFiniteSet(NextNodes(n))
    BY <2>1, FS_Subset
  <2> QED BY <1>1, <2>2, FS_Product
<1>3. PICK f : IsFeed(n, results, others, W, f)
  BY <1>1, <1>2, FeedComputes
<1> DEFINE right(s) == Served(g, f[s])
           wrong == {k \in Nat : \E s \in SUBSET W : Cardinality(s) = k /\ ~right(s)}
<1>4. right({})
  <2>1. PICK acc : acc = f[{}]
    OBVIOUS
  <2>2. acc[1] = "OK" /\ acc[2] = others
    BY <1>3, <2>1 DEF IsFeed
  <2>3. Served(g, acc)
    BY <2>2 DEF Served
  <2> QED BY <2>1, <2>3
<1>5. wrong = {}
  <2>1. SUFFICES ASSUME wrong # {} PROVE FALSE
    OBVIOUS
  <2>2. wrong \in SUBSET Nat
    OBVIOUS
  <2>3. PICK k \in wrong : \A j \in wrong : k <= j
    BY <2>1, <2>2, LeastNumber
  <2>4. PICK s \in SUBSET W : Cardinality(s) = k /\ ~right(s)
    OBVIOUS
  <2>5. s # {}
    BY <1>4, <2>4
  <2>6. PICK w \in s : f[s] = SetInputs(w[1], n, w[2], results[w[2]], f[s \ {w}])
    BY <1>3, <2>5, Zenon DEF IsFeed
  <2>7. PICK D : D = s \ {w}
    OBVIOUS
  <2>8. D \in SUBSET W /\ w \in W
    BY <2>7
  <2>9. Cardinality(D) \in Nat /\ ~(k <= Cardinality(D))
    <3>1. IsFiniteSet(s) /\ Cardinality(s) \in Nat
      BY <1>2, FS_Subset, FS_CardinalityType
    <3>2. Cardinality(D) = Cardinality(s) - 1 /\ IsFiniteSet(D)
      BY <2>7, <3>1, FS_RemoveElement
    <3>3. Cardinality(D) \in Nat
      BY <3>2, FS_CardinalityType
    <3> QED BY <2>4, <3>1, <3>2, <3>3
  <2>10. right(D)
    BY <2>3, <2>8, <2>9
  <2>11. PICK acc, acc2, m, meta, tensors :
            /\ acc = f[D] /\ acc2 = f[s] /\ m = w[1] /\ meta = w[2] /\ tensors = results[meta]
    OBVIOUS
  <2>12. Served(g, acc)
    BY <2>10, <2>11
  <2>13. acc2 = SetInputs(m, n, meta, tensors, acc)
    BY <2>6, <2>7, <2>11
  <2>14. m \in NextNodes(n) /\ meta \in DOMAIN results
    BY <1>1, <2>8, <2>11
  <2>15. ASSUME m = ExitName(g), acc2[1] = "OK", Exits(g, acc[2]) PROVE Exits(g, acc2[2])
    <3>1. n \in Dependencies(g, m)
      BY <2>14 DEF NextNodes
    <3>2. /\ Known(g, counts, m) /\ CountsFit(g, counts) /\ Metadata(g, counts, Inside(g)[m], meta)
          /\ n # EntryName(g) => TensorsFit(g, n, tensors)
      BY <2>11, <2>14, <2>15, <3>1 DEF Serves
    <3>3. Fielded(acc[2])
      BY <2>12 DEF Served
    <3> QED BY <2>13, <2>15, <3>1, <3>2, <3>3, ExitSet
  <2>16. Served(g, acc2)
    BY <2>12, <2>13, <2>15, ServedMore
  <2> QED BY <2>4, <2>11, <2>16
<1>6. Cardinality(W) \in Nat /\ W \in SUBSET W
  BY <1>2, FS_CardinalityType
<1>7. right(W)
  BY <1>5, <1>6
<1>8. Feed(n, results, others) = f[W]
  BY <1>3 DEF IsFeed
<1> QED BY <1>7, <1>8

\* demultiplyOutputs counts the parts of one of the outputs.
PartsOfOne(info, tensors, size) ==
    /\ size \in Nat \ {0} /\ info.demultiply \in {{-1}, {size}}
    /\ \E a \in DOMAIN tensors : size = tensors[a].dims[1] /\ ~(Len(tensors[a].dims) < 3)

LEMMA PartsCounted ==
  ASSUME Inv, definition.status = "OK", NEW r, NEW id, NEW n, n = id[1], n \in NodeNames(g), NEW meta,
         meta = sessions[r][id].meta, meta \in Seq(NodeNames(g) \X Nat \X Nat),
         sessions[r][id].count \in Nat, Requested(g, req[r].request), NEW fetched,
         fetched = FetchResults(r, id), fetched[1] = "OK", NEW M, M = DOMAIN fetched[2],
         NodeOf(g, n).demultiply # {}, NEW tensors, tensors = Outputs(r, id)
  PROVE  PartsOfOne(NodeOf(g, n), tensors, SizeOf(M))
<1>1. PICK info, first : /\ info = NodeOf(g, n)
                         /\ first = tensors[CHOOSE a \in DOMAIN tensors : TRUE].dims[1]
  OBVIOUS
<1>2. Valid(g)
  BY ValidInUse
<1>3. info.kind # "EXIT" /\ \E c : info.demultiply = {c}
  <2>1. PICK m \in NodeNames(g) : n \in Dependencies(g, m)
    BY <1>2 DEF Valid, WellConnected
  <2> QED BY <1>1, <1>2, <2>1 DEF Valid, WellConnected
<1>4. fetched = Demultiply(n, meta, tensors)
  BY <1>1, <1>3, FetchSucceeds
<1>5. /\ first # 0 /\ \A a \in DOMAIN tensors : ~(Len(tensors[a].dims) < 3)
      /\ info.demultiply # {-1} => \A a \in DOMAIN tensors : tensors[a].dims[1] \in info.demultiply
      /\ M = GenerateSubsessions(meta, n, first)
  <2>1. \/ info.demultiply = {} /\ M = {meta}
        \/ /\ info.demultiply # {} /\ first # 0
           /\ \A a \in DOMAIN tensors : ~(Len(tensors[a].dims) < 3)
           /\ info.demultiply # {-1} => \A a \in DOMAIN tensors : tensors[a].dims[1] \in info.demultiply
           /\ M = GenerateSubsessions(meta, n, first)
    BY <1>1, <1>4, DemultiplySucceeds
  <2> QED BY <1>1, <2>1
<1>6. PICK a \in DOMAIN tensors : first = tensors[a].dims[1]
  <2>1. DOMAIN tensors # {}
    BY <1>2, SomeOutput
  <2> QED BY <1>1, <2>1
<1>7. first \in Nat \ {0}
  <2>1. ~(Len(tensors[a].dims) < 3)
    BY <1>5
  <2>2. tensors[a].dims[1] \in Nat
    BY <2>1, FirstLength
  <2> QED BY <1>5, <1>6, <2>2
<1>8. info.demultiply \in {{-1}, {first}}
  BY <1>3, <1>5, <1>6
<1>9. SizeOf(M) = first
  <2>1. M # {} /\ \A m \in M : Last(m)[3] = first
    BY <1>5, <1>7, PartSizes
  <2>2. {Last(m)[3] : m \in M} = {first}
    BY <2>1
  <2> QED BY <2>2 DEF SizeOf
<1> QED BY <1>1, <1>5, <1>6, <1>7, <1>8, <1>9 DEF PartsOfOne

\* The output that getNodeGatherShape looks at has as many parts.
LEMMA OutputsAgree ==
  ASSUME NEW gr, EvenOutputs(gr), NEW n \in NodeNames(gr), NEW info, info = NodeOf(gr, n),
         info.kind = "CUSTOM", info.demultiply = {-1}, NEW count \in Nat, Counting(gr, n, count),
         NEW o \in DOMAIN info.outputs, NEW p \in DOMAIN info.outputs, NEW d, d = info.outputs[o].shape[1],
         d \in Dimension, NEW size \in Nat, size = IF IsDynamic(d) THEN count ELSE d[1]
  PROVE  Match(info.outputs[p].shape[1], size)
<1>1. PICK e : e = info.outputs[p].shape[1]
  OBVIOUS
<1>2. Match(d, d[1]) /\ \A v \in Nat : ~IsDynamic(d) /\ Match(d, v) => v = d[1]
  BY LeastMatches
<1>3. CASE \A x \in DOMAIN info.outputs : ~IsDynamic(info.outputs[x].shape[1])
  <2>1. ~IsDynamic(d) /\ ~IsDynamic(e)
    BY <1>1, <1>3
  <2>2. d = e
    <3>1. info \in Infos(gr)
      BY NodeFound
    <3>2. IsDynamic(info.outputs[o].shape[1]) \/ IsDynamic(info.outputs[p].shape[1])
             \/ info.outputs[o].shape[1] = info.outputs[p].shape[1]
      BY <3>1, Zenon DEF EvenOutputs
    <3> QED BY <1>1, <2>1, <3>2
  <2> QED BY <1>1, <1>2, <2>1, <2>2
<1>4. CASE \A x \in DOMAIN info.outputs : Match(info.outputs[x].shape[1], count)
  <2>1. Match(d, count) /\ Match(e, count)
    BY <1>1, <1>4
  <2>2. size = count
    BY <1>2, <2>1
  <2> QED BY <1>1, <2>1, <2>2
<1> QED BY <1>3, <1>4 DEF Counting

\* The number of parts is one that the metadata allows.
LEMMA PartsFit ==
  ASSUME Inv, definition.status = "OK", EvenOutputs(g), NEW r, NEW id, NEW n, n = id[1], n \in NodeNames(g),
         NEW meta, meta = sessions[r][id].meta, meta \in Seq(NodeNames(g) \X Nat \X Nat),
         sessions[r][id].count \in Nat, Requested(g, req[r].request), NEW fetched,
         fetched = FetchResults(r, id), fetched[1] = "OK", NEW M, M = DOMAIN fetched[2],
         NodeOf(g, n).demultiply # {},
         Computes(NodeOf(g, n)) => Counting(g, n, sessions[r][id].count)
  PROVE  Match(GatherDimension(NodeOf(g, n)), SizeOf(M))
<1>1. PICK info, c, tensors : info = NodeOf(g, n) /\ c = SizeOf(M) /\ tensors = Outputs(r, id)
  OBVIOUS
<1>2. PICK a \in DOMAIN tensors : /\ c = tensors[a].dims[1] /\ c \in Nat \ {0}
                                  /\ ~(Len(tensors[a].dims) < 3) /\ info.demultiply \in {{-1}, {c}}
  <2>1. PartsOfOne(info, tensors, c)
    BY <1>1, PartsCounted
  <2> QED BY <2>1 DEF PartsOfOne
<1>3. PICK k : k = CHOOSE x \in info.demultiply : TRUE
  OBVIOUS
<1>4. GatherDimension(info) =
         IF k > 0 THEN <<k, k>>
         ELSE IF info.kind = "CUSTOM" THEN info.outputs[CHOOSE o \in DOMAIN info.outputs : TRUE].shape[1]
         ELSE AnyDimension
  BY <1>3 DEF GatherDimension
<1>5. CASE info.demultiply = {c}
  <2>1. k = c
    BY <1>3, <1>5
  <2>2. GatherDimension(info) = <<c, c>>
    BY <1>2, <1>4, <2>1
  <2> QED BY <1>1, <1>2, <2>2 DEF Match
<1>6. CASE info.demultiply = {-1} /\ info.kind # "CUSTOM"
  <2>1. k = -1
    BY <1>3, <1>6
  <2>2. GatherDimension(info) = AnyDimension
    BY <1>4, <1>6, <2>1
  <2> QED BY <1>1, <1>2, <2>2 DEF Match, IsAny
<1>7. CASE info.demultiply = {-1} /\ info.kind = "CUSTOM"
  <2>1. PICK p : p = CHOOSE o \in DOMAIN info.outputs : TRUE
    OBVIOUS
  <2>2. k = -1
    BY <1>3, <1>7
  <2>3. GatherDimension(info) = info.outputs[p].shape[1]
    BY <1>4, <1>7, <2>1, <2>2
  <2>4. PICK m, w : m \in NodeNames(g) /\ n \in Dependencies(g, m) /\ w \in g.connections[m][n] /\ a = w[1]
    <3>1. DOMAIN tensors = {x[1] : x \in UNION {g.connections[y][n] : y \in NextNodes(n)}}
      BY <1>1 DEF Outputs
    <3>2. PICK m \in NextNodes(n) : \E w \in g.connections[m][n] : a = w[1]
      BY <3>1
    <3> QED BY <3>2 DEF NextNodes
  <2>5. PICK o, shape, dims, count : /\ o = info.aliases[a] /\ shape = info.outputs[o].shape
                                     /\ dims = tensors[a].dims /\ count = sessions[r][id].count
    OBVIOUS
  <2>6. Computes(info) /\ Counting(g, n, count) /\ count \in Nat
    BY <1>1, <1>7, <2>5 DEF Computes
  <2>7. /\ shape \in Seq(Dimension) /\ dims = OutputDims(info, o, count) /\ ShapeMatch(shape, dims)
        /\ dims \in Seq(Int)
    BY <1>1, <2>4, <2>5, <2>6, OutputsFit
  <2>8. o \in DOMAIN info.outputs
    <3>1. Checked(g)
      BY CheckedInUse
    <3> QED BY <1>1, <2>4, <2>5, <2>6, <3>1 DEF Checked
  <2>9. p \in DOMAIN info.outputs
    BY <2>1, <2>8
  <2>10. PICK d : d = shape[1]
    OBVIOUS
  <2>11. 1 \in DOMAIN shape /\ d \in Dimension
    <3>1. Len(shape) = Len(dims) /\ Len(shape) \in Nat /\ ~(Len(dims) < 3) /\ Len(dims) \in Nat
      BY <1>2, <2>5, <2>7 DEF ShapeMatch
    <3> QED BY <2>7, <2>10, <3>1
  <2>12. c = IF IsDynamic(d) THEN count ELSE d[1]
    <3>1. dims = [i \in DOMAIN shape |-> IF i = 1 /\ IsDynamic(shape[1]) THEN count ELSE shape[i][1]]
      BY <2>5, <2>7 DEF OutputDims
    <3>2. c = dims[1]
      BY <1>2, <2>5
    <3> QED BY <2>10, <2>11, <3>1, <3>2
  <2>13. c \in Nat /\ d = info.outputs[o].shape[1]
    BY <1>2, <2>5, <2>10
  <2>14. Match(info.outputs[p].shape[1], c)
    BY <1>1, <1>7, <2>6, <2>8, <2>9, <2>11, <2>12, <2>13, OutputsAgree
  <2> QED BY <1>1, <2>3, <2>14
<1> QED BY <1>2, <1>5, <1>6, <1>7

\* Exactly one output of a node is answered under this name.
OneSource(gr, x) ==
    \E f \in Feeds(gr, ExitName(gr)) :
        {h \in Feeds(gr, ExitName(gr)) : h[3] = x} = {f}

\* No two outputs of nodes are answered under the same name.
AnsweredOnce(gr) == \A f, h \in Feeds(gr, ExitName(gr)) : f[3] = h[3] => f = h

\* A tensor of the response that fits has the shape that updateOutputsInfo
\* declares for its name.
LEMMA FitsDeclared ==
  ASSUME NEW gr, Checked(gr), GathersAll(gr), NEW x, OneSource(gr, x), NEW dims, Fits(gr, x, dims),
         \A d \in Dependencies(gr, ExitName(gr)) : \A p \in gr.connections[ExitName(gr)][d] :
             NodeOf(gr, d).kind # "ENTRY" =>
                 NodeOf(gr, d).outputs[NodeOf(gr, d).aliases[p[1]]].shape \in Seq(Dimension)
  PROVE  \/ OutputsInfo(gr)[x] = UnspecifiedTensorInfo
         \/ ShapeMatch(OutputsInfo(gr)[x].shape, dims)
<1>1. PICK e, exit : e = ExitName(gr) /\ exit = NodeOf(gr, e)
  OBVIOUS
<1>2. Valid(gr) /\ e \in NodeNames(gr) /\ exit.name = e
  BY <1>1, NodeFound DEF Checked
<1>3. PICK f \in Feeds(gr, e) : {h \in Feeds(gr, e) : h[3] = x} = {f}
  BY <1>1 DEF OneSource
<1>4. f[3] = x /\ (CHOOSE h \in Feeds(gr, e) : h[3] = x) = f
  <2>1. f[3] = x /\ \A h \in Feeds(gr, e) : h[3] = x => h = f
    BY <1>3
  <2> QED BY <2>1
<1>5. PICK d, dep, out, shape : /\ d = f[1] /\ dep = NodeOf(gr, d) /\ out = dep.outputs[dep.aliases[f[2]]]
                                /\ shape = NodeGatherShape(gr, exit)
  OBVIOUS
<1>6. OutputsInfo(gr)[x] = IF d = EntryName(gr) THEN UnspecifiedTensorInfo
                           ELSE PipelineOutputInfo(out, shape, dep.demultiply # {})
  <2> DEFINE source(y) == CHOOSE h \in Feeds(gr, NodeOf(gr, ExitName(gr)).name) : h[3] = y
             info(h) == IF h[1] = EntryName(gr) THEN UnspecifiedTensorInfo
                        ELSE PipelineOutputInfo(NodeOf(gr, h[1]).outputs[NodeOf(gr, h[1]).aliases[h[2]]],
                                                NodeGatherShape(gr, NodeOf(gr, ExitName(gr))), NodeOf(gr, h[1]).demultiply # {})
             names == {h[3] : h \in Feeds(gr, NodeOf(gr, ExitName(gr)).name)}
  <2>1. OutputsInfo(gr) = [y \in names |-> info(source(y))]
    BY Zenon DEF OutputsInfo
  <2>2. x \in names
    BY <1>1, <1>2, <1>3, <1>4
  <2>3. source(x) = f
    BY <1>1, <1>2, <1>4
  <2>4. OutputsInfo(gr)[x] = info(f)
    <3>1. OutputsInfo(gr)[x] = info(source(x))
      BY <2>1, <2>2, Zenon
    <3> QED BY <2>3, <3>1
  <2> QED BY <1>1, <1>5, <2>4
<1>7. CASE d = EntryName(gr)
  BY <1>6, <1>7
<1>8. CASE d # EntryName(gr)
  <2>1. PICK p : d \in Dependencies(gr, e) /\ p \in gr.connections[e][d] /\ f[2] = p[1]
    BY <1>3, <1>5 DEF Feeds
  <2>2. d \in NodeNames(gr) /\ dep.kind # "ENTRY"
    <3>1. d \in NodeNames(gr)
      BY <1>2, <2>1, Nested
    <3> QED BY <1>5, <1>8, <3>1 DEF Checked
  <2>3. out.shape \in Seq(Dimension)
    BY <1>1, <1>5, <2>1, <2>2
  <2>4. PICK declared : declared = Declared(gr, d, f[2])
    OBVIOUS
  <2>5. declared = IF dep.demultiply = {} THEN out.shape ELSE Tail(out.shape)
    BY <1>5, <2>4 DEF Declared, Shard
  <2>6. ShapeMatch(shape \o declared, dims)
    <3>1. Only(gr, x, f)
      BY <1>1, <1>3 DEF Only
    <3> QED BY <1>1, <1>5, <1>8, <2>4, <3>1 DEF Fits
  <2>7. CASE shape # <<>>
    <3>1. PICK all : all = shape \o (IF dep.demultiply # {} THEN Tail(out.shape) ELSE out.shape)
      OBVIOUS
    <3>2. all = shape \o declared
      BY <2>5, <3>1
    <3>3. PipelineOutputInfo(out, shape, dep.demultiply # {}).shape = all
      BY <2>7, <3>1 DEF PipelineOutputInfo
    <3> QED BY <1>6, <1>8, <2>6, <3>2, <3>3
  <2>8. CASE shape = <<>>
    <3>1. PICK s : s = Inside(gr)[e]
      OBVIOUS
    <3>2. s \in Seq(NodeNames(gr)) /\ Len(s) \in Nat
      BY <1>2, <3>1, Nested
    <3>3. Len(s) = 0
      <4>1. PICK rank : Layered(gr, rank)
        BY DEF Checked
      <4>2. Reached(gr, e)
        BY <1>2, <2>1 DEF Reached
      <4>3. exit.gather = {s[i] : i \in 1..Len(s)}
        BY <1>1, <3>1 DEF GathersAll
      <4>4. shape = [i \in 1..Len(s) |-> GatherDimension(NodeOf(gr, s[i]))]
        BY <1>1, <1>5, <3>1, <4>1, <4>2, <4>3, GatheredShape
      <4>5. DOMAIN shape = {} /\ DOMAIN shape = 1..Len(s)
        BY <2>8, <4>4
      <4> QED BY <3>2, <4>5
    <3>4. dep.demultiply = {}
      <4>1. PICK levels, k, t : levels = ResultLevels(gr, Inside(gr), d) /\ k = Len(Around(gr, d)) /\ t = Inside(gr)[d]
        OBVIOUS
      <4>2. Outwards(gr, d, levels, k, t)
        BY <1>2, <2>2, <4>1, LevelsOfResults
      <4>3. s = levels
        BY <1>2, <2>1, <3>1, <4>1 DEF Valid, WellNested
      <4> QED BY <1>5, <3>3, <4>2, <4>3 DEF Outwards
    <3>5. shape \o declared = out.shape
      <4>1. declared = out.shape
        BY <2>5, <3>4
      <4>2. <<>> \o out.shape = out.shape
        BY <2>3, ConcatEmptySeq
      <4> QED BY <2>8, <4>1, <4>2
    <3>6. PipelineOutputInfo(out, shape, dep.demultiply # {}) = out
      BY <2>8 DEF PipelineOutputInfo
    <3> QED BY <1>6, <1>8, <2>6, <3>5, <3>6
  <2> QED BY <2>7, <2>8
<1> QED BY <1>7, <1>8

-----------------------------------------------------------------------------
(* The shapes of a request, as long as there is no error *)

Shaped(gr, q, S) ==
    /\ CountsFit(gr, q.counts) /\ Exits(gr, S)
    /\ \A id \in Range(q.queue) : Computes(NodeOf(gr, id[1])) => Counting(gr, id[1], S[id].count)
    /\ \A x \in DOMAIN q.response : GathersAll(gr) /\ Fits(gr, x, q.response[x].dims)

ShapedIfOK(def, q, S) ==
    q.pc # "idle" /\ q.status = "OK" =>
        def.status = "OK" /\ (EvenOutputs(def.graph) => Shaped(def.graph, q, S))

AllShaped(def, R, SS) ==
    /\ def.status = "OK" => def.outputsInfo = OutputsInfo(def.graph)
    /\ \A r \in DOMAIN R : ShapedIfOK(def, R[r], SS[r])

ShapeInv == AllShaped(definition, req, sessions)

LEMMA ShapeStep ==
  ASSUME ShapeInv, NEW r \in DOMAIN req, definition' = definition, DOMAIN req' = DOMAIN req,
         \A x \in DOMAIN req \ {r} : req'[x] = req[x] /\ sessions'[x] = sessions[x],
         ShapedIfOK(definition, req'[r], sessions'[r])
  PROVE  ShapeInv'
<1>1. \A x \in DOMAIN req' : ShapedIfOK(definition, req'[x], sessions'[x])
  BY DEF ShapeInv, AllShaped
<1>2. AllShaped(definition, req', sessions')
  BY <1>1 DEF ShapeInv, AllShaped
<1> QED BY <1>2 DEF ShapeInv

\* A step that neither adds a message nor changes a session, or an error.
LEMMA SameShapes ==
  ASSUME ShapeInv, NEW r \in DOMAIN req, req[r].pc # "idle", definition' = definition, sessions' = sessions,
         DOMAIN req' = DOMAIN req, \A x \in DOMAIN req \ {r} : req'[x] = req[x],
         req'[r].status = req[r].status,
         req[r].status = "OK" => /\ req'[r].queue = req[r].queue /\ req'[r].counts = req[r].counts
                                 /\ req'[r].response = req[r].response
  PROVE  ShapeInv'
<1>1. PICK q, q2, S : q = req[r] /\ q2 = req'[r] /\ S = sessions[r]
  OBVIOUS
<1>2. ShapedIfOK(definition, q, S) /\ q.pc # "idle"
  BY <1>1 DEF ShapeInv, AllShaped
<1>3. /\ q2.status = q.status
      /\ q.status = "OK" => q2.queue = q.queue /\ q2.counts = q.counts /\ q2.response = q.response
  BY <1>1
<1>4. ShapedIfOK(definition, q2, S)
  BY <1>2, <1>3 DEF ShapedIfOK, Shaped
<1>5. ShapedIfOK(definition, req'[r], sessions'[r])
  BY <1>1, <1>4
<1> QED BY <1>5, ShapeStep

LEMMA RearrangeShapes ==
  ASSUME Inv, ShapeInv, NEW r \in DOMAIN req,
         \/ Scheduled(r) \/ DeferredTried(r) \/ Retried(r) \/ Timeout(r)
         \/ PullAfterError(r) \/ Disarm(r) \/ Disarmed(r)
  PROVE  ShapeInv'
<1>1. CASE Scheduled(r)
  <2>1. req[r].pc = "schedule" /\ DOMAIN req[r] = Fields
    BY <1>1, Active DEF Scheduled
  <2>2. /\ definition' = definition /\ sessions' = sessions /\ DOMAIN req' = DOMAIN req
        /\ \A x \in DOMAIN req \ {r} : req'[x] = req[x]
        /\ req'[r].status = req[r].status /\ req'[r].queue = req[r].queue
        /\ req'[r].counts = req[r].counts /\ req'[r].response = req[r].response
    BY <1>1, <2>1 DEF Scheduled, Fields
  <2> QED BY <2>1, <2>2, SameShapes
<1>2. CASE DeferredTried(r)
  <2>1. req[r].pc = "deferred" /\ DOMAIN req[r] = Fields
    BY <1>2, Active DEF DeferredTried
  <2>2. /\ definition' = definition /\ sessions' = sessions /\ DOMAIN req' = DOMAIN req
        /\ \A x \in DOMAIN req \ {r} : req'[x] = req[x]
        /\ req'[r].status = req[r].status /\ req'[r].queue = req[r].queue
        /\ req'[r].counts = req[r].counts /\ req'[r].response = req[r].response
    BY <1>2, <2>1 DEF DeferredTried, Continue, Fields
  <2> QED BY <2>1, <2>2, SameShapes
<1>3. CASE Retried(r)
  <2>1. req[r].pc = "retry" /\ DOMAIN req[r] = Fields
    BY <1>3, Active DEF Retried
  <2>2. /\ definition' = definition /\ sessions' = sessions /\ DOMAIN req' = DOMAIN req
        /\ \A x \in DOMAIN req \ {r} : req'[x] = req[x]
        /\ req'[r].status = req[r].status /\ req'[r].queue = req[r].queue
        /\ req'[r].counts = req[r].counts /\ req'[r].response = req[r].response
    BY <1>3, <2>1 DEF Retried, Fields
  <2> QED BY <2>1, <2>2, SameShapes
<1>4. CASE Timeout(r)
  <2>1. req[r].pc = "pull" /\ DOMAIN req[r] = Fields
    BY <1>4, Active DEF Timeout
  <2>2. /\ definition' = definition /\ sessions' = sessions /\ DOMAIN req' = DOMAIN req
        /\ \A x \in DOMAIN req \ {r} : req'[x] = req[x]
        /\ req'[r].status = req[r].status /\ req'[r].queue = req[r].queue
        /\ req'[r].counts = req[r].counts /\ req'[r].response = req[r].response
    BY <1>4, <2>1 DEF Timeout, Fields
  <2> QED BY <2>1, <2>2, SameShapes
<1>5. CASE PullAfterError(r)
  <2>1. req[r].pc = "pull" /\ DOMAIN req[r] = Fields /\ req[r].status # "OK"
    BY <1>5, Active DEF PullAfterError
  <2>2. PICK id : id = Head(req[r].queue)
    OBVIOUS
  <2>3. /\ definition' = definition /\ sessions' = sessions /\ DOMAIN req' = DOMAIN req
        /\ \A x \in DOMAIN req \ {r} : req'[x] = req[x]
    BY <1>5, <2>2 DEF PullAfterError
  <2>4. req'[r] = Continue(Finish(req[r], id))
    BY <1>5, <2>2 DEF PullAfterError
  <2>5. req'[r].status = req[r].status
    BY <2>1, <2>4 DEF Continue, Finish, Fields
  <2> QED BY <2>1, <2>3, <2>5, SameShapes
<1>6. CASE Disarm(r) \/ Disarmed(r)
  <2>1. req[r].pc = "disarm"
    BY <1>6 DEF Disarm, Disarmed
  <2>2. DOMAIN req[r] = Fields /\ req[r].status # "OK"
    BY <2>1, Active DEF RequestInv, Phases
  <2>3. /\ definition' = definition /\ sessions' = sessions /\ DOMAIN req' = DOMAIN req
        /\ \A x \in DOMAIN req \ {r} : req'[x] = req[x]
    BY <1>6 DEF Disarm, Disarmed
  <2>4. req'[r].status = req[r].status
    <3>1. CASE Disarm(r)
      <4> DEFINE id == Head(req[r].left)
                 waits == <<r, id[1], id[2]>> \in Range(pool[ModelOf(id[1])].waiting)
      <4>1. req'[r] = AfterDisarm(req[r], id, waits)
        BY <3>1 DEF Disarm
      <4> QED BY <2>2, <4>1 DEF AfterDisarm, Fields
    <3>2. CASE Disarmed(r) /\ req[r].kept = <<>>
      <4>1. req'[r] = Continue([req[r] EXCEPT !.deferred = <<>>])
        BY <3>2 DEF Disarmed
      <4> QED BY <2>2, <4>1 DEF Continue, Fields
    <3>3. CASE Disarmed(r) /\ req[r].kept # <<>>
      <4>1. req'[r] = [req[r] EXCEPT !.pc = "pull", !.deferred = req[r].kept, !.kept = <<>>]
        BY <3>3 DEF Disarmed
      <4> QED BY <2>2, <4>1 DEF Fields
    <3> QED BY <1>6, <3>1, <3>2, <3>3
  <2> QED BY <2>1, <2>2, <2>3, <2>4, SameShapes
<1> QED BY <1>1, <1>2, <1>3, <1>4, <1>5, <1>6

-----------------------------------------------------------------------------
(* Executing *)

\* A session that is finished by execute() without an error has counted.
ExecutedShape(gr, n, s, o) ==
    /\ ~Computes(NodeOf(gr, n)) => o.session = s
    /\ Computes(NodeOf(gr, n)) /\ o.push = TRUE /\ o.status = "OK" => Counting(gr, n, o.session.count)

LEMMA ExecuteShapes ==
  ASSUME Inv, NEW r, NEW id, CanExecute(r, id), NEW fail, NEW n, n = id[1],
         NEW count \in IF NodeOf(g, n).kind = "CUSTOM" THEN CountsOf(n) ELSE {0}, NEW o,
         o = Execute(r, id, fail, count)
  PROVE  ExecutedShape(g, n, sessions[r][id], o)
<1>1. PICK kind, dl, custom : /\ kind = NodeOf(g, n).kind /\ dl = ExecuteDL(r, id, fail)
                              /\ custom = ExecuteCustom(r, id, fail, count)
  OBVIOUS
<1>2. o = CASE kind = "DL" -> dl [] kind = "CUSTOM" -> custom
            [] OTHER -> Outcome("OK", pool, sessions[r][id], TRUE)
  BY <1>1, Zenon DEF Execute
<1>3. Computes(NodeOf(g, n)) <=> kind \in {"DL", "CUSTOM"}
  BY <1>1 DEF Computes
<1>4. CASE kind = "DL"
  <2>1. o = dl
    BY <1>2, <1>4
  <2>2. PICK gid, m, ready : gid = Gid(r, id) /\ m = ModelOf(id[1]) /\ ready = Ready(r, id, fail)
    OBVIOUS
  <2>3. PICK taken : taken = [ready.pool EXCEPT ![m].granted = @ \ {gid}, ![m].held = @ \cup {gid}]
    OBVIOUS
  <2>4. o = IF ready.status # "OK" THEN ready
            ELSE IF gid \notin ready.pool[m].granted
                 THEN Outcome("PIPELINE_STREAM_ID_NOT_READY_YET", ready.pool, ready.session, FALSE)
            ELSE IF fail = "start" THEN Outcome("OV_INTERNAL_INFERENCE_ERROR", taken, ready.session, TRUE)
            ELSE Outcome("OK", taken, [ready.session EXCEPT !.run = "running"], FALSE)
    BY <1>1, <2>1, <2>2, <2>3 DEF ExecuteDL, Ready, Gid
  <2>5. ~(o.push = TRUE /\ o.status = "OK")
    <3>1. CASE ready.status # "OK"
      BY <2>4, <3>1
    <3>2. CASE ready.status = "OK" /\ gid \notin ready.pool[m].granted
      BY <2>4, <3>2 DEF Outcome
    <3>3. CASE ready.status = "OK" /\ gid \in ready.pool[m].granted /\ fail = "start"
      BY <2>4, <3>3 DEF Outcome
    <3>4. CASE ready.status = "OK" /\ gid \in ready.pool[m].granted /\ fail # "start"
      BY <2>4, <3>4 DEF Outcome
    <3> QED BY <3>1, <3>2, <3>3, <3>4
  <2> QED BY <1>3, <1>4, <2>5 DEF ExecutedShape
<1>5. CASE kind = "CUSTOM"
  <2>1. o = custom
    BY <1>2, <1>5
  <2>2. PICK used : used = [sessions[r][id] EXCEPT !.used = TRUE]
    OBVIOUS
  <2>3. DOMAIN used = SessionFields
    BY <2>2 DEF CanExecute
  <2>4. o.status = "OK" => o.session.count = count
    <3>1. CASE fail = "library"
      BY <1>1, <2>1, <3>1 DEF ExecuteCustom, Outcome, CreateTensorStatus
    <3>2. CASE fail = "output"
      BY <1>1, <2>1, <3>2 DEF ExecuteCustom, Outcome, CreateTensorStatus
    <3>3. CASE fail \notin {"library", "output"}
      <4>1. PICK run : run = IF fail = "missing" THEN "failed" ELSE "done"
        OBVIOUS
      <4>2. PICK s : s = [used EXCEPT !.run = run, !.count = count]
        OBVIOUS
      <4>3. o = Outcome("OK", pool, s, TRUE)
        BY <1>1, <2>1, <2>2, <3>3, <4>1, <4>2 DEF ExecuteCustom, CreateTensorStatus
      <4>4. o.session = s
        BY <4>3 DEF Outcome
      <4>5. s.count = count
        BY <2>3, <4>2 DEF SessionFields
      <4> QED BY <4>4, <4>5
    <3> QED BY <3>1, <3>2, <3>3
  <2>5. Counting(g, n, count)
    BY <1>1, <1>5, CountsCount
  <2> QED BY <1>3, <1>5, <2>4, <2>5 DEF ExecutedShape
<1>6. CASE kind \notin {"DL", "CUSTOM"}
  <2>1. o = Outcome("OK", pool, sessions[r][id], TRUE)
    BY <1>2, <1>6
  <2>2. o.session = sessions[r][id]
    BY <2>1 DEF Outcome
  <2> QED BY <1>3, <1>6, <2>2 DEF ExecutedShape
<1> QED BY <1>4, <1>5, <1>6

LEMMA HandledShapes ==
  ASSUME Inv, ShapeInv, NEW r \in DOMAIN req, req[r].pc \notin {"idle", "ended"}, NEW id, CanExecute(r, id),
         NEW count, NEW o, Outcomes(r, id, count, o), Handled(r, id, o), NEW n, n = id[1],
         ExecutedShape(g, n, sessions[r][id], o), req'[r].response = req[r].response
  PROVE  ShapeInv'
<1>1. /\ definition.status = "OK" /\ DOMAIN sessions = DOMAIN req /\ RequestInv(g, req[r], sessions[r])
  BY Active
<1>2. /\ DOMAIN req' = DOMAIN req /\ \A x \in DOMAIN req \ {r} : req'[x] = req[x]
      /\ req'[r].queue = Pushed(req[r].queue, id, o) /\ req'[r].counts = req[r].counts
      /\ req'[r].status = FirstError(req[r].status, IF Deferred(o) THEN "OK" ELSE o.status)
      /\ sessions' = Stored(r, id, o) /\ definition' = definition
  BY DEF Handled
<1>3. /\ \A x \in DOMAIN req \ {r} : sessions'[x] = sessions[x]
      /\ sessions'[r][id] = o.session /\ DOMAIN sessions'[r] = DOMAIN sessions[r]
      /\ \A x \in DOMAIN sessions[r] \ {id} : sessions'[r][x] = sessions[r][x]
  <2>1. r \in DOMAIN sessions /\ id \in DOMAIN sessions[r]
    BY <1>1 DEF CanExecute
  <2> QED BY <1>1, <1>2, <2>1 DEF Stored
<1>4. PICK q, q2, S, S2 : q = req[r] /\ q2 = req'[r] /\ S = sessions[r] /\ S2 = sessions'[r]
  OBVIOUS
<1>5. ShapedIfOK(definition, q, S) /\ q.pc # "idle"
  BY <1>4 DEF ShapeInv, AllShaped
<1>6. Checked(g)
  BY <1>1, CheckedInUse
<1>7. /\ id \in Ids(g) /\ id \in DOMAIN S /\ id \notin Range(q.queue) /\ q.queue \in Seq(Ids(g))
      /\ Range(q.queue) \subseteq DOMAIN S
  BY <1>1, <1>4 DEF CanExecute, RequestInv, Typed, Queued
<1>8. ASSUME q2.status = "OK", EvenOutputs(g) PROVE Shaped(g, q2, S2)
  <2>1. q.status = "OK" /\ (o.status = "OK" \/ Deferred(o))
    BY <1>2, <1>4, <1>8 DEF FirstError
  <2>2. Shaped(g, q, S)
    BY <1>5, <1>8, <2>1 DEF ShapedIfOK, g
  <2>3. S2[id] = o.session /\ DOMAIN S2 = DOMAIN S /\ \A x \in DOMAIN S \ {id} : S2[x] = S[x]
    BY <1>3, <1>4
  <2>4. q2.counts = q.counts /\ q2.response = q.response
    BY <1>2, <1>4
  <2>5. Exits(g, S2)
    <3>1. n = ExitName(g) => o.session = S[id]
      BY <1>4, <1>6 DEF ExecutedShape, Computes, Checked
    <3> QED BY <1>7, <2>2, <2>3, <3>1 DEF Exits, Shaped
  <2>6. ASSUME NEW x \in Range(q2.queue), Computes(NodeOf(g, x[1])) PROVE Counting(g, x[1], S2[x].count)
    <3>1. \/ x \in Range(q.queue)
          \/ x = id /\ o.push = TRUE
      <4>1. CASE o.push = TRUE
        <5>1. q2.queue = Append(q.queue, id)
          BY <1>2, <1>4, <4>1 DEF Pushed
        <5>2. Range(q2.queue) = Range(q.queue) \cup {id}
          BY <1>7, <5>1, AppendList
        <5> QED BY <2>6, <4>1, <5>2
      <4>2. CASE o.push = FALSE
        <5>1. q2.queue = q.queue
          BY <1>2, <1>4, <4>2 DEF Pushed
        <5> QED BY <2>6, <5>1
      <4> QED BY <4>1, <4>2 DEF Outcomes
    <3>2. CASE x \in Range(q.queue)
      <4>1. S2[x] = S[x]
        BY <1>7, <2>3, <3>2
      <4> QED BY <2>2, <2>6, <3>2, <4>1 DEF Shaped
    <3>3. CASE x = id /\ o.push = TRUE
      <4>1. ~Deferred(o)
        BY <3>3 DEF Outcomes
      <4> QED BY <2>1, <2>3, <2>6, <3>3, <4>1 DEF ExecutedShape
    <3> QED BY <3>1, <3>2, <3>3
  <2> QED BY <2>2, <2>4, <2>5, <2>6 DEF Shaped
<1>9. ShapedIfOK(definition, q2, S2)
  BY <1>1, <1>8 DEF ShapedIfOK, g
<1>10. ShapedIfOK(definition, req'[r], sessions'[r])
  BY <1>4, <1>9
<1> QED BY <1>2, <1>3, <1>10, ShapeStep

LEMMA ScheduleShapes ==
  ASSUME Inv, ShapeInv, NEW r \in DOMAIN req, Schedule(r)
  PROVE  ShapeInv'
<1>1. req[r].pc = "schedule" /\ definition' = definition
  BY DEF Schedule
<1>2. PICK id \in req[r].todo :
          Executes(r, id, LAMBDA o : req' = [req EXCEPT ![r] = AfterStart(@, id, o)])
  BY DEF Schedule
<1>3. PICK fail \in DOMAIN InjectedFailures(NodeOf(g, id[1]).kind),
           count \in IF NodeOf(g, id[1]).kind = "CUSTOM" THEN CountsOf(id[1]) ELSE {0} :
          /\ pool' = Execute(r, id, fail, count).pool
          /\ sessions' = [sessions EXCEPT ![r][id] = Execute(r, id, fail, count).session]
          /\ req' = [req EXCEPT ![r] = AfterStart(@, id, Execute(r, id, fail, count))]
  BY <1>2, Zenon DEF Executes
<1>4. PICK o, n : o = Execute(r, id, fail, count) /\ n = id[1]
  OBVIOUS
<1>5. /\ DOMAIN req[r] = Fields /\ RequestInv(g, req[r], sessions[r]) /\ DOMAIN sessions = DOMAIN req
      /\ definition.status = "OK"
  BY <1>1, Active
<1>6. /\ id \in DOMAIN sessions[r] /\ id \notin req[r].started /\ id \in Ids(g)
      /\ DOMAIN sessions[r][id] = SessionFields
  BY <1>1, <1>5 DEF RequestInv, Todo, Typed
<1>7. ~IsRunning(sessions[r], id) /\ id \notin Range(req[r].queue)
  BY <1>5, <1>6 DEF RequestInv, Runs, Queued
<1>8. CanExecute(r, id)
  BY <1>5, <1>6, <1>7 DEF CanExecute
<1>9. Outcomes(r, id, count, o)
  BY <1>4, <1>8, ExecuteOutcomes
<1>10. /\ DOMAIN req' = DOMAIN req /\ \A x \in DOMAIN req \ {r} : req'[x] = req[x]
       /\ req'[r] = AfterStart(req[r], id, o) /\ sessions' = Stored(r, id, o) /\ pool' = o.pool
  BY <1>3, <1>4 DEF Stored
<1>11. /\ req'[r].queue = Pushed(req[r].queue, id, o)
       /\ req'[r].started = req[r].started \cup {id} /\ req'[r].finished = req[r].finished
       /\ req'[r].counts = req[r].counts /\ req'[r].request = req[r].request /\ req'[r].pc = req[r].pc
       /\ req'[r].status = FirstError(req[r].status, IF Deferred(o) THEN "OK" ELSE o.status)
       /\ req'[r].response = req[r].response
  BY <1>5, <1>10 DEF AfterStart, Fields
<1>12. Handled(r, id, o)
  BY <1>1, <1>10, <1>11 DEF Handled
<1>13. ExecutedShape(g, n, sessions[r][id], o)
  BY <1>4, <1>8, ExecuteShapes
<1> QED BY <1>1, <1>4, <1>8, <1>9, <1>11, <1>12, <1>13, HandledShapes

LEMMA TryDeferredShapes ==
  ASSUME Inv, ShapeInv, NEW r \in DOMAIN req, TryDeferred(r)
  PROVE  ShapeInv'
<1>1. req[r].pc \in {"deferred", "retry"} /\ req[r].left # <<>> /\ definition' = definition
  BY DEF TryDeferred
<1>2. PICK id : id = Head(req[r].left)
  OBVIOUS
<1>3. PICK fail \in DOMAIN InjectedFailures(NodeOf(g, id[1]).kind),
           count \in IF NodeOf(g, id[1]).kind = "CUSTOM" THEN CountsOf(id[1]) ELSE {0} :
          /\ pool' = Execute(r, id, fail, count).pool
          /\ sessions' = [sessions EXCEPT ![r][id] = Execute(r, id, fail, count).session]
          /\ req' = [req EXCEPT ![r] = AfterRetry(@, id, Execute(r, id, fail, count))]
  BY <1>2, Zenon DEF TryDeferred, Executes
<1>4. PICK o, n : o = Execute(r, id, fail, count) /\ n = id[1]
  OBVIOUS
<1>5. /\ DOMAIN req[r] = Fields /\ RequestInv(g, req[r], sessions[r]) /\ DOMAIN sessions = DOMAIN req
      /\ definition.status = "OK"
  BY <1>1, Active
<1>6. id \in Range(req[r].left)
  BY <1>1, <1>2, <1>5, TailList DEF RequestInv, Typed
<1>7. id \in Pending(req[r]) /\ id \in Line(req[r])
  BY <1>1, <1>6 DEF Pending, Line
<1>8. /\ id \in req[r].started \ req[r].finished /\ id \notin Range(req[r].queue)
      /\ id \in DOMAIN sessions[r] /\ id \in Ids(g) /\ DOMAIN sessions[r][id] = SessionFields
  BY <1>1, <1>5, <1>7 DEF RequestInv, Lined, Typed
<1>9. ~IsRunning(sessions[r], id)
  BY <1>5, <1>7, <1>8 DEF RequestInv, Runs
<1>10. CanExecute(r, id)
  BY <1>5, <1>8, <1>9 DEF CanExecute
<1>11. Outcomes(r, id, count, o)
  BY <1>4, <1>10, ExecuteOutcomes
<1>12. /\ DOMAIN req' = DOMAIN req /\ \A x \in DOMAIN req \ {r} : req'[x] = req[x]
       /\ req'[r] = AfterRetry(req[r], id, o) /\ sessions' = Stored(r, id, o) /\ pool' = o.pool
  BY <1>3, <1>4 DEF Stored
<1>13. /\ req'[r].queue = Pushed(req[r].queue, id, o)
       /\ req'[r].started = req[r].started /\ req'[r].finished = req[r].finished
       /\ req'[r].counts = req[r].counts /\ req'[r].request = req[r].request /\ req'[r].pc = req[r].pc
       /\ req'[r].status = FirstError(req[r].status, IF Deferred(o) THEN "OK" ELSE o.status)
       /\ req'[r].response = req[r].response
  BY <1>5, <1>12 DEF Fields, AfterRetry
<1>14. Handled(r, id, o)
  BY <1>1, <1>8, <1>12, <1>13 DEF Handled
<1>15. ExecutedShape(g, n, sessions[r][id], o)
  BY <1>4, <1>10, ExecuteShapes
<1> QED BY <1>1, <1>4, <1>10, <1>11, <1>13, <1>14, <1>15, HandledShapes

LEMMA CompleteShapes ==
  ASSUME Inv, ShapeInv, NEW r \in DOMAIN req, NEW id \in DOMAIN sessions[r], Complete(r, id)
  PROVE  ShapeInv'
<1>1. /\ sessions[r][id].run = "running" /\ definition' = definition
      /\ req' = [req EXCEPT ![r].queue = Append(@, id)]
  BY DEF Complete
<1>2. PICK run \in {"done", "failed"}, count \in CountsOf(id[1]) :
          sessions' = [sessions EXCEPT ![r][id].run = run, ![r][id].count = count]
  BY DEF Complete
<1>3. /\ RequestInv(g, req[r], sessions[r]) /\ DOMAIN sessions = DOMAIN req
  BY DEF Inv, AllInv, DefinitionInv, g
<1>4. PICK q, q2, S, S2 : q = req[r] /\ q2 = req'[r] /\ S = sessions[r] /\ S2 = sessions'[r]
  OBVIOUS
<1>5. /\ id \in q.started \ q.finished /\ id \notin Range(q.queue)
      /\ DOMAIN S[id] = SessionFields /\ id \in Ids(g) /\ DOMAIN q = Fields
      /\ q.queue \in Seq(Ids(g)) /\ Range(q.queue) \subseteq DOMAIN S /\ id \in DOMAIN S
  BY <1>1, <1>3, <1>4 DEF RequestInv, Runs, IsRunning, Typed, Queued
<1>6. q.pc \notin {"idle", "ended"}
  BY <1>3, <1>4, <1>5 DEF RequestInv, Phases
<1>7. definition.status = "OK" /\ ShapedIfOK(definition, q, S)
  BY <1>4, <1>6, Active DEF ShapeInv, AllShaped
<1>8. /\ DOMAIN req' = DOMAIN req /\ \A x \in DOMAIN req \ {r} : req'[x] = req[x]
      /\ q2 = [q EXCEPT !.queue = Append(q.queue, id)]
  BY <1>1, <1>4
<1>9. /\ q2.queue = Append(q.queue, id) /\ q2.status = q.status /\ q2.counts = q.counts
      /\ q2.response = q.response
  BY <1>5, <1>8 DEF Fields
<1>10. /\ \A x \in DOMAIN req \ {r} : sessions'[x] = sessions[x]
       /\ \A x \in DOMAIN S \ {id} : S2[x] = S[x]
  BY <1>2, <1>3, <1>4
<1>11. DOMAIN S2 = DOMAIN S /\ S2[id] = [S[id] EXCEPT !.run = run, !.count = count]
  BY <1>2, <1>3, <1>4
<1>12. /\ S2[id].levels = S[id].levels /\ S2[id].shards = S[id].shards /\ S2[id].inputs = S[id].inputs
       /\ S2[id].count = count
  BY <1>5, <1>11 DEF SessionFields
<1>13. ASSUME q2.status = "OK", EvenOutputs(g) PROVE Shaped(g, q2, S2)
  <2>1. Shaped(g, q, S)
    BY <1>6, <1>7, <1>9, <1>13 DEF ShapedIfOK, g
  <2>2. Exits(g, S2)
    <3>1. ExitShaped(g, S[id]) => ExitShaped(g, S2[id])
      BY <1>12 DEF ExitShaped
    <3> QED BY <1>5, <1>10, <1>11, <2>1, <3>1 DEF Exits, Shaped
  <2>3. Range(q2.queue) = Range(q.queue) \cup {id}
    BY <1>5, <1>9, AppendList
  <2>4. Counting(g, id[1], count)
    BY CountsCount
  <2>5. \A x \in Range(q2.queue) : Computes(NodeOf(g, x[1])) => Counting(g, x[1], S2[x].count)
    BY <1>5, <1>10, <1>12, <2>1, <2>3, <2>4 DEF Shaped
  <2> QED BY <1>9, <2>1, <2>2, <2>5 DEF Shaped
<1>14. ShapedIfOK(definition, q2, S2)
  BY <1>7, <1>13 DEF ShapedIfOK, g
<1>15. ShapedIfOK(definition, req'[r], sessions'[r])
  BY <1>4, <1>14
<1> QED BY <1>1, <1>8, <1>10, <1>15, ShapeStep

LEMMA BeginShapes ==
  ASSUME Inv, ShapeInv, NEW r \in DOMAIN req, NEW request, Begin(r, request)
  PROVE  ShapeInv'
<1>1. req[r] = Idle /\ sessions[r] = <<>> /\ definition' = definition /\ DOMAIN sessions = DOMAIN req
  BY DEF Begin, Inv, AllInv, DefinitionInv
<1>2. CASE definition.status # "OK"
  <2>1. /\ req' = [req EXCEPT ![r].pc = "ended", ![r].status = definition.status]
        /\ sessions' = sessions
    BY <1>2 DEF Begin
  <2>2. /\ DOMAIN req' = DOMAIN req /\ \A x \in DOMAIN req \ {r} : req'[x] = req[x]
        /\ req'[r] = [Idle EXCEPT !.pc = "ended", !.status = definition.status]
    BY <1>1, <2>1
  <2>3. req'[r].status = definition.status
    BY <2>2 DEF Idle
  <2>4. ShapedIfOK(definition, req'[r], sessions'[r])
    BY <1>2, <2>3 DEF ShapedIfOK
  <2> QED BY <1>1, <2>1, <2>2, <2>4, ShapeStep
<1>3. CASE definition.status = "OK"
  <2>1. PICK id : id = <<EntryName(g), <<>>>>
    OBVIOUS
  <2>2. /\ req' = [req EXCEPT ![r].pc = "pull", ![r].request = request,
                              ![r].started = {id}, ![r].queue = <<id>>]
        /\ sessions' = [sessions EXCEPT ![r] = [x \in {id} |-> NewSession(id[1], <<>>, <<>>)]]
    BY <1>3, <2>1 DEF Begin
  <2>3. /\ DOMAIN req' = DOMAIN req /\ \A x \in DOMAIN req \ {r} : req'[x] = req[x]
        /\ req'[r] = [Idle EXCEPT !.pc = "pull", !.request = request, !.started = {id}, !.queue = <<id>>]
    BY <1>1, <2>2
  <2>4. req'[r].queue = <<id>> /\ req'[r].counts = <<>> /\ req'[r].response = <<>>
    BY <2>3 DEF Idle
  <2>5. /\ \A x \in DOMAIN req \ {r} : sessions'[x] = sessions[x]
        /\ DOMAIN sessions'[r] = {id}
    BY <1>1, <2>2
  <2>6. PICK q2, S2 : q2 = req'[r] /\ S2 = sessions'[r]
    OBVIOUS
  <2>7. Shaped(g, q2, S2)
    <3>1. Checked(g) /\ NodeOf(g, EntryName(g)).kind = "ENTRY"
      BY <1>3, CheckedInUse DEF Checked, Valid, WellConnected
    <3>2. id[1] # ExitName(g) /\ ~Computes(NodeOf(g, id[1]))
      BY <2>1, <3>1 DEF Checked, Computes
    <3>3. Range(<<id>>) = {id} /\ DOMAIN <<>> = {}
      BY DEF Range
    <3>4. CountsFit(g, q2.counts) /\ \A x \in DOMAIN q2.response : FALSE
      BY <2>4, <2>6, <3>3 DEF CountsFit
    <3>5. Exits(g, S2)
      BY <2>5, <2>6, <3>2 DEF Exits
    <3>6. \A x \in Range(q2.queue) : x = id
      BY <2>4, <2>6, <3>3
    <3> QED BY <3>2, <3>4, <3>5, <3>6 DEF Shaped
  <2>8. ShapedIfOK(definition, q2, S2)
    BY <1>3, <2>7 DEF ShapedIfOK, g
  <2>9. ShapedIfOK(definition, req'[r], sessions'[r])
    BY <2>6, <2>8
  <2> QED BY <1>1, <2>3, <2>5, <2>9, ShapeStep
<1> QED BY <1>2, <1>3

-----------------------------------------------------------------------------
(* Pulling a message *)

\* What a finished session gives to the exit.
LEMMA FinishedServes ==
  ASSUME Inv, definition.status = "OK", NEW r, NEW id, NEW n, n = id[1], n \in NodeNames(g),
         sessions[r][id].count \in Nat, Computes(NodeOf(g, n)) => Counting(g, n, sessions[r][id].count),
         NEW fetched, fetched = FetchResults(r, id), fetched[1] = "OK", NEW results, results = fetched[2],
         NEW M, M = DOMAIN results, NEW counts, NEW finished, Resulting(g, counts, finished, id, M),
         CountsFit(g, counts)
  PROVE  Serves(g, counts, n, results)
<1>1. Checked(g)
  BY CheckedInUse
<1>2. PICK e : e = ExitName(g)
  OBVIOUS
<1>3. e \in NodeNames(g) /\ Valid(g)
  BY <1>1, <1>2 DEF Checked
<1>4. SUFFICES ASSUME n \in Dependencies(g, e)
               PROVE  /\ Known(g, counts, e)
                      /\ \A m \in M : /\ Metadata(g, counts, Inside(g)[e], m)
                                      /\ n # EntryName(g) => TensorsFit(g, n, results[m])
  BY <1>2 DEF Serves
<1>5. Known(g, counts, e)
  BY <1>3, <1>4 DEF Resulting, Next_
<1>6. Inside(g)[e] = ResultLevels(g, Inside(g), n)
  BY <1>3, <1>4 DEF Valid, WellNested
<1>7. \A m \in M : Metadata(g, counts, Inside(g)[e], m)
  BY <1>6 DEF Resulting
<1>8. ASSUME n # EntryName(g), NEW m \in M PROVE TensorsFit(g, n, results[m])
  <2>1. NodeOf(g, n).kind # "EXIT"
    BY <1>3, <1>4 DEF Valid, WellConnected
  <2>2. Computes(NodeOf(g, n))
    BY <1>1, <1>8, <2>1 DEF Checked, Computes
  <2> QED BY <1>2, <1>3, <1>4, <1>8, <2>2, ResultsFit
<1> QED BY <1>5, <1>7, <1>8

LEMMA FedShapes ==
  ASSUME Inv, ShapeInv, NEW r \in DOMAIN req, req[r].pc = "pull", req[r].queue # <<>>, req[r].status = "OK",
         NEW id, id = Head(req[r].queue), definition' = definition, NEW others,
         others = [x \in DOMAIN sessions[r] \ {id} |-> sessions[r][x]], NEW fetched,
         fetched = FetchResults(r, id), fetched[1] = "OK", DOMAIN req' = DOMAIN req,
         \A x \in DOMAIN req \ {r} : req'[x] = req[x], NEW M, M = DOMAIN fetched[2],
         NEW fed, fed = Feed(id[1], fetched[2], others), Pulls(r, id, M, fed),
         sessions' = [sessions EXCEPT ![r] = fed[2]]
  PROVE  ShapeInv'
<1>1. /\ DOMAIN req[r] = Fields /\ RequestInv(g, req[r], sessions[r]) /\ DOMAIN sessions = DOMAIN req
      /\ FeedInv(g, req[r].counts, req[r].started, req[r].finished, sessions[r])
      /\ definition.status = "OK" /\ Requested(g, req[r].request)
  BY Active
<1>2. PICK q, q2, S, n : q = req[r] /\ q2 = req'[r] /\ S = sessions[r] /\ n = id[1]
  OBVIOUS
<1>3. PICK S2, counts, counts2 : /\ S2 = fed[2] /\ counts = q.counts
                                 /\ counts2 = NewCounts(g, counts, n, M)
  OBVIOUS
<1>4. /\ \A x \in DOMAIN req \ {r} : sessions'[x] = sessions[x]
      /\ sessions'[r] = S2
  BY <1>1, <1>2, <1>3
<1>5. PICK q1 : q1 = Finish(q, id)
  OBVIOUS
<1>6. /\ DOMAIN q1 = Fields /\ q1.queue = Tail(q.queue) /\ q1.counts = q.counts
      /\ q1.response = q.response
  BY <1>1, <1>2, <1>5 DEF Finish, Fields
<1>7. PICK todo : todo = ReadySessions(S2, NextNodes(n))
  OBVIOUS
<1>8. PICK response : response = IF NodeOf(g, n).kind = "EXIT" THEN S[id].inputs ELSE q1.response
  OBVIOUS
<1>9. q2 = [q1 EXCEPT !.pc = "schedule", !.status = fed[1], !.last = "", !.todo = todo,
                      !.counts = counts2, !.response = response]
  <2>1. q2 = [q1 EXCEPT !.pc = "schedule", !.status = fed[1], !.last = "", !.todo = todo,
                        !.counts = IF NodeOf(g, n).demultiply = {} THEN q1.counts
                                   ELSE Put(q1.counts, n, SizeOf(M)),
                        !.response = response]
    BY <1>2, <1>3, <1>5, <1>7, <1>8, Zenon DEF Pulls
  <2> QED BY <1>3, <1>6, <2>1 DEF NewCounts
<1>10. /\ q2.queue = Tail(q.queue) /\ q2.status = fed[1] /\ q2.counts = counts2 /\ q2.response = response
  BY <1>6, <1>9 DEF Fields
<1>11. /\ DOMAIN S \subseteq Ids(g) /\ \A x \in DOMAIN S : DOMAIN S[x] = SessionFields
       /\ \A x \in DOMAIN S \ q.started : S[x].run # "running"
       /\ q.pc = "pull" /\ q.queue # <<>> /\ id = Head(q.queue)
       /\ q.queue \in Seq(Ids(g)) /\ Range(q.queue) \subseteq q.started \ q.finished
       /\ q.started \ q.finished \subseteq DOMAIN S /\ Distinct(q.queue)
       /\ q.started \subseteq Ids(g) /\ q.finished \subseteq q.started
  BY <1>1, <1>2 DEF RequestInv, Typed, Runs, IsRunning, Queued
<1>12. /\ id \in Range(q.queue) /\ Range(q.queue) = Range(q2.queue) \cup {id} /\ id \notin Range(q2.queue)
       /\ id \in q.started \ q.finished /\ id \in DOMAIN S /\ id \in Ids(g) /\ n \in NodeNames(g)
  <2>1. id \in Range(q.queue) /\ Range(q.queue) = Range(q2.queue) \cup {id} /\ id \notin Range(q2.queue)
    BY <1>10, <1>11, TailList
  <2> QED BY <1>2, <1>11, <2>1 DEF Ids
<1>13. Checked(g)
  BY <1>1, CheckedInUse
<1>14. DOMAIN others = DOMAIN S \ {id} /\ \A x \in DOMAIN others : others[x] = S[x]
  BY <1>2
<1>15. AboutToFinish(g, counts, q.started, q.finished, S, others, id)
  <2>1. Valid(g)
    BY <1>13 DEF Checked
  <2>2. FeedInv(g, counts, q.started, q.finished, S)
    BY <1>1, <1>2, <1>3
  <2> QED BY <1>11, <1>12, <1>14, <2>1, <2>2 DEF AboutToFinish
<1>16. PICK meta, count : meta = S[id].meta /\ count = S[id].count
  OBVIOUS
<1>17. /\ meta = sessions[r][id].meta /\ meta \in Seq(NodeNames(g) \X Nat \X Nat)
       /\ sessions[r][id].count \in Nat
  <2>1. Fed(g, counts, q.finished, id, S[id])
    BY <1>12, <1>15 DEF AboutToFinish, FeedInv
  <2>2. meta \in Seq(NodeNames(g) \X Nat \X Nat) /\ S[id].count \in Nat
    BY <1>16, <2>1, Zenon DEF Fed, Metadata
  <2> QED BY <1>2, <1>16, <2>2
<1>18. Results(g, counts, counts2, id, S[id].meta, M)
  <2>1. counts2 = NewCounts(g, counts, id[1], M) /\ id[1] \in NodeNames(g)
    BY <1>2, <1>3, <1>12
  <2>2. Results(g, counts, counts2, id, meta, M)
    BY <1>1, <1>17, <2>1, ResultsFetched
  <2> QED BY <1>16, <2>2
<1>19. Finishing(g, counts, counts2, q.started, q.finished, S, others, id, M) /\ IsFiniteSet(M)
  BY <1>15, <1>18, Fetched
<1>20. Resulting(g, counts2, q.finished, id, M)
  BY <1>19, NowKnown
<1>21. Undisturbed(g, q.started, S, S2, id)
  <2>1. Feeding(g, counts2, q.finished, id, M, others)
    BY <1>19, NowFeeding
  <2>2. FedSo(g, counts2, q.finished, id, others, Next_(g, id[1]) \X M, fed)
    BY <1>19, <2>1, FedAll
  <2> QED BY <1>3, <1>19, <2>2, FedOthers
<1>22. ASSUME fed[1] = "OK", EvenOutputs(g) PROVE Shaped(g, q2, S2)
  <2>1. Shaped(g, q, S)
    <3>1. ShapedIfOK(definition, q, S) /\ q.status = "OK"
      BY <1>2 DEF ShapeInv, AllShaped
    <3> QED BY <1>11, <1>22, <3>1 DEF ShapedIfOK, g
  <2>2. Computes(NodeOf(g, n)) => Counting(g, n, sessions[r][id].count)
    BY <1>2, <1>12, <2>1 DEF Shaped
  <2>3. CountsFit(g, counts2)
    <3>1. CountsFit(g, counts)
      BY <1>3, <2>1 DEF Shaped
    <3>2. CASE NodeOf(g, n).demultiply = {}
      BY <1>3, <3>1, <3>2 DEF NewCounts
    <3>3. CASE NodeOf(g, n).demultiply # {}
      <4>1. PICK c : c = SizeOf(M)
        OBVIOUS
      <4>2. Match(GatherDimension(NodeOf(g, n)), c)
        BY <1>1, <1>2, <1>12, <1>17, <1>22, <2>2, <3>3, <4>1, PartsFit
      <4>3. counts2 = Put(counts, n, c)
        BY <1>3, <3>3, <4>1 DEF NewCounts
      <4> QED BY <3>1, <4>2, <4>3 DEF CountsFit, Put
    <3> QED BY <3>2, <3>3
  <2>4. PICK results : results = fetched[2]
    OBVIOUS
  <2>5. Serves(g, counts2, n, results)
    BY <1>1, <1>2, <1>12, <1>17, <1>20, <2>2, <2>3, <2>4, FinishedServes
  <2>6. Fielded(others) /\ Exits(g, others)
    BY <1>11, <1>14, <2>1 DEF Fielded, Exits, Shaped
  <2>7. Exits(g, S2)
    <3>1. Served(g, Feed(n, results, others))
      BY <1>13, <1>19, <2>4, <2>5, <2>6, ExitFed
    <3>2. fed = Feed(n, results, others)
      BY <1>2, <2>4
    <3>3. Served(g, fed)
      BY <3>1, <3>2
    <3> QED BY <1>3, <1>22, <3>3 DEF Served
  <2>8. ASSUME NEW x \in Range(q2.queue), Computes(NodeOf(g, x[1])) PROVE Counting(g, x[1], S2[x].count)
    <3>1. x \in q.started /\ x \in DOMAIN S \ {id}
      BY <1>11, <1>12, <2>8
    <3>2. S2[x] = S[x]
      BY <1>21, <3>1 DEF Undisturbed
    <3> QED BY <1>12, <2>1, <2>8, <3>2 DEF Shaped
  <2>9. \A x \in DOMAIN q2.response : GathersAll(g) /\ Fits(g, x, q2.response[x].dims)
    <3>1. CASE NodeOf(g, n).kind = "EXIT"
      <4>1. n = ExitName(g)
        BY <1>12, <1>13, <3>1 DEF Checked
      <4>2. ExitShaped(g, S[id])
        BY <1>2, <1>12, <2>1, <4>1 DEF Shaped, Exits
      <4>3. q2.response = S[id].inputs
        BY <1>8, <1>10, <3>1
      <4> QED BY <4>2, <4>3 DEF ExitShaped
    <3>2. CASE NodeOf(g, n).kind # "EXIT"
      <4>1. q2.response = q.response
        BY <1>6, <1>8, <1>10, <3>2
      <4> QED BY <2>1, <4>1 DEF Shaped
    <3> QED BY <3>1, <3>2
  <2> QED BY <1>10, <2>3, <2>7, <2>8, <2>9 DEF Shaped
<1>23. ShapedIfOK(definition, q2, S2)
  BY <1>1, <1>10, <1>22 DEF ShapedIfOK, g
<1>24. ShapedIfOK(definition, req'[r], sessions'[r])
  BY <1>2, <1>4, <1>23
<1> QED BY <1>4, <1>24, ShapeStep

LEMMA PullShapes ==
  ASSUME Inv, ShapeInv, NEW r \in DOMAIN req, Pull(r)
  PROVE  ShapeInv'
<1>1. /\ req[r].pc = "pull" /\ req[r].queue # <<>> /\ req[r].status = "OK" /\ definition' = definition
  BY DEF Pull
<1>2. PICK id : id = Head(req[r].queue)
  OBVIOUS
<1>3. PICK fetched, others : /\ fetched = FetchResults(r, id)
                             /\ others = [x \in DOMAIN sessions[r] \ {id} |-> sessions[r][x]]
  OBVIOUS
<1>4. PICK fed, M : fed = Feed(id[1], fetched[2], others) /\ M = DOMAIN fetched[2]
  OBVIOUS
<1>5. CASE fetched[1] # "OK"
  <2>1. /\ req' = [req EXCEPT ![r] = Continue([Finish(req[r], id) EXCEPT !.status = fetched[1]])]
        /\ sessions' = [sessions EXCEPT ![r] = others]
    BY <1>2, <1>3, <1>5, Zenon DEF Pull
  <2>2. DOMAIN req[r] = Fields /\ DOMAIN sessions = DOMAIN req
    BY <1>1, Active
  <2>3. /\ DOMAIN req' = DOMAIN req /\ \A x \in DOMAIN req \ {r} : req'[x] = req[x]
        /\ req'[r] = Continue([Finish(req[r], id) EXCEPT !.status = fetched[1]])
        /\ \A x \in DOMAIN req \ {r} : sessions'[x] = sessions[x]
    BY <2>1, <2>2
  <2>4. req'[r].status = fetched[1]
    BY <2>2, <2>3 DEF Continue, Finish, Fields
  <2>5. ShapedIfOK(definition, req'[r], sessions'[r])
    BY <1>5, <2>4 DEF ShapedIfOK
  <2> QED BY <1>1, <2>3, <2>5, ShapeStep
<1>6. CASE fetched[1] = "OK"
  <2>1. req' = [req EXCEPT ![r] = AfterFeed(Finish(req[r], id), id, fetched[2], fed, sessions[r][id].inputs)]
    BY <1>2, <1>3, <1>4, <1>6, Zenon DEF Pull
  <2>2. sessions' = [sessions EXCEPT ![r] = fed[2]]
    BY <1>2, <1>3, <1>4, <1>6, Zenon DEF Pull
  <2>3. DOMAIN req' = DOMAIN req /\ \A x \in DOMAIN req \ {r} : req'[x] = req[x]
    BY <2>1
  <2>4. Pulls(r, id, M, fed)
    <3>1. req'[r] = AfterFeed(Finish(req[r], id), id, fetched[2], fed, sessions[r][id].inputs)
      BY <2>1
    <3> QED BY <1>4, <3>1, Zenon DEF Pulls, SizeOf, AfterFeed
  <2> QED BY <1>1, <1>2, <1>3, <1>4, <1>6, <2>2, <2>3, <2>4, FedShapes
<1> QED BY <1>5, <1>6

-----------------------------------------------------------------------------
(* The response *)

LEMMA InitShapes ==
  ASSUME Init
  PROVE  ShapeInv
<1>1. PICK s \in Scenarios :
        /\ definition = LET v == Validate(s.graph)
                        IN [graph |-> s.graph, status |-> v,
                            inputsInfo |-> IF v = "OK" THEN InputsInfo(s.graph) ELSE <<>>,
                            outputsInfo |-> IF v = "OK" THEN OutputsInfo(s.graph) ELSE <<>>]
        /\ req = [r \in s.clients |-> Idle]
  BY DEF Init
<1>2. definition.status = "OK" => definition.outputsInfo = OutputsInfo(definition.graph)
  BY <1>1
<1>3. Idle.pc = "idle"
  BY DEF Idle
<1>4. \A r \in DOMAIN req : req[r].pc = "idle"
  BY <1>1, <1>3
<1> QED BY <1>2, <1>4 DEF ShapeInv, AllShaped, ShapedIfOK

LEMMA NextShapes ==
  ASSUME Inv, ShapeInv, [Next]_vars
  PROVE  ShapeInv'
<1>1. CASE \E s \in {t \in Scenarios : t.graph = g} : \E r \in DOMAIN req, request \in Requests(s) :
              Begin(r, request)
  BY <1>1, BeginShapes
<1>2. ASSUME NEW r \in DOMAIN req, Thread(r)
      PROVE  ShapeInv'
  <2>1. CASE Pull(r)
    BY <2>1, PullShapes
  <2>2. CASE Schedule(r)
    BY <2>2, ScheduleShapes
  <2>3. CASE TryDeferred(r)
    BY <2>3, TryDeferredShapes
  <2>4. CASE \/ Scheduled(r) \/ DeferredTried(r) \/ Retried(r) \/ Timeout(r)
             \/ PullAfterError(r) \/ Disarm(r) \/ Disarmed(r)
    BY <2>4, RearrangeShapes
  <2> QED BY <1>2, <2>1, <2>2, <2>3, <2>4 DEF Thread
<1>3. ASSUME NEW r \in DOMAIN req, NEW id \in DOMAIN sessions[r], Complete(r, id)
      PROVE  ShapeInv'
  BY <1>3, CompleteShapes
<1>4. CASE UNCHANGED vars
  BY <1>4 DEF vars, ShapeInv
<1> QED BY <1>1, <1>2, <1>3, <1>4 DEF Next

LEMMA DeclaredResponse ==
  ASSUME Inv, ShapeInv, AnsweredOnce(g)
  PROVE  ResponseAsDeclared
<1>1. SUFFICES ASSUME EvenOutputs(g), NEW r \in DOMAIN req, Succeeded(req[r]),
                      NEW x \in DOMAIN req[r].response
               PROVE  \/ definition.outputsInfo[x] = UnspecifiedTensorInfo
                      \/ ShapeMatch(definition.outputsInfo[x].shape, req[r].response[x].dims)
  BY DEF ResponseAsDeclared
<1>2. ShapedIfOK(definition, req[r], sessions[r]) /\ req[r].pc # "idle" /\ req[r].status = "OK"
  BY <1>1 DEF ShapeInv, AllShaped, Succeeded
<1>3. definition.status = "OK" /\ Shaped(g, req[r], sessions[r])
  BY <1>1, <1>2 DEF ShapedIfOK, g
<1>4. definition.outputsInfo = OutputsInfo(g)
  BY <1>3 DEF ShapeInv, AllShaped, g
<1>5. Checked(g)
  BY <1>3, CheckedInUse
<1>6. PICK dims : dims = req[r].response[x].dims
  OBVIOUS
<1>7. GathersAll(g) /\ Fits(g, x, dims)
  BY <1>3, <1>6 DEF Shaped
<1>8. \A d \in Dependencies(g, ExitName(g)) : \A p \in g.connections[ExitName(g)][d] :
         NodeOf(g, d).kind # "ENTRY" =>
             NodeOf(g, d).outputs[NodeOf(g, d).aliases[p[1]]].shape \in Seq(Dimension)
  <2>1. PICK sc \in Scenarios : g = sc.graph /\ HasLengths(sc)
    BY <1>3, ValidGraph
  <2>2. ExitName(g) \in NodeNames(g)
    BY <1>5 DEF Checked
  <2> QED BY <2>1, <2>2, Zenon DEF HasLengths
<1>9. OneSource(g, x)
  <2>1. PICK f \in Feeds(g, ExitName(g)) : f[3] = x
    BY <1>7 DEF Fits, Named
  <2>2. {h \in Feeds(g, ExitName(g)) : h[3] = x} = {f}
    BY <2>1 DEF AnsweredOnce
  <2> QED BY <2>1, <2>2 DEF OneSource
<1>10. \/ OutputsInfo(g)[x] = UnspecifiedTensorInfo
       \/ ShapeMatch(OutputsInfo(g)[x].shape, dims)
  BY <1>5, <1>7, <1>8, <1>9, FitsDeclared
<1> QED BY <1>4, <1>6, <1>10

\* The tensors of every successful response have the shapes that the pipeline's
\* metadata declares for them (updateOutputsInfo, getNodeGatherShape), however
\* many parts the demultiplexers made of them and in whatever order the nodes
\* finished: for every graph that validates and answers one output per name,
\* any number of requests and any number of infer requests.
THEOREM ResponsesDeclared == Spec => [](AnsweredOnce(g) => ResponseAsDeclared)
<1>1. Init => ShapeInv
  BY InitShapes
<1>2. Inv /\ ShapeInv /\ [Next]_vars => ShapeInv'
  BY NextShapes
<1>3. Inv /\ ShapeInv => (AnsweredOnce(g) => ResponseAsDeclared)
  BY DeclaredResponse
<1> QED BY <1>1, <1>2, <1>3, Invariance, PTL DEF Spec
=============================================================================
