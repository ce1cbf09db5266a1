------------------------ MODULE ModelVersions_proofs ------------------------
(***************************************************************************)
(* Proofs about the versions of a model, for every repository, every set   *)
(* of versions and of configurations, and every number of changes.         *)
(***************************************************************************)
EXTENDS ModelVersions, NaturalsInduction, WellFoundedInduction, FiniteSetTheorems,
        SequenceTheorems, TLAPS

Instances ==
  [state : States, error : BOOLEAN, config : Configs \cup {NoConfig},
   net : Bases \cup {"none"}, files : SUBSET ModelFiles]

Places ==
  {"idle", "start", "add", "adding", "reload", "reloading", "retire", "unload", "unloading",
   "retireAll", "retiringAll", "cleanupAll", "cleaningAll"}

TypeOK ==
  /\ inst \in [Versions -> Instances]
  /\ local \in [Versions -> SUBSET ModelFiles]
  /\ config \in Configs \cup {NoConfig}
  /\ served \in Configs \cup {NoConfig}
  /\ pc \in Places
  /\ avail \in SUBSET Nat
  /\ queue \in SUBSET Nat
  /\ toStart \in SUBSET Nat
  /\ toReload \in SUBSET Nat
  /\ toRetire \in SUBSET Nat
  /\ reloading \in SUBSET Versions

\* A configuration is applied only when there is one, and every registered
\* version has one.
Configured ==
  /\ pc \notin {"idle", "retireAll", "retiringAll", "cleanupAll", "cleaningAll"} =>
       config \in Configs
  /\ \A v \in Versions : inst[v].state # "none" => inst[v].config \in Configs

\* What is to be started is not registered yet, the versions of the other
\* batches are, and the one the manager works on is of the batch.
Batches ==
  /\ pc = "start" => toStart \cap Registered = {}
  /\ pc = "add" => queue \cap Registered = {}
  /\ pc = "adding" => (queue \ {Current}) \cap Registered = {}
  /\ pc \in {"start", "add", "adding"} => toReload \in SUBSET Registered
  /\ pc \in {"reload", "reloading", "retire", "unload", "unloading", "retireAll",
             "retiringAll", "cleanupAll", "cleaningAll"} => queue \in SUBSET Registered
  /\ pc \in {"adding", "reloading", "unload", "unloading", "retiringAll", "cleaningAll"} =>
       queue # {}

\* No request reloads the version that the manager loads or unloads.
InHand ==
  /\ pc \in {"adding", "reloading"} /\ Current \in Versions =>
       inst[Current].state = "LOADING" /\ Current \notin reloading
  /\ pc = "retiringAll" /\ Current \in Versions =>
       inst[Current].state = "UNLOADING" /\ Current \notin reloading

\* A version that a request reloads stays registered with the cleaner.
ReloadsKnown ==
  \A v \in reloading : /\ inst[v].state = "LOADING"
                       /\ NeedsCleaner(inst[v].config) => v \in viewer

\* What the last choice retires the policy does not select; a custom loader may
\* have taken it away.
RetiresUnselected ==
  pc \in {"retire", "unload", "unloading"} =>
    queue \cap Filter(Policy(config), avail) = {} \/ Settings[config].loader

\* The names of the versions are in the order of their numbers.
InOrder(S) == \A w, x \in S : w < x => ~NameLess(x, w)

\* The lists of versions: what failed is no longer available, if the names are
\* in order.
Listed ==
  /\ fs \in Backends /\ store \in SUBSET Keys /\ IsFiniteSet(store)
  /\ IsFiniteSet(avail)
  /\ failed \in Seq(Nat) /\ allFailed \in SUBSET Nat
  /\ pc \in {"start", "add", "adding", "reload", "reloading", "retire", "unload", "unloading"} =>
       avail \cap allFailed = {} \/ ~InOrder(avail \cup allFailed)

Inv ==
  /\ TypeOK /\ Configured /\ Batches /\ InHand /\ ReloadsKnown /\ RetiresUnselected
  /\ RegisteredWhileServing


-----------------------------------------------------------------------------
(* The operators. *)

\* Versions are numbers.
LEMMA VersionsNat == Versions \in SUBSET Nat
<1>1. Versions \subseteq 1..99
  BY ConstantsAssumption
<1> QED BY <1>1

\* A nonempty set of numbers has a least one, ...
LEMMA LeastNumber ==
  ASSUME NEW N \in SUBSET Nat, N # {}
  PROVE  \E m \in N : \A k \in N : m <= k
<1> DEFINE Less == {p \in Nat \X Nat : p[1] < p[2]}
<1>1. OpToRel(<, Nat) = Less
  BY Zenon DEF OpToRel
<1>2. IsWellFoundedOn(Less, Nat)
  BY <1>1, NatLessThanWellFounded, Zenon
<1> HIDE DEF Less
<1>3. PICK m \in N : \A k \in N : ~(<<k, m>> \in Less)
  BY <1>2, WFMin
<1>4. ASSUME NEW k \in N PROVE m <= k
  <2>1. m \in Nat /\ k \in Nat /\ ~(<<k, m>> \in Less)
    BY <1>3
  <2>2. <<k, m>> \in Nat \X Nat /\ <<k, m>>[1] = k /\ <<k, m>>[2] = m
    BY <2>1
  <2>3. ~(k < m)
    BY <2>1, <2>2 DEF Less
  <2> QED BY <2>1, <2>3
<1> QED BY <1>4

\* ... which is the first one.
LEMMA FirstIn == ASSUME NEW S \in SUBSET Nat, S # {} PROVE First(S) \in S
BY LeastNumber DEF First

\* The manager works on a version of the batch.
LEMMA CurrentInBatch == ASSUME queue \in SUBSET Nat, queue # {} PROVE Current \in queue
<1>1. CASE pc \in {"retire", "unload", "unloading"} /\ queue \cap toRetire # {}
  <2>1. queue \cap toRetire \in SUBSET Nat
    OBVIOUS
  <2>2. First(queue \cap toRetire) \in queue \cap toRetire
    BY <1>1, <2>1, FirstIn
  <2> QED BY <1>1, <2>2 DEF Current
<1>2. CASE ~(pc \in {"retire", "unload", "unloading"} /\ queue \cap toRetire # {})
  BY <1>2, FirstIn DEF Current
<1> QED BY <1>1, <1>2

\* A policy selects among the versions it is given.
LEMMA FilterSelects ==
  ASSUME NEW c \in Configs, NEW S \in SUBSET Nat
  PROVE  Filter(Policy(c), S) \in SUBSET S
<1>1. Settings[c].policy \in Policies
  BY ConstantsAssumption DEF SettingsType
<1>2. Policy(c).kind \in {"all", "latest", "specific"}
  BY <1>1 DEF Policy, ParseModelVersionPolicy, Policies
<1> QED BY <1>2 DEF Filter

\* What getVersionsToChange chooses.
LEMMA Chosen ==
  ASSUME TypeOK, NEW c \in Configs, NEW S \in SUBSET Nat,
         NEW change, change = VersionsToChange(c, S)
  PROVE  /\ change.start \in SUBSET Nat
         /\ change.reload \in SUBSET Nat
         /\ change.retire \in SUBSET Nat
         /\ change.start \cap Registered = {}
         /\ change.reload \in SUBSET Registered
         /\ change.retire \in SUBSET Registered
         /\ change.retire \cap Filter(Policy(c), S) = {} \/ Settings[c].loader
<1>1. Registered \in SUBSET Nat
  BY VersionsNat DEF Registered
<1>2. Requested(c, S) \in SUBSET Nat
  BY FilterSelects DEF Requested
<1>3. Requested(c, S) = Filter(Policy(c), S) \/ Settings[c].loader
  BY DEF Requested
<1>4. /\ change.start = Requested(c, S) \ Registered
      /\ change.reload \in SUBSET (Requested(c, S) \cap Registered)
      /\ change.retire \in SUBSET (Registered \ Requested(c, S))
  BY DEF VersionsToChange
<1> QED BY <1>1, <1>2, <1>3, <1>4

\* A download brings files of the model.
LEMMA DownloadedFiles ==
  ASSUME TypeOK, NEW versions, NEW fails
  PROVE  Downloaded(versions, fails) \in [Versions -> SUBSET ModelFiles]
BY DEF Downloaded, TypeOK


-----------------------------------------------------------------------------
(* What erasing the failed versions leaves. *)

\* Then the order of the names is that of the numbers.
LEMMA NameOrder ==
  ASSUME NEW S \in SUBSET Nat, InOrder(S), NEW w \in S, NEW v \in S
  PROVE  NameLess(w, v) <=> w < v
<1>1. w \in Nat /\ v \in Nat
  OBVIOUS
<1>2. NameLess(w, v) \/ NameLess(v, w) \/ w = v
  BY <1>1 DEF NameLess
<1>3. ~(NameLess(w, v) /\ NameLess(v, w)) /\ (w = v => ~NameLess(w, v))
  BY <1>1 DEF NameLess
<1>4. (w < v => ~NameLess(v, w)) /\ (v < w => ~NameLess(w, v))
  BY DEF InOrder
<1> QED BY <1>1, <1>2, <1>3, <1>4

\* A list in the order of the names is ascending, if the names are in order.
LEMMA AscendingByName ==
  ASSUME NEW S \in SUBSET Nat, IsFiniteSet(S), InOrder(S)
  PROVE  /\ ByName(S) \in [1..Cardinality(S) -> S] /\ Cardinality(S) \in Nat
         /\ \A i, j \in 1..Cardinality(S) : i < j => ByName(S)[i] < ByName(S)[j]
         /\ \A v \in S : \E i \in 1..Cardinality(S) : ByName(S)[i] = v
<1> DEFINE n == Cardinality(S)
           below(v) == {w \in S : NameLess(w, v)}
           rank == [v \in S |-> Cardinality(below(v))]
<1>1. n \in Nat
  BY FS_CardinalityType
<1>2. \A w, v \in S : NameLess(w, v) <=> w < v
  BY NameOrder
<1>3. ASSUME NEW v \in S
      PROVE  IsFiniteSet(below(v)) /\ rank[v] \in 0..(n - 1)
  <2>1. below(v) \in SUBSET S /\ v \notin below(v)
    BY <1>2
  <2>2. /\ IsFiniteSet(below(v)) /\ Cardinality(below(v)) <= n
        /\ n = Cardinality(below(v)) => S = below(v)
    BY <2>1, FS_Subset
  <2>3. Cardinality(below(v)) \in Nat
    BY <2>2, FS_CardinalityType
  <2> QED BY <1>1, <2>1, <2>2, <2>3
<1>4. ASSUME NEW v \in S, NEW x \in S, v < x
      PROVE  rank[v] < rank[x]
  <2>1. below(v) \in SUBSET below(x) /\ v \in below(x) /\ v \notin below(v)
    <3>1. \A w \in S : w \in Nat /\ (w < v => w < x)
      BY <1>4
    <3>2. ~(v < v)
      BY <3>1
    <3> QED BY <1>2, <1>4, <3>1, <3>2
  <2>2. /\ Cardinality(below(v)) <= Cardinality(below(x))
        /\ Cardinality(below(x)) = Cardinality(below(v)) => below(x) = below(v)
    BY <1>3, <2>1, FS_Subset
  <2>3. rank[v] \in 0..(n - 1) /\ rank[x] \in 0..(n - 1)
    BY <1>3
  <2> QED BY <1>1, <2>1, <2>2, <2>3
<1> HIDE DEF rank
<1>5. \A v, x \in S : rank[v] = rank[x] => v = x
  <2>1. ASSUME NEW v \in S, NEW x \in S, rank[v] = rank[x] PROVE v = x
    <3>1. rank[v] \in 0..(n - 1) /\ v \in Nat /\ x \in Nat
      BY <1>3
    <3>2. ~(rank[v] < rank[v])
      BY <1>1, <3>1
    <3> QED BY <1>4, <2>1, <3>1, <3>2
  <2> QED BY <2>1
<1>6. rank \in Surjection(S, 0..(n - 1))
  <2>1. DOMAIN rank = S
    BY DEF rank
  <2>2. rank \in [S -> 0..(n - 1)]
    BY <1>3, <2>1 DEF rank
  <2>3. rank \in Injection(S, 0..(n - 1))
    BY <1>5, <2>2 DEF Injection, IsInjective
  <2>4. IsFiniteSet(0..(n - 1)) /\ Cardinality(0..(n - 1)) = n
    <3>1. PICK top : top = n - 1
      OBVIOUS
    <3>2. 0 \in Int /\ top \in Int /\ n = IF 0 > top THEN 0 ELSE top - 0 + 1
      BY <1>1, <3>1
    <3>3. IsFiniteSet(0..top) /\ Cardinality(0..top) = IF 0 > top THEN 0 ELSE top - 0 + 1
      BY <3>2, FS_Interval
    <3> QED BY <3>1, <3>2, <3>3
  <2> QED BY <2>3, <2>4, FS_Injection
<1>7. ASSUME NEW i \in 1..n
      PROVE  ByName(S)[i] \in S /\ rank[ByName(S)[i]] = i - 1
  <2>1. i - 1 \in 0..(n - 1)
    BY <1>1, <1>7
  <2>2. \E v \in S : rank[v] = i - 1
    BY <1>6, <2>1 DEF Surjection
  <2>3. \E v \in S : Cardinality(below(v)) = i - 1
    BY <2>2 DEF rank
  <2>4. ByName(S)[i] = CHOOSE v \in S : Cardinality(below(v)) = i - 1
    BY Zenon DEF ByName
  <2>5. ByName(S)[i] \in S /\ Cardinality(below(ByName(S)[i])) = i - 1
    BY <2>3, <2>4, Zenon
  <2> QED BY <2>5 DEF rank
<1>8. ByName(S) = [i \in 1..n |-> CHOOSE v \in S : Cardinality(below(v)) = i - 1]
  BY Zenon DEF ByName
<1>9. ByName(S) \in [1..n -> S]
  <2>1. ByName(S) = [i \in 1..n |-> ByName(S)[i]]
    BY <1>8, Zenon
  <2> QED BY <1>7, <2>1
<1>10. ASSUME NEW i \in 1..n, NEW j \in 1..n, i < j
       PROVE  ByName(S)[i] < ByName(S)[j]
  <2>1. /\ ByName(S)[i] \in S /\ rank[ByName(S)[i]] = i - 1
        /\ ByName(S)[j] \in S /\ rank[ByName(S)[j]] = j - 1
    BY <1>7
  <2>2. ByName(S)[i] \in Nat /\ ByName(S)[j] \in Nat
    BY <2>1
  <2>3. ~(i - 1 = j - 1) /\ ~(j - 1 < i - 1)
    BY <1>1, <1>10
  <2> QED BY <1>4, <2>1, <2>2, <2>3
<1>11. ASSUME NEW v \in S PROVE \E i \in 1..n : ByName(S)[i] = v
  <2>1. PICK i \in 1..n : i - 1 = rank[v]
    <3>1. rank[v] \in 0..(n - 1)
      BY <1>3
    <3>2. rank[v] + 1 \in 1..n /\ (rank[v] + 1) - 1 = rank[v]
      BY <1>1, <3>1
    <3> QED BY <3>2
  <2> QED BY <1>5, <1>7, <2>1
<1> QED BY <1>1, <1>9, <1>10, <1>11

\* lower_bound, of at most n elements.
Spans(s, n) == {p \in (1..Len(s) + 1) \X (0..n) : p[1] + p[2] <= Len(s) + 1}
Bisect(s, v, f, p) ==
  LET half == p[2] \div 2 IN
  IF p[2] = 0 THEN p[1]
  ELSE IF s[p[1] + half] < v THEN f[<<p[1] + half + 1, p[2] - half - 1>>]
  ELSE f[<<p[1], half>>]
IsLower(s, v, n, f) == f = [p \in Spans(s, n) |-> Bisect(s, v, f, p)]

\* The spans it goes on with are shorter.
LEMMA ShorterSpans ==
  ASSUME NEW s, Len(s) \in Nat, NEW n \in Nat, NEW p \in Spans(s, n), p[2] # 0
  PROVE  /\ p[2] \div 2 \in 0..(p[2] - 1) /\ p[2] \in 1..n /\ p[1] \in Nat
         /\ <<p[1] + p[2] \div 2 + 1, p[2] - p[2] \div 2 - 1>> \in Spans(s, p[2] - 1)
         /\ <<p[1], p[2] \div 2>> \in Spans(s, p[2] - 1)
<1>1. p[1] \in 1..Len(s) + 1 /\ p[2] \in 0..n /\ p[1] + p[2] <= Len(s) + 1
  BY DEF Spans
<1>2. PICK half : half = p[2] \div 2
  OBVIOUS
<1>3. half \in 0..(p[2] - 1) /\ p[2] \in 1..n /\ p[1] \in Nat
  BY <1>1, <1>2
<1>4. /\ p[1] + half + 1 \in 1..Len(s) + 1 /\ p[2] - half - 1 \in 0..(p[2] - 1)
      /\ (p[1] + half + 1) + (p[2] - half - 1) <= Len(s) + 1
      /\ p[1] + half <= Len(s) + 1
  BY <1>1, <1>3
<1> QED BY <1>1, <1>2, <1>3, <1>4 DEF Spans

\* There is such a function, ...
LEMMA LowerExists ==
  ASSUME NEW s, Len(s) \in Nat, NEW v, NEW n \in Nat
  PROVE  \E f : IsLower(s, v, n, f)
<1> DEFINE wrong == {k \in Nat : ~\E f : IsLower(s, v, k, f)}
<1>1. SUFFICES ASSUME wrong # {} PROVE FALSE
  OBVIOUS
<1>2. PICK k \in wrong : \A j \in wrong : k <= j
  BY <1>1, LeastNumber
<1>3. CASE k = 0
  <2>1. PICK h : h = [p \in Spans(s, 0) |-> p[1]]
    OBVIOUS
  <2>2. \A p \in Spans(s, 0) : Bisect(s, v, h, p) = p[1]
    BY DEF Spans, Bisect
  <2>3. IsLower(s, v, 0, h)
    BY <2>1, <2>2 DEF IsLower
  <2> QED BY <1>2, <1>3, <2>3
<1>4. CASE k # 0
  <2>1. k \in Nat /\ k - 1 \in Nat /\ ~(k <= k - 1)
    BY <1>4
  <2>2. PICK f : IsLower(s, v, k - 1, f)
    BY <1>2, <2>1
  <2>3. PICK h : h = [p \in Spans(s, k) |-> IF p[2] = k THEN Bisect(s, v, f, p) ELSE f[p]]
    OBVIOUS
  <2>4. ASSUME NEW p \in Spans(s, k), p[2] # k PROVE p \in Spans(s, k - 1)
    <3>1. p \in (1..Len(s) + 1) \X (0..k) /\ p[1] + p[2] <= Len(s) + 1
      BY DEF Spans
    <3>2. p[2] \in 0..(k - 1) /\ p[1] \in 1..Len(s) + 1 /\ p = <<p[1], p[2]>>
      BY <2>1, <2>4, <3>1
    <3>3. p \in (1..Len(s) + 1) \X (0..(k - 1))
      BY <3>2
    <3> QED BY <3>1, <3>3 DEF Spans
  <2>5. ASSUME NEW j \in 0..(k - 1), NEW p \in Spans(s, j)
        PROVE  h[p] = f[p] /\ p \in Spans(s, k)
    <3>1. p \in (1..Len(s) + 1) \X (0..j) /\ p[1] + p[2] <= Len(s) + 1
      BY DEF Spans
    <3>2. p[2] \in 0..k /\ p[2] # k /\ p[1] \in 1..Len(s) + 1 /\ p = <<p[1], p[2]>>
      BY <2>1, <3>1
    <3>3. p \in Spans(s, k)
      BY <3>1, <3>2 DEF Spans
    <3> QED BY <2>3, <3>2, <3>3
  <2>6. ASSUME NEW p \in Spans(s, k) PROVE Bisect(s, v, h, p) = Bisect(s, v, f, p)
    <3>1. CASE p[2] = 0
      BY <3>1 DEF Bisect
    <3>2. CASE p[2] # 0
      <4>1. /\ p[2] \in 1..k
            /\ <<p[1] + p[2] \div 2 + 1, p[2] - p[2] \div 2 - 1>> \in Spans(s, p[2] - 1)
            /\ <<p[1], p[2] \div 2>> \in Spans(s, p[2] - 1)
        BY <2>1, <3>2, ShorterSpans
      <4>2. p[2] - 1 \in 0..(k - 1)
        BY <2>1, <4>1
      <4>3. /\ h[<<p[1] + p[2] \div 2 + 1, p[2] - p[2] \div 2 - 1>>]
                 = f[<<p[1] + p[2] \div 2 + 1, p[2] - p[2] \div 2 - 1>>]
            /\ h[<<p[1], p[2] \div 2>>] = f[<<p[1], p[2] \div 2>>]
        BY <2>5, <4>1, <4>2
      <4> QED BY <4>3, Zenon DEF Bisect
    <3> QED BY <3>1, <3>2
  <2>7. ASSUME NEW p \in Spans(s, k) PROVE h[p] = Bisect(s, v, h, p)
    <3>1. CASE p[2] = k
      BY <2>3, <2>6, <3>1
    <3>2. CASE p[2] # k
      <4>1. f[p] = Bisect(s, v, f, p)
        BY <2>2, <2>4, <3>2 DEF IsLower
      <4> QED BY <2>3, <2>6, <3>2, <4>1
    <3> QED BY <3>1, <3>2
  <2>8. IsLower(s, v, k, h)
    BY <2>3, <2>7 DEF IsLower
  <2> QED BY <1>2, <2>8
<1> QED BY <1>3, <1>4

\* In an ascending sequence it is where the elements that are not less begin.
LEMMA LowerBound ==
  ASSUME NEW n \in Nat, NEW s \in [1..n -> Nat], NEW v \in Nat, Len(s) = n,
         \A i, j \in 1..n : i < j => s[i] < s[j],
         NEW f, IsLower(s, v, n, f)
  PROVE  /\ f[<<1, n>>] \in 1..(n + 1)
         /\ \A j \in 1..n : s[j] < v <=> j < f[<<1, n>>]
<1> DEFINE Right(p) == (\A j \in 1..n : /\ j < p[1] => s[j] < v
                                        /\ j >= p[1] + p[2] => ~(s[j] < v)) =>
                         /\ f[p] \in 1..(n + 1)
                         /\ \A j \in 1..n : s[j] < v <=> j < f[p]
           wrong == {k \in Nat : \E p \in Spans(s, n) : p[2] = k /\ ~Right(p)}
<1>1. \A p \in Spans(s, n) : f[p] = Bisect(s, v, f, p)
  BY DEF IsLower
<1>2. wrong = {}
  <2>1. SUFFICES ASSUME wrong # {} PROVE FALSE
    OBVIOUS
  <2>2. PICK k \in wrong : \A j \in wrong : k <= j
    BY <2>1, LeastNumber
  <2>3. PICK p \in Spans(s, n) : p[2] = k /\ ~Right(p)
    BY <2>2
  <2>4. /\ p[1] \in 1..(n + 1) /\ p[2] \in 0..n /\ p[1] + p[2] <= n + 1
        /\ \A j \in 1..n : (j < p[1] => s[j] < v) /\ (j >= p[1] + p[2] => ~(s[j] < v))
    BY <2>3 DEF Spans
  <2>5. CASE k = 0
    <3>1. f[p] = p[1]
      BY <1>1, <2>3, <2>5 DEF Bisect
    <3>2. \A j \in 1..n : s[j] < v <=> j < p[1]
      BY <2>3, <2>4, <2>5
    <3> QED BY <2>3, <2>4, <3>1, <3>2
  <2>6. CASE k # 0
    <3> DEFINE half == p[2] \div 2
               right == <<p[1] + half + 1, p[2] - half - 1>>
               left == <<p[1], half>>
    <3>1. half \in 0..(p[2] - 1) /\ right \in Spans(s, p[2] - 1) /\ left \in Spans(s, p[2] - 1)
      BY <2>3, <2>6, ShorterSpans
    <3>2. ASSUME NEW q \in Spans(s, p[2] - 1) PROVE q \in Spans(s, n) /\ Right(q)
      <4>1. q \in (1..Len(s) + 1) \X (0..(p[2] - 1)) /\ q[1] + q[2] <= Len(s) + 1
        BY DEF Spans
      <4>2. q[2] \in 0..n /\ q[2] < k /\ q[2] \in Nat /\ q[1] \in 1..Len(s) + 1 /\ q = <<q[1], q[2]>>
        BY <2>3, <2>4, <4>1
      <4>3. q \in Spans(s, n)
        BY <4>1, <4>2 DEF Spans
      <4>4. q[2] \notin wrong
        BY <2>2, <4>2
      <4> QED BY <4>2, <4>3, <4>4
    <3> HIDE DEF half
    <3>3. /\ p[1] \in Nat /\ half \in Nat /\ p[1] + half \in 1..n
          /\ s[p[1] + half] \in Nat
      <4>1. p[1] \in 1..(n + 1) /\ p[2] \in 0..n /\ p[1] + p[2] <= n + 1 /\ half \in 0..(p[2] - 1)
        BY <2>4, <3>1
      <4>2. p[1] \in Nat /\ half \in Nat /\ p[1] + half \in 1..n
        BY <4>1
      <4> QED BY <4>2
    <3>4. CASE s[p[1] + half] < v
      <4>1. f[p] = f[right]
        BY <1>1, <2>3, <2>6, <3>4, Zenon DEF Bisect, half
      <4>2. ASSUME NEW j \in 1..n, j < p[1] + half + 1 PROVE s[j] < v
        <5>1. j < p[1] + half \/ j = p[1] + half
          BY <3>3, <4>2
        <5>2. s[j] \in Nat
          OBVIOUS
        <5> QED BY <3>3, <3>4, <5>1, <5>2
      <4>3. right[1] = p[1] + half + 1 /\ right[2] = p[2] - half - 1
        OBVIOUS
      <4>4. right[1] + right[2] = p[1] + p[2]
        BY <2>4, <3>1, <4>3
      <4> QED BY <2>3, <2>4, <3>1, <3>2, <4>1, <4>2, <4>3, <4>4
    <3>5. CASE ~(s[p[1] + half] < v)
      <4>1. f[p] = f[left]
        BY <1>1, <2>3, <2>6, <3>5, Zenon DEF Bisect, half
      <4>2. ASSUME NEW j \in 1..n, j >= p[1] + half PROVE ~(s[j] < v)
        <5>1. p[1] + half < j \/ j = p[1] + half
          BY <3>3, <4>2
        <5>2. s[j] \in Nat
          OBVIOUS
        <5> QED BY <3>3, <3>5, <5>1, <5>2
      <4>3. left[1] = p[1] /\ left[2] = half
        OBVIOUS
      <4> QED BY <2>3, <2>4, <3>1, <3>2, <4>1, <4>2, <4>3
    <3> QED BY <3>4, <3>5
  <2> QED BY <2>5, <2>6
<1>3. <<1, n>> \in Spans(s, n) /\ <<1, n>>[2] = n /\ <<1, n>>[1] = 1
  BY DEF Spans
<1>4. Right(<<1, n>>)
  BY <1>2, <1>3
<1>5. \A j \in 1..n : ~(j < 1) /\ ~(j >= 1 + n)
  OBVIOUS
<1> QED BY <1>3, <1>4, <1>5

\* binary_search finds every element of an ascending sequence, and only these.
LEMMA SearchFinds ==
  ASSUME NEW n \in Nat, NEW s \in [1..n -> Nat], NEW v \in Nat,
         \A i, j \in 1..n : i < j => s[i] < s[j]
  PROVE  BinarySearch(s, v) <=> \E i \in 1..n : s[i] = v
<1>1. Len(s) = n
  BY DEF Spans
<1> DEFINE f == CHOOSE h : IsLower(s, v, n, h)
<1>2. IsLower(s, v, n, f)
  BY <1>1, LowerExists
<1>3. BinarySearch(s, v) <=> f[<<1, n>>] <= n /\ s[f[<<1, n>>]] <= v
  BY <1>1, Zenon DEF BinarySearch, IsLower, Bisect, Spans
<1> HIDE DEF f
<1>4. PICK b : b = f[<<1, n>>]
  OBVIOUS
<1>5. b \in 1..(n + 1) /\ \A j \in 1..n : s[j] < v <=> j < b
  BY <1>1, <1>2, <1>4, LowerBound
<1>6. ASSUME b <= n, s[b] <= v PROVE \E i \in 1..n : s[i] = v
  <2>1. b \in 1..n /\ s[b] \in Nat /\ ~(b < b)
    BY <1>5, <1>6
  <2>2. s[b] = v
    BY <1>5, <1>6, <2>1
  <2> QED BY <2>1, <2>2
<1>7. ASSUME NEW i \in 1..n, s[i] = v PROVE b <= n /\ s[b] <= v
  <2>1. ~(s[i] < v)
    BY <1>7
  <2>2. b \in 1..n /\ (b < i \/ b = i)
    BY <1>5, <2>1
  <2>3. s[b] \in Nat /\ s[i] \in Nat
    BY <2>2
  <2> QED BY <1>7, <2>2, <2>3
<1> QED BY <1>3, <1>4, <1>6, <1>7

\* A failed version is erased when it is found.
Erased(left, v) == IF BinarySearch(ByName(left), v) THEN left \ {v} ELSE left

\* The last m of the failed versions.
Lefts(available, vs, m) == (SUBSET available) \X ((Len(vs) + 1 - m)..(Len(vs) + 1))
Erases(vs, f, p) ==
  IF p[2] > Len(vs) THEN p[1] ELSE f[<<Erased(p[1], vs[p[2]]), p[2] + 1>>]
IsErase(available, vs, m, f) == f = [p \in Lefts(available, vs, m) |-> Erases(vs, f, p)]

\* A step of the erasure leaves one failed version less to look for.
LEMMA EraseGoesOn ==
  ASSUME NEW available, NEW vs, Len(vs) \in Nat, NEW m \in 0..Len(vs),
         NEW p \in Lefts(available, vs, m), ~(p[2] > Len(vs))
  PROVE  /\ p[1] \in SUBSET available /\ p[2] \in (Len(vs) + 1 - m)..Len(vs) /\ m # 0
         /\ <<Erased(p[1], vs[p[2]]), p[2] + 1>> \in Lefts(available, vs, m - 1)
<1>1. p[1] \in SUBSET available /\ p[2] \in (Len(vs) + 1 - m)..(Len(vs) + 1)
  BY DEF Lefts
<1>2. /\ p[2] \in (Len(vs) + 1 - m)..Len(vs) /\ m # 0
      /\ p[2] + 1 \in (Len(vs) + 1 - (m - 1))..(Len(vs) + 1)
  BY <1>1
<1>3. Erased(p[1], vs[p[2]]) \in SUBSET available
  BY <1>1 DEF Erased
<1> QED BY <1>1, <1>2, <1>3 DEF Lefts

\* The recursion defines a function.
LEMMA EraseExists ==
  ASSUME NEW available, NEW vs, Len(vs) \in Nat, NEW n \in 0..Len(vs)
  PROVE  \E f : IsErase(available, vs, n, f)
<1> DEFINE wrong == {k \in 0..Len(vs) : ~\E f : IsErase(available, vs, k, f)}
<1>1. SUFFICES ASSUME wrong # {} PROVE FALSE
  OBVIOUS
<1>5. wrong \in SUBSET Nat
  OBVIOUS
<1>2. PICK k \in wrong : \A j \in wrong : k <= j
  BY <1>1, <1>5, LeastNumber
<1>3. CASE k = 0
  <2>1. PICK h : h = [p \in Lefts(available, vs, 0) |-> p[1]]
    OBVIOUS
  <2>2. \A p \in Lefts(available, vs, 0) : Erases(vs, h, p) = p[1]
    BY DEF Lefts, Erases
  <2>3. IsErase(available, vs, 0, h)
    BY <2>1, <2>2 DEF IsErase
  <2> QED BY <1>2, <1>3, <2>3
<1>4. CASE k # 0
  <2>1. k \in 0..Len(vs) /\ k - 1 \in 0..Len(vs) /\ ~(k <= k - 1)
    BY <1>4
  <2>2. PICK f : IsErase(available, vs, k - 1, f)
    BY <1>2, <2>1
  <2>3. PICK h : h = [p \in Lefts(available, vs, k) |->
                        IF p[2] = Len(vs) + 1 - k THEN Erases(vs, f, p) ELSE f[p]]
    OBVIOUS
  <2>4. ASSUME NEW p \in Lefts(available, vs, k)
        PROVE  p[2] # Len(vs) + 1 - k <=> p \in Lefts(available, vs, k - 1)
    <3>1. p[1] \in SUBSET available /\ p[2] \in (Len(vs) + 1 - k)..(Len(vs) + 1) /\ p = <<p[1], p[2]>>
      BY DEF Lefts
    <3>2. p[2] # Len(vs) + 1 - k <=> p[2] \in (Len(vs) + 1 - (k - 1))..(Len(vs) + 1)
      BY <2>1, <3>1
    <3> QED BY <3>1, <3>2 DEF Lefts
  <2>5. ASSUME NEW p \in Lefts(available, vs, k - 1)
        PROVE  h[p] = f[p] /\ p \in Lefts(available, vs, k)
    <3>1. p[1] \in SUBSET available /\ p[2] \in (Len(vs) + 1 - (k - 1))..(Len(vs) + 1) /\ p = <<p[1], p[2]>>
      BY DEF Lefts
    <3>2. p[2] \in (Len(vs) + 1 - k)..(Len(vs) + 1) /\ p[2] # Len(vs) + 1 - k
      BY <2>1, <3>1
    <3>3. p \in Lefts(available, vs, k)
      BY <3>1, <3>2 DEF Lefts
    <3> QED BY <2>3, <3>2, <3>3
  <2>6. ASSUME NEW p \in Lefts(available, vs, k) PROVE Erases(vs, h, p) = Erases(vs, f, p)
    <3>1. CASE p[2] > Len(vs)
      BY <3>1 DEF Erases
    <3>2. CASE ~(p[2] > Len(vs))
      <4>1. <<Erased(p[1], vs[p[2]]), p[2] + 1>> \in Lefts(available, vs, k - 1)
        BY <2>1, <3>2, EraseGoesOn
      <4>2. h[<<Erased(p[1], vs[p[2]]), p[2] + 1>>] = f[<<Erased(p[1], vs[p[2]]), p[2] + 1>>]
        BY <2>5, <4>1
      <4> QED BY <4>2, Zenon DEF Erases
    <3> QED BY <3>1, <3>2
  <2>7. ASSUME NEW p \in Lefts(available, vs, k) PROVE h[p] = Erases(vs, h, p)
    <3>1. CASE p[2] = Len(vs) + 1 - k
      BY <2>3, <2>6, <3>1
    <3>2. CASE p[2] # Len(vs) + 1 - k
      <4>1. f[p] = Erases(vs, f, p)
        BY <2>2, <2>4, <3>2 DEF IsErase
      <4> QED BY <2>3, <2>6, <3>2, <4>1
    <3> QED BY <3>1, <3>2
  <2>8. IsErase(available, vs, k, h)
    BY <2>3, <2>7 DEF IsErase
  <2> QED BY <1>2, <2>8
<1> QED BY <1>3, <1>4

\* If the names are in order, a version that is there is found.
LEMMA FoundInOrder ==
  ASSUME NEW S \in SUBSET Nat, IsFiniteSet(S), InOrder(S), NEW v \in Nat
  PROVE  Erased(S, v) = S \ {v}
<1>1. /\ ByName(S) \in [1..Cardinality(S) -> S] /\ Cardinality(S) \in Nat
      /\ \A i, j \in 1..Cardinality(S) : i < j => ByName(S)[i] < ByName(S)[j]
      /\ \A x \in S : \E i \in 1..Cardinality(S) : ByName(S)[i] = x
  BY AscendingByName
<1>2. ByName(S) \in [1..Cardinality(S) -> Nat]
  BY <1>1
<1>3. BinarySearch(ByName(S), v) <=> \E i \in 1..Cardinality(S) : ByName(S)[i] = v
  BY <1>1, <1>2, SearchFinds
<1>4. BinarySearch(ByName(S), v) <=> v \in S
  BY <1>1, <1>3
<1> QED BY <1>4 DEF Erased

\* Only failed versions are erased, and all of them if the names are in order.
LEMMA EraseFailedErases ==
  ASSUME NEW available \in SUBSET Nat, NEW vs \in Seq(Nat)
  PROVE  /\ EraseFailed(available, vs) \in SUBSET available
         /\ available \ EraseFailed(available, vs) \in SUBSET Range(vs)
         /\ IsFiniteSet(available) /\ InOrder(available) =>
               EraseFailed(available, vs) \cap Range(vs) = {}
<1> DEFINE n == Len(vs)
           f == CHOOSE h : IsErase(available, vs, n, h)
           ordered == IsFiniteSet(available) /\ InOrder(available)
           Right(p) == /\ f[p] \in SUBSET p[1]
                       /\ \A x \in p[1] \ f[p] : \E j \in p[2]..n : x = vs[j]
                       /\ ordered => \A j \in p[2]..n : vs[j] \notin f[p]
           wrong == {k \in 0..n : \E p \in Lefts(available, vs, n) : p[2] = n + 1 - k /\ ~Right(p)}
<1>1. n \in Nat /\ n \in 0..n /\ \A j \in 1..n : vs[j] \in Nat
  OBVIOUS
<1>2. IsErase(available, vs, n, f)
  BY <1>1, EraseExists
<1>3. (n + 1 - n)..(n + 1) = 1..(n + 1)
  BY <1>1
<1>4. Lefts(available, vs, n) = (SUBSET available) \X (1..Len(vs) + 1)
  BY <1>3 DEF Lefts
<1>5. EraseFailed(available, vs) = f[<<available, 1>>]
  BY <1>4, Zenon DEF EraseFailed, IsErase, Erases, Erased
<1> HIDE DEF f
<1>6. \A p \in Lefts(available, vs, n) : f[p] = Erases(vs, f, p)
  BY <1>2 DEF IsErase
<1>7. wrong = {}
  <2>1. SUFFICES ASSUME wrong # {} PROVE FALSE
    OBVIOUS
  <2>2. wrong \in SUBSET Nat
    BY <1>1
  <2>3. PICK k \in wrong : \A j \in wrong : k <= j
    BY <2>1, <2>2, LeastNumber
  <2>4. PICK p \in Lefts(available, vs, n) : p[2] = n + 1 - k /\ ~Right(p)
    BY <2>3
  <2>5. k \in 0..n /\ p[1] \in SUBSET available /\ p[2] \in 1..(n + 1)
    BY <1>4, <2>3, <2>4
  <2>6. CASE p[2] > n
    <3>1. f[p] = p[1]
      BY <1>6, <2>6 DEF Erases
    <3>2. p[2]..n = {}
      BY <1>1, <2>5, <2>6
    <3> QED BY <2>4, <3>1, <3>2
  <2>7. CASE ~(p[2] > n)
    <3>1. PICK q : q = <<Erased(p[1], vs[p[2]]), p[2] + 1>>
      OBVIOUS
    <3>2. f[p] = f[q]
      BY <1>6, <2>7, <3>1 DEF Erases
    <3>3. p[2] \in 1..n /\ p[2] + 1 \in 1..(n + 1) /\ k - 1 \in 0..n /\ p[2] + 1 = n + 1 - (k - 1)
          /\ ~(k <= k - 1)
      BY <1>1, <2>4, <2>5, <2>7
    <3>4. q[1] = Erased(p[1], vs[p[2]]) /\ q[2] = p[2] + 1 /\ q[1] \in SUBSET p[1]
      BY <3>1 DEF Erased
    <3>5. q \in Lefts(available, vs, n)
      BY <1>4, <2>5, <3>1, <3>3, <3>4
    <3>6. Right(q)
      BY <2>3, <3>3, <3>4, <3>5
    <3>7. p[1] \ q[1] \in SUBSET {vs[p[2]]}
      BY <3>4 DEF Erased
    <3>8. ordered => q[1] = p[1] \ {vs[p[2]]}
      <4>1. SUFFICES ASSUME ordered PROVE q[1] = p[1] \ {vs[p[2]]}
        OBVIOUS
      <4>2. IsFiniteSet(p[1]) /\ InOrder(p[1]) /\ p[1] \in SUBSET Nat
        BY <2>5, <4>1, FS_Subset DEF InOrder
      <4> QED BY <1>1, <3>3, <3>4, <4>2, FoundInOrder
    <3>9. \A j \in p[2]..n : j = p[2] \/ j \in (p[2] + 1)..n
      BY <1>1, <3>3
    <3>10. p[2] \in p[2]..n /\ (p[2] + 1)..n \in SUBSET (p[2]..n)
      BY <1>1, <3>3
    <3>11. f[p] \in SUBSET p[1]
      BY <3>2, <3>4, <3>6
    <3>12. ASSUME NEW x \in p[1] \ f[p] PROVE \E j \in p[2]..n : x = vs[j]
      BY <3>2, <3>4, <3>6, <3>7, <3>10, <3>12
    <3>13. ASSUME ordered, NEW j \in p[2]..n PROVE vs[j] \notin f[p]
      BY <3>2, <3>4, <3>6, <3>8, <3>9, <3>13
    <3> QED BY <2>4, <3>11, <3>12, <3>13
  <2> QED BY <2>6, <2>7
<1>8. <<available, 1>> \in Lefts(available, vs, n) /\ 1 = n + 1 - n
  BY <1>1, <1>4
<1>9. Right(<<available, 1>>)
  BY <1>1, <1>7, <1>8
<1>10. Range(vs) = {vs[j] : j \in 1..n}
  BY DEF Range
<1>11. PICK kept : kept = EraseFailed(available, vs)
  OBVIOUS
<1>12. /\ kept \in SUBSET available
       /\ \A x \in available \ kept : \E j \in 1..n : x = vs[j]
       /\ ordered => \A j \in 1..n : vs[j] \notin kept
  BY <1>5, <1>9, <1>11
<1>13. available \ kept \in SUBSET Range(vs)
  BY <1>10, <1>12
<1>14. ordered => kept \cap Range(vs) = {}
  BY <1>10, <1>12
<1> QED BY <1>11, <1>12, <1>13, <1>14


-----------------------------------------------------------------------------
(* What the stores say of a repository. *)

\* k is below p.
Extends(k, p) == Len(k) > Len(p) /\ \A i \in 1..Len(p) : k[i] = p[i]

LEMMA PathSeq == ASSUME NEW p, IsPath(p), NEW R, \A i \in 1..Len(p) : p[i] \in R PROVE p \in Seq(R)
BY DEF IsPath

LEMMA SamePath ==
  ASSUME NEW p, NEW q, IsPath(p), IsPath(q), Len(p) = Len(q), \A i \in 1..Len(p) : p[i] = q[i]
  PROVE  p = q
BY DEF IsPath

LEMMA PrefixPath ==
  ASSUME NEW k, IsPath(k), NEW m \in 0..Len(k)
  PROVE  /\ IsPath(SubSeq(k, 1, m)) /\ Len(SubSeq(k, 1, m)) = m
         /\ \A i \in 1..m : SubSeq(k, 1, m)[i] = k[i]
<1>1. PICK R : R = {k[i] : i \in 1..Len(k)}
  OBVIOUS
<1>2. k \in Seq(R) /\ Len(k) \in Nat
  BY <1>1, PathSeq DEF IsPath
<1> QED BY <1>2 DEF IsPath

LEMMA SuffixPath ==
  ASSUME NEW k, IsPath(k), NEW m \in 0..Len(k)
  PROVE  /\ IsPath(SubSeq(k, m + 1, Len(k))) /\ Len(SubSeq(k, m + 1, Len(k))) = Len(k) - m
         /\ \A i \in 1..(Len(k) - m) : SubSeq(k, m + 1, Len(k))[i] = k[i + m]
<1>1. PICK R : R = {k[i] : i \in 1..Len(k)}
  OBVIOUS
<1>2. k \in Seq(R) /\ Len(k) \in Nat
  BY <1>1, PathSeq DEF IsPath
<1>3. PICK a, l, q : a = m + 1 /\ l = Len(k) /\ q = SubSeq(k, a, l)
  OBVIOUS
<1>4. l \in Nat /\ m \in Nat /\ m <= l /\ a \in 1..(l + 1) /\ l = Len(k)
  BY <1>2, <1>3
<1>5. q \in Seq(R) /\ Len(q) = l - m
  BY <1>2, <1>3, <1>4
<1>6. \A i \in 1..(l - m) : q[i] = k[i + m]
  BY <1>2, <1>3, <1>4
<1>7. IsPath(q)
  BY <1>5 DEF IsPath
<1> QED BY <1>3, <1>5, <1>6, <1>7

LEMMA AppendPath ==
  ASSUME NEW p, IsPath(p), NEW n
  PROVE  /\ IsPath(Append(p, n)) /\ Len(Append(p, n)) = Len(p) + 1
         /\ Append(p, n)[Len(p) + 1] = n /\ \A i \in 1..Len(p) : Append(p, n)[i] = p[i]
<1>1. PICK R : R = {p[i] : i \in 1..Len(p)} \cup {n}
  OBVIOUS
<1>2. p \in Seq(R) /\ Len(p) \in Nat /\ n \in R
  BY <1>1, PathSeq DEF IsPath
<1>3. Append(p, n) \in Seq(R) /\ Len(Append(p, n)) = Len(p) + 1
  BY <1>2, AppendProperties
<1>4. IsPath(Append(p, n))
  <2>1. PICK q \in Seq(R) : q = Append(p, n)
    BY <1>3
  <2>2. IsPath(q)
    BY DEF IsPath
  <2> QED BY <2>1, <2>2
<1>5. Append(p, n)[Len(p) + 1] = n /\ \A i \in 1..Len(p) : Append(p, n)[i] = p[i]
  BY <1>2
<1> QED BY <1>3, <1>4, <1>5

LEMMA UnderExtends ==
  ASSUME NEW S, \A k \in S : IsPath(k), NEW p, IsPath(p)
  PROVE  Under(S, p) = {k \in S : Extends(k, p)}
<1>1. ASSUME NEW k \in S, Len(k) > Len(p)
      PROVE  SubSeq(k, 1, Len(p)) = p <=> \A i \in 1..Len(p) : k[i] = p[i]
  <2>1. Len(p) \in 0..Len(k) /\ IsPath(k)
    BY <1>1 DEF IsPath
  <2>2. /\ IsPath(SubSeq(k, 1, Len(p))) /\ Len(SubSeq(k, 1, Len(p))) = Len(p)
        /\ \A i \in 1..Len(p) : SubSeq(k, 1, Len(p))[i] = k[i]
    BY <2>1, PrefixPath
  <2>3. ASSUME \A i \in 1..Len(p) : k[i] = p[i] PROVE SubSeq(k, 1, Len(p)) = p
    BY <2>2, <2>3, SamePath
  <2> QED BY <2>2, <2>3
<1> QED BY <1>1 DEF Under, Extends

LEMMA ExtendsAppend ==
  ASSUME NEW k, IsPath(k), NEW p, IsPath(p), NEW n
  PROVE  /\ Extends(k, Append(p, n)) <=> Len(k) > Len(p) + 1 /\ Extends(k, p) /\ k[Len(p) + 1] = n
         /\ k = Append(p, n) <=> Len(k) = Len(p) + 1 /\ Extends(k, p) /\ k[Len(p) + 1] = n
<1> DEFINE q == Append(p, n)
<1>1. /\ IsPath(q) /\ Len(q) = Len(p) + 1 /\ q[Len(p) + 1] = n /\ \A i \in 1..Len(p) : q[i] = p[i]
      /\ Len(p) \in Nat /\ Len(k) \in Nat
  BY AppendPath DEF IsPath
<1> HIDE DEF q
<1>2. \A i \in 1..(Len(p) + 1) : i \in 1..Len(p) \/ i = Len(p) + 1
  BY <1>1
<1>3. 1..Len(p) \in SUBSET (1..(Len(p) + 1)) /\ Len(p) + 1 \in 1..(Len(p) + 1)
  BY <1>1
<1>4. Extends(k, q) <=> Len(k) > Len(p) + 1 /\ Extends(k, p) /\ k[Len(p) + 1] = n
  <2>1. (\A i \in 1..Len(q) : k[i] = q[i]) <=> k[Len(p) + 1] = n /\ \A i \in 1..Len(p) : k[i] = p[i]
    BY <1>1, <1>2, <1>3
  <2>2. Len(k) > Len(q) <=> Len(k) > Len(p) + 1
    BY <1>1
  <2>3. Len(k) > Len(p) + 1 => Len(k) > Len(p)
    BY <1>1
  <2> QED BY <2>1, <2>2, <2>3 DEF Extends
<1>5. ASSUME Len(k) = Len(p) + 1, Extends(k, p), k[Len(p) + 1] = n PROVE k = q
  BY <1>1, <1>2, <1>5, SamePath DEF Extends
<1>6. ASSUME k = q PROVE Len(k) = Len(p) + 1 /\ Extends(k, p) /\ k[Len(p) + 1] = n
  BY <1>1, <1>6 DEF Extends
<1> QED BY <1>4, <1>5, <1>6 DEF q

\* The keys in the subdirectory n of p.
Inside(S, p, n) == {k \in S : Len(k) > Len(p) + 1 /\ Extends(k, p) /\ k[Len(p) + 1] = n}

LEMMA UnderNext ==
  ASSUME NEW S, Tree(S), NEW p, IsPath(p), NEW n
  PROVE  /\ Under(S, Append(p, n)) = Inside(S, p, n)
         /\ Below(S, p) = {k \in S : Extends(k, p) /\ (Len(k) = Len(p) + 1 => k[Len(p) + 1] # "")}
<1>1. \A k \in S : IsPath(k)
  BY DEF Tree
<1>2. \A m : IsPath(Append(p, m))
  BY AppendPath
<1>3. Under(S, p) = {k \in S : Extends(k, p)} /\ Under(S, Append(p, n)) = {k \in S : Extends(k, Append(p, n))}
  BY <1>1, <1>2, UnderExtends
<1>4. ASSUME NEW k \in S
      PROVE  Extends(k, Append(p, n)) <=> Len(k) > Len(p) + 1 /\ Extends(k, p) /\ k[Len(p) + 1] = n
  <2>1. IsPath(k)
    BY <1>1
  <2> QED BY <2>1, ExtendsAppend, ZenonT(60)
<1>5. ASSUME NEW k \in S
      PROVE  k = Append(p, "") <=> Len(k) = Len(p) + 1 /\ Extends(k, p) /\ k[Len(p) + 1] = ""
  <2>1. IsPath(k)
    BY <1>1
  <2> QED BY <2>1, ExtendsAppend, ZenonT(60)
<1>6. Below(S, p) = {k \in Under(S, p) : k # Append(p, "")}
  BY DEF Below
<1> QED BY <1>3, <1>4, <1>5, <1>6 DEF Inside

\* A part after p is the name of a subdirectory or of a file, whichever store.
LEMMA Entries ==
  ASSUME NEW S, Tree(S), NEW p, IsPath(p)
  PROVE  /\ AzureBlobDirectorySubdirs(S, p) = LocalDirectorySubdirs(S, p)
         /\ AzureBlobDirectoryFiles(S, p) = LocalDirectoryFiles(S, p)
<1>1. Len(p) \in Nat /\ \A k \in S : IsPath(k) /\ Len(k) \in Nat
  BY DEF IsPath, Tree
<1>2. \A k \in S : Extends(k, p) => Len(k) > Len(p) /\ (~(Len(k) > Len(p) + 1) => Len(k) = Len(p) + 1)
  BY <1>1 DEF Extends
<1>3. Under(S, p) = {k \in S : Extends(k, p)}
  BY <1>1, UnderExtends
<1>4. Below(S, p) = {k \in S : Extends(k, p) /\ (Len(k) = Len(p) + 1 => k[Len(p) + 1] # "")}
  BY UnderNext
<1>5. ASSUME NEW n
      PROVE  Under(S, Append(p, n)) = Inside(S, p, n)
  BY UnderNext, Zenon
<1>6. ASSUME NEW n
      PROVE  n \in AzureBlobDirectorySubdirs(S, p) <=> n \in LocalDirectorySubdirs(S, p)
  <2>1. n \in AzureBlobDirectorySubdirs(S, p)
          <=> \E k \in S : Extends(k, p) /\ Len(k) > Len(p) + 1 /\ k[Len(p) + 1] = n
    BY <1>3 DEF AzureBlobDirectorySubdirs, PartAfter
  <2>2. n \in LocalDirectorySubdirs(S, p)
          <=> n \in PartAfter(p, Below(S, p)) /\ Under(S, Append(p, n)) # {}
    BY DEF LocalDirectorySubdirs, LocalIsDirectory
  <2>3. Under(S, Append(p, n)) # {}
          <=> \E k \in S : Extends(k, p) /\ Len(k) > Len(p) + 1 /\ k[Len(p) + 1] = n
    BY <1>5 DEF Inside
  <2>4. ASSUME NEW k \in S, Extends(k, p), Len(k) > Len(p) + 1, k[Len(p) + 1] = n
        PROVE  n \in PartAfter(p, Below(S, p))
    <3>1. Len(k) # Len(p) + 1
      BY <1>1, <2>4
    <3>2. k \in Below(S, p)
      BY <1>4, <2>4, <3>1
    <3> QED BY <2>4, <3>2 DEF PartAfter
  <2> QED BY <2>1, <2>2, <2>3, <2>4
<1>7. ASSUME NEW n
      PROVE  n \in AzureBlobDirectoryFiles(S, p) <=> n \in LocalDirectoryFiles(S, p)
  <2>1. n \in AzureBlobDirectoryFiles(S, p)
          <=> \E k \in S : Extends(k, p) /\ Len(k) = Len(p) + 1 /\ IsFile(k) /\ k[Len(p) + 1] = n
    BY <1>3 DEF AzureBlobDirectoryFiles, PartAfter
  <2>2. n \in LocalDirectoryFiles(S, p)
          <=> n \in PartAfter(p, Below(S, p)) /\ Under(S, Append(p, n)) = {}
    BY DEF LocalDirectoryFiles, LocalIsDirectory
  <2>3. ASSUME NEW k \in S, Extends(k, p), Len(k) = Len(p) + 1, IsFile(k), k[Len(p) + 1] = n
        PROVE  n \in LocalDirectoryFiles(S, p)
    <3>1. k = Append(p, n)
      <4>1. IsPath(k)
        BY <1>1
      <4>2. k = Append(p, n) <=> Len(k) = Len(p) + 1 /\ Extends(k, p) /\ k[Len(p) + 1] = n
        BY <4>1, ExtendsAppend, ZenonT(60)
      <4> QED BY <2>3, <4>2
    <3>2. Under(S, k) = {}
      BY <2>3 DEF Tree
    <3>3. k \in Below(S, p)
      BY <1>4, <2>3 DEF IsFile
    <3>4. n \in PartAfter(p, Below(S, p))
      BY <2>3, <3>3 DEF PartAfter
    <3> QED BY <2>2, <3>1, <3>2, <3>4
  <2>4. ASSUME n \in LocalDirectoryFiles(S, p)
        PROVE  n \in AzureBlobDirectoryFiles(S, p)
    <3>1. PICK k \in Below(S, p) : k[Len(p) + 1] = n
      BY <2>2, <2>4 DEF PartAfter
    <3>2. k \in S /\ Extends(k, p) /\ (Len(k) = Len(p) + 1 => k[Len(p) + 1] # "")
      BY <1>4
    <3>3. ~(Len(k) > Len(p) + 1)
      BY <1>5, <2>2, <2>4, <3>1, <3>2 DEF Inside
    <3>4. Len(k) = Len(p) + 1
      BY <1>2, <3>2, <3>3
    <3> QED BY <2>1, <3>1, <3>2, <3>4 DEF IsFile
  <2> QED BY <2>1, <2>3, <2>4
<1>8. /\ AzureBlobDirectorySubdirs(S, p) \in SUBSET LocalDirectorySubdirs(S, p)
      /\ LocalDirectorySubdirs(S, p) \in SUBSET AzureBlobDirectorySubdirs(S, p)
  BY <1>6
<1>9. /\ AzureBlobDirectoryFiles(S, p) \in SUBSET LocalDirectoryFiles(S, p)
      /\ LocalDirectoryFiles(S, p) \in SUBSET AzureBlobDirectoryFiles(S, p)
  BY <1>7
<1> QED BY <1>8, <1>9

\* Azure file shares: a path with a key below it is walked to its end.
LEMMA WalkEnds ==
  ASSUME NEW S, Tree(S), NEW p, IsPath(p), Len(p) # 0
  PROVE  /\ AzureFileIsDirectory(S, p) <=> Under(S, p) # {}
         /\ Under(S, p) # {} => AzureFileLastWorkingSubdir(S, p) = p
<1>1. Len(p) \in Nat /\ Len(p) \in 1..Len(p) /\ 1..Len(p) # {}
  BY DEF IsPath
<1>2. \A k \in S : IsPath(k)
  BY DEF Tree
<1>3. SubSeq(p, 1, Len(p)) = p
  <2>1. /\ IsPath(SubSeq(p, 1, Len(p))) /\ Len(SubSeq(p, 1, Len(p))) = Len(p)
        /\ \A i \in 1..Len(p) : SubSeq(p, 1, Len(p))[i] = p[i]
    BY <1>1, PrefixPath
  <2> QED BY <2>1, SamePath
<1>4. ASSUME NEW k \in Under(S, p), NEW i \in 1..Len(p) PROVE Under(S, SubSeq(p, 1, i)) # {}
  <2>1. /\ IsPath(SubSeq(p, 1, i)) /\ Len(SubSeq(p, 1, i)) = i
        /\ \A j \in 1..i : SubSeq(p, 1, i)[j] = p[j]
    <3>1. i \in 0..Len(p)
      BY <1>1
    <3> QED BY <3>1, PrefixPath
  <2>2. k \in S /\ Len(k) > Len(p) /\ Len(k) \in Nat /\ \A j \in 1..Len(p) : k[j] = p[j]
    <3>1. Under(S, p) = {l \in S : Extends(l, p)}
      BY <1>2, UnderExtends
    <3>2. k \in S /\ Extends(k, p)
      BY <3>1
    <3> QED BY <1>2, <3>2 DEF Extends, IsPath
  <2>3. Len(k) > i /\ 1..i \in SUBSET (1..Len(p))
    BY <1>1, <2>2
  <2>4. Extends(k, SubSeq(p, 1, i))
    BY <2>1, <2>2, <2>3 DEF Extends
  <2> QED BY <1>2, <2>1, <2>2, <2>4, UnderExtends
<1>5. AzureFileIsDirectory(S, p) <=> Under(S, p) # {}
  BY <1>1, <1>3, <1>4 DEF AzureFileIsDirectory
<1>6. ASSUME Under(S, p) # {} PROVE AzureFileLastWorkingSubdir(S, p) = p
  <2> DEFINE existing == {i \in 1..Len(p) : \A j \in 1..i : Under(S, SubSeq(p, 1, j)) # {}}
             last == CHOOSE i \in existing : \A j \in existing : j <= i
  <2>1. existing = 1..Len(p)
    <3>1. \A i \in 1..Len(p) : 1..i \in SUBSET (1..Len(p))
      BY <1>1
    <3> QED BY <1>4, <1>6, <3>1
  <2> HIDE DEF existing
  <2>2. \E i \in existing : \A j \in existing : j <= i
    BY <1>1, <2>1
  <2>3. last \in existing /\ \A j \in existing : j <= last
    BY <2>2
  <2> HIDE DEF last
  <2>4. last = Len(p)
    BY <1>1, <2>1, <2>3
  <2>5. existing # {}
    BY <1>1, <2>1
  <2>6. AzureFileLastWorkingSubdir(S, p) = SubSeq(p, 1, IF existing = {} THEN 0 ELSE last)
    BY DEF AzureFileLastWorkingSubdir, existing, last
  <2> QED BY <1>3, <2>4, <2>5, <2>6
<1> QED BY <1>5, <1>6

\* Whatever the store, a path with a key below it is a directory, and has the
\* same subdirectories and files.
LEMMA SameListings ==
  ASSUME NEW S, Tree(S), NEW p, IsPath(p), Len(p) >= 2, NEW f \in Backends
  PROVE  /\ IsDirectory(f, S, p) = LocalIsDirectory(S, p)
         /\ LocalIsDirectory(S, p) =>
              /\ DirectorySubdirs(f, S, p) = LocalDirectorySubdirs(S, p)
              /\ DirectoryFiles(f, S, p) = LocalDirectoryFiles(S, p)
<1>1. Len(p) \in Nat /\ p # <<>> /\ \A n : Append(p, n) # <<>>
  <2>1. Len(p) \in Nat /\ p # <<>>
    BY DEF IsPath
  <2>2. ASSUME NEW n PROVE Append(p, n) # <<>>
    <3>1. Len(Append(p, n)) = Len(p) + 1
      BY AppendPath
    <3>2. Len(Append(p, n)) # 0
      BY <2>1, <3>1
    <3> QED BY <3>2
  <2> QED BY <2>1, <2>2
<1>2. CASE f = "local"
  BY <1>2 DEF IsDirectory, DirectorySubdirs, DirectoryFiles
<1>3. CASE f = "s3"
  <2>1. S3IsDirectory(S, p) = LocalIsDirectory(S, p)
    BY <1>1 DEF S3IsDirectory, LocalIsDirectory
  <2>2. \A n : S3IsDirectory(S, Append(p, n)) = LocalIsDirectory(S, Append(p, n))
    BY <1>1 DEF S3IsDirectory, LocalIsDirectory
  <2>3. S3DirectorySubdirs(S, p) = LocalDirectorySubdirs(S, p)
    BY <2>2 DEF S3DirectorySubdirs, S3DirectoryContents, LocalDirectorySubdirs
  <2>4. S3DirectoryFiles(S, p) = LocalDirectoryFiles(S, p)
    BY <2>2 DEF S3DirectoryFiles, S3DirectoryContents, LocalDirectoryFiles
  <2> QED BY <1>3, <2>1, <2>3, <2>4 DEF IsDirectory, DirectorySubdirs, DirectoryFiles
<1>4. CASE f = "gcs"
  <2>1. \A q : GCSIsDirectory(S, q) = LocalIsDirectory(S, q)
    BY DEF GCSIsDirectory, LocalIsDirectory
  <2>2. GCSDirectorySubdirs(S, p) = LocalDirectorySubdirs(S, p)
    BY <2>1 DEF GCSDirectorySubdirs, GCSDirectoryContents, LocalDirectorySubdirs
  <2>3. GCSDirectoryFiles(S, p) = LocalDirectoryFiles(S, p)
    BY <2>1 DEF GCSDirectoryFiles, GCSDirectoryContents, LocalDirectoryFiles
  <2> QED BY <1>4, <2>1, <2>2, <2>3 DEF IsDirectory, DirectorySubdirs, DirectoryFiles
<1>5. CASE f = "azblob"
  <2>1. AzureBlobIsDirectory(S, p) = LocalIsDirectory(S, p)
    <3> DEFINE parent == SubSeq(p, 1, Len(p) - 1)
    <3>1. /\ IsPath(parent) /\ Len(parent) = Len(p) - 1
          /\ \A i \in 1..(Len(p) - 1) : parent[i] = p[i]
      <4>1. Len(p) - 1 \in 0..Len(p)
        BY <1>1
      <4> QED BY <4>1, PrefixPath
    <3> HIDE DEF parent
    <3>2. \A k \in S : IsPath(k) /\ Len(k) \in Nat
      BY DEF Tree, IsPath
    <3>3. Under(S, parent) = {k \in S : Extends(k, parent)} /\ Under(S, p) = {k \in S : Extends(k, p)}
      BY <3>1, <3>2, UnderExtends
    <3>4. ASSUME NEW k \in S
          PROVE  Extends(k, parent) /\ Len(k) > Len(p) /\ k[Len(p)] = p[Len(p)] <=> Extends(k, p)
      <4>1. \A i \in 1..Len(p) : i \in 1..(Len(p) - 1) \/ i = Len(p)
        BY <1>1
      <4>2. 1..(Len(p) - 1) \in SUBSET (1..Len(p)) /\ Len(p) \in 1..Len(p)
        BY <1>1
      <4>3. Len(k) > Len(p) => Len(k) > Len(p) - 1
        BY <1>1, <3>2
      <4> QED BY <3>1, <4>1, <4>2, <4>3 DEF Extends
    <3>5. AzureBlobIsDirectory(S, p)
            = \E k \in Under(S, parent) : Len(k) > Len(p) /\ k[Len(p)] = p[Len(p)]
      BY DEF AzureBlobIsDirectory, parent
    <3> QED BY <3>3, <3>4, <3>5 DEF LocalIsDirectory
  <2> QED BY <1>5, <2>1, Entries DEF IsDirectory, DirectorySubdirs, DirectoryFiles
<1>6. CASE f = "azfile"
  <2>1. AzureFileIsDirectory(S, p) <=> Under(S, p) # {}
    BY <1>1, WalkEnds
  <2>2. Under(S, p) # {} => AzureFileLastWorkingSubdir(S, p) = p
    BY <1>1, WalkEnds
  <2>3. (AzureFileCheckPath(p) /\ AzureFileIsDirectory(S, p)) = LocalIsDirectory(S, p)
    BY <1>1, <2>1 DEF AzureFileCheckPath, LocalIsDirectory
  <2>4. ASSUME LocalIsDirectory(S, p)
        PROVE  /\ AzureFileDirectorySubdirs(S, p) = LocalDirectorySubdirs(S, p)
               /\ AzureFileDirectoryFiles(S, p) = LocalDirectoryFiles(S, p)
    BY <2>2, <2>4 DEF AzureFileDirectorySubdirs, AzureFileDirectoryFiles, LocalDirectorySubdirs,
                      LocalDirectoryFiles, LocalIsDirectory
  <2> QED BY <1>6, <2>3, <2>4 DEF IsDirectory, DirectorySubdirs, DirectoryFiles
<1> QED BY <1>2, <1>3, <1>4, <1>5, <1>6 DEF Backends

\* Every store finds the files that are there.
LEMMA FilesFound ==
  ASSUME NEW S, Tree(S), NEW k \in S, Len(k) >= 2, NEW f \in Backends
  PROVE  FileExists(f, S, k)
<1>1. IsPath(k) /\ Len(k) \in Nat /\ Len(k) - 1 \in 0..Len(k) /\ Len(k) - 1 \in Nat \ {0}
  BY DEF Tree, IsPath
<1>2. CASE f # "azfile"
  BY <1>2 DEF FileExists, LocalFileExists, S3FileExists, GCSFileExists, AzureBlobFileExists, Backends
<1>3. CASE f = "azfile"
  <2> DEFINE d == SubSeq(k, 1, Len(k) - 1)
  <2>1. /\ IsPath(d) /\ Len(d) = Len(k) - 1
        /\ \A i \in 1..(Len(k) - 1) : d[i] = k[i]
    BY <1>1, PrefixPath
  <2> HIDE DEF d
  <2>2. Extends(k, d)
    BY <1>1, <2>1 DEF Extends
  <2>3. Under(S, d) = {l \in S : Extends(l, d)}
    BY <2>1, UnderExtends DEF Tree
  <2>4. AzureFileLastWorkingSubdir(S, d) = d
    BY <1>1, <2>1, <2>2, <2>3, WalkEnds
  <2>5. Len(k) = Len(d) + 1 /\ k[Len(d) + 1] = k[Len(k)]
    BY <1>1, <2>1
  <2>6. k = Append(d, k[Len(k)])
    <3>1. k = Append(d, k[Len(k)]) <=> Len(k) = Len(d) + 1 /\ Extends(k, d) /\ k[Len(d) + 1] = k[Len(k)]
      <4>1. IsPath(k) /\ IsPath(d)
        BY <1>1, <2>1
      <4> QED BY <4>1, ExtendsAppend, Zenon
    <3> QED BY <2>2, <2>5, <3>1
  <2>7. AzureFileExists(S, k)
    BY <2>4, <2>6 DEF AzureFileExists, d
  <2> QED BY <1>3, <2>7 DEF FileExists
<1> QED BY <1>2, <1>3

\* g is the rest of the key k after p.
Rest(k, p, g) == Len(k) = Len(p) + Len(g) /\ \A i \in 1..Len(g) : g[i] = k[i + Len(p)]

LEMMA RelativeRest ==
  ASSUME NEW S, Tree(S), NEW p, IsPath(p), NEW g, IsPath(g), NEW K \in SUBSET Under(S, p)
  PROVE  g \in RelativePaths(p, K) <=> \E k \in K : Rest(k, p, g)
<1>1. ASSUME NEW k \in K PROVE g = SubSeq(k, Len(p) + 1, Len(k)) <=> Rest(k, p, g)
  <2>1. IsPath(k) /\ Len(p) \in 0..Len(k) /\ Len(k) \in Nat /\ Len(p) \in Nat /\ Len(g) \in Nat
    BY DEF Under, Tree, IsPath
  <2>2. PICK q : q = SubSeq(k, Len(p) + 1, Len(k))
    OBVIOUS
  <2>3. /\ IsPath(q) /\ Len(q) = Len(k) - Len(p)
        /\ \A i \in 1..(Len(k) - Len(p)) : q[i] = k[i + Len(p)]
    BY <2>1, <2>2, SuffixPath
  <2>4. ASSUME Rest(k, p, g) PROVE g = q
    <3>1. Len(g) = Len(q) /\ Len(k) - Len(p) = Len(g)
      BY <2>1, <2>3, <2>4 DEF Rest
    <3>2. \A i \in 1..Len(g) : g[i] = q[i]
      BY <2>3, <2>4, <3>1 DEF Rest
    <3> QED BY <2>3, <3>1, <3>2, SamePath
  <2>5. ASSUME g = q PROVE Rest(k, p, g)
    <3>1. Len(k) = Len(p) + Len(g) /\ Len(k) - Len(p) = Len(g)
      BY <2>1, <2>3, <2>5
    <3> QED BY <2>3, <2>5, <3>1 DEF Rest
  <2> QED BY <2>2, <2>4, <2>5
<1> QED BY <1>1 DEF RelativePaths

\* Files and subdirectories of p, by their keys.
LEMMA S3Entries ==
  ASSUME NEW S, Tree(S), NEW p, IsPath(p), Len(p) >= 2, NEW n
  PROVE  /\ n \in S3DirectoryFiles(S, p)
              <=> \E k \in S : Extends(k, p) /\ Len(k) = Len(p) + 1 /\ IsFile(k) /\ k[Len(p) + 1] = n
         /\ n \in S3DirectorySubdirs(S, p)
              <=> \E k \in S : Extends(k, p) /\ Len(k) > Len(p) + 1 /\ k[Len(p) + 1] = n
<1>1. \A k \in S : IsPath(k)
  BY DEF Tree
<1>2. Under(S, p) = {k \in S : Extends(k, p)}
  BY <1>1, UnderExtends
<1>3. S3DirectoryFiles(S, p) = AzureBlobDirectoryFiles(S, p)
      /\ S3DirectorySubdirs(S, p) = AzureBlobDirectorySubdirs(S, p)
  <2>1. \A m : Append(p, m) # <<>>
    <3>1. ASSUME NEW m PROVE Append(p, m) # <<>>
      <4>1. Len(Append(p, m)) = Len(p) + 1 /\ Len(p) \in Nat
        BY AppendPath DEF IsPath
      <4>2. Len(Append(p, m)) # 0
        BY <4>1
      <4> QED BY <4>2
    <3> QED BY <3>1
  <2>2. \A m : S3IsDirectory(S, Append(p, m)) = LocalIsDirectory(S, Append(p, m))
    BY <2>1 DEF S3IsDirectory, LocalIsDirectory
  <2>3. S3DirectorySubdirs(S, p) = LocalDirectorySubdirs(S, p)
    BY <2>2 DEF S3DirectorySubdirs, S3DirectoryContents, LocalDirectorySubdirs
  <2>4. S3DirectoryFiles(S, p) = LocalDirectoryFiles(S, p)
    BY <2>2 DEF S3DirectoryFiles, S3DirectoryContents, LocalDirectoryFiles
  <2> QED BY <2>3, <2>4, Entries
<1>4. n \in AzureBlobDirectoryFiles(S, p)
        <=> \E k \in S : Extends(k, p) /\ Len(k) = Len(p) + 1 /\ IsFile(k) /\ k[Len(p) + 1] = n
  BY <1>2 DEF AzureBlobDirectoryFiles, PartAfter
<1>5. n \in AzureBlobDirectorySubdirs(S, p)
        <=> \E k \in S : Extends(k, p) /\ Len(k) > Len(p) + 1 /\ k[Len(p) + 1] = n
  BY <1>2 DEF AzureBlobDirectorySubdirs, PartAfter
<1> QED BY <1>3, <1>4, <1>5

\* A file of a model that is at most one directory deep and has an accepted name
\* is downloaded from every store exactly when it is there.
LEMMA SameDownloads ==
  ASSUME NEW S, Tree(S), NEW p, IsPath(p), Len(p) >= 2, NEW f \in Backends \ {"local"},
         NEW accepted, NEW g, IsPath(g), Len(g) \in 1..2, IsFile(g), g[Len(g)] \in accepted
  PROVE  g \in DownloadFileFolder(f, S, p, accepted) <=> g \in RelativePaths(p, Under(S, p))
<1>1. /\ Len(p) \in Nat /\ \A k \in S : IsPath(k) /\ Len(k) \in Nat
      /\ Under(S, p) = {k \in S : Extends(k, p)}
  <2>1. Len(p) \in Nat /\ \A k \in S : IsPath(k) /\ Len(k) \in Nat
    BY DEF Tree, IsPath
  <2> QED BY <2>1, UnderExtends
<1>2. g \in RelativePaths(p, Under(S, p)) <=> \E k \in Under(S, p) : Rest(k, p, g)
  BY RelativeRest
<1>3. ASSUME NEW k \in Under(S, p), Rest(k, p, g) PROVE k[Len(k)] = g[Len(g)]
  <2>1. Len(g) \in 1..Len(g) /\ Len(k) = Len(g) + Len(p)
    BY <1>1, <1>3 DEF Rest
  <2> QED BY <1>3, <2>1 DEF Rest
<1>4. CASE f = "gcs"
  <2>1. PICK K : K = {k \in Under(S, p) : IsFile(k) /\ k[Len(k)] \in accepted}
    OBVIOUS
  <2>2. g \in RelativePaths(p, K) <=> \E k \in K : Rest(k, p, g)
    BY <2>1, RelativeRest
  <2>3. DownloadFileFolder(f, S, p, accepted) = RelativePaths(p, K)
    BY <1>4, <2>1 DEF DownloadFileFolder, GCSDownloadFileFolder
  <2> QED BY <1>2, <1>3, <2>1, <2>2, <2>3 DEF IsFile
<1>5. CASE f \in {"azblob", "azfile"}
  <2>1. PICK K : K = {k \in Under(S, p) : IsFile(k)}
    OBVIOUS
  <2>2. g \in RelativePaths(p, K) <=> \E k \in K : Rest(k, p, g)
    BY <2>1, RelativeRest
  <2>3. DownloadFileFolder(f, S, p, accepted) = RelativePaths(p, K)
    BY <1>5, <2>1 DEF DownloadFileFolder, AzureBlobDownloadFileFolder, AzureFileDownloadFileFolder
  <2> QED BY <1>2, <1>3, <2>1, <2>2, <2>3 DEF IsFile
<1>6. CASE f = "s3"
  <2>1. g \in DownloadFileFolder(f, S, p, accepted)
          <=> \/ \E n \in S3DirectoryFiles(S, p) : g = <<n>>
              \/ \E d \in S3DirectorySubdirs(S, p) :
                    \E n \in S3DirectoryFiles(S, Append(p, d)) : g = <<d, n>>
    BY <1>6 DEF DownloadFileFolder, S3DownloadFileFolder
  <2>2. CASE Len(g) = 1
    <3>1. g = <<g[1]>> /\ \A d, n : g # <<d, n>>
      BY <2>2 DEF IsPath
    <3>2. g \in DownloadFileFolder(f, S, p, accepted) <=> g[1] \in S3DirectoryFiles(S, p)
      BY <2>1, <3>1
    <3>3. g[1] \in S3DirectoryFiles(S, p)
            <=> \E k \in S : Extends(k, p) /\ Len(k) = Len(p) + 1 /\ IsFile(k) /\ k[Len(p) + 1] = g[1]
      BY S3Entries
    <3>4. \A k \in S : Rest(k, p, g) <=> Len(k) = Len(p) + 1 /\ k[Len(p) + 1] = g[1]
      BY <1>1, <2>2 DEF Rest
    <3> QED BY <1>1, <1>2, <1>3, <3>2, <3>3, <3>4 DEF IsFile
  <2>3. CASE Len(g) = 2
    <3>1. g = <<g[1], g[2]>> /\ \A n : g # <<n>>
      BY <2>3 DEF IsPath
    <3>2. g \in DownloadFileFolder(f, S, p, accepted)
            <=> g[1] \in S3DirectorySubdirs(S, p) /\ g[2] \in S3DirectoryFiles(S, Append(p, g[1]))
      BY <2>1, <3>1
    <3>3. PICK q : q = Append(p, g[1])
      OBVIOUS
    <3>4. IsPath(q) /\ Len(q) = Len(p) + 1 /\ Len(q) >= 2
      BY <1>1, <3>3, AppendPath
    <3>5. g[2] \in S3DirectoryFiles(S, q)
            <=> \E k \in S : Extends(k, q) /\ Len(k) = Len(q) + 1 /\ IsFile(k) /\ k[Len(q) + 1] = g[2]
      BY <3>4, S3Entries
    <3>6. g[1] \in S3DirectorySubdirs(S, p)
            <=> \E k \in S : Extends(k, p) /\ Len(k) > Len(p) + 1 /\ k[Len(p) + 1] = g[1]
      BY S3Entries
    <3>7. ASSUME NEW k \in S
          PROVE  Extends(k, q) <=> Len(k) > Len(p) + 1 /\ Extends(k, p) /\ k[Len(p) + 1] = g[1]
      <4>1. IsPath(k)
        BY <1>1
      <4> QED BY <3>3, <4>1, ExtendsAppend, Zenon
    <3>8. \A k \in S : Rest(k, p, g) <=>
            Len(k) = Len(q) + 1 /\ k[Len(p) + 1] = g[1] /\ k[Len(q) + 1] = g[2]
      BY <1>1, <2>3, <3>4 DEF Rest
    <3>9. \A k \in S : Len(k) = Len(q) + 1 => Len(k) > Len(p) + 1
      BY <1>1, <3>4
    <3>10. ASSUME NEW k \in S, Extends(k, q), Len(k) = Len(q) + 1, k[Len(q) + 1] = g[2]
           PROVE  Extends(k, p) /\ Rest(k, p, g)
      BY <3>7, <3>8, <3>10
    <3>11. ASSUME NEW k \in S, Extends(k, p), Rest(k, p, g)
           PROVE  Extends(k, q) /\ Len(k) = Len(q) + 1 /\ IsFile(k) /\ k[Len(q) + 1] = g[2]
                  /\ Len(k) > Len(p) + 1 /\ k[Len(p) + 1] = g[1]
      BY <1>1, <1>3, <3>7, <3>8, <3>9, <3>11 DEF IsFile
    <3>12. ASSUME g \in DownloadFileFolder(f, S, p, accepted)
           PROVE  g \in RelativePaths(p, Under(S, p))
      BY <1>1, <1>2, <3>2, <3>3, <3>5, <3>10, <3>12
    <3>13. ASSUME g \in RelativePaths(p, Under(S, p))
           PROVE  g \in DownloadFileFolder(f, S, p, accepted)
      <4>1. PICK k \in S : Extends(k, p) /\ Rest(k, p, g)
        BY <1>1, <1>2, <3>13
      <4> QED BY <3>2, <3>3, <3>5, <3>6, <3>11, <4>1
    <3> QED BY <3>12, <3>13
  <2> QED BY <2>2, <2>3
<1> QED BY <1>4, <1>5, <1>6 DEF Backends


-----------------------------------------------------------------------------
(* The parts of the invariant that a step preserves. *)

\* The listings are finite.
LEMMA ListingFinite ==
  ASSUME NEW S, IsFiniteSet(S), NEW f \in Backends, NEW p
  PROVE  IsFiniteSet(DirectorySubdirs(f, S, p))
<1>1. ASSUME NEW d, NEW K \in SUBSET S PROVE IsFiniteSet(PartAfter(d, K))
  <2>1. IsFiniteSet(K)
    BY FS_Subset
  <2>2. PICK m : m = [k \in K |-> k[Len(d) + 1]]
    OBVIOUS
  <2>3. m \in Surjection(K, PartAfter(d, K))
    BY <2>2 DEF Surjection, PartAfter
  <2> QED BY <2>1, <2>3, FS_Surjection
<1>2. \E d : \E K \in SUBSET S : DirectorySubdirs(f, S, p) \in SUBSET PartAfter(d, K)
  <2>1. \A d : Under(S, d) \in SUBSET S /\ Below(S, d) \in SUBSET S
    BY DEF Under, Below
  <2>2. CASE f = "local"
    BY <2>1, <2>2 DEF DirectorySubdirs, LocalDirectorySubdirs
  <2>3. CASE f = "s3"
    BY <2>1, <2>3 DEF DirectorySubdirs, S3DirectorySubdirs, S3DirectoryContents
  <2>4. CASE f = "gcs"
    BY <2>1, <2>4 DEF DirectorySubdirs, GCSDirectorySubdirs, GCSDirectoryContents
  <2>5. CASE f = "azblob"
    <3>1. {k \in Under(S, p) : Len(k) > Len(p) + 1} \in SUBSET S
      BY <2>1
    <3> QED BY <2>5, <3>1 DEF DirectorySubdirs, AzureBlobDirectorySubdirs
  <2>6. CASE f = "azfile"
    BY <2>1, <2>6 DEF DirectorySubdirs, AzureFileDirectorySubdirs
  <2> QED BY <2>2, <2>3, <2>4, <2>5, <2>6 DEF Backends
<1> QED BY <1>1, <1>2, FS_Subset

\* The invariant holds at the start.
LEMMA InitInv == Init => Inv
<1> SUFFICES ASSUME Init PROVE Inv
  OBVIOUS
<1>1. TypeOK
  <2>1. [state |-> "none", error |-> FALSE, config |-> NoConfig, net |-> "none", files |-> {}]
          \in Instances
    BY DEF Instances, States
  <2> QED BY <2>1 DEF Init, TypeOK, Places
<1>2. \A v \in Versions : inst[v].state = "none"
  BY DEF Init
<1>3. Configured /\ Batches /\ InHand /\ ReloadsKnown /\ RetiresUnselected
  BY <1>2 DEF Init, Configured, Batches, InHand, ReloadsKnown, RetiresUnselected
<1>4. RegisteredWhileServing
  BY <1>2 DEF RegisteredWhileServing, Available
<1> QED BY <1>1, <1>3, <1>4 DEF Inv

\* A step that leaves the instances, the cleaner and the requests alone.
LEMMA InstancesLeft ==
  ASSUME Inv, UNCHANGED <<inst, viewer, reloading>>
  PROVE  /\ ReloadsKnown' /\ RegisteredWhileServing' /\ Registered' = Registered
         /\ \A v \in Versions : inst'[v].state # "none" => inst'[v].config \in Configs
         /\ inst' \in [Versions -> Instances] /\ reloading' \in SUBSET Versions
<1>1. TypeOK /\ Configured /\ ReloadsKnown /\ RegisteredWhileServing
  BY DEF Inv
<1>2. ReloadsKnown' /\ RegisteredWhileServing' /\ Registered' = Registered
  BY <1>1 DEF ReloadsKnown, RegisteredWhileServing, Registered, Available
<1> QED BY <1>1, <1>2 DEF TypeOK, Configured

\* A step in which the manager stays where it is.
LEMMA ManagerLeft ==
  ASSUME Inv, UNCHANGED managerVars, UNCHANGED <<inst, viewer, reloading, local>>,
         served' \in Configs \cup {NoConfig}
  PROVE  Inv'
<1>1. TypeOK /\ Configured /\ Batches /\ InHand /\ RetiresUnselected
  BY DEF Inv
<1>2. /\ ReloadsKnown' /\ RegisteredWhileServing' /\ Registered' = Registered
      /\ \A v \in Versions : inst'[v].state # "none" => inst'[v].config \in Configs
      /\ inst' \in [Versions -> Instances] /\ reloading' \in SUBSET Versions
  BY InstancesLeft
<1>3. Current' = Current
  BY DEF Current, managerVars
<1>4. TypeOK'
  BY <1>1, <1>2 DEF TypeOK, managerVars
<1>5. Configured' /\ Batches' /\ RetiresUnselected'
  BY <1>1, <1>2, <1>3 DEF Configured, Batches, RetiresUnselected, managerVars
<1>6. InHand'
  BY <1>1, <1>2, <1>3 DEF InHand, managerVars
<1> QED BY <1>2, <1>4, <1>5, <1>6 DEF Inv

\* The repository and the custom loader change.
LEMMA RepositoryStep == Inv /\ (RepositoryChange \/ LoaderChange) => Inv'
<1> SUFFICES ASSUME Inv, RepositoryChange \/ LoaderChange PROVE Inv'
  OBVIOUS
<1>1. served' = served /\ served \in Configs \cup {NoConfig}
  BY DEF Inv, TypeOK, RepositoryChange, LoaderChange
<1>2. UNCHANGED managerVars /\ UNCHANGED <<inst, viewer, reloading, local>>
  BY DEF RepositoryChange, LoaderChange
<1> QED BY <1>1, <1>2, ManagerLeft


\* The manager goes on without touching an instance: what is left to show is
\* about its own place and lists.
LEMMA Moves ==
  ASSUME Inv, UNCHANGED <<inst, viewer, reloading>>,
         local' \in [Versions -> SUBSET ModelFiles],
         served' \in Configs \cup {NoConfig},
         config' \in Configs \cup {NoConfig},
         pc' \in {"idle", "start", "add", "reload", "retire", "retireAll", "cleanupAll"},
         pc' \in {"start", "add", "reload", "retire"} => config' \in Configs,
         avail' \in SUBSET Nat, queue' \in SUBSET Nat, toStart' \in SUBSET Nat,
         toReload' \in SUBSET Nat, toRetire' \in SUBSET Nat,
         pc' = "start" => toStart' \cap Registered = {},
         pc' = "add" => queue' \cap Registered = {},
         pc' \in {"start", "add"} => toReload' \in SUBSET Registered,
         pc' \in {"reload", "retire", "retireAll", "cleanupAll"} => queue' \in SUBSET Registered,
         pc' = "retire" => \/ queue' \cap Filter(Policy(config'), avail') = {}
                           \/ Settings[config'].loader
  PROVE  Inv'
<1>1. /\ ReloadsKnown' /\ RegisteredWhileServing' /\ Registered' = Registered
      /\ \A v \in Versions : inst'[v].state # "none" => inst'[v].config \in Configs
      /\ inst' \in [Versions -> Instances] /\ reloading' \in SUBSET Versions
  BY InstancesLeft
<1>2. TypeOK'
  BY <1>1 DEF TypeOK, Places
<1>3. Configured' /\ Batches' /\ InHand' /\ RetiresUnselected'
  BY <1>1 DEF Configured, Batches, InHand, RetiresUnselected
<1> QED BY <1>1, <1>2, <1>3 DEF Inv

\* A configuration is applied: the early returns, the unknown custom loader and
\* the first choice of versions.
LEMMA ReloadStep ==
  ASSUME Inv, NEW c \in Configs, ReloadModelWithVersions(c),
         served' \in Configs \cup {NoConfig}
  PROVE  Inv'
<1>1. TypeOK
  BY DEF Inv
<1>2. /\ UNCHANGED <<inst, viewer, reloading, local>>
      /\ pc = "idle" /\ config' = c
  BY DEF ReloadModelWithVersions
<1>3. Registered \in SUBSET Nat
  BY VersionsNat DEF Registered
<1>4. CASE ConfigStatus(c) # "OK" \/ ~IsDirectory(fs, store, Path(Settings[c].base))
  <2>1. UNCHANGED <<pc, avail, queue, toStart, toReload, toRetire>>
    BY <1>4 DEF ReloadModelWithVersions
  <2> QED BY <1>1, <1>2, <2>1, Moves DEF TypeOK
<1>5. CASE ~(ConfigStatus(c) # "OK" \/ ~IsDirectory(fs, store, Path(Settings[c].base)))
  <2>1. avail' = ReadAvailableVersions(Settings[c].base)
    BY <1>5 DEF ReloadModelWithVersions
  <2>2. avail' \in SUBSET Nat
    BY <2>1 DEF ReadAvailableVersions
  <2>3. CASE Settings[c].loader /\ ~loader
    <3>1. /\ pc' = "retireAll" /\ queue' = Registered
          /\ UNCHANGED <<toStart, toReload, toRetire>>
      BY <1>5, <2>3 DEF ReloadModelWithVersions
    <3> QED BY <1>1, <1>2, <1>3, <2>2, <3>1, Moves DEF TypeOK
  <2>4. CASE ~(Settings[c].loader /\ ~loader)
    <3> DEFINE change == VersionsToChange(c, avail')
    <3>1. /\ pc' = "start" /\ toStart' = change.start /\ toReload' = change.reload
          /\ toRetire' = change.retire /\ queue' = {}
      BY <1>5, <2>4 DEF ReloadModelWithVersions
    <3>2. /\ change.start \in SUBSET Nat /\ change.reload \in SUBSET Nat
          /\ change.retire \in SUBSET Nat /\ change.start \cap Registered = {}
          /\ change.reload \in SUBSET Registered
      BY <1>1, <2>2, Chosen, Zenon
    <3> HIDE DEF change
    <3> QED BY <1>1, <1>2, <2>2, <3>1, <3>2, Moves DEF TypeOK
  <2> QED BY <2>3, <2>4
<1> QED BY <1>4, <1>5

\* Configurations come and go.
LEMMA ConfigStep ==
  Inv /\ ((\E c \in Configs : ChangeConfig(c)) \/ Poll \/ RemoveFromConfig \/ InvalidConfig)
    => Inv'
<1> SUFFICES ASSUME Inv PROVE
      (\E c \in Configs : ChangeConfig(c)) \/ Poll \/ RemoveFromConfig \/ InvalidConfig => Inv'
  OBVIOUS
<1>1. TypeOK
  BY DEF Inv
<1>2. ASSUME NEW c \in Configs, ChangeConfig(c) PROVE Inv'
  BY <1>2, ReloadStep DEF ChangeConfig
<1>3. ASSUME Poll PROVE Inv'
  BY <1>1, <1>3, ReloadStep DEF Poll, TypeOK
<1>4. Registered \in SUBSET Nat
  BY VersionsNat DEF Registered
<1>5. ASSUME RemoveFromConfig \/ InvalidConfig PROVE Inv'
  <2>1. /\ UNCHANGED <<inst, viewer, reloading, local, config, avail, toStart, toReload, toRetire>>
        /\ pc' \in {"retireAll", "cleanupAll"} /\ queue' = Registered /\ served' = NoConfig
    BY <1>5 DEF RemoveFromConfig, InvalidConfig
  <2> QED BY <1>1, <1>4, <2>1, Moves DEF TypeOK
<1> QED BY <1>2, <1>3, <1>5

\* The manager turns to the next batch.
LEMMA BatchStep ==
  Inv /\ Listed /\ (StartBatch \/ AddVersionsEnd \/ NothingToStart \/ Refresh \/ Done) => Inv'
<1> SUFFICES ASSUME Inv, Listed PROVE
      StartBatch \/ AddVersionsEnd \/ NothingToStart \/ Refresh \/ Done => Inv'
  OBVIOUS
<1>1. TypeOK /\ Configured /\ Batches
  BY DEF Inv
<1>2. pc \in {"start", "add", "reload"} => config \in Configs
  BY <1>1 DEF Configured
<1>3. ASSUME StartBatch PROVE Inv'
  <2>1. /\ UNCHANGED <<inst, viewer, reloading, served, config, avail, toStart, toReload, toRetire>>
        /\ pc = "start" /\ pc' = "add" /\ queue' = toStart
    BY <1>3 DEF StartBatch
  <2>2. local' \in [Versions -> SUBSET ModelFiles]
    BY <1>1, <1>3, DownloadedFiles DEF StartBatch
  <2>3. toStart \cap Registered = {} /\ toReload \in SUBSET Registered
    BY <1>1, <2>1 DEF Batches
  <2> QED BY <1>1, <1>2, <2>1, <2>2, <2>3, Moves DEF TypeOK
<1>4. ASSUME AddVersionsEnd PROVE Inv'
  <2>1. /\ UNCHANGED <<inst, viewer, reloading, local, served, config>>
        /\ pc = "add" /\ queue = {}
    BY <1>4 DEF AddVersionsEnd
  <2>2. CASE failed = <<>>
    <3>2. toReload \in SUBSET Registered
      BY <1>1, <2>1 DEF Batches
    <3>1. /\ UNCHANGED <<avail, toStart, toReload, toRetire>>
          /\ pc' = "reload" /\ queue' = toReload
      BY <1>4, <2>2 DEF AddVersionsEnd
    <3> QED BY <1>1, <1>2, <2>1, <3>1, <3>2, Moves DEF TypeOK
  <2>3. CASE failed # <<>>
    <3> DEFINE change == VersionsToChange(config, avail')
    <3>1. /\ avail' = EraseFailed(avail, failed) /\ queue' = queue
          /\ pc' = "start" /\ toStart' = change.start /\ toReload' = change.reload
          /\ toRetire' = change.retire
      BY <1>4, <2>3 DEF AddVersionsEnd
    <3>2. avail' \in SUBSET Nat
      BY <1>1, <3>1, EraseFailedErases DEF TypeOK, Listed
    <3>3. /\ change.start \in SUBSET Nat /\ change.reload \in SUBSET Nat
          /\ change.retire \in SUBSET Nat /\ change.start \cap Registered = {}
          /\ change.reload \in SUBSET Registered
      BY <1>1, <1>2, <2>1, <3>2, Chosen, Zenon
    <3> HIDE DEF change
    <3> QED BY <1>1, <1>2, <2>1, <3>1, <3>2, <3>3, Moves DEF TypeOK
  <2> QED BY <2>2, <2>3
<1>5. ASSUME NothingToStart PROVE Inv'
  <2>1. /\ UNCHANGED <<inst, viewer, reloading, local, served, config, avail, toStart, toReload,
                       toRetire>>
        /\ pc = "start" /\ pc' = "reload" /\ queue' = toReload
    BY <1>5 DEF NothingToStart
  <2>2. toReload \in SUBSET Registered
    BY <1>1, <2>1 DEF Batches
  <2> QED BY <1>1, <1>2, <2>1, <2>2, Moves DEF TypeOK
<1>6. ASSUME Refresh PROVE Inv'
  <2> DEFINE change == VersionsToChange(config, avail')
  <2>1. /\ UNCHANGED <<inst, viewer, reloading, local, served, config, toStart, toReload>>
        /\ pc = "reload" /\ pc' = "retire"
        /\ avail' = EraseFailed(avail, failed)
        /\ toRetire' = change.retire \ allFailed'
        /\ toCleanup' = change.retire \cap allFailed'
        /\ queue' = toRetire' \cup toCleanup'
    BY <1>6 DEF Refresh
  <2>2. avail' \in SUBSET Nat
    BY <1>1, <2>1, EraseFailedErases DEF TypeOK, Listed
  <2>3. /\ change.retire \in SUBSET Nat /\ change.retire \in SUBSET Registered
        /\ change.retire \cap Filter(Policy(config), avail') = {} \/ Settings[config].loader
    BY <1>1, <1>2, <2>1, <2>2, Chosen, Zenon
  <2> HIDE DEF change
  <2>4. queue' = change.retire /\ toRetire' \in SUBSET Nat
    BY <2>1, <2>3
  <2> QED BY <1>1, <1>2, <2>1, <2>2, <2>3, <2>4, Moves DEF TypeOK
<1>7. ASSUME Done PROVE Inv'
  <2>1. /\ UNCHANGED <<inst, viewer, reloading, local, served, config, avail, queue, toStart,
                       toReload, toRetire>>
        /\ pc' = "idle"
    BY <1>7 DEF Done
  <2> QED BY <1>1, <2>1, Moves DEF TypeOK
<1> QED BY <1>3, <1>4, <1>5, <1>6, <1>7


-----------------------------------------------------------------------------
(* The steps that change an instance. *)

\* What is to be shown of the version that a step changes, when it leaves the
\* other ones alone.
LEMMA OneVersion ==
  ASSUME Inv, NEW h,
         inst' \in [Versions -> Instances],
         \A v \in Versions \ {h} : inst'[v] = inst[v],
         \A v \in Versions \ {h} : v \in viewer => v \in viewer',
         reloading' \in SUBSET Versions,
         reloading' \ {h} = reloading \ {h},
         h \in Versions =>
           /\ inst'[h].state # "none" /\ inst'[h].config \in Configs
           /\ inst'[h].state = "AVAILABLE" /\ NeedsCleaner(inst'[h].config) => h \in viewer',
         h \in reloading' =>
           inst'[h].state = "LOADING" /\ (NeedsCleaner(inst'[h].config) => h \in viewer')
  PROVE  /\ ReloadsKnown' /\ RegisteredWhileServing'
         /\ \A v \in Versions : inst'[v].state # "none" => inst'[v].config \in Configs
         /\ Registered' \ {h} = Registered \ {h} /\ Registered \in SUBSET Registered'
<1>1. TypeOK /\ Configured /\ ReloadsKnown /\ RegisteredWhileServing
  BY DEF Inv
<1>2. ASSUME NEW v \in reloading'
      PROVE  inst'[v].state = "LOADING" /\ (NeedsCleaner(inst'[v].config) => v \in viewer')
  BY <1>1, <1>2 DEF ReloadsKnown
<1>3. ASSUME NEW v \in Versions, inst'[v].state = "AVAILABLE", NeedsCleaner(inst'[v].config)
      PROVE  v \in viewer'
  BY <1>1, <1>3 DEF RegisteredWhileServing, Available
<1>4. \A v \in Versions : inst'[v].state # "none" => inst'[v].config \in Configs
  BY <1>1 DEF Configured
<1>5. Registered' \ {h} = Registered \ {h} /\ Registered \in SUBSET Registered'
  BY DEF Registered
<1>6. ReloadsKnown'
  BY <1>2 DEF ReloadsKnown
<1>7. RegisteredWhileServing'
  BY <1>3 DEF RegisteredWhileServing, Available, NeedsCleaner
<1> QED BY <1>4, <1>5, <1>6, <1>7

\* A request begins to reload a version that serves ...
LEMMA RequestReloadStep ==
  ASSUME Inv, NEW v \in Versions, RequestReload(v) PROVE Inv'
<1>1. TypeOK /\ Configured /\ Batches /\ InHand /\ RetiresUnselected /\ RegisteredWhileServing
  BY DEF Inv
<1>2. /\ inst[v].state = "AVAILABLE"
      /\ reloading' = reloading \cup {v}
      /\ inst' = [inst EXCEPT ![v].state = "LOADING", ![v].error = FALSE]
      /\ UNCHANGED <<viewer, served, local>> /\ UNCHANGED managerVars
  BY DEF RequestReload
<1>3. PICK r \in Instances : r = [inst[v] EXCEPT !.state = "LOADING", !.error = FALSE]
  BY <1>1 DEF TypeOK, Instances, States
<1>4. inst' = [inst EXCEPT ![v] = r] /\ r.state = "LOADING" /\ r.config = inst[v].config
  BY <1>1, <1>2, <1>3 DEF TypeOK, Instances
<1>5. /\ inst' \in [Versions -> Instances] /\ inst'[v] = r
      /\ \A w \in Versions \ {v} : inst'[w] = inst[w]
  BY <1>1, <1>4 DEF TypeOK
<1>6. inst[v].config \in Configs /\ (NeedsCleaner(inst[v].config) => v \in viewer)
  BY <1>1, <1>2 DEF Configured, RegisteredWhileServing, Available
<1>7. reloading' \in SUBSET Versions /\ reloading' \ {v} = reloading \ {v}
  BY <1>1, <1>2 DEF TypeOK
<1>8. /\ ReloadsKnown' /\ RegisteredWhileServing'
      /\ \A w \in Versions : inst'[w].state # "none" => inst'[w].config \in Configs
      /\ Registered' \ {v} = Registered \ {v} /\ Registered \in SUBSET Registered'
  BY <1>2, <1>4, <1>5, <1>6, <1>7, OneVersion
<1>9. Current' = Current
  BY <1>2 DEF Current, managerVars
<1>10. TypeOK'
  BY <1>1, <1>2, <1>5, <1>7 DEF TypeOK, managerVars
<1>11. v \in Registered
  BY <1>2 DEF Registered
<1>12. Configured' /\ Batches' /\ RetiresUnselected'
  BY <1>1, <1>2, <1>8, <1>9, <1>11 DEF Configured, Batches, RetiresUnselected, managerVars
<1>13. InHand'
  BY <1>1, <1>2, <1>5, <1>7, <1>9 DEF InHand, managerVars
<1> QED BY <1>8, <1>10, <1>12, <1>13 DEF Inv

\* ... and ends, with the version loaded or not.
LEMMA RequestReloadedStep ==
  ASSUME Inv, NEW v \in Versions, RequestReloaded(v) PROVE Inv'
<1>1. /\ TypeOK /\ Configured /\ Batches /\ InHand /\ RetiresUnselected /\ ReloadsKnown
  BY DEF Inv
<1>2. /\ v \in reloading
      /\ reloading' = reloading \ {v}
      /\ UNCHANGED <<viewer, served, local>> /\ UNCHANGED managerVars
  BY DEF RequestReloaded
<1>3. inst[v].state = "LOADING" /\ (NeedsCleaner(inst[v].config) => v \in viewer)
  BY <1>1, <1>2 DEF ReloadsKnown
<1>4. inst[v].config \in Configs
  BY <1>1, <1>3 DEF Configured
<1>5. Settings[inst[v].config].base \in Bases
  BY <1>4, ConstantsAssumption DEF SettingsType
<1>6. PICK r : /\ inst' = [inst EXCEPT ![v] = r]
               /\ \/ r = [inst[v] EXCEPT !.state = "AVAILABLE"]
                  \/ r = [inst[v] EXCEPT !.state = "AVAILABLE", !.net = Settings[inst[v].config].base]
                  \/ r = [inst[v] EXCEPT !.error = TRUE, !.net = "none"]
  BY DEF RequestReloaded
<1>7. r \in Instances /\ r.state \in {"LOADING", "AVAILABLE"} /\ r.config = inst[v].config
  BY <1>1, <1>3, <1>5, <1>6 DEF TypeOK, Instances, States
<1>8. /\ inst' \in [Versions -> Instances] /\ inst'[v] = r
      /\ \A w \in Versions \ {v} : inst'[w] = inst[w]
  BY <1>1, <1>6, <1>7 DEF TypeOK
<1>9. reloading' \in SUBSET Versions /\ reloading' \ {v} = reloading \ {v}
  BY <1>1, <1>2 DEF TypeOK
<1>10. /\ ReloadsKnown' /\ RegisteredWhileServing'
       /\ \A w \in Versions : inst'[w].state # "none" => inst'[w].config \in Configs
       /\ Registered' \ {v} = Registered \ {v} /\ Registered \in SUBSET Registered'
  BY <1>2, <1>3, <1>4, <1>7, <1>8, <1>9, OneVersion
<1>11. Current' = Current
  BY <1>2 DEF Current, managerVars
<1>12. TypeOK'
  BY <1>1, <1>2, <1>8, <1>9 DEF TypeOK, managerVars
<1>13. v \in Registered
  BY <1>3 DEF Registered
<1>14. Configured' /\ Batches' /\ RetiresUnselected'
  BY <1>1, <1>2, <1>10, <1>11, <1>13 DEF Configured, Batches, RetiresUnselected, managerVars
<1>15. InHand'
  BY <1>1, <1>2, <1>8, <1>9, <1>11 DEF InHand, managerVars
<1> QED BY <1>10, <1>12, <1>14, <1>15 DEF Inv


\* Work on the current version begins, goes on or ends.
Begins == /\ queue # {}
          /\ \/ pc = "add" /\ pc' = "adding"
             \/ pc = "reload" /\ pc' = "reloading"
             \/ pc = "retire" /\ pc' = "unload"
             \/ pc = "unload" /\ pc' = "unloading"
             \/ pc = "retireAll" /\ pc' = "retiringAll"
             \/ pc = "cleanupAll" /\ pc' = "cleaningAll"

Ends == \/ pc = "adding" /\ pc' = "add"
        \/ pc = "reloading" /\ pc' = "reload"
        \/ pc = "unloading" /\ pc' = "retire"
        \/ pc = "retiringAll" /\ pc' = "retireAll"
        \/ pc = "cleaningAll" /\ pc' = "cleanupAll"

\* What the manager's step makes of the current version is all there is to show.
LEMMA Works ==
  ASSUME Inv, NEW r,
         inst' = [inst EXCEPT ![Current] = r],
         Current \in Versions =>
           /\ r \in Instances /\ r.state # "none" /\ r.config \in Configs
           /\ r.state = "AVAILABLE" /\ NeedsCleaner(r.config) => Current \in viewer',
         Current \in reloading =>
           r.state = "LOADING" /\ (NeedsCleaner(r.config) => Current \in viewer'),
         \A v \in Versions \ {Current} : v \in viewer => v \in viewer',
         local' \in [Versions -> SUBSET ModelFiles],
         UNCHANGED <<reloading, served, config, avail, toStart, toReload, toRetire>>,
         \/ Begins /\ queue' = queue
         \/ Ends /\ queue' = queue \ {Current},
         pc' \in {"adding", "reloading"} /\ Current \in Versions =>
           r.state = "LOADING" /\ Current \notin reloading,
         pc' = "retiringAll" /\ Current \in Versions =>
           r.state = "UNLOADING" /\ Current \notin reloading
  PROVE  Inv'
<1>1. TypeOK /\ Configured /\ Batches /\ InHand /\ RetiresUnselected
  BY DEF Inv
<1>2. /\ inst' \in [Versions -> Instances]
      /\ \A v \in Versions \ {Current} : inst'[v] = inst[v]
      /\ Current \in Versions => inst'[Current] = r
  BY <1>1 DEF TypeOK
<1>3. reloading' \in SUBSET Versions /\ reloading' \ {Current} = reloading \ {Current}
  BY <1>1 DEF TypeOK
<1>4. Current \in reloading => Current \in Versions
  BY <1>1 DEF TypeOK
<1>5. /\ ReloadsKnown' /\ RegisteredWhileServing'
      /\ \A v \in Versions : inst'[v].state # "none" => inst'[v].config \in Configs
      /\ Registered' \ {Current} = Registered \ {Current} /\ Registered \in SUBSET Registered'
  BY <1>2, <1>3, <1>4, OneVersion
<1>6. pc' \in Places
  BY DEF Begins, Ends, Places
<1>7. queue' \in SUBSET queue
  OBVIOUS
<1>8. TypeOK'
  BY <1>1, <1>2, <1>3, <1>6, <1>7 DEF TypeOK
<1>9. CASE Begins /\ queue' = queue
  <2>1. Current' = Current
    BY <1>9 DEF Begins, Current
  <2>2. Configured' /\ Batches' /\ RetiresUnselected'
    BY <1>1, <1>5, <1>9, <2>1 DEF Begins, Configured, Batches, RetiresUnselected
  <2>3. InHand'
    BY <1>2, <1>3, <1>9, <2>1 DEF Begins, InHand
  <2> QED BY <1>5, <1>8, <2>2, <2>3 DEF Inv
<1>10. CASE Ends /\ queue' = queue \ {Current}
  <2>1. Configured' /\ Batches' /\ InHand' /\ RetiresUnselected'
    BY <1>1, <1>5, <1>10 DEF Ends, Configured, Batches, InHand, RetiresUnselected
  <2> QED BY <1>5, <1>8, <2>1 DEF Inv
<1> QED BY <1>9, <1>10

\* addVersion.
LEMMA AddVersionStep == Inv /\ AddVersion => Inv'
<1> SUFFICES ASSUME Inv, AddVersion PROVE Inv'
  OBVIOUS
<1> DEFINE h == Current
           r == [inst[h] EXCEPT !.state = "LOADING", !.config = config]
<1>1. TypeOK /\ Configured /\ Batches /\ ReloadsKnown
  BY DEF Inv
<1>2. /\ pc = "add" /\ queue # {} /\ pc' = "adding"
      /\ inst' = [inst EXCEPT ![h].state = "LOADING", ![h].config = config]
      /\ UNCHANGED <<viewer, local, reloading, served, config, avail, queue, toStart, toReload,
                     toRetire>>
  BY DEF AddVersion
<1>3. inst' = [inst EXCEPT ![h] = r]
  BY <1>1, <1>2 DEF TypeOK, Instances
<1>4. config \in Configs
  BY <1>1, <1>2 DEF Configured
<1>5. h \in Versions => /\ r \in Instances /\ r.state = "LOADING" /\ r.config = config
                        /\ h \notin reloading
  <2> SUFFICES ASSUME h \in Versions
               PROVE  /\ r \in Instances /\ r.state = "LOADING" /\ r.config = config
                      /\ h \notin reloading
    OBVIOUS
  <2>1. h \in queue
    BY <1>1, <1>2, CurrentInBatch DEF TypeOK
  <2>2. inst[h].state = "none"
    BY <1>1, <1>2, <2>1 DEF Batches, Registered
  <2>3. h \notin reloading
    BY <1>1, <2>2 DEF ReloadsKnown
  <2> QED BY <1>1, <1>4, <2>3 DEF TypeOK, Instances, States
<1>6. h \in reloading => h \in Versions
  BY <1>1 DEF TypeOK
<1> HIDE DEF r
<1>7. Begins /\ local' \in [Versions -> SUBSET ModelFiles]
  BY <1>1, <1>2 DEF Begins, TypeOK
<1> QED BY <1>2, <1>3, <1>4, <1>5, <1>6, <1>7, Works

\* The end of a load by the manager.
LEMMA LoadedStep == Inv /\ (AddVersionLoaded \/ ReloadVersionLoaded) => Inv'
<1> SUFFICES ASSUME Inv, AddVersionLoaded \/ ReloadVersionLoaded PROVE Inv'
  OBVIOUS
<1> DEFINE h == Current
<1>1. TypeOK /\ Configured /\ InHand
  BY DEF Inv
<1>2. /\ pc \in {"adding", "reloading"} /\ Ends /\ queue' = queue \ {h}
      /\ UNCHANGED <<reloading, served, config, avail, toStart, toReload, toRetire>>
  BY DEF AddVersionLoaded, ReloadVersionLoaded, Ends
<1>3. config \in Configs
  BY <1>1, <1>2 DEF Configured
<1>4. h \in Versions => h \notin reloading /\ inst[h].state = "LOADING"
  BY <1>1, <1>2 DEF InHand
<1>5. local' \in [Versions -> SUBSET ModelFiles]
  BY <1>1 DEF AddVersionLoaded, ReloadVersionLoaded, TypeOK
<1>6. \/ inst' = Load(h, TRUE) /\ viewer' = Register(h)
      \/ inst' = Load(h, FALSE) /\ viewer' = viewer
      \/ inst' = CleanupModelTmpFiles(Load(h, FALSE), h) /\ viewer' = viewer
  BY DEF AddVersionLoaded, ReloadVersionLoaded
<1>7. PICK r : /\ inst' = [inst EXCEPT ![h] = r]
               /\ \/ /\ r = [state |-> "AVAILABLE", error |-> FALSE, config |-> config,
                             net |-> NetAfterLoad(config, h), files |-> local[h]]
                     /\ viewer' = Register(h)
                  \/ /\ \/ r = [state |-> "LOADING", error |-> TRUE, config |-> config,
                                net |-> inst[h].net, files |-> local[h]]
                        \/ r = [state |-> "LOADING", error |-> TRUE, config |-> config,
                                net |-> inst[h].net, files |-> {}]
                     /\ viewer' = viewer
  BY <1>1, <1>6 DEF Load, CleanupModelTmpFiles, TypeOK
<1>8. h \in Versions => NetAfterLoad(config, h) \in Bases \cup {"none"}
  BY <1>1, <1>3, ConstantsAssumption DEF NetAfterLoad, TypeOK, Instances, SettingsType
<1>9. h \in Versions => r \in Instances /\ r.config = config /\ r.state # "none"
  <2> SUFFICES ASSUME h \in Versions
               PROVE  r \in Instances /\ r.config = config /\ r.state # "none"
    OBVIOUS
  <2>1. inst[h].net \in Bases \cup {"none"} /\ local[h] \in SUBSET ModelFiles
    BY <1>1 DEF TypeOK, Instances
  <2>2. NetAfterLoad(config, h) \in Bases \cup {"none"}
    BY <1>8
  <2>3. CASE r = [state |-> "AVAILABLE", error |-> FALSE, config |-> config,
                  net |-> NetAfterLoad(config, h), files |-> local[h]]
    BY <1>3, <2>1, <2>2, <2>3 DEF Instances, States
  <2>4. CASE r = [state |-> "LOADING", error |-> TRUE, config |-> config,
                  net |-> inst[h].net, files |-> local[h]]
    BY <1>3, <2>1, <2>4 DEF Instances, States
  <2>5. CASE r = [state |-> "LOADING", error |-> TRUE, config |-> config,
                  net |-> inst[h].net, files |-> {}]
    BY <1>3, <2>1, <2>5 DEF Instances, States
  <2> QED BY <1>7, <2>3, <2>4, <2>5
<1>10. r.state = "AVAILABLE" /\ NeedsCleaner(config) => h \in viewer'
  BY <1>7 DEF Register
<1>11. \A v \in Versions : v \in viewer => v \in viewer'
  BY <1>7 DEF Register
<1>12. h \in reloading => h \in Versions
  BY <1>1 DEF TypeOK
<1>13. pc' \in {"add", "reload"}
  BY <1>2 DEF Ends
<1> QED BY <1>2, <1>3, <1>4, <1>5, <1>7, <1>9, <1>10, <1>11, <1>12, <1>13, Works


\* The manager begins to reload a version.
LEMMA ReloadVersionStep == Inv /\ ReloadVersion => Inv'
<1> SUFFICES ASSUME Inv, ReloadVersion PROVE Inv'
  OBVIOUS
<1> DEFINE h == Current
           net == IF Settings[inst[h].config].loader /\ ~Settings[config].loader
                  THEN "none" ELSE inst[h].net
           r == [inst[h] EXCEPT !.state = "LOADING", !.error = FALSE, !.net = net]
<1>1. TypeOK /\ Configured /\ Batches
  BY DEF Inv
<1>2. /\ pc = "reload" /\ queue # {} /\ pc' = "reloading" /\ h \notin reloading
      /\ viewer' \in {viewer, viewer \ {h}}
      /\ UNCHANGED <<reloading, served, config, avail, queue, toStart, toReload, toRetire>>
  BY DEF ReloadVersion
<1>3. local' \in [Versions -> SUBSET ModelFiles]
  <2>1. h \in Versions => inst[h].files \in SUBSET ModelFiles
    BY <1>1 DEF TypeOK, Instances
  <2>2. \/ local' = [local EXCEPT ![h] = inst[h].files]
        \/ \E fails \in MayFail : local' = Downloaded(toReload, fails)
    BY DEF ReloadVersion
  <2> QED BY <1>1, <2>1, <2>2, DownloadedFiles DEF TypeOK
<1>4. inst' = [inst EXCEPT ![h].state = "LOADING", ![h].error = FALSE, ![h].net = net]
  BY <1>1 DEF ReloadVersion, TypeOK, Instances
<1>5. inst' = [inst EXCEPT ![h] = r]
  BY <1>1, <1>4 DEF TypeOK, Instances
<1>6. h \in Versions /\ inst[h].config \in Configs
  <2>1. h \in queue
    BY <1>1, <1>2, CurrentInBatch DEF TypeOK
  <2> QED BY <1>1, <1>2, <2>1 DEF Batches, Registered, Configured
<1>7. r \in Instances /\ r.state = "LOADING" /\ r.config = inst[h].config
  BY <1>1, <1>6 DEF TypeOK, Instances, States
<1> HIDE DEF r
<1>8. Begins
  BY <1>2 DEF Begins
<1> QED BY <1>2, <1>3, <1>5, <1>6, <1>7, <1>8, Works


\* The version that is being retired or cleaned up is registered.
LEMMA CurrentRegistered ==
  ASSUME Inv, queue # {},
         pc \in {"retire", "unload", "unloading", "retireAll", "retiringAll", "cleanupAll",
                 "cleaningAll"}
  PROVE  Current \in Versions /\ inst[Current] \in Instances
         /\ inst[Current].state # "none" /\ inst[Current].config \in Configs
<1>1. TypeOK /\ Batches /\ Configured
  BY DEF Inv
<1>2. Current \in queue
  BY <1>1, CurrentInBatch DEF TypeOK
<1> QED BY <1>1, <1>2 DEF TypeOK, Batches, Registered, Configured

\* The manager begins to unload a version.
LEMMA UnloadStep ==
  Inv /\ (RetireVersion \/ Unload \/ RetireAllVersions \/ CleanupAllVersions) => Inv'
<1> SUFFICES ASSUME Inv, RetireVersion \/ Unload \/ RetireAllVersions \/ CleanupAllVersions
             PROVE  Inv'
  OBVIOUS
<1> DEFINE h == Current
<1>1. TypeOK /\ Batches /\ ReloadsKnown /\ RegisteredWhileServing
  BY DEF Inv
<1>2. /\ pc \in {"retire", "unload", "retireAll", "cleanupAll"} /\ Begins
      /\ UNCHANGED <<reloading, served, config, avail, queue, toStart, toReload, toRetire>>
      /\ viewer' \in {viewer, viewer \ {h}}
  BY <1>1 DEF RetireVersion, Unload, RetireAllVersions, CleanupAllVersions, Begins, Batches,
              Unregistered
<1>3. local' \in [Versions -> SUBSET ModelFiles]
  BY <1>1 DEF RetireVersion, Unload, RetireAllVersions, CleanupAllVersions, TypeOK
<1>4. /\ h \in Versions /\ inst[h] \in Instances
      /\ inst[h].state # "none" /\ inst[h].config \in Configs
  BY <1>2, CurrentRegistered DEF Begins
<1>5. CASE RetireVersion
  <2>1. PICK r : r = [inst[h] EXCEPT !.files = {}]
    OBVIOUS
  <2>2. inst' = [inst EXCEPT ![h] = r] /\ viewer' = viewer /\ pc' = "unload"
    BY <1>5, <2>1, <1>1, <1>4 DEF RetireVersion, CleanupModelTmpFiles, TypeOK, Instances
  <2>3. r \in Instances /\ r.state = inst[h].state /\ r.config = inst[h].config
    BY <1>4, <2>1 DEF Instances
  <2>4. /\ r.state = "AVAILABLE" /\ NeedsCleaner(r.config) => h \in viewer'
        /\ h \in reloading => r.state = "LOADING" /\ (NeedsCleaner(r.config) => h \in viewer')
    BY <1>1, <1>4, <2>2, <2>3 DEF ReloadsKnown, RegisteredWhileServing, Available
  <2> QED BY <1>2, <1>3, <1>4, <2>2, <2>3, <2>4, Works
<1>6. CASE Unload \/ RetireAllVersions \/ CleanupAllVersions
  <2>1. PICK s \in {"LOADING", "UNLOADING"}, e \in BOOLEAN, f \in SUBSET ModelFiles :
          /\ inst' = [inst EXCEPT ![h].state = s, ![h].error = e, ![h].files = f]
          /\ pc' \in {"unloading", "retiringAll", "cleaningAll"}
          /\ pc' = "retiringAll" => s = "UNLOADING"
    <3>1. inst[h].files \in SUBSET ModelFiles
      BY <1>4 DEF Instances
    <3>2. CASE Unload
      <4>1. PICK s, e : /\ s = IF h \in toRetire THEN "UNLOADING" ELSE "LOADING"
                        /\ e = (h \in toCleanup)
        OBVIOUS
      <4>2. inst' = [inst EXCEPT ![h].state = s, ![h].error = e, ![h].files = inst[h].files]
        BY <1>1, <1>4, <3>2, <4>1 DEF Unload, TypeOK, Instances
      <4>3. pc' = "unloading" /\ s \in {"LOADING", "UNLOADING"}
        BY <3>2, <4>1 DEF Unload
      <4>4. e \in BOOLEAN
        BY <4>1
      <4> QED BY <3>1, <4>2, <4>3, <4>4
    <3>3. CASE RetireAllVersions
      <4>1. inst' = [inst EXCEPT ![h].state = "UNLOADING", ![h].error = FALSE, ![h].files = {}]
        BY <1>1, <1>4, <3>3 DEF RetireAllVersions, CleanupModelTmpFiles, TypeOK, Instances
      <4>2. pc' = "retiringAll" /\ {} \in SUBSET ModelFiles /\ FALSE \in BOOLEAN
        BY <3>3 DEF RetireAllVersions
      <4> QED BY <4>1, <4>2, Zenon
    <3>4. CASE CleanupAllVersions
      <4>1. inst' = [inst EXCEPT ![h].state = "LOADING", ![h].error = TRUE, ![h].files = {}]
        BY <1>1, <1>4, <3>4 DEF CleanupAllVersions, CleanupModelTmpFiles, TypeOK, Instances
      <4>2. pc' = "cleaningAll" /\ {} \in SUBSET ModelFiles /\ TRUE \in BOOLEAN
        BY <3>4 DEF CleanupAllVersions
      <4>3. pc' # "retiringAll"
        BY <4>2
      <4> QED BY <4>1, <4>2, <4>3, Zenon
    <3> QED BY <1>6, <3>2, <3>3, <3>4
  <2>2. h \notin reloading
    BY <1>6 DEF Unload, RetireAllVersions, CleanupAllVersions
  <2>3. PICK r : r = [inst[h] EXCEPT !.state = s, !.error = e, !.net = inst[h].net, !.files = f]
    OBVIOUS
  <2>4. inst' = [inst EXCEPT ![h] = r]
    BY <1>1, <1>4, <2>1, <2>3 DEF TypeOK, Instances
  <2>5. s \in States /\ inst[h].net \in Bases \cup {"none"}
    BY <1>4 DEF States, Instances
  <2>6. r \in Instances /\ r.state = s /\ r.config = inst[h].config
    BY <1>4, <2>1, <2>3, <2>5 DEF Instances
  <2> QED BY <1>2, <1>3, <1>4, <2>1, <2>2, <2>4, <2>6, Works
<1> QED BY <1>5, <1>6

\* A version is unloaded.
LEMMA UnloadedStep ==
  Inv /\ (Unloaded \/ RetiredAllVersions \/ CleanedUpAllVersions) => Inv'
<1> SUFFICES ASSUME Inv, Unloaded \/ RetiredAllVersions \/ CleanedUpAllVersions PROVE Inv'
  OBVIOUS
<1> DEFINE h == Current
<1>1. TypeOK /\ Batches /\ InHand /\ ReloadsKnown /\ RegisteredWhileServing
  BY DEF Inv
<1>2. /\ pc \in {"unloading", "retiringAll", "cleaningAll"} /\ Ends /\ queue' = queue \ {h}
      /\ UNCHANGED <<viewer, local, reloading, served, config, avail, toStart, toReload, toRetire>>
  BY DEF Unloaded, RetiredAllVersions, CleanedUpAllVersions, Ends
<1>3. local' \in [Versions -> SUBSET ModelFiles]
  BY <1>1, <1>2 DEF TypeOK
<1>4. /\ h \in Versions /\ inst[h] \in Instances
      /\ inst[h].state # "none" /\ inst[h].config \in Configs
  BY <1>1, <1>2, CurrentRegistered DEF Batches
<1>5. PICK s \in States : /\ inst' = [inst EXCEPT ![h].state = s, ![h].net = "none"]
                          /\ \/ s = inst[h].state
                             \/ s = "END" /\ inst[h].state = "UNLOADING"
  <2>1. inst[h].state \in States /\ "END" \in States
    BY <1>4 DEF Instances, States
  <2>2. CASE Unloaded
    <3>1. PICK s : s = IF inst[h].state = "UNLOADING" THEN "END" ELSE inst[h].state
      OBVIOUS
    <3>2. inst' = [inst EXCEPT ![h].state = s, ![h].net = "none"]
      BY <1>1, <1>4, <2>2, <3>1 DEF Unloaded, TypeOK, Instances
    <3> QED BY <2>1, <3>1, <3>2
  <2>3. CASE RetiredAllVersions
    BY <1>1, <1>4, <2>1, <2>3 DEF RetiredAllVersions, InHand
  <2>4. CASE CleanedUpAllVersions
    <3>1. inst' = [inst EXCEPT ![h].state = inst[h].state, ![h].net = "none"]
      BY <1>1, <1>4, <2>4 DEF CleanedUpAllVersions, TypeOK, Instances
    <3> QED BY <2>1, <3>1
  <2> QED BY <2>2, <2>3, <2>4
<1>6. PICK r : r = [inst[h] EXCEPT !.state = s, !.error = inst[h].error, !.net = "none",
                                   !.files = inst[h].files]
  OBVIOUS
<1>7. inst' = [inst EXCEPT ![h] = r]
  BY <1>1, <1>4, <1>5, <1>6 DEF TypeOK, Instances
<1>8. inst[h].error \in BOOLEAN /\ inst[h].files \in SUBSET ModelFiles
  BY <1>4 DEF Instances
<1>9. r \in Instances /\ r.state = s /\ r.config = inst[h].config
  BY <1>4, <1>5, <1>6, <1>8 DEF Instances
<1>10. /\ r.state # "none"
       /\ r.state = "AVAILABLE" /\ NeedsCleaner(r.config) => h \in viewer'
       /\ h \in reloading => r.state = "LOADING" /\ (NeedsCleaner(r.config) => h \in viewer')
  BY <1>1, <1>2, <1>4, <1>5, <1>9 DEF ReloadsKnown, RegisteredWhileServing, Available
<1>11. pc' \notin {"adding", "reloading", "retiringAll"}
  BY <1>2 DEF Ends
<1> QED BY <1>2, <1>3, <1>4, <1>7, <1>9, <1>10, <1>11, Works


-----------------------------------------------------------------------------
(* The results. *)

\* Every step keeps the invariant.
LEMMA NextInv == Inv /\ Listed /\ [Next]_vars => Inv'
<1> SUFFICES ASSUME Inv, Listed, [Next]_vars PROVE Inv'
  OBVIOUS
<1>1. CASE UNCHANGED vars
  <2>1. UNCHANGED managerVars /\ UNCHANGED <<inst, viewer, reloading, local>>
    BY <1>1 DEF vars
  <2>2. served' \in Configs \cup {NoConfig}
    BY <1>1 DEF vars, Inv, TypeOK
  <2> QED BY <2>1, <2>2, ManagerLeft
<1>2. CASE RepositoryChange \/ LoaderChange
  BY <1>2, RepositoryStep
<1>3. CASE (\E c \in Configs : ChangeConfig(c)) \/ Poll \/ RemoveFromConfig \/ InvalidConfig
  BY <1>3, ConfigStep
<1>4. CASE ManagerStep
  BY <1>4, BatchStep, AddVersionStep, LoadedStep, ReloadVersionStep, UnloadStep, UnloadedStep
     DEF ManagerStep
<1>5. CASE \E v \in Versions : RequestReload(v) \/ RequestReloaded(v)
  BY <1>5, RequestReloadStep, RequestReloadedStep
<1> QED BY <1>1, <1>2, <1>3, <1>4, <1>5 DEF Next

\* The lists of versions at the start, ...
LEMMA InitListed == Init => Listed
BY ConstantsAssumption, RepositoryAssumption, FS_EmptySet DEF Init, Listed, Keys

\* ... when the failed versions are erased, ...
LEMMA EraseListed ==
  ASSUME Inv, Listed, avail' = EraseFailed(avail, failed),
         allFailed' = allFailed \cup Range(failed),
         UNCHANGED <<fs, store, failed>>,
         pc \in {"add", "reload"}
  PROVE  Listed'
<1>1. avail \in SUBSET Nat /\ failed \in Seq(Nat) /\ IsFiniteSet(avail)
  BY DEF Inv, TypeOK, Listed
<1>2. /\ avail' \in SUBSET avail
      /\ avail \ avail' \in SUBSET Range(failed)
      /\ InOrder(avail) => avail' \cap Range(failed) = {}
  BY <1>1, EraseFailedErases
<1>3. IsFiniteSet(avail')
  BY <1>1, <1>2, FS_Subset
<1>4. allFailed' \in SUBSET Nat
  <2>1. Range(failed) \in SUBSET Nat
    BY <1>1 DEF Range
  <2>2. allFailed \in SUBSET Nat
    BY DEF Listed
  <2> QED BY <2>1, <2>2
<1>5. ASSUME NEW S, InOrder(S), NEW T \in SUBSET S PROVE InOrder(T)
  BY <1>5 DEF InOrder
<1>6. avail' \cap allFailed' = {} \/ ~InOrder(avail' \cup allFailed')
  <2>1. SUFFICES ASSUME InOrder(avail' \cup allFailed') PROVE avail' \cap allFailed' = {}
    OBVIOUS
  <2>2. InOrder(avail) /\ InOrder(avail \cup allFailed)
    <3>1. avail \in SUBSET (avail' \cup allFailed') /\ avail \cup allFailed \in SUBSET (avail' \cup allFailed')
      BY <1>2
    <3> QED BY <1>5, <2>1, <3>1
  <2>3. avail \cap allFailed = {}
    BY <2>2 DEF Listed
  <2> QED BY <1>2, <2>2, <2>3
<1> QED BY <1>3, <1>4, <1>6 DEF Listed

\* ... and after every step.
LEMMA NextListed == Inv /\ Listed /\ [Next]_vars => Listed'
<1> SUFFICES ASSUME Inv, Listed, [Next]_vars PROVE Listed'
  OBVIOUS
<1>1. TypeOK /\ Batches
  BY DEF Inv
<1>2. CASE UNCHANGED vars
  BY <1>2 DEF vars, managerVars, repositoryVars, Listed
<1>3. CASE RepositoryChange \/ LoaderChange
  <2>1. UNCHANGED managerVars /\ fs' = fs
    BY <1>3 DEF RepositoryChange, LoaderChange
  <2>2. \/ store' = store
        \/ \E x : store' = store \cup {x}
        \/ \E X : store' = store \ X
    BY <1>3 DEF RepositoryChange, LoaderChange
  <2>3. IsFiniteSet(store')
    <3>1. IsFiniteSet(store)
      BY DEF Listed
    <3>2. ASSUME NEW x PROVE IsFiniteSet(store \cup {x})
      BY <3>1, FS_AddElement
    <3>3. ASSUME NEW X PROVE IsFiniteSet(store \ X)
      BY <3>1, FS_Difference
    <3> QED BY <2>2, <3>1, <3>2, <3>3
  <2>4. store' \in SUBSET Keys
    <3>1. store \in SUBSET Keys
      BY DEF Listed
    <3>2. CASE LoaderChange
      BY <3>1, <3>2 DEF LoaderChange
    <3>3. CASE RepositoryChange
      <4>1. CASE \E b \in Bases, v \in Versions, f \in ModelFiles :
                   store' = store \cup {Path(b) \o <<v>> \o f}
        <5>1. PICK b \in Bases, v \in Versions, f \in ModelFiles :
                store' = store \cup {Path(b) \o <<v>> \o f}
          BY <4>1
        <5>2. Path(b) \o <<v>> \o f
                \in {Path(a) \o <<w>> \o g : a \in Bases, w \in Versions, g \in ModelFiles}
          OBVIOUS
        <5>3. Path(b) \o <<v>> \o f \in Keys
          BY <5>2 DEF Keys
        <5> QED BY <3>1, <5>1, <5>3
      <4>2. CASE \E X : store' = store \ X
        BY <3>1, <4>2
      <4> QED BY <3>3, <4>1, <4>2 DEF RepositoryChange
    <3> QED BY <1>3, <3>2, <3>3
  <2> QED BY <2>1, <2>3, <2>4 DEF managerVars, Listed
<1>4. ASSUME NEW c \in Configs, ReloadModelWithVersions(c) PROVE Listed'
  <2>1. UNCHANGED <<fs, store>> /\ pc = "idle"
    BY <1>4 DEF ReloadModelWithVersions, repositoryVars
  <2>2. CASE UNCHANGED <<pc, avail, failed, allFailed>>
    BY <2>1, <2>2 DEF Listed
  <2>3. CASE /\ avail' = ReadAvailableVersions(Settings[c].base)
             /\ failed' = <<>> /\ allFailed' = {}
    <3>1. IsFiniteSet(DirectorySubdirs(fs, store, Path(Settings[c].base)))
      BY ListingFinite DEF Listed
    <3>2. avail' \in SUBSET DirectorySubdirs(fs, store, Path(Settings[c].base))
      BY <2>3 DEF ReadAvailableVersions
    <3>3. IsFiniteSet(avail')
      BY <3>1, <3>2, FS_Subset
    <3> QED BY <2>1, <2>3, <3>3 DEF Listed
  <2> QED BY <1>4, <2>2, <2>3 DEF ReloadModelWithVersions
<1>5. CASE (\E c \in Configs : ChangeConfig(c)) \/ Poll
  BY <1>1, <1>4, <1>5 DEF ChangeConfig, Poll, TypeOK
<1>6. CASE AddVersionsEnd \/ Refresh
  <2>1. CASE avail' = EraseFailed(avail, failed) /\ allFailed' = allFailed \cup Range(failed)
    BY <1>6, <2>1, EraseListed DEF AddVersionsEnd, Refresh, repositoryVars
  <2>2. CASE UNCHANGED <<avail, allFailed>>
    BY <1>6, <2>2 DEF AddVersionsEnd, Refresh, repositoryVars, Listed
  <2> QED BY <1>6, <2>1, <2>2 DEF AddVersionsEnd, Refresh
<1>7. CASE AddVersionLoaded \/ ReloadVersionLoaded
  <2>1. /\ UNCHANGED <<fs, store, avail, allFailed>> /\ pc \in {"adding", "reloading"}
        /\ failed' \in {failed, Append(failed, Current)}
    BY <1>7 DEF AddVersionLoaded, ReloadVersionLoaded, repositoryVars
  <2>2. Current \in Nat
    BY <1>1, <2>1, CurrentInBatch DEF TypeOK, Batches
  <2> QED BY <2>1, <2>2 DEF Listed
<1>8. CASE \/ RemoveFromConfig \/ InvalidConfig
           \/ StartBatch \/ AddVersion \/ NothingToStart \/ ReloadVersion
           \/ RetireVersion \/ Unload \/ Unloaded
           \/ RetireAllVersions \/ RetiredAllVersions
           \/ CleanupAllVersions \/ CleanedUpAllVersions \/ Done
  <2>1. /\ UNCHANGED <<fs, store, avail, allFailed>>
        /\ failed' \in {failed, <<>>}
    BY <1>8 DEF RemoveFromConfig, InvalidConfig, StartBatch, AddVersion, NothingToStart,
                ReloadVersion, RetireVersion, Unload, Unloaded, RetireAllVersions,
                RetiredAllVersions, CleanupAllVersions, CleanedUpAllVersions, Done,
                repositoryVars
  <2>2. pc' \in {"start", "add", "adding", "reload", "reloading", "retire", "unload", "unloading"}
          => pc \in {"start", "add", "adding", "reload", "reloading", "retire", "unload", "unloading"}
    BY <1>8 DEF RemoveFromConfig, InvalidConfig, StartBatch, AddVersion, NothingToStart,
                ReloadVersion, RetireVersion, Unload, Unloaded, RetireAllVersions,
                RetiredAllVersions, CleanupAllVersions, CleanedUpAllVersions, Done
  <2>3. failed' \in Seq(Nat)
    <3>1. <<>> \in Seq(Nat)
      OBVIOUS
    <3>2. failed \in Seq(Nat)
      BY DEF Listed
    <3> QED BY <2>1, <3>1, <3>2
  <2> QED BY <2>1, <2>2, <2>3 DEF Listed
<1>9. CASE \E v \in Versions : RequestReload(v) \/ RequestReloaded(v)
  BY <1>9 DEF RequestReload, RequestReloaded, managerVars, repositoryVars, Listed
<1> QED BY <1>2, <1>3, <1>5, <1>6, <1>7, <1>8, <1>9 DEF Next, ManagerStep

\* The invariant holds in every state.
LEMMA Invariance == Spec => [](Inv /\ Listed)
BY InitInv, NextInv, InitListed, NextListed, PTL DEF Spec

\* The cleaner thread knows every version that serves sequences and wants idle
\* ones removed, whatever the manager and requests do to it
\* (statefulmodelinstance.cpp, loadModel, reloadModel and retireModel).
THEOREM CleanerKnowsServing == Spec => []RegisteredWhileServing
<1>1. Inv => RegisteredWhileServing
  BY DEF Inv
<1> QED BY <1>1, Invariance, PTL

\* A version that serves is unloaded only when the policy does not select it
\* among the versions that are counted as available, the failed ones that
\* were found erased (modelmanager.cpp, reloadModelWithVersions).
UnselectedUnloaded ==
  [][\A v \in Versions :
       (pc = "unload" /\ Available(v) /\ inst'[v].state # "AVAILABLE" /\ v \notin reloading')
         => v \notin Filter(Policy(config), avail) \/ Settings[config].loader]_vars

\* reloadModelWithVersions unloads only what the policy leaves out, for every
\* repository and policy.
THEOREM OnlyUnselectedUnloaded == Spec => UnselectedUnloaded
<1> DEFINE A == \A v \in Versions :
                  (pc = "unload" /\ Available(v) /\ inst'[v].state # "AVAILABLE"
                     /\ v \notin reloading')
                    => v \notin Filter(Policy(config), avail) \/ Settings[config].loader
<1>1. Inv /\ [Next]_vars => [A]_vars
  <2> SUFFICES ASSUME Inv, Next, NEW v \in Versions, pc = "unload", Available(v),
                      inst'[v].state # "AVAILABLE", v \notin reloading'
               PROVE  v \notin Filter(Policy(config), avail) \/ Settings[config].loader
    BY Zenon
  <2>1. TypeOK /\ Batches /\ RetiresUnselected
    BY DEF Inv
  <2>2. v = Current
    <3>1. CASE inst' = inst
      BY <3>1 DEF Available
    <3>2. CASE Unload
      BY <2>1, <3>2 DEF Unload, Available, TypeOK
    <3>3. CASE \E w \in Versions : RequestReload(w) \/ RequestReloaded(w)
      <4>1. PICK w \in Versions : RequestReload(w) \/ RequestReloaded(w)
        BY <3>3
      <4>2. w # v => inst'[v] = inst[v]
        BY <2>1, <4>1 DEF RequestReload, RequestReloaded, TypeOK
      <4>3. RequestReload(v) => v \in reloading'
        BY DEF RequestReload
      <4>4. RequestReloaded(v) => FALSE
        BY DEF RequestReloaded, Inv, ReloadsKnown, Available
      <4> QED BY <4>1, <4>2, <4>3, <4>4 DEF Available
    <3>4. inst' = inst \/ Unload \/ \E w \in Versions : RequestReload(w) \/ RequestReloaded(w)
      BY DEF Next, ManagerStep, RepositoryChange, LoaderChange, ChangeConfig, Poll,
             ReloadModelWithVersions, RemoveFromConfig, InvalidConfig, StartBatch, AddVersion,
             AddVersionLoaded, AddVersionsEnd, NothingToStart, ReloadVersion,
             ReloadVersionLoaded, Refresh, RetireVersion, Unloaded, RetireAllVersions,
             RetiredAllVersions, CleanupAllVersions, CleanedUpAllVersions, Done
    <3> QED BY <3>1, <3>2, <3>3, <3>4
  <2>3. Current \in queue
    BY <2>1, CurrentInBatch DEF TypeOK, Batches
  <2> QED BY <2>1, <2>2, <2>3 DEF RetiresUnselected
<1> QED BY <1>1, Invariance, PTL DEF Spec, UnselectedUnloaded

\* A newer version that fails to load does not take away an older one that
\* serves and that the policy selects without it (modelmanager.cpp,
\* reloadModelWithVersions), for every repository in which the names of the
\* versions have the order of their numbers.
THEOREM WorkingVersionStays == Spec => WorkingVersionKept
<1> DEFINE U == \A v \in Versions :
                  (pc = "unload" /\ Available(v) /\ inst'[v].state # "AVAILABLE"
                     /\ v \notin reloading')
                    => v \notin Filter(Policy(config), avail) \/ Settings[config].loader
           W == \A v \in Versions :
                  (pc = "unload" /\ Available(v) /\ inst'[v].state # "AVAILABLE"
                     /\ v \notin reloading')
                    => \/ v \notin Filter(Policy(config), avail \ allFailed)
                       \/ Settings[config].loader
                       \/ /\ allFailed \cap avail # {}
                          /\ \E w, x \in avail \cup allFailed : w < x /\ NameLess(x, w)
<1>1. Listed /\ [U]_vars => [W]_vars
  <2> SUFFICES ASSUME Listed, U, NEW v \in Versions, pc = "unload", Available(v),
                      inst'[v].state # "AVAILABLE", v \notin reloading',
                      ~Settings[config].loader, v \in Filter(Policy(config), avail \ allFailed)
               PROVE  /\ allFailed \cap avail # {}
                      /\ \E w, x \in avail \cup allFailed : w < x /\ NameLess(x, w)
    BY Zenon
  <2>1. v \notin Filter(Policy(config), avail)
    OBVIOUS
  <2>2. avail \ allFailed # avail
    BY <2>1
  <2>3. allFailed \cap avail # {}
    BY <2>2
  <2>4. ~InOrder(avail \cup allFailed)
    BY <2>3 DEF Listed
  <2> QED BY <2>3, <2>4 DEF InOrder
<1>2. Spec => [][U]_vars
  BY OnlyUnselectedUnloaded DEF UnselectedUnloaded
<1> QED BY <1>1, <1>2, Invariance, PTL DEF WorkingVersionKept

\* It makes no difference for a model which store its repository is in
\* (localfilesystem.cpp, s3filesystem.cpp, gcsfilesystem.cpp, azurestorage.cpp),
\* for every repository in which nothing is below a file and whose models have
\* their files at most one directory deep.
THEOREM StoresAgree == Spec => []BackendsAgree
<1>1. Listed => BackendsAgree
  <2> SUFFICES ASSUME Listed, NEW b \in Bases, NEW f \in Backends
               PROVE  LET versionPaths == {Append(Path(b), v) : v \in Versions} IN
                      /\ \A p \in {Path(b)} \cup versionPaths :
                           /\ IsDirectory(f, store, p) = LocalIsDirectory(store, p)
                           /\ LocalIsDirectory(store, p) =>
                                /\ DirectorySubdirs(f, store, p) = LocalDirectorySubdirs(store, p)
                                /\ DirectoryFiles(f, store, p) = LocalDirectoryFiles(store, p)
                      /\ \A k \in Under(store, Path(b)) : IsFile(k) => FileExists(f, store, k)
                      /\ f # "local" => \A v \in Versions : LET p == Append(Path(b), v) IN
                           /\ DownloadSucceeds(f, store, Path(b), {v}) = LocalIsDirectory(store, p)
                           /\ ModelFiles \cap DownloadFileFolder(f, store, p, Accepted)
                                = ModelFiles \cap RelativePaths(p, Under(store, p))
    BY Zenon DEF BackendsAgree
  <2>1. Tree(store)
    <3>1. store \in SUBSET Keys /\ Tree(Keys)
      BY RepositoryAssumption DEF Listed
    <3>2. \A k \in store : Under(store, k) \in SUBSET Under(Keys, k)
      BY <3>1 DEF Under
    <3> QED BY <3>1, <3>2 DEF Tree
  <2>2. IsPath(Path(b)) /\ Len(Path(b)) = 2
    BY DEF IsPath, Path
  <2>3. ASSUME NEW v \in Versions
        PROVE  IsPath(Append(Path(b), v)) /\ Len(Append(Path(b), v)) >= 2
    BY <2>2, AppendPath
  <2>4. ASSUME NEW p \in {Path(b)} \cup {Append(Path(b), v) : v \in Versions}
        PROVE  /\ IsDirectory(f, store, p) = LocalIsDirectory(store, p)
               /\ LocalIsDirectory(store, p) =>
                    /\ DirectorySubdirs(f, store, p) = LocalDirectorySubdirs(store, p)
                    /\ DirectoryFiles(f, store, p) = LocalDirectoryFiles(store, p)
    <3>1. IsPath(p) /\ Len(p) >= 2
      <4>1. CASE p = Path(b)
        BY <2>2, <4>1
      <4>2. CASE \E v \in Versions : p = Append(Path(b), v)
        BY <2>3, <4>2
      <4> QED BY <4>1, <4>2
    <3> QED BY <2>1, <3>1, SameListings
  <2>5. ASSUME NEW k \in Under(store, Path(b)) PROVE FileExists(f, store, k)
    <3>1. k \in store /\ Len(k) > 2
      BY <2>2 DEF Under
    <3>2. Len(k) \in Nat
      BY <2>1, <3>1 DEF Tree, IsPath
    <3>3. Len(k) >= 2
      BY <3>1, <3>2
    <3> QED BY <2>1, <3>1, <3>3, FilesFound
  <2>6. ASSUME f # "local", NEW v \in Versions, NEW p, p = Append(Path(b), v)
        PROVE  /\ DownloadSucceeds(f, store, Path(b), {v}) = LocalIsDirectory(store, p)
               /\ ModelFiles \cap DownloadFileFolder(f, store, p, Accepted)
                    = ModelFiles \cap RelativePaths(p, Under(store, p))
    <3>1. IsPath(p) /\ Len(p) >= 2
      BY <2>3, <2>6
    <3>2. p \notin store
      BY <2>6, RepositoryAssumption DEF Listed
    <3>3. p # <<>>
      BY <3>1
    <3>4. IsDirectory(f, store, p) = LocalIsDirectory(store, p)
      BY <2>4, <2>6
    <3>5. DownloadSucceeds(f, store, Path(b), {v}) = LocalIsDirectory(store, p)
      <4>1. CASE f = "s3"
        BY <2>6, <3>2, <3>3, <4>1 DEF DownloadSucceeds, S3DownloadModelVersions, S3FileExists,
                                       S3IsDirectory, LocalIsDirectory
      <4>2. CASE f = "gcs"
        BY <2>6, <4>2 DEF DownloadSucceeds, GCSDownloadModelVersions, GCSIsDirectory,
                          LocalIsDirectory
      <4>3. CASE f \in {"azblob", "azfile"}
        <5>1. DownloadSucceeds(f, store, Path(b), {v})
                = AzureDownloadModelVersions(f, store, Path(b), {v})
          BY <4>3 DEF DownloadSucceeds
        <5>2. AzureDownloadModelVersions(f, store, Path(b), {v}) <=> IsDirectory(f, store, p)
          BY <2>6 DEF AzureDownloadModelVersions
        <5>3. LocalIsDirectory(store, p) \in BOOLEAN
          BY DEF LocalIsDirectory
        <5>4. AzureDownloadModelVersions(f, store, Path(b), {v}) \in BOOLEAN
          BY DEF AzureDownloadModelVersions
        <5> QED BY <3>4, <5>1, <5>2, <5>3, <5>4
      <4> QED BY <2>6, <4>1, <4>2, <4>3 DEF Backends
    <3>6. ASSUME NEW g \in ModelFiles
          PROVE  g \in DownloadFileFolder(f, store, p, Accepted)
                   <=> g \in RelativePaths(p, Under(store, p))
      <4>1. IsPath(g) /\ Len(g) \in 1..2 /\ IsFile(g) /\ g[Len(g)] \in Accepted
        BY RepositoryAssumption
      <4>2. f \in Backends \ {"local"}
        BY <2>6
      <4> QED BY <2>1, <3>1, <4>1, <4>2, SameDownloads
    <3> QED BY <3>5, <3>6
  <2> QED BY <2>4, <2>5, <2>6, Zenon
<1> QED BY <1>1, Invariance, PTL

=============================================================================
