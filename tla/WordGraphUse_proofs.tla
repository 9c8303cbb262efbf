------------------------ MODULE WordGraphUse_proofs -------------------------
(***************************************************************************)
(* Proofs about WordGraphUse for any edges, scores and thresholds that     *)
(* WordGraphConstants allows: the types of a graph (WgTypes), that the     *)
(* reduction to useful states and the ordering of the arcs keep its        *)
(* translations (ReshapingIsFaithful), that pruning retains the arcs of    *)
(* the good paths (PruningIsByPaths), and that the n-best list and the     *)
(* best path are the best of the translations (NbestIsRight).              *)
(*                                                                         *)
(* The operators of WordGraph are folds over the arcs.  First comes what a *)
(* fold does, row by row; then the invariant, and what each pass has made  *)
(* of the first arcs, or of the last; then what the paths of the graph     *)
(* have to do with it; then the search of the n-best list, which is the    *)
(* iteration of one step, and the best path, which is a table.             *)
(***************************************************************************)
EXTENDS WordGraphUse, FiniteSetTheorems, SequenceTheorems, Induction_proofs

-----------------------------------------------------------------------------
(* Folds.                                                                  *)

(* The largest of some of the numbers 1 .. n. *)
LEMMA LargestOfPart ==
  ASSUME NEW n \in Nat, NEW S \in SUBSET (1 .. n), S # {}
  PROVE  Max(S) \in S /\ \A y \in S : y <= Max(S)
  <1> DEFINE P(k) == \A R \in SUBSET (1 .. k) : R # {} => \E x \in R : \A y \in R : x >= y
             G == {k \in 0 .. n : P(k)}
  <1>1. P(0)
    <2>1. \A R \in SUBSET (1 .. 0) : \A x \in R : x \in 1 .. 0
      OBVIOUS
    <2>2. \A R \in SUBSET (1 .. 0) : R = {}
      BY <2>1
    <2> QED BY <2>2
  <1>2. ASSUME NEW k \in 0 .. n - 1, P(k)
        PROVE  P(k + 1)
    <2>1. ASSUME NEW R \in SUBSET (1 .. k + 1), R # {}
          PROVE  \E x \in R : \A y \in R : x >= y
      <3>1. CASE k + 1 \in R
        BY <3>1
      <3>2. CASE k + 1 \notin R
        <4>1. R \in SUBSET (1 .. k)
          BY <3>2
        <4> QED BY <4>1, <1>2, <2>1
      <3> QED BY <3>1, <3>2
    <2> QED BY <2>1
  <1> HIDE DEF P
  <1>3. 0 .. n \subseteq G
    <2>1. 0 \in G /\ \A k \in 0 .. n - 1 : k \in G => k + 1 \in G
      BY <1>1, <1>2
    <2> HIDE DEF G
    <2> QED BY <2>1, InductionUpTo
  <1>4. P(n)
    BY <1>3
  <1>5. \E x \in S : \A y \in S : x >= y
    BY <1>4 DEF P
  <1>6. PICK m : m = CHOOSE x \in S : \A y \in S : x >= y
    OBVIOUS
  <1>7. m \in S /\ \A y \in S : m >= y
    BY <1>5, <1>6
  <1>8. m \in Int /\ \A y \in S : y \in Int /\ y <= m
    BY <1>7
  <1>9. Max(S) = m
    BY <1>6 DEF Max
  <1> QED BY <1>7, <1>8, <1>9

(* The largest of all of them. *)
LEMMA LargestOfAll ==
  ASSUME NEW k \in Nat, k # 0
  PROVE  Max(1 .. k) = k /\ (1 .. k) \ {k} = 1 .. k - 1
  <1>1. PICK m : m = Max(1 .. k)
    OBVIOUS
  <1>2. 1 .. k # {} /\ 1 .. k \in SUBSET (1 .. k)
    OBVIOUS
  <1>3. Max(1 .. k) \in 1 .. k /\ \A y \in 1 .. k : y <= Max(1 .. k)
    BY <1>2, LargestOfPart
  <1>4. m \in 1 .. k /\ \A y \in 1 .. k : y <= m
    BY <1>1, <1>3
  <1> QED BY <1>1, <1>4

\* f is the table of what a fold makes of each set of numbers up to m: F is its
\* step, a function of what it has made and of the next number.
IsFoldTable(f, m, b, F) ==
  f = [S \in SUBSET (1 .. m) |-> IF S = {} THEN b ELSE F[<<f[S \ {Max(S)}], Max(S)>>]]

(* There is a table if the step stays in a set, and so does the table. *)
LEMMA FoldTableExists ==
  ASSUME NEW n \in Nat, NEW A, NEW b \in A, NEW F,
         \A a \in A, i \in 1 .. n : F[<<a, i>>] \in A
  PROVE  \E f : IsFoldTable(f, n, b, F) /\ \A S \in SUBSET (1 .. n) : f[S] \in A
  <1> DEFINE Is(f, k) == IsFoldTable(f, k, b, F) /\ \A S \in SUBSET (1 .. k) : f[S] \in A
             P(k) == \E f : Is(f, k)
             G == {k \in 0 .. n : P(k)}
  <1>1. P(0)
    <2> DEFINE f == [S \in SUBSET (1 .. 0) |-> b]
    <2>1. SUBSET (1 .. 0) = {{}}
      OBVIOUS
    <2>2. IsFoldTable(f, 0, b, F)
      BY <2>1 DEF IsFoldTable
    <2>3. Is(f, 0)
      BY <2>2
    <2> HIDE DEF f, Is
    <2> QED BY <2>3
  <1>2. ASSUME NEW k \in 0 .. n - 1, P(k)
        PROVE  P(k + 1)
    <2>1. PICK f : Is(f, k)
      BY <1>2
    <2> DEFINE h == [S \in SUBSET (1 .. k + 1) |->
                       IF S = {} THEN b ELSE F[<<f[S \ {Max(S)}], Max(S)>>]]
    <2>2. ASSUME NEW S \in SUBSET (1 .. k)
          PROVE  h[S] = f[S]
      <3>1. S \in SUBSET (1 .. k + 1)
        OBVIOUS
      <3>2. f[S] = IF S = {} THEN b ELSE F[<<f[S \ {Max(S)}], Max(S)>>]
        BY <2>1 DEF IsFoldTable
      <3> QED BY <3>1, <3>2
    <2>3. ASSUME NEW S \in SUBSET (1 .. k + 1), S # {}
          PROVE  /\ f[S \ {Max(S)}] = h[S \ {Max(S)}]
                 /\ F[<<f[S \ {Max(S)}], Max(S)>>] \in A
      <3>1. PICK m : m = Max(S)
        OBVIOUS
      <3>2. k + 1 \in Nat
        OBVIOUS
      <3>3. Max(S) \in S /\ \A y \in S : y <= Max(S)
        BY <2>3, <3>2, LargestOfPart
      <3>4. m \in S /\ \A y \in S : y <= m
        BY <3>1, <3>3
      <3>5. m \in 1 .. n /\ S \ {m} \in SUBSET (1 .. k)
        BY <3>4
      <3>6. f[S \ {m}] \in A
        BY <2>1, <3>5
      <3>7. f[S \ {m}] = h[S \ {m}]
        BY <2>2, <3>5
      <3> HIDE DEF h
      <3>8. F[<<f[S \ {m}], m>>] \in A
        BY <3>5, <3>6
      <3> QED BY <3>1, <3>7, <3>8
    <2>4. \A S \in SUBSET (1 .. k + 1) :
            h[S] = IF S = {} THEN b ELSE F[<<h[S \ {Max(S)}], Max(S)>>]
      BY <2>3
    <2>5. \A S \in SUBSET (1 .. k + 1) : h[S] \in A
      BY <2>3
    <2>6. h = [S \in SUBSET (1 .. k + 1) |-> h[S]]
      OBVIOUS
    <2> HIDE DEF h
    <2>7. h = [S \in SUBSET (1 .. k + 1) |->
                 IF S = {} THEN b ELSE F[<<h[S \ {Max(S)}], Max(S)>>]]
      BY <2>4, <2>6
    <2>8. Is(h, k + 1)
      BY <2>5, <2>7 DEF IsFoldTable
    <2> HIDE DEF Is
    <2> QED BY <2>8
  <1> HIDE DEF P
  <1>3. 0 .. n \subseteq G
    <2>1. 0 \in G /\ \A k \in 0 .. n - 1 : k \in G => k + 1 \in G
      BY <1>1, <1>2
    <2> HIDE DEF G
    <2> QED BY <2>1, InductionUpTo
  <1>4. P(n)
    BY <1>3
  <1> QED BY <1>4 DEF P

(* The first numbers, one by one. *)
LEMMA FirstNumbers ==
  ASSUME NEW n \in Nat, NEW k \in 0 .. n - 1
  PROVE  /\ 1 .. k + 1 \in SUBSET (1 .. n) /\ 1 .. k + 1 # {}
         /\ Max(1 .. k + 1) = k + 1 /\ (1 .. k + 1) \ {k + 1} = 1 .. k
  <1>1. k + 1 \in Nat /\ k + 1 # 0 /\ k + 1 - 1 = k
    OBVIOUS
  <1>2. 1 \in 1 .. k + 1 /\ \A i \in 1 .. k + 1 : i \in 1 .. n
    OBVIOUS
  <1>3. Max(1 .. k + 1) = k + 1 /\ (1 .. k + 1) \ {k + 1} = 1 .. k + 1 - 1
    BY <1>1, LargestOfAll
  <1> QED BY <1>1, <1>2, <1>3

(* The values of a fold are in a set that its step does not leave. *)
LEMMA FoldStays ==
  ASSUME NEW n \in Nat, NEW A, NEW acc, acc[0] \in A,
         \A k \in 0 .. n - 1 : acc[k] \in A => acc[k + 1] \in A
  PROVE  \A k \in 0 .. n : acc[k] \in A
  <1> DEFINE G == {k \in 0 .. n : acc[k] \in A}
  <1>1. 0 .. n \subseteq G
    <2>1. 0 \in G /\ \A k \in 0 .. n - 1 : k \in G => k + 1 \in G
      OBVIOUS
    <2> HIDE DEF G
    <2> QED BY <2>1, InductionUpTo
  <1> QED BY <1>1

\* What each pass over the arcs does at one of them.
RestStep(g, rest, k) ==
  LET i == Len(g.arcs) + 1 - k
      a == g.arcs[i]
      x == AtLeastSmall(a.score + rest[a.succ])
  IN IF i \in NonPruned(g) /\ x > rest[a.pred] THEN [rest EXCEPT ![a.pred] = x] ELSE rest

RestStart(g) ==
  [s \in States(g) |-> IF s \in g.finals THEN g.initialStateScore ELSE SMALL_SCORE]

HeurStep(g, rest, k) ==
  LET i == Len(g.arcs) + 1 - k
      a == g.arcs[i]
      x == a.score + rest[a.succ]
  IN IF i \in NonPruned(g) /\ x > rest[a.pred] THEN [rest EXCEPT ![a.pred] = x] ELSE rest

HeurStart(g) == [s \in States(g) |-> IF s \in g.finals THEN 0 ELSE SMALL_SCORE]

ReachStep(g, reached, i) ==
  IF i \in NonPruned(g) /\ g.arcs[i].pred \in reached
    THEN reached \cup {g.arcs[i].succ} ELSE reached

UsefulStep(g, useful, k) ==
  LET i == Len(g.arcs) + 1 - k
      a == g.arcs[i]
  IN IF i \in NonPruned(g) /\ a.pred \in StatesReachableFromInit(g) /\ a.succ \in useful
       THEN useful \cup {a.pred} ELSE useful

KeepStart(g) ==
  [EmptyWordGraph EXCEPT
     !.finals = {Remapped(UsefulStates(g), s) : s \in g.finals \cap UsefulStates(g)},
     !.initialStateScore = g.initialStateScore]

KeepStep(g, new, i) ==
  LET a == g.arcs[i] IN
  IF i \in NonPruned(g) /\ a.pred \in UsefulStates(g) /\ a.succ \in UsefulStates(g)
    THEN AddArc(new, Remapped(UsefulStates(g), a.pred), Remapped(UsefulStates(g), a.succ),
                a.words, a.score, g.scrComps[i])
    ELSE new

RoundStep(g, acc, i) ==
  IF i \notin ToSet(acc) /\ MayBeAdded(g, acc, i) THEN Append(acc, i) ELSE acc

PathStep(g, sum, i) == sum + g.arcs[i].score

\* What each pass makes of the arcs, one by one.
PrevScoresRows(g, from, excluded, n, A, acc) ==
  /\ \A k \in 0 .. n : acc[k] \in A
  /\ acc[0] = PrevStart(g, from) /\ acc[n] = PrevScores(g, from, excluded)
  /\ \A k \in 0 .. n - 1 : acc[k + 1] = PrevStep(g, from, excluded, acc[k], k + 1)

(* The scores of the best paths to the states, arc by arc. *)
LEMMA PrevScoresByArcs ==
  ASSUME NEW g, NEW from, NEW excluded, NEW n \in Nat, DOMAIN g.arcs = 1 .. n,
         NEW A, PrevStart(g, from) \in A,
         \A a \in A, i \in 1 .. n : PrevStep(g, from, excluded, a, i) \in A
  PROVE  \E acc : PrevScoresRows(g, from, excluded, n, A, acc)
  <1> DEFINE q == [i \in DOMAIN g.arcs |-> i]
             b == PrevStart(g, from)
             Step(a, i) == PrevStep(g, from, excluded, a, i)
             Is(f) == f = [S \in SUBSET (DOMAIN q) |->
                             IF S = {} THEN b ELSE Step(f[S \ {Max(S)}], q[Max(S)])]
             It == CHOOSE f : Is(f)
             F == [x \in A \X (1 .. n) |-> Step(x[1], q[x[2]])]
  <1>1. PrevScores(g, from, excluded) = It[DOMAIN q]
    BY DEF PrevScores, FoldLeftDomain, FoldLeft, MapThenFoldSet
  <1>2. DOMAIN q = 1 .. n
    OBVIOUS
  <1>3. b \in A /\ \A a \in A, i \in 1 .. n : F[<<a, i>>] = Step(a, q[i]) /\ Step(a, q[i]) \in A
    OBVIOUS
  <1>4. \A a, k : k \in 0 .. n - 1 => Step(a, q[k + 1]) = PrevStep(g, from, excluded, a, k + 1)
    OBVIOUS
  <1> HIDE DEF q, b, Step, F
  <1>5. PICK f : IsFoldTable(f, n, b, F) /\ \A S \in SUBSET (1 .. n) : f[S] \in A
    BY ZenonT(60), <1>3, FoldTableExists
  <1>6. ASSUME NEW S \in SUBSET (1 .. n)
        PROVE  f[S] = IF S = {} THEN b ELSE Step(f[S \ {Max(S)}], q[Max(S)])
    <2>1. CASE S = {}
      BY <1>5, <2>1 DEF IsFoldTable
    <2>2. CASE S # {}
      <3>1. Max(S) \in S
        BY <2>2, LargestOfPart
      <3>2. Max(S) \in 1 .. n /\ S \ {Max(S)} \in SUBSET (1 .. n)
        BY <3>1
      <3>3. f[S] = F[<<f[S \ {Max(S)}], Max(S)>>] /\ f[S \ {Max(S)}] \in A
        BY <1>5, <2>2, <3>2 DEF IsFoldTable
      <3> QED BY <1>3, <2>2, <3>2, <3>3
    <2> QED BY <2>1, <2>2
  <1>7. Is(It)
    <2>1. f = [S \in SUBSET (1 .. n) |-> f[S]]
      BY <1>5 DEF IsFoldTable
    <2>2. Is(f)
      BY <1>2, <1>6, <2>1
    <2> QED BY <2>2
  <1> HIDE DEF It
  <1> DEFINE acc == [k \in 0 .. n |-> It[1 .. k]]
  <1>8. acc[0] = b /\ acc[n] = PrevScores(g, from, excluded)
    <2>1. 1 .. 0 = {} /\ 0 \in 0 .. n /\ n \in 0 .. n
      OBVIOUS
    <2> QED BY <1>1, <1>2, <1>7, <2>1
  <1>9. ASSUME NEW k \in 0 .. n - 1
        PROVE  acc[k + 1] = Step(acc[k], q[k + 1])
    <2>1. /\ 1 .. k + 1 \in SUBSET (1 .. n) /\ 1 .. k + 1 # {}
          /\ Max(1 .. k + 1) = k + 1 /\ (1 .. k + 1) \ {k + 1} = 1 .. k
      BY FirstNumbers
    <2>2. It[1 .. k + 1] = Step(It[(1 .. k + 1) \ {Max(1 .. k + 1)}], q[Max(1 .. k + 1)])
      BY <1>2, <1>7, <2>1
    <2>3. k \in 0 .. n /\ k + 1 \in 0 .. n
      OBVIOUS
    <2> QED BY <2>1, <2>2, <2>3
  <1> HIDE DEF acc
  <1>10. \A k \in 0 .. n : acc[k] \in A
    <2>1. ASSUME NEW k \in 0 .. n - 1, acc[k] \in A
          PROVE  acc[k + 1] \in A
      <3>1. k + 1 \in 1 .. n
        OBVIOUS
      <3> QED BY <1>3, <1>9, <2>1, <3>1
    <2> QED BY <1>3, <1>8, <2>1, FoldStays
  <1>11. \A k \in 0 .. n - 1 : acc[k + 1] = PrevStep(g, from, excluded, acc[k], k + 1)
    BY <1>4, <1>9
  <1> QED BY <1>8, <1>10, <1>11 DEF b, PrevScoresRows

RestScoresRows(g, n, A, acc) ==
  /\ \A k \in 0 .. n : acc[k] \in A
  /\ acc[0] = RestStart(g) /\ acc[n] = RestScores(g)
  /\ \A k \in 0 .. n - 1 : acc[k + 1] = RestStep(g, acc[k], k + 1)

(* The scores of the best paths from the states. *)
LEMMA RestScoresByArcs ==
  ASSUME NEW g, NEW n \in Nat, DOMAIN g.arcs = 1 .. n,
         NEW A, RestStart(g) \in A,
         \A a \in A, i \in 1 .. n : RestStep(g, a, i) \in A
  PROVE  \E acc : RestScoresRows(g, n, A, acc)
  <1> DEFINE q == [i \in DOMAIN g.arcs |-> i]
             b == RestStart(g)
             Step(a, i) == RestStep(g, a, i)
             Is(f) == f = [S \in SUBSET (DOMAIN q) |->
                             IF S = {} THEN b ELSE Step(f[S \ {Max(S)}], q[Max(S)])]
             It == CHOOSE f : Is(f)
             F == [x \in A \X (1 .. n) |-> Step(x[1], q[x[2]])]
  <1>1. RestScores(g) = It[DOMAIN q]
    BY DEF RestScores, BackwardPass, RestStart, RestStep, FoldLeftDomain, FoldLeft, MapThenFoldSet
  <1>2. DOMAIN q = 1 .. n
    OBVIOUS
  <1>3. b \in A /\ \A a \in A, i \in 1 .. n : F[<<a, i>>] = Step(a, q[i]) /\ Step(a, q[i]) \in A
    OBVIOUS
  <1>4. \A a, k : k \in 0 .. n - 1 => Step(a, q[k + 1]) = RestStep(g, a, k + 1)
    OBVIOUS
  <1> HIDE DEF q, b, Step, F
  <1>5. PICK f : IsFoldTable(f, n, b, F) /\ \A S \in SUBSET (1 .. n) : f[S] \in A
    BY ZenonT(60), <1>3, FoldTableExists
  <1>6. ASSUME NEW S \in SUBSET (1 .. n)
        PROVE  f[S] = IF S = {} THEN b ELSE Step(f[S \ {Max(S)}], q[Max(S)])
    <2>1. CASE S = {}
      BY <1>5, <2>1 DEF IsFoldTable
    <2>2. CASE S # {}
      <3>1. Max(S) \in S
        BY <2>2, LargestOfPart
      <3>2. Max(S) \in 1 .. n /\ S \ {Max(S)} \in SUBSET (1 .. n)
        BY <3>1
      <3>3. f[S] = F[<<f[S \ {Max(S)}], Max(S)>>] /\ f[S \ {Max(S)}] \in A
        BY <1>5, <2>2, <3>2 DEF IsFoldTable
      <3> QED BY <1>3, <2>2, <3>2, <3>3
    <2> QED BY <2>1, <2>2
  <1>7. Is(It)
    <2>1. f = [S \in SUBSET (1 .. n) |-> f[S]]
      BY <1>5 DEF IsFoldTable
    <2>2. Is(f)
      BY <1>2, <1>6, <2>1
    <2> QED BY <2>2
  <1> HIDE DEF It
  <1> DEFINE acc == [k \in 0 .. n |-> It[1 .. k]]
  <1>8. acc[0] = b /\ acc[n] = RestScores(g)
    <2>1. 1 .. 0 = {} /\ 0 \in 0 .. n /\ n \in 0 .. n
      OBVIOUS
    <2> QED BY <1>1, <1>2, <1>7, <2>1
  <1>9. ASSUME NEW k \in 0 .. n - 1
        PROVE  acc[k + 1] = Step(acc[k], q[k + 1])
    <2>1. /\ 1 .. k + 1 \in SUBSET (1 .. n) /\ 1 .. k + 1 # {}
          /\ Max(1 .. k + 1) = k + 1 /\ (1 .. k + 1) \ {k + 1} = 1 .. k
      BY FirstNumbers
    <2>2. It[1 .. k + 1] = Step(It[(1 .. k + 1) \ {Max(1 .. k + 1)}], q[Max(1 .. k + 1)])
      BY <1>2, <1>7, <2>1
    <2>3. k \in 0 .. n /\ k + 1 \in 0 .. n
      OBVIOUS
    <2> QED BY <2>1, <2>2, <2>3
  <1> HIDE DEF acc
  <1>10. \A k \in 0 .. n : acc[k] \in A
    <2>1. ASSUME NEW k \in 0 .. n - 1, acc[k] \in A
          PROVE  acc[k + 1] \in A
      <3>1. k + 1 \in 1 .. n
        OBVIOUS
      <3> QED BY <1>3, <1>9, <2>1, <3>1
    <2> QED BY <1>3, <1>8, <2>1, FoldStays
  <1>11. \A k \in 0 .. n - 1 : acc[k + 1] = RestStep(g, acc[k], k + 1)
    BY <1>4, <1>9
  <1> QED BY <1>8, <1>10, <1>11 DEF b, RestScoresRows

HeurRows(g, n, A, acc) ==
  /\ \A k \in 0 .. n : acc[k] \in A
  /\ acc[0] = HeurStart(g) /\ acc[n] = NbSearchHeurInfo(g)
  /\ \A k \in 0 .. n - 1 : acc[k + 1] = HeurStep(g, acc[k], k + 1)

(* The heuristic of the search for the n best translations. *)
LEMMA HeurByArcs ==
  ASSUME NEW g, NEW n \in Nat, DOMAIN g.arcs = 1 .. n,
         NEW A, HeurStart(g) \in A,
         \A a \in A, i \in 1 .. n : HeurStep(g, a, i) \in A
  PROVE  \E acc : HeurRows(g, n, A, acc)
  <1> DEFINE q == [i \in DOMAIN g.arcs |-> i]
             b == HeurStart(g)
             Step(a, i) == HeurStep(g, a, i)
             Is(f) == f = [S \in SUBSET (DOMAIN q) |->
                             IF S = {} THEN b ELSE Step(f[S \ {Max(S)}], q[Max(S)])]
             It == CHOOSE f : Is(f)
             F == [x \in A \X (1 .. n) |-> Step(x[1], q[x[2]])]
  <1>1. NbSearchHeurInfo(g) = It[DOMAIN q]
    BY DEF NbSearchHeurInfo, BackwardPass, HeurStart, HeurStep, FoldLeftDomain, FoldLeft, MapThenFoldSet
  <1>2. DOMAIN q = 1 .. n
    OBVIOUS
  <1>3. b \in A /\ \A a \in A, i \in 1 .. n : F[<<a, i>>] = Step(a, q[i]) /\ Step(a, q[i]) \in A
    OBVIOUS
  <1>4. \A a, k : k \in 0 .. n - 1 => Step(a, q[k + 1]) = HeurStep(g, a, k + 1)
    OBVIOUS
  <1> HIDE DEF q, b, Step, F
  <1>5. PICK f : IsFoldTable(f, n, b, F) /\ \A S \in SUBSET (1 .. n) : f[S] \in A
    BY <1>3, FoldTableExists
  <1>6. ASSUME NEW S \in SUBSET (1 .. n)
        PROVE  f[S] = IF S = {} THEN b ELSE Step(f[S \ {Max(S)}], q[Max(S)])
    <2>1. CASE S = {}
      BY <1>5, <2>1 DEF IsFoldTable
    <2>2. CASE S # {}
      <3>1. Max(S) \in S
        BY <2>2, LargestOfPart
      <3>2. Max(S) \in 1 .. n /\ S \ {Max(S)} \in SUBSET (1 .. n)
        BY <3>1
      <3>3. f[S] = F[<<f[S \ {Max(S)}], Max(S)>>] /\ f[S \ {Max(S)}] \in A
        BY <1>5, <2>2, <3>2 DEF IsFoldTable
      <3> QED BY <1>3, <2>2, <3>2, <3>3
    <2> QED BY <2>1, <2>2
  <1>7. Is(It)
    <2>1. f = [S \in SUBSET (1 .. n) |-> f[S]]
      BY <1>5 DEF IsFoldTable
    <2>2. Is(f)
      BY <1>2, <1>6, <2>1
    <2> QED BY <2>2
  <1> HIDE DEF It
  <1> DEFINE acc == [k \in 0 .. n |-> It[1 .. k]]
  <1>8. acc[0] = b /\ acc[n] = NbSearchHeurInfo(g)
    <2>1. 1 .. 0 = {} /\ 0 \in 0 .. n /\ n \in 0 .. n
      OBVIOUS
    <2> QED BY <1>1, <1>2, <1>7, <2>1
  <1>9. ASSUME NEW k \in 0 .. n - 1
        PROVE  acc[k + 1] = Step(acc[k], q[k + 1])
    <2>1. /\ 1 .. k + 1 \in SUBSET (1 .. n) /\ 1 .. k + 1 # {}
          /\ Max(1 .. k + 1) = k + 1 /\ (1 .. k + 1) \ {k + 1} = 1 .. k
      BY FirstNumbers
    <2>2. It[1 .. k + 1] = Step(It[(1 .. k + 1) \ {Max(1 .. k + 1)}], q[Max(1 .. k + 1)])
      BY <1>2, <1>7, <2>1
    <2>3. k \in 0 .. n /\ k + 1 \in 0 .. n
      OBVIOUS
    <2> QED BY <2>1, <2>2, <2>3
  <1> HIDE DEF acc
  <1>10. \A k \in 0 .. n : acc[k] \in A
    <2>1. ASSUME NEW k \in 0 .. n - 1, acc[k] \in A
          PROVE  acc[k + 1] \in A
      <3>1. k + 1 \in 1 .. n
        OBVIOUS
      <3> QED BY <1>3, <1>9, <2>1, <3>1
    <2> QED BY <1>3, <1>8, <2>1, FoldStays
  <1>11. \A k \in 0 .. n - 1 : acc[k + 1] = HeurStep(g, acc[k], k + 1)
    BY <1>4, <1>9
  <1> QED BY <1>8, <1>10, <1>11 DEF b, HeurRows

ReachableRows(g, n, A, acc) ==
  /\ \A k \in 0 .. n : acc[k] \in A
  /\ acc[0] = {INITIAL_STATE} /\ acc[n] = StatesReachableFromInit(g)
  /\ \A k \in 0 .. n - 1 : acc[k + 1] = ReachStep(g, acc[k], k + 1)

(* The states that the initial state leads to. *)
LEMMA ReachableByArcs ==
  ASSUME NEW g, NEW n \in Nat, DOMAIN g.arcs = 1 .. n,
         NEW A, {INITIAL_STATE} \in A,
         \A a \in A, i \in 1 .. n : ReachStep(g, a, i) \in A
  PROVE  \E acc : ReachableRows(g, n, A, acc)
  <1> DEFINE q == [i \in DOMAIN g.arcs |-> i]
             b == {INITIAL_STATE}
             Step(a, i) == ReachStep(g, a, i)
             Is(f) == f = [S \in SUBSET (DOMAIN q) |->
                             IF S = {} THEN b ELSE Step(f[S \ {Max(S)}], q[Max(S)])]
             It == CHOOSE f : Is(f)
             F == [x \in A \X (1 .. n) |-> Step(x[1], q[x[2]])]
  <1>1. StatesReachableFromInit(g) = It[DOMAIN q]
    BY DEF StatesReachableFromInit, ReachStep, FoldLeftDomain, FoldLeft, MapThenFoldSet
  <1>2. DOMAIN q = 1 .. n
    OBVIOUS
  <1>3. b \in A /\ \A a \in A, i \in 1 .. n : F[<<a, i>>] = Step(a, q[i]) /\ Step(a, q[i]) \in A
    OBVIOUS
  <1>4. \A a, k : k \in 0 .. n - 1 => Step(a, q[k + 1]) = ReachStep(g, a, k + 1)
    OBVIOUS
  <1> HIDE DEF q, b, Step, F
  <1>5. PICK f : IsFoldTable(f, n, b, F) /\ \A S \in SUBSET (1 .. n) : f[S] \in A
    BY ZenonT(60), <1>3, FoldTableExists
  <1>6. ASSUME NEW S \in SUBSET (1 .. n)
        PROVE  f[S] = IF S = {} THEN b ELSE Step(f[S \ {Max(S)}], q[Max(S)])
    <2>1. CASE S = {}
      BY <1>5, <2>1 DEF IsFoldTable
    <2>2. CASE S # {}
      <3>1. Max(S) \in S
        BY <2>2, LargestOfPart
      <3>2. Max(S) \in 1 .. n /\ S \ {Max(S)} \in SUBSET (1 .. n)
        BY <3>1
      <3>3. f[S] = F[<<f[S \ {Max(S)}], Max(S)>>] /\ f[S \ {Max(S)}] \in A
        BY <1>5, <2>2, <3>2 DEF IsFoldTable
      <3> QED BY <1>3, <2>2, <3>2, <3>3
    <2> QED BY <2>1, <2>2
  <1>7. Is(It)
    <2>1. f = [S \in SUBSET (1 .. n) |-> f[S]]
      BY <1>5 DEF IsFoldTable
    <2>2. Is(f)
      BY <1>2, <1>6, <2>1
    <2> QED BY <2>2
  <1> HIDE DEF It
  <1> DEFINE acc == [k \in 0 .. n |-> It[1 .. k]]
  <1>8. acc[0] = b /\ acc[n] = StatesReachableFromInit(g)
    <2>1. 1 .. 0 = {} /\ 0 \in 0 .. n /\ n \in 0 .. n
      OBVIOUS
    <2> QED BY <1>1, <1>2, <1>7, <2>1
  <1>9. ASSUME NEW k \in 0 .. n - 1
        PROVE  acc[k + 1] = Step(acc[k], q[k + 1])
    <2>1. /\ 1 .. k + 1 \in SUBSET (1 .. n) /\ 1 .. k + 1 # {}
          /\ Max(1 .. k + 1) = k + 1 /\ (1 .. k + 1) \ {k + 1} = 1 .. k
      BY FirstNumbers
    <2>2. It[1 .. k + 1] = Step(It[(1 .. k + 1) \ {Max(1 .. k + 1)}], q[Max(1 .. k + 1)])
      BY <1>2, <1>7, <2>1
    <2>3. k \in 0 .. n /\ k + 1 \in 0 .. n
      OBVIOUS
    <2> QED BY <2>1, <2>2, <2>3
  <1> HIDE DEF acc
  <1>10. \A k \in 0 .. n : acc[k] \in A
    <2>1. ASSUME NEW k \in 0 .. n - 1, acc[k] \in A
          PROVE  acc[k + 1] \in A
      <3>1. k + 1 \in 1 .. n
        OBVIOUS
      <3> QED BY <1>3, <1>9, <2>1, <3>1
    <2> QED BY <1>3, <1>8, <2>1, FoldStays
  <1>11. \A k \in 0 .. n - 1 : acc[k + 1] = ReachStep(g, acc[k], k + 1)
    BY <1>4, <1>9
  <1> QED BY <1>8, <1>10, <1>11 DEF b, ReachableRows

UsefulRows(g, n, A, acc) ==
  /\ \A k \in 0 .. n : acc[k] \in A
  /\ acc[0] = UsefulFinals(g) /\ acc[n] = UsefulStates(g)
  /\ \A k \in 0 .. n - 1 : acc[k + 1] = UsefulStep(g, acc[k], k + 1)

(* The useful states. *)
LEMMA UsefulByArcs ==
  ASSUME NEW g, NEW n \in Nat, DOMAIN g.arcs = 1 .. n,
         NEW A, UsefulFinals(g) \in A,
         \A a \in A, i \in 1 .. n : UsefulStep(g, a, i) \in A
  PROVE  \E acc : UsefulRows(g, n, A, acc)
  <1> DEFINE q == [i \in DOMAIN g.arcs |-> i]
             b == UsefulFinals(g)
             Step(a, i) == UsefulStep(g, a, i)
             Is(f) == f = [S \in SUBSET (DOMAIN q) |->
                             IF S = {} THEN b ELSE Step(f[S \ {Max(S)}], q[Max(S)])]
             It == CHOOSE f : Is(f)
             F == [x \in A \X (1 .. n) |-> Step(x[1], q[x[2]])]
  <1>1. UsefulStates(g) = It[DOMAIN q]
    BY DEF UsefulStates, UsefulStep, FoldLeftDomain, FoldLeft, MapThenFoldSet
  <1>2. DOMAIN q = 1 .. n
    OBVIOUS
  <1>3. b \in A /\ \A a \in A, i \in 1 .. n : F[<<a, i>>] = Step(a, q[i]) /\ Step(a, q[i]) \in A
    OBVIOUS
  <1>4. \A a, k : k \in 0 .. n - 1 => Step(a, q[k + 1]) = UsefulStep(g, a, k + 1)
    OBVIOUS
  <1> HIDE DEF q, b, Step, F
  <1>5. PICK f : IsFoldTable(f, n, b, F) /\ \A S \in SUBSET (1 .. n) : f[S] \in A
    BY ZenonT(60), <1>3, FoldTableExists
  <1>6. ASSUME NEW S \in SUBSET (1 .. n)
        PROVE  f[S] = IF S = {} THEN b ELSE Step(f[S \ {Max(S)}], q[Max(S)])
    <2>1. CASE S = {}
      BY <1>5, <2>1 DEF IsFoldTable
    <2>2. CASE S # {}
      <3>1. Max(S) \in S
        BY <2>2, LargestOfPart
      <3>2. Max(S) \in 1 .. n /\ S \ {Max(S)} \in SUBSET (1 .. n)
        BY <3>1
      <3>3. f[S] = F[<<f[S \ {Max(S)}], Max(S)>>] /\ f[S \ {Max(S)}] \in A
        BY <1>5, <2>2, <3>2 DEF IsFoldTable
      <3> QED BY <1>3, <2>2, <3>2, <3>3
    <2> QED BY <2>1, <2>2
  <1>7. Is(It)
    <2>1. f = [S \in SUBSET (1 .. n) |-> f[S]]
      BY <1>5 DEF IsFoldTable
    <2>2. Is(f)
      BY <1>2, <1>6, <2>1
    <2> QED BY <2>2
  <1> HIDE DEF It
  <1> DEFINE acc == [k \in 0 .. n |-> It[1 .. k]]
  <1>8. acc[0] = b /\ acc[n] = UsefulStates(g)
    <2>1. 1 .. 0 = {} /\ 0 \in 0 .. n /\ n \in 0 .. n
      OBVIOUS
    <2> QED BY <1>1, <1>2, <1>7, <2>1
  <1>9. ASSUME NEW k \in 0 .. n - 1
        PROVE  acc[k + 1] = Step(acc[k], q[k + 1])
    <2>1. /\ 1 .. k + 1 \in SUBSET (1 .. n) /\ 1 .. k + 1 # {}
          /\ Max(1 .. k + 1) = k + 1 /\ (1 .. k + 1) \ {k + 1} = 1 .. k
      BY FirstNumbers
    <2>2. It[1 .. k + 1] = Step(It[(1 .. k + 1) \ {Max(1 .. k + 1)}], q[Max(1 .. k + 1)])
      BY <1>2, <1>7, <2>1
    <2>3. k \in 0 .. n /\ k + 1 \in 0 .. n
      OBVIOUS
    <2> QED BY <2>1, <2>2, <2>3
  <1> HIDE DEF acc
  <1>10. \A k \in 0 .. n : acc[k] \in A
    <2>1. ASSUME NEW k \in 0 .. n - 1, acc[k] \in A
          PROVE  acc[k + 1] \in A
      <3>1. k + 1 \in 1 .. n
        OBVIOUS
      <3> QED BY <1>3, <1>9, <2>1, <3>1
    <2> QED BY <1>3, <1>8, <2>1, FoldStays
  <1>11. \A k \in 0 .. n - 1 : acc[k + 1] = UsefulStep(g, acc[k], k + 1)
    BY <1>4, <1>9
  <1> QED BY <1>8, <1>10, <1>11 DEF b, UsefulRows

KeptRows(g, n, A, acc) ==
  /\ \A k \in 0 .. n : acc[k] \in A
  /\ acc[0] = KeepStart(g) /\ acc[n] = WgComposedOfUsefulStates(g)
  /\ \A k \in 0 .. n - 1 : acc[k + 1] = KeepStep(g, acc[k], k + 1)

(* The graph of the useful states. *)
LEMMA KeptByArcs ==
  ASSUME NEW g, g.arcs # <<>>, NEW n \in Nat, DOMAIN g.arcs = 1 .. n,
         NEW A, KeepStart(g) \in A,
         \A a \in A, i \in 1 .. n : KeepStep(g, a, i) \in A
  PROVE  \E acc : KeptRows(g, n, A, acc)
  <1> DEFINE q == [i \in DOMAIN g.arcs |-> i]
             b == KeepStart(g)
             Step(a, i) == KeepStep(g, a, i)
             Is(f) == f = [S \in SUBSET (DOMAIN q) |->
                             IF S = {} THEN b ELSE Step(f[S \ {Max(S)}], q[Max(S)])]
             It == CHOOSE f : Is(f)
             F == [x \in A \X (1 .. n) |-> Step(x[1], q[x[2]])]
  <1>1. WgComposedOfUsefulStates(g) = It[DOMAIN q]
    BY DEF WgComposedOfUsefulStates, KeepStart, KeepStep, FoldLeftDomain, FoldLeft, MapThenFoldSet
  <1>2. DOMAIN q = 1 .. n
    OBVIOUS
  <1>3. b \in A /\ \A a \in A, i \in 1 .. n : F[<<a, i>>] = Step(a, q[i]) /\ Step(a, q[i]) \in A
    OBVIOUS
  <1>4. \A a, k : k \in 0 .. n - 1 => Step(a, q[k + 1]) = KeepStep(g, a, k + 1)
    OBVIOUS
  <1> HIDE DEF q, b, Step, F
  <1>5. PICK f : IsFoldTable(f, n, b, F) /\ \A S \in SUBSET (1 .. n) : f[S] \in A
    BY ZenonT(60), <1>3, FoldTableExists
  <1>6. ASSUME NEW S \in SUBSET (1 .. n)
        PROVE  f[S] = IF S = {} THEN b ELSE Step(f[S \ {Max(S)}], q[Max(S)])
    <2>1. CASE S = {}
      BY <1>5, <2>1 DEF IsFoldTable
    <2>2. CASE S # {}
      <3>1. Max(S) \in S
        BY <2>2, LargestOfPart
      <3>2. Max(S) \in 1 .. n /\ S \ {Max(S)} \in SUBSET (1 .. n)
        BY <3>1
      <3>3. f[S] = F[<<f[S \ {Max(S)}], Max(S)>>] /\ f[S \ {Max(S)}] \in A
        BY <1>5, <2>2, <3>2 DEF IsFoldTable
      <3> QED BY <1>3, <2>2, <3>2, <3>3
    <2> QED BY <2>1, <2>2
  <1>7. Is(It)
    <2>1. f = [S \in SUBSET (1 .. n) |-> f[S]]
      BY <1>5 DEF IsFoldTable
    <2>2. Is(f)
      BY <1>2, <1>6, <2>1
    <2> QED BY <2>2
  <1> HIDE DEF It
  <1> DEFINE acc == [k \in 0 .. n |-> It[1 .. k]]
  <1>8. acc[0] = b /\ acc[n] = WgComposedOfUsefulStates(g)
    <2>1. 1 .. 0 = {} /\ 0 \in 0 .. n /\ n \in 0 .. n
      OBVIOUS
    <2> QED BY <1>1, <1>2, <1>7, <2>1
  <1>9. ASSUME NEW k \in 0 .. n - 1
        PROVE  acc[k + 1] = Step(acc[k], q[k + 1])
    <2>1. /\ 1 .. k + 1 \in SUBSET (1 .. n) /\ 1 .. k + 1 # {}
          /\ Max(1 .. k + 1) = k + 1 /\ (1 .. k + 1) \ {k + 1} = 1 .. k
      BY FirstNumbers
    <2>2. It[1 .. k + 1] = Step(It[(1 .. k + 1) \ {Max(1 .. k + 1)}], q[Max(1 .. k + 1)])
      BY <1>2, <1>7, <2>1
    <2>3. k \in 0 .. n /\ k + 1 \in 0 .. n
      OBVIOUS
    <2> QED BY <2>1, <2>2, <2>3
  <1> HIDE DEF acc
  <1>10. \A k \in 0 .. n : acc[k] \in A
    <2>1. ASSUME NEW k \in 0 .. n - 1, acc[k] \in A
          PROVE  acc[k + 1] \in A
      <3>1. k + 1 \in 1 .. n
        OBVIOUS
      <3> QED BY <1>3, <1>9, <2>1, <3>1
    <2> QED BY <1>3, <1>8, <2>1, FoldStays
  <1>11. \A k \in 0 .. n - 1 : acc[k + 1] = KeepStep(g, acc[k], k + 1)
    BY <1>4, <1>9
  <1> QED BY <1>8, <1>10, <1>11 DEF b, KeptRows

RoundRows(g, added, n, A, acc) ==
  /\ \A k \in 0 .. n : acc[k] \in A
  /\ acc[0] = added /\ acc[n] = Round(g, added)
  /\ \A k \in 0 .. n - 1 : acc[k + 1] = RoundStep(g, acc[k], k + 1)

(* A round of the topological order. *)
LEMMA RoundByArcs ==
  ASSUME NEW g, NEW added, NEW n \in Nat, DOMAIN g.arcs = 1 .. n,
         NEW A, added \in A,
         \A a \in A, i \in 1 .. n : RoundStep(g, a, i) \in A
  PROVE  \E acc : RoundRows(g, added, n, A, acc)
  <1> DEFINE q == [i \in DOMAIN g.arcs |-> i]
             b == added
             Step(a, i) == RoundStep(g, a, i)
             Is(f) == f = [S \in SUBSET (DOMAIN q) |->
                             IF S = {} THEN b ELSE Step(f[S \ {Max(S)}], q[Max(S)])]
             It == CHOOSE f : Is(f)
             F == [x \in A \X (1 .. n) |-> Step(x[1], q[x[2]])]
  <1>1. Round(g, added) = It[DOMAIN q]
    BY DEF Round, RoundStep, FoldLeftDomain, FoldLeft, MapThenFoldSet
  <1>2. DOMAIN q = 1 .. n
    OBVIOUS
  <1>3. b \in A /\ \A a \in A, i \in 1 .. n : F[<<a, i>>] = Step(a, q[i]) /\ Step(a, q[i]) \in A
    OBVIOUS
  <1>4. \A a, k : k \in 0 .. n - 1 => Step(a, q[k + 1]) = RoundStep(g, a, k + 1)
    OBVIOUS
  <1> HIDE DEF q, b, Step, F
  <1>5. PICK f : IsFoldTable(f, n, b, F) /\ \A S \in SUBSET (1 .. n) : f[S] \in A
    BY ZenonT(60), <1>3, FoldTableExists
  <1>6. ASSUME NEW S \in SUBSET (1 .. n)
        PROVE  f[S] = IF S = {} THEN b ELSE Step(f[S \ {Max(S)}], q[Max(S)])
    <2>1. CASE S = {}
      BY <1>5, <2>1 DEF IsFoldTable
    <2>2. CASE S # {}
      <3>1. Max(S) \in S
        BY <2>2, LargestOfPart
      <3>2. Max(S) \in 1 .. n /\ S \ {Max(S)} \in SUBSET (1 .. n)
        BY <3>1
      <3>3. f[S] = F[<<f[S \ {Max(S)}], Max(S)>>] /\ f[S \ {Max(S)}] \in A
        BY <1>5, <2>2, <3>2 DEF IsFoldTable
      <3> QED BY <1>3, <2>2, <3>2, <3>3
    <2> QED BY <2>1, <2>2
  <1>7. Is(It)
    <2>1. f = [S \in SUBSET (1 .. n) |-> f[S]]
      BY <1>5 DEF IsFoldTable
    <2>2. Is(f)
      BY <1>2, <1>6, <2>1
    <2> QED BY <2>2
  <1> HIDE DEF It
  <1> DEFINE acc == [k \in 0 .. n |-> It[1 .. k]]
  <1>8. acc[0] = b /\ acc[n] = Round(g, added)
    <2>1. 1 .. 0 = {} /\ 0 \in 0 .. n /\ n \in 0 .. n
      OBVIOUS
    <2> QED BY <1>1, <1>2, <1>7, <2>1
  <1>9. ASSUME NEW k \in 0 .. n - 1
        PROVE  acc[k + 1] = Step(acc[k], q[k + 1])
    <2>1. /\ 1 .. k + 1 \in SUBSET (1 .. n) /\ 1 .. k + 1 # {}
          /\ Max(1 .. k + 1) = k + 1 /\ (1 .. k + 1) \ {k + 1} = 1 .. k
      BY FirstNumbers
    <2>2. It[1 .. k + 1] = Step(It[(1 .. k + 1) \ {Max(1 .. k + 1)}], q[Max(1 .. k + 1)])
      BY <1>2, <1>7, <2>1
    <2>3. k \in 0 .. n /\ k + 1 \in 0 .. n
      OBVIOUS
    <2> QED BY <2>1, <2>2, <2>3
  <1> HIDE DEF acc
  <1>10. \A k \in 0 .. n : acc[k] \in A
    <2>1. ASSUME NEW k \in 0 .. n - 1, acc[k] \in A
          PROVE  acc[k + 1] \in A
      <3>1. k + 1 \in 1 .. n
        OBVIOUS
      <3> QED BY <1>3, <1>9, <2>1, <3>1
    <2> QED BY <1>3, <1>8, <2>1, FoldStays
  <1>11. \A k \in 0 .. n - 1 : acc[k + 1] = RoundStep(g, acc[k], k + 1)
    BY <1>4, <1>9
  <1> QED BY <1>8, <1>10, <1>11 DEF b, RoundRows

OrderRows(g, n, A, acc) ==
  /\ \A k \in 0 .. n : acc[k] \in A
  /\ acc[0] = <<>> /\ acc[n] = TopologicalOrder(g)
  /\ \A k \in 0 .. n - 1 : acc[k + 1] = Round(g, acc[k])

(* The topological order, round by round. *)
LEMMA OrderByRounds ==
  ASSUME NEW g, NEW n \in Nat, DOMAIN g.arcs = 1 .. n,
         NEW A, <<>> \in A,
         \A a \in A, i \in 1 .. n : Round(g, a) \in A
  PROVE  \E acc : OrderRows(g, n, A, acc)
  <1> DEFINE q == [i \in DOMAIN g.arcs |-> i]
             b == <<>>
             Step(a, i) == Round(g, a)
             Is(f) == f = [S \in SUBSET (DOMAIN q) |->
                             IF S = {} THEN b ELSE Step(f[S \ {Max(S)}], q[Max(S)])]
             It == CHOOSE f : Is(f)
             F == [x \in A \X (1 .. n) |-> Step(x[1], q[x[2]])]
  <1>1. TopologicalOrder(g) = It[DOMAIN q]
    BY DEF TopologicalOrder, FoldLeftDomain, FoldLeft, MapThenFoldSet
  <1>2. DOMAIN q = 1 .. n
    OBVIOUS
  <1>3. b \in A /\ \A a \in A, i \in 1 .. n : F[<<a, i>>] = Step(a, q[i]) /\ Step(a, q[i]) \in A
    OBVIOUS
  <1>4. \A a, k : k \in 0 .. n - 1 => Step(a, q[k + 1]) = Round(g, a)
    OBVIOUS
  <1> HIDE DEF q, b, Step, F
  <1>5. PICK f : IsFoldTable(f, n, b, F) /\ \A S \in SUBSET (1 .. n) : f[S] \in A
    BY ZenonT(60), <1>3, FoldTableExists
  <1>6. ASSUME NEW S \in SUBSET (1 .. n)
        PROVE  f[S] = IF S = {} THEN b ELSE Step(f[S \ {Max(S)}], q[Max(S)])
    <2>1. CASE S = {}
      BY <1>5, <2>1 DEF IsFoldTable
    <2>2. CASE S # {}
      <3>1. Max(S) \in S
        BY <2>2, LargestOfPart
      <3>2. Max(S) \in 1 .. n /\ S \ {Max(S)} \in SUBSET (1 .. n)
        BY <3>1
      <3>3. f[S] = F[<<f[S \ {Max(S)}], Max(S)>>] /\ f[S \ {Max(S)}] \in A
        BY <1>5, <2>2, <3>2 DEF IsFoldTable
      <3> QED BY <1>3, <2>2, <3>2, <3>3
    <2> QED BY <2>1, <2>2
  <1>7. Is(It)
    <2>1. f = [S \in SUBSET (1 .. n) |-> f[S]]
      BY <1>5 DEF IsFoldTable
    <2>2. Is(f)
      BY <1>2, <1>6, <2>1
    <2> QED BY <2>2
  <1> HIDE DEF It
  <1> DEFINE acc == [k \in 0 .. n |-> It[1 .. k]]
  <1>8. acc[0] = b /\ acc[n] = TopologicalOrder(g)
    <2>1. 1 .. 0 = {} /\ 0 \in 0 .. n /\ n \in 0 .. n
      OBVIOUS
    <2> QED BY <1>1, <1>2, <1>7, <2>1
  <1>9. ASSUME NEW k \in 0 .. n - 1
        PROVE  acc[k + 1] = Step(acc[k], q[k + 1])
    <2>1. /\ 1 .. k + 1 \in SUBSET (1 .. n) /\ 1 .. k + 1 # {}
          /\ Max(1 .. k + 1) = k + 1 /\ (1 .. k + 1) \ {k + 1} = 1 .. k
      BY FirstNumbers
    <2>2. It[1 .. k + 1] = Step(It[(1 .. k + 1) \ {Max(1 .. k + 1)}], q[Max(1 .. k + 1)])
      BY <1>2, <1>7, <2>1
    <2>3. k \in 0 .. n /\ k + 1 \in 0 .. n
      OBVIOUS
    <2> QED BY <2>1, <2>2, <2>3
  <1> HIDE DEF acc
  <1>10. \A k \in 0 .. n : acc[k] \in A
    <2>1. ASSUME NEW k \in 0 .. n - 1, acc[k] \in A
          PROVE  acc[k + 1] \in A
      <3>1. k + 1 \in 1 .. n
        OBVIOUS
      <3> QED BY ZenonT(60), <1>3, <1>9, <2>1, <3>1
    <2> QED BY <1>3, <1>8, <2>1, FoldStays
  <1>11. \A k \in 0 .. n - 1 : acc[k + 1] = Round(g, acc[k])
    BY <1>4, <1>9
  <1> QED BY <1>8, <1>10, <1>11 DEF b, OrderRows

PathScoreRows(g, path, n, A, acc) ==
  /\ \A k \in 0 .. n : acc[k] \in A
  /\ acc[0] = g.initialStateScore /\ acc[n] = PathScore(g, path)
  /\ \A k \in 0 .. n - 1 : acc[k + 1] = PathStep(g, acc[k], path[k + 1])

(* The score of a path, arc by arc. *)
LEMMA PathScoreByArcs ==
  ASSUME NEW g, NEW path, NEW n \in Nat, DOMAIN path = 1 .. n,
         NEW A, g.initialStateScore \in A,
         \A a \in A, i \in 1 .. n : PathStep(g, a, path[i]) \in A
  PROVE  \E acc : PathScoreRows(g, path, n, A, acc)
  <1> DEFINE q == path
             b == g.initialStateScore
             Step(a, i) == PathStep(g, a, i)
             Is(f) == f = [S \in SUBSET (DOMAIN q) |->
                             IF S = {} THEN b ELSE Step(f[S \ {Max(S)}], q[Max(S)])]
             It == CHOOSE f : Is(f)
             F == [x \in A \X (1 .. n) |-> Step(x[1], q[x[2]])]
  <1>1. PathScore(g, path) = It[DOMAIN q]
    BY DEF PathScore, PathStep, FoldLeft, MapThenFoldSet
  <1>2. DOMAIN q = 1 .. n
    OBVIOUS
  <1>3. b \in A /\ \A a \in A, i \in 1 .. n : F[<<a, i>>] = Step(a, q[i]) /\ Step(a, q[i]) \in A
    OBVIOUS
  <1>4. \A a, k : k \in 0 .. n - 1 => Step(a, q[k + 1]) = PathStep(g, a, path[k + 1])
    OBVIOUS
  <1> HIDE DEF q, b, Step, F
  <1>5. PICK f : IsFoldTable(f, n, b, F) /\ \A S \in SUBSET (1 .. n) : f[S] \in A
    BY ZenonT(60), <1>3, FoldTableExists
  <1>6. ASSUME NEW S \in SUBSET (1 .. n)
        PROVE  f[S] = IF S = {} THEN b ELSE Step(f[S \ {Max(S)}], q[Max(S)])
    <2>1. CASE S = {}
      BY <1>5, <2>1 DEF IsFoldTable
    <2>2. CASE S # {}
      <3>1. Max(S) \in S
        BY <2>2, LargestOfPart
      <3>2. Max(S) \in 1 .. n /\ S \ {Max(S)} \in SUBSET (1 .. n)
        BY <3>1
      <3>3. f[S] = F[<<f[S \ {Max(S)}], Max(S)>>] /\ f[S \ {Max(S)}] \in A
        BY <1>5, <2>2, <3>2 DEF IsFoldTable
      <3> QED BY <1>3, <2>2, <3>2, <3>3
    <2> QED BY <2>1, <2>2
  <1>7. Is(It)
    <2>1. f = [S \in SUBSET (1 .. n) |-> f[S]]
      BY <1>5 DEF IsFoldTable
    <2>2. Is(f)
      BY <1>2, <1>6, <2>1
    <2> QED BY <2>2
  <1> HIDE DEF It
  <1> DEFINE acc == [k \in 0 .. n |-> It[1 .. k]]
  <1>8. acc[0] = b /\ acc[n] = PathScore(g, path)
    <2>1. 1 .. 0 = {} /\ 0 \in 0 .. n /\ n \in 0 .. n
      OBVIOUS
    <2> QED BY <1>1, <1>2, <1>7, <2>1
  <1>9. ASSUME NEW k \in 0 .. n - 1
        PROVE  acc[k + 1] = Step(acc[k], q[k + 1])
    <2>1. /\ 1 .. k + 1 \in SUBSET (1 .. n) /\ 1 .. k + 1 # {}
          /\ Max(1 .. k + 1) = k + 1 /\ (1 .. k + 1) \ {k + 1} = 1 .. k
      BY FirstNumbers
    <2>2. It[1 .. k + 1] = Step(It[(1 .. k + 1) \ {Max(1 .. k + 1)}], q[Max(1 .. k + 1)])
      BY <1>2, <1>7, <2>1
    <2>3. k \in 0 .. n /\ k + 1 \in 0 .. n
      OBVIOUS
    <2> QED BY <2>1, <2>2, <2>3
  <1> HIDE DEF acc
  <1>10. \A k \in 0 .. n : acc[k] \in A
    <2>1. ASSUME NEW k \in 0 .. n - 1, acc[k] \in A
          PROVE  acc[k + 1] \in A
      <3>1. k + 1 \in 1 .. n
        OBVIOUS
      <3> QED BY <1>3, <1>9, <2>1, <3>1
    <2> QED BY <1>3, <1>8, <2>1, FoldStays
  <1>11. \A k \in 0 .. n - 1 : acc[k + 1] = PathStep(g, acc[k], path[k + 1])
    BY <1>4, <1>9
  <1> QED BY <1>8, <1>10, <1>11 DEF b, PathScoreRows

-----------------------------------------------------------------------------
(* The inductive invariant.                                                *)

ArcRecords == [pred : Nat, succ : Nat, words : Nat, score : Int]
StateRecords == [toPred : SUBSET Nat, toSucc : SUBSET Nat]

\* A graph by its types, with arcs between states that it has; its final states
\* may be still to come.
IsBody(g) ==
  /\ g \in [arcs : Seq(ArcRecords), arcsPruned : Seq(BOOLEAN), scrComps : Seq(Nat),
            states : Seq(StateRecords), finals : SUBSET Nat, initialStateScore : Int]
  /\ Len(g.arcsPruned) = Len(g.arcs) /\ Len(g.scrComps) = Len(g.arcs)
  /\ \A i \in Arcs(g) : /\ g.arcs[i].pred \in States(g)
                        /\ g.arcs[i].succ \in States(g) \ {INITIAL_STATE}

IsGraph(g) == IsBody(g) /\ g.finals \subseteq States(g) \ {INITIAL_STATE}

\* The lists of the states are those of the arcs.
ListsFit(g) ==
  /\ \A i \in Arcs(g) : g.scrComps[i] = g.arcs[i].words
  /\ \A s \in States(g) :
       /\ g.states[s + 1].toPred = {i \in Arcs(g) : g.arcs[i].succ = s}
       /\ g.states[s + 1].toSucc = {i \in Arcs(g) : g.arcs[i].pred = s}

\* No arc that is not pruned leaves a state, other than the initial one, that no
\* such arc enters.
Grounded(g) ==
  \A i \in NonPruned(g) :
    g.arcs[i].pred = INITIAL_STATE \/ \E j \in NonPruned(g) : g.arcs[j].succ = g.arcs[i].pred

\* Scores and arcs are those that the constants allow.
InBounds(g) ==
  /\ Len(g.arcs) <= MaxArcs /\ g.initialStateScore \in InitialScores \cup {0}
  /\ \A i \in Arcs(g) : g.arcs[i].score \in Scores

\* While a graph is built.
Building(g) ==
  /\ \A i \in Arcs(g) : ~g.arcsPruned[i] /\ <<g.arcs[i].pred, g.arcs[i].succ>> \in Edges
  /\ Grounded(g)

\* Of a graph that is done, and moved when its arcs have been reordered.
Sound(g, done, moved) ==
  /\ IsGraph(g) /\ InBounds(g)
  /\ done \in BOOLEAN /\ moved \in BOOLEAN
  /\ ~moved => ListsFit(g)
  /\ ~done => ~moved /\ Building(g)
  /\ ~moved /\ TopologicallyOrdered(g) => Grounded(g)

UseInv == Sound(graph, processed, reordered)

(* An element of a sequence. *)
LEMMA Element ==
  ASSUME NEW S, NEW q \in Seq(S), NEW i \in 1 .. Len(q)
  PROVE  q[i] \in S
  OBVIOUS

(* What the types of a graph say of its arcs and states. *)
LEMMA GraphFacts ==
  ASSUME NEW g, IsBody(g)
  PROVE  /\ Len(g.arcs) \in Nat /\ DOMAIN g.arcs = 1 .. Len(g.arcs) /\ Arcs(g) = 1 .. Len(g.arcs)
         /\ \A i \in Arcs(g) : /\ g.arcs[i] \in ArcRecords
                               /\ g.arcs[i].pred \in States(g) /\ g.arcs[i].pred \in Nat
                               /\ g.arcs[i].succ \in States(g) /\ g.arcs[i].succ \in Nat
                               /\ g.arcs[i].succ # INITIAL_STATE /\ g.arcs[i].score \in Int
                               /\ g.arcs[i].words \in Nat
                               /\ g.arcsPruned[i] \in BOOLEAN /\ g.scrComps[i] \in Nat
         /\ NumStates(g) \in Nat /\ States(g) = 0 .. NumStates(g) - 1 /\ States(g) \subseteq Nat
         /\ \A s \in States(g) : s + 1 \in 1 .. Len(g.states)
         /\ NonPruned(g) \subseteq Arcs(g) /\ Arcs(g) \subseteq Nat
         /\ g.initialStateScore \in Int /\ g.finals \subseteq Nat
  <1>1. /\ g.arcs \in Seq(ArcRecords)
        /\ g.arcsPruned \in Seq(BOOLEAN) /\ g.scrComps \in Seq(Nat)
        /\ g.states \in Seq(StateRecords)
        /\ g.initialStateScore \in Int /\ Len(g.arcsPruned) = Len(g.arcs)
        /\ Len(g.scrComps) = Len(g.arcs)
    BY DEF IsBody
  <1>2. Len(g.arcs) \in Nat /\ DOMAIN g.arcs = 1 .. Len(g.arcs) /\ Arcs(g) = 1 .. Len(g.arcs)
    BY <1>1 DEF Arcs
  <1>3. NumStates(g) \in Nat /\ States(g) = 0 .. NumStates(g) - 1
    BY <1>1 DEF NumStates, States
  <1>4. States(g) \subseteq Nat /\ \A s \in States(g) : s + 1 \in 1 .. Len(g.states)
    BY <1>3 DEF NumStates
  <1>5. ASSUME NEW i \in Arcs(g)
        PROVE  /\ g.arcs[i] \in ArcRecords
               /\ g.arcs[i].pred \in States(g) /\ g.arcs[i].pred \in Nat
               /\ g.arcs[i].succ \in States(g) /\ g.arcs[i].succ \in Nat
               /\ g.arcs[i].succ # INITIAL_STATE /\ g.arcs[i].score \in Int
               /\ g.arcs[i].words \in Nat
               /\ g.arcsPruned[i] \in BOOLEAN /\ g.scrComps[i] \in Nat
    <2>1. i \in 1 .. Len(g.arcs)
      BY <1>2
    <2>2. g.arcs[i] \in ArcRecords
      BY <1>1, <2>1, Element
    <2>3. g.arcsPruned[i] \in BOOLEAN /\ g.scrComps[i] \in Nat
      <3>1. i \in 1 .. Len(g.arcsPruned) /\ i \in 1 .. Len(g.scrComps)
        BY <1>1, <2>1
      <3> QED BY <1>1, <3>1, Element
    <2>4. g.arcs[i].pred \in States(g) /\ g.arcs[i].succ \in States(g) \ {INITIAL_STATE}
      BY DEF IsBody
    <2> QED BY <2>2, <2>3, <2>4, <1>4 DEF ArcRecords
  <1>6. NonPruned(g) \subseteq Arcs(g) /\ Arcs(g) \subseteq Nat
    BY <1>2 DEF NonPruned
  <1>7. g.finals \subseteq Nat
    BY DEF IsBody
  <1> QED BY <1>1, <1>2, <1>3, <1>4, <1>5, <1>6, <1>7

(* What the lists say of a state. *)
LEMMA ListsOfState ==
  ASSUME NEW g, IsBody(g), ListsFit(g), NEW s
  PROVE  /\ ArcIdsToPredStates(g, s) = {i \in NonPruned(g) : g.arcs[i].succ = s}
         /\ ArcIdsToSuccStates(g, s) = {i \in NonPruned(g) : g.arcs[i].pred = s}
  <1>1. CASE s \in States(g)
    BY <1>1 DEF ListsFit, ArcIdsToPredStates, ArcIdsToSuccStates, NonPruned
  <1>2. CASE s \notin States(g)
    BY <1>2, GraphFacts DEF ArcIdsToPredStates, ArcIdsToSuccStates, NonPruned
  <1> QED BY <1>1, <1>2

(* The empty graph. *)
LEMMA EmptyIsGraph ==
  IsGraph(EmptyWordGraph) /\ InBounds(EmptyWordGraph) /\ ListsFit(EmptyWordGraph)
    /\ Building(EmptyWordGraph)
  <1>1. Arcs(EmptyWordGraph) = {} /\ States(EmptyWordGraph) = {}
    BY DEF EmptyWordGraph, Arcs, States, NumStates
  <1>2. IsGraph(EmptyWordGraph)
    BY <1>1 DEF IsGraph, IsBody, EmptyWordGraph
  <1>3. InBounds(EmptyWordGraph)
    BY <1>1, WordGraphConstants DEF InBounds, EmptyWordGraph
  <1>4. ListsFit(EmptyWordGraph) /\ Building(EmptyWordGraph)
    BY <1>1 DEF ListsFit, Building, Grounded, NonPruned
  <1> QED BY <1>2, <1>3, <1>4

\* The lists of m states are those of the states of g, with arc i from p to s.
Registered(g, st, m, p, s, i) ==
  \A t \in 0 .. m - 1 :
    /\ st[t + 1].toPred = (IF t \in States(g) THEN g.states[t + 1].toPred ELSE {})
                            \cup {j \in {i} : t = s}
    /\ st[t + 1].toSucc = (IF t \in States(g) THEN g.states[t + 1].toSucc ELSE {})
                            \cup {j \in {i} : t = p}

(* The lists of the states of a graph with one arc more. *)
LEMMA StatesAdded ==
  ASSUME NEW g, IsBody(g), NEW p \in Nat, NEW s \in Nat, s # 0, p = 0 \/ p \in States(g),
         NEW i \in Nat, NEW st, st = StatesWithArc(g, p, s, i),
         NEW m \in Nat, m = IF s < NumStates(g) THEN NumStates(g) ELSE s + 1
  PROVE  /\ st \in Seq(StateRecords) /\ Len(st) = m
         /\ p \in 0 .. m - 1 /\ s \in 0 .. m - 1 /\ NumStates(g) <= m
         /\ Registered(g, st, m, p, s, i)
  <1> DEFINE blank == [toPred |-> {}, toSucc |-> {}]
             room == [k \in 1 .. m |-> IF k <= NumStates(g) THEN g.states[k] ELSE blank]
  <1>1. NumStates(g) \in Nat /\ States(g) = 0 .. NumStates(g) - 1 /\ g.states \in Seq(StateRecords)
        /\ NumStates(g) = Len(g.states)
    BY GraphFacts DEF IsBody, NumStates
  <1>2. ASSUME NEW k \in 1 .. m PROVE room[k] \in StateRecords
    <2>1. CASE k <= NumStates(g)
      <3>1. k \in 1 .. Len(g.states)
        BY <1>1, <2>1
      <3> QED BY <1>1, <2>1, <3>1, Element
    <2>2. CASE ~(k <= NumStates(g))
      BY <2>2 DEF StateRecords
    <2> QED BY <2>1, <2>2
  <1>3. st = [k \in 1 .. m |-> [toPred |-> room[k].toPred \cup {j \in {i} : k = s + 1},
                                toSucc |-> room[k].toSucc \cup {j \in {i} : k = p + 1}]]
    BY DEF StatesWithArc
  <1>7. ASSUME NEW t \in 0 .. m - 1
        PROVE  /\ t + 1 \in 1 .. m /\ (t + 1 = s + 1) = (t = s) /\ (t + 1 = p + 1) = (t = p)
               /\ room[t + 1] = IF t \in States(g) THEN g.states[t + 1] ELSE blank
    BY SMTT(40), <1>1
  <1> HIDE DEF room
  <1>4. ASSUME NEW k \in 1 .. m PROVE st[k] \in StateRecords
    <2>1. room[k] \in [toPred : SUBSET Nat, toSucc : SUBSET Nat]
      BY <1>2 DEF StateRecords
    <2>2. room[k].toPred \cup {j \in {i} : k = s + 1} \in SUBSET Nat
          /\ room[k].toSucc \cup {j \in {i} : k = p + 1} \in SUBSET Nat
      BY <2>1
    <2> QED BY <1>3, <2>2 DEF StateRecords
  <1>5. st \in Seq(StateRecords) /\ Len(st) = m
    <2>1. st \in [1 .. m -> StateRecords]
      BY <1>3, <1>4
    <2> QED BY <2>1
  <1>6. p \in 0 .. m - 1 /\ s \in 0 .. m - 1 /\ NumStates(g) <= m
    BY <1>1
  <1>8. ASSUME NEW t \in 0 .. m - 1
        PROVE  /\ st[t + 1].toPred = (IF t \in States(g) THEN g.states[t + 1].toPred ELSE {})
                                      \cup {j \in {i} : t = s}
               /\ st[t + 1].toSucc = (IF t \in States(g) THEN g.states[t + 1].toSucc ELSE {})
                                      \cup {j \in {i} : t = p}
    <2>1. t + 1 \in 1 .. m /\ (t + 1 = s + 1) = (t = s) /\ (t + 1 = p + 1) = (t = p)
      BY <1>7
    <2>2. room[t + 1] = IF t \in States(g) THEN g.states[t + 1] ELSE blank
      BY <1>7
    <2>3. /\ st[t + 1].toPred = room[t + 1].toPred \cup {j \in {i} : t = s}
          /\ st[t + 1].toSucc = room[t + 1].toSucc \cup {j \in {i} : t = p}
      BY <1>3, <2>1
    <2>4. CASE t \in States(g)
      BY <2>2, <2>3, <2>4
    <2>5. CASE t \notin States(g)
      BY <2>2, <2>3, <2>5
    <2> QED BY <2>4, <2>5
  <1> QED BY <1>5, <1>6, <1>8 DEF Registered

(* An element of a sequence with one element more. *)
LEMMA AppendedElement ==
  ASSUME NEW S, NEW q \in Seq(S), NEW e \in S
  PROVE  /\ Append(q, e) \in Seq(S) /\ Len(Append(q, e)) = Len(q) + 1 /\ Len(q) \in Nat
         /\ \A i \in 1 .. Len(q) : Append(q, e)[i] = q[i]
         /\ Append(q, e)[Len(q) + 1] = e
  OBVIOUS

\* h is g with one arc more, its last.
HasOneMore(g, n, h, p, s, w, x, c) ==
  /\ IsBody(h) /\ n \in Nat /\ Len(h.arcs) = n + 1
  /\ Arcs(h) = Arcs(g) \cup {n + 1} /\ n + 1 \notin Arcs(g)
  /\ \A i \in Arcs(g) : h.arcs[i] = g.arcs[i] /\ h.arcsPruned[i] = g.arcsPruned[i]
                        /\ h.scrComps[i] = g.scrComps[i]
  /\ h.arcs[n + 1] = [pred |-> p, succ |-> s, words |-> w, score |-> x]
  /\ h.arcsPruned[n + 1] = FALSE /\ h.scrComps[n + 1] = c
  /\ NonPruned(h) = NonPruned(g) \cup {n + 1}
  /\ NumStates(h) = IF s < NumStates(g) THEN NumStates(g) ELSE s + 1
  /\ States(g) \subseteq States(h) /\ p \in States(h) /\ s \in States(h)
  /\ h.finals = g.finals /\ h.initialStateScore = g.initialStateScore
  /\ ListsFit(g) /\ c = w => ListsFit(h)

(* A graph with one arc more. *)
LEMMA ArcAdded ==
  ASSUME NEW g, IsBody(g), NEW p \in Nat, NEW s \in Nat, s # 0, p = 0 \/ p \in States(g),
         NEW w \in Nat, NEW x \in Int, NEW c \in Nat,
         NEW h, h = AddArc(g, p, s, w, x, c), NEW n, n = Len(g.arcs)
  PROVE  HasOneMore(g, n, h, p, s, w, x, c)
  <1> DEFINE m == IF s < NumStates(g) THEN NumStates(g) ELSE s + 1
             st == StatesWithArc(g, p, s, n + 1)
             a == [pred |-> p, succ |-> s, words |-> w, score |-> x]
  <1>1. /\ g \in [arcs : Seq(ArcRecords), arcsPruned : Seq(BOOLEAN), scrComps : Seq(Nat),
                  states : Seq(StateRecords), finals : SUBSET Nat, initialStateScore : Int]
        /\ Len(g.arcsPruned) = n /\ Len(g.scrComps) = n
    BY DEF IsBody
  <1>2. /\ h.arcs = Append(g.arcs, a) /\ h.arcsPruned = Append(g.arcsPruned, FALSE)
        /\ h.scrComps = Append(g.scrComps, c) /\ h.states = st
        /\ h.finals = g.finals /\ h.initialStateScore = g.initialStateScore
        /\ DOMAIN h = DOMAIN g
    BY <1>1 DEF AddArc
  <1>3. h = [arcs |-> h.arcs, arcsPruned |-> h.arcsPruned, scrComps |-> h.scrComps,
             states |-> h.states, finals |-> h.finals, initialStateScore |-> h.initialStateScore]
    BY <1>1, <1>2 DEF AddArc
  <1>4. a \in ArcRecords
    BY DEF ArcRecords
  <1>5. /\ Len(g.arcs) \in Nat /\ Arcs(g) = 1 .. Len(g.arcs) /\ NumStates(g) \in Nat
        /\ States(g) = 0 .. NumStates(g) - 1 /\ States(g) \subseteq Nat
    BY GraphFacts
  <1>6. m \in Nat
    BY <1>5
  <1> HIDE DEF a
  <1>7. /\ h.arcs \in Seq(ArcRecords) /\ Len(h.arcs) = n + 1
        /\ \A i \in 1 .. n : h.arcs[i] = g.arcs[i]
        /\ h.arcs[n + 1] = a
    BY <1>1, <1>2, <1>4, AppendedElement
  <1>8. /\ h.arcsPruned \in Seq(BOOLEAN) /\ Len(h.arcsPruned) = n + 1
        /\ \A i \in 1 .. n : h.arcsPruned[i] = g.arcsPruned[i]
        /\ h.arcsPruned[n + 1] = FALSE
    <2>1. g.arcsPruned \in Seq(BOOLEAN) /\ FALSE \in BOOLEAN /\ h.arcsPruned = Append(g.arcsPruned, FALSE)
      BY <1>1, <1>2
    <2>2. PICK S, e : S = BOOLEAN /\ e = FALSE
      OBVIOUS
    <2>3. g.arcsPruned \in Seq(S) /\ e \in S /\ h.arcsPruned = Append(g.arcsPruned, e)
      BY <2>1, <2>2
    <2>5. Len(g.arcsPruned) = n
      BY <1>1
    <2>4. /\ h.arcsPruned \in Seq(S) /\ Len(h.arcsPruned) = n + 1
          /\ \A i \in 1 .. n : h.arcsPruned[i] = g.arcsPruned[i]
          /\ h.arcsPruned[n + 1] = e
      BY SMTT(40), <2>3, <2>5, AppendedElement
    <2> QED BY <2>2, <2>4
  <1>9. /\ h.scrComps \in Seq(Nat) /\ Len(h.scrComps) = n + 1
        /\ \A i \in 1 .. n : h.scrComps[i] = g.scrComps[i]
        /\ h.scrComps[n + 1] = c
    BY SMTT(40), <1>1, <1>2, AppendedElement
  <1>10. /\ st \in Seq(StateRecords) /\ Len(st) = m
         /\ p \in 0 .. m - 1 /\ s \in 0 .. m - 1 /\ NumStates(g) <= m
         /\ Registered(g, st, m, p, s, n + 1)
    <2>1. n + 1 \in Nat
      BY <1>5
    <2> HIDE DEF st, m
    <2>2. m = IF s < NumStates(g) THEN NumStates(g) ELSE s + 1
      BY DEF m
    <2> QED BY SMTT(40), <1>6, <2>1, <2>2, StatesAdded DEF st
  <1> HIDE DEF st
  <1>11. NumStates(h) = m /\ States(h) = 0 .. m - 1
    BY <1>2, <1>10 DEF NumStates, States
  <1> HIDE DEF m
  <1>12. States(g) \subseteq States(h) /\ p \in States(h) /\ s \in States(h)
    BY <1>5, <1>6, <1>10, <1>11
  <1>13. Arcs(h) = Arcs(g) \cup {n + 1} /\ n + 1 \notin Arcs(g)
    <2>1. n \in Nat /\ Arcs(h) = 1 .. n + 1 /\ Arcs(g) = 1 .. n
      BY <1>5, <1>7 DEF Arcs
    <2> QED BY <2>1
  <1>14. NonPruned(h) = NonPruned(g) \cup {n + 1}
    BY <1>5, <1>8, <1>13 DEF NonPruned
  <1>15. a.pred = p /\ a.succ = s /\ a.words = w
    BY DEF a
  <1>16. IsBody(h)
    <2>1. ASSUME NEW i \in Arcs(h) PROVE h.arcs[i].pred \in States(h) /\ h.arcs[i].succ \in States(h) \ {INITIAL_STATE}
      <3>1. CASE i = n + 1
        BY <3>1, <1>7, <1>12, <1>15 DEF INITIAL_STATE
      <3>2. CASE i \in Arcs(g)
        <4>1. h.arcs[i] = g.arcs[i]
          BY <3>2, <1>5, <1>7
        <4>2. g.arcs[i].pred \in States(g) /\ g.arcs[i].succ \in States(g) \ {INITIAL_STATE}
          BY <3>2 DEF IsBody
        <4> QED BY <4>1, <4>2, <1>12
      <3> QED BY <3>1, <3>2, <1>13
    <2>2. h \in [arcs : Seq(ArcRecords), arcsPruned : Seq(BOOLEAN), scrComps : Seq(Nat),
                  states : Seq(StateRecords), finals : SUBSET Nat, initialStateScore : Int]
      BY <1>1, <1>2, <1>3, <1>7, <1>8, <1>9, <1>10
    <2> QED BY <2>1, <2>2, <1>7, <1>8, <1>9 DEF IsBody
  <1>17. ASSUME ListsFit(g), c = w PROVE ListsFit(h)
    <2>1. ASSUME NEW i \in Arcs(h) PROVE h.scrComps[i] = h.arcs[i].words
      <3>1. CASE i = n + 1
        BY <3>1, <1>7, <1>9, <1>15, <1>17
      <3>2. CASE i \in Arcs(g)
        BY <3>2, <1>5, <1>7, <1>9, <1>17 DEF ListsFit
      <3> QED BY <3>1, <3>2, <1>13
    <2>2. ASSUME NEW t \in States(h)
          PROVE  /\ h.states[t + 1].toPred = {i \in Arcs(h) : h.arcs[i].succ = t}
                 /\ h.states[t + 1].toSucc = {i \in Arcs(h) : h.arcs[i].pred = t}
      <3>1. /\ h.states[t + 1].toPred = (IF t \in States(g) THEN g.states[t + 1].toPred ELSE {})
                                          \cup {j \in {n + 1} : t = s}
            /\ h.states[t + 1].toSucc = (IF t \in States(g) THEN g.states[t + 1].toSucc ELSE {})
                                          \cup {j \in {n + 1} : t = p}
        BY <1>2, <1>10, <1>11 DEF Registered
      <3>2. /\ {i \in Arcs(h) : h.arcs[i].succ = t}
                 = {i \in Arcs(g) : g.arcs[i].succ = t} \cup {j \in {n + 1} : t = s}
            /\ {i \in Arcs(h) : h.arcs[i].pred = t}
                 = {i \in Arcs(g) : g.arcs[i].pred = t} \cup {j \in {n + 1} : t = p}
        <4>1. \A i \in Arcs(g) : h.arcs[i] = g.arcs[i]
          BY <1>5, <1>7
        <4> QED BY ZenonT(60), <4>1, <1>13, <1>7, <1>15
      <3>3. CASE t \in States(g)
        BY <3>1, <3>2, <3>3, <1>17 DEF ListsFit
      <3>4. CASE t \notin States(g)
        <4>1. {i \in Arcs(g) : g.arcs[i].succ = t} = {} /\ {i \in Arcs(g) : g.arcs[i].pred = t} = {}
          BY <3>4 DEF IsBody
        <4> QED BY <3>1, <3>2, <3>4, <4>1
      <3> QED BY <3>3, <3>4
    <2> QED BY <2>1, <2>2 DEF ListsFit
  <1>18. \A i \in Arcs(g) : h.arcs[i] = g.arcs[i] /\ h.arcsPruned[i] = g.arcsPruned[i]
                               /\ h.scrComps[i] = g.scrComps[i]
    BY <1>5, <1>7, <1>8, <1>9
  <1>19. NumStates(h) = IF s < NumStates(g) THEN NumStates(g) ELSE s + 1
    BY <1>11 DEF m
  <1>20. h.arcs[n + 1] = [pred |-> p, succ |-> s, words |-> w, score |-> x]
    BY <1>7 DEF a
  <1>21. n \in Nat
    BY <1>5
  <1> QED BY <1>2, <1>21, <1>7, <1>8, <1>9, <1>12, <1>13, <1>14, <1>16, <1>17, <1>18, <1>19, <1>20
          DEF HasOneMore

-----------------------------------------------------------------------------
(* Building.                                                               *)

\* h is g with other final states and another score of the initial state.
IsButRescored(g, h, f, x) ==
  /\ IsGraph(h) /\ (ListsFit(g) => ListsFit(h)) /\ (Building(g) => Building(h))
  /\ h.arcs = g.arcs /\ Arcs(h) = Arcs(g) /\ h.initialStateScore = x /\ h.finals = f
  /\ NonPruned(h) = NonPruned(g)

(* A graph of which only the final states or the score of the initial state
   differ. *)
LEMMA SameArcs ==
  ASSUME NEW g, IsGraph(g), NEW f \in SUBSET (States(g) \ {INITIAL_STATE}), NEW x \in Int,
         NEW h, h = [g EXCEPT !.finals = f, !.initialStateScore = x]
  PROVE  IsButRescored(g, h, f, x)
  <1>1. g \in [arcs : Seq(ArcRecords), arcsPruned : Seq(BOOLEAN), scrComps : Seq(Nat),
               states : Seq(StateRecords), finals : SUBSET Nat, initialStateScore : Int]
    BY DEF IsGraph, IsBody
  <1>2. States(g) \subseteq Nat
    BY GraphFacts DEF IsGraph
  <1>3. /\ h.arcs = g.arcs /\ h.arcsPruned = g.arcsPruned /\ h.scrComps = g.scrComps
        /\ h.states = g.states /\ h.finals = f /\ h.initialStateScore = x
        /\ h \in [arcs : Seq(ArcRecords), arcsPruned : Seq(BOOLEAN), scrComps : Seq(Nat),
                  states : Seq(StateRecords), finals : SUBSET Nat, initialStateScore : Int]
    BY <1>1, <1>2
  <1>4. Arcs(h) = Arcs(g) /\ NonPruned(h) = NonPruned(g) /\ States(h) = States(g)
    BY <1>3 DEF Arcs, NonPruned, States, NumStates
  <1>5. IsGraph(h)
    BY <1>3, <1>4 DEF IsGraph, IsBody
  <1>6. ListsFit(g) => ListsFit(h)
    BY <1>3, <1>4 DEF ListsFit
  <1>7. Building(g) => Building(h)
    BY <1>3, <1>4 DEF Building, Grounded
  <1> QED BY <1>3, <1>4, <1>5, <1>6, <1>7 DEF IsButRescored

(* An arc that extends a hypothesis. *)
LEMMA BuildKeeps == UseInv /\ Build => UseInv'
  <1> SUFFICES ASSUME UseInv, Build PROVE UseInv'
    OBVIOUS
  <1>1. /\ IsBody(graph) /\ IsGraph(graph) /\ InBounds(graph) /\ processed = FALSE
        /\ reordered = FALSE /\ ListsFit(graph) /\ Building(graph) /\ Len(graph.arcs) < MaxArcs
        /\ processed' = FALSE /\ reordered' = FALSE
    BY DEF UseInv, Sound, Build, IsGraph
  <1>2. PICK e \in Edges, x \in Scores :
          /\ e[1] \in {INITIAL_STATE} \cup {graph.arcs[i].succ : i \in Arcs(graph)}
          /\ graph' = AddArc(graph, e[1], e[2], Len(graph.arcs) + 1, x, Len(graph.arcs) + 1)
    BY DEF Build
  <1>3. PICK p, s, n : p = e[1] /\ s = e[2] /\ n = Len(graph.arcs)
    OBVIOUS
  <1>4. p \in Nat /\ s \in Nat /\ s # 0 /\ x \in Int /\ <<p, s>> \in Edges
    BY <1>3, WordGraphConstants DEF INITIAL_STATE
  <1>5. /\ n \in Nat /\ Arcs(graph) = 1 .. n
        /\ \A i \in Arcs(graph) : graph.arcs[i].succ \in States(graph)
    BY <1>1, <1>3, GraphFacts
  <1>6. p = 0 \/ p \in States(graph)
    BY <1>2, <1>3, <1>5 DEF INITIAL_STATE
  <1>7. PICK h : h = AddArc(graph, p, s, n + 1, x, n + 1)
    OBVIOUS
  <1>8. n + 1 \in Nat
    BY <1>5
  <1>9. /\ IsBody(h) /\ Len(h.arcs) = n + 1
        /\ Arcs(h) = Arcs(graph) \cup {n + 1} /\ n + 1 \notin Arcs(graph)
        /\ \A i \in Arcs(graph) : h.arcs[i] = graph.arcs[i] /\ h.arcsPruned[i] = graph.arcsPruned[i]
                               /\ h.scrComps[i] = graph.scrComps[i]
        /\ h.arcs[n + 1] = [pred |-> p, succ |-> s, words |-> n + 1, score |-> x]
        /\ h.arcsPruned[n + 1] = FALSE /\ h.scrComps[n + 1] = n + 1
        /\ NonPruned(h) = NonPruned(graph) \cup {n + 1}
        /\ States(graph) \subseteq States(h)
        /\ h.finals = graph.finals /\ h.initialStateScore = graph.initialStateScore
        /\ ListsFit(graph) => ListsFit(h)
    <2>1. HasOneMore(graph, n, h, p, s, n + 1, x, n + 1)
      BY <1>1, <1>3, <1>4, <1>6, <1>7, <1>8, ArcAdded, Zenon
    <2> QED BY <2>1 DEF HasOneMore
  <1>10. /\ h.arcs[n + 1].pred = p /\ h.arcs[n + 1].succ = s /\ h.arcs[n + 1].score = x
    BY <1>9
  <1>11. IsGraph(h)
    BY <1>1, <1>9 DEF IsGraph
  <1>12. InBounds(h)
    <2>1. Len(h.arcs) <= MaxArcs
      BY <1>1, <1>3, <1>5, <1>9, WordGraphConstants
    <2> QED BY <2>1, <1>1, <1>9, <1>10 DEF InBounds
  <1>13. Building(h)
    <2>1. ASSUME NEW i \in Arcs(h)
          PROVE  ~h.arcsPruned[i] /\ <<h.arcs[i].pred, h.arcs[i].succ>> \in Edges
      <3>1. CASE i = n + 1
        BY <3>1, <1>4, <1>9, <1>10
      <3>2. CASE i \in Arcs(graph)
        BY <3>2, <1>1, <1>9 DEF Building
      <3> QED BY <3>1, <3>2, <1>9
    <2>2. NonPruned(graph) = Arcs(graph)
      BY <1>1 DEF Building, NonPruned
    <2>3. Grounded(h)
      <3> SUFFICES ASSUME NEW i \in NonPruned(h), h.arcs[i].pred # INITIAL_STATE
                   PROVE  \E j \in NonPruned(h) : h.arcs[j].succ = h.arcs[i].pred
        BY DEF Grounded
      <3>1. CASE i = n + 1
        <4>1. h.arcs[i].pred = p
          BY <3>1, <1>9
        <4>2. PICK j \in Arcs(graph) : graph.arcs[j].succ = p
          BY <4>1, <1>2, <1>3
        <4> QED BY <4>1, <4>2, <2>2, <1>9
      <3>2. CASE i \in NonPruned(graph)
        <4>1. h.arcs[i] = graph.arcs[i]
          BY <3>2, <2>2, <1>9
        <4>2. PICK j \in NonPruned(graph) : graph.arcs[j].succ = graph.arcs[i].pred
          BY <3>2, <4>1, <1>1 DEF Building, Grounded
        <4> QED BY <4>1, <4>2, <2>2, <1>9
      <3> QED BY <3>1, <3>2, <1>9
    <2> QED BY <2>1, <2>3 DEF Building
  <1>14. graph' = h /\ ListsFit(h)
    BY <1>1, <1>2, <1>3, <1>7, <1>9
  <1>15. Sound(h, FALSE, FALSE)
    BY <1>11, <1>12, <1>13, <1>14 DEF Sound, Building
  <1> QED BY <1>1, <1>14, <1>15 DEF UseInv

(* A state that an arc enters becomes final. *)
LEMMA MakeFinalKeeps == UseInv /\ MakeFinal => UseInv'
  <1> SUFFICES ASSUME UseInv, MakeFinal PROVE UseInv'
    OBVIOUS
  <1>1. /\ IsBody(graph) /\ IsGraph(graph) /\ InBounds(graph) /\ processed = FALSE
        /\ reordered = FALSE /\ ListsFit(graph) /\ Building(graph)
        /\ processed' = FALSE /\ reordered' = FALSE
    BY DEF UseInv, Sound, MakeFinal, IsGraph
  <1>2. PICK s \in States(graph) : ArcIdsToPredStates(graph, s) # {}
                                   /\ graph' = [graph EXCEPT !.finals = @ \cup {s}]
    BY DEF MakeFinal, AddFinalState
  <1>3. s # INITIAL_STATE
    BY <1>1, <1>2, ListsOfState, GraphFacts
  <1>4. PICK f, x : f = graph.finals \cup {s} /\ x = graph.initialStateScore
    OBVIOUS
  <1>5. f \in SUBSET (States(graph) \ {INITIAL_STATE}) /\ x \in Int
    BY <1>1, <1>3, <1>4, GraphFacts DEF IsGraph
  <1>6. graph' = [graph EXCEPT !.finals = f, !.initialStateScore = x]
    <2>1. graph \in [arcs : Seq(ArcRecords), arcsPruned : Seq(BOOLEAN), scrComps : Seq(Nat),
               states : Seq(StateRecords), finals : SUBSET Nat, initialStateScore : Int]
      BY <1>1 DEF IsBody
    <2> QED BY <2>1, <1>2, <1>4
  <1>7. PICK h : h = [graph EXCEPT !.finals = f, !.initialStateScore = x]
    OBVIOUS
  <1>8. /\ IsGraph(h) /\ ListsFit(h) /\ Building(h) /\ h.arcs = graph.arcs
        /\ h.initialStateScore = x
    <2>1. IsButRescored(graph, h, f, x)
      BY <1>1, <1>5, <1>7, SameArcs, Zenon
    <2> QED BY <2>1, <1>1 DEF IsButRescored
  <1>9. InBounds(h)
    BY <1>1, <1>4, <1>8 DEF InBounds, Arcs
  <1>10. Sound(h, FALSE, FALSE)
    BY <1>8, <1>9 DEF Sound, Building
  <1> QED BY <1>1, <1>6, <1>7, <1>10 DEF UseInv

(* The initial state gets a score. *)
LEMMA ScoreInitialStateKeeps == UseInv /\ ScoreInitialState => UseInv'
  <1> SUFFICES ASSUME UseInv, ScoreInitialState PROVE UseInv'
    OBVIOUS
  <1>1. /\ IsBody(graph) /\ IsGraph(graph) /\ InBounds(graph) /\ processed = FALSE
        /\ reordered = FALSE /\ ListsFit(graph) /\ Building(graph)
        /\ processed' = FALSE /\ reordered' = FALSE
    BY DEF UseInv, Sound, ScoreInitialState, IsGraph
  <1>2. PICK x \in InitialScores : graph' = [graph EXCEPT !.initialStateScore = x]
    BY DEF ScoreInitialState
  <1>4. PICK f : f = graph.finals
    OBVIOUS
  <1>5. f \in SUBSET (States(graph) \ {INITIAL_STATE}) /\ x \in Int
    BY <1>1, <1>4, WordGraphConstants DEF IsGraph
  <1>6. graph' = [graph EXCEPT !.finals = f, !.initialStateScore = x]
    <2>1. graph \in [arcs : Seq(ArcRecords), arcsPruned : Seq(BOOLEAN), scrComps : Seq(Nat),
               states : Seq(StateRecords), finals : SUBSET Nat, initialStateScore : Int]
      BY <1>1 DEF IsBody
    <2> QED BY <2>1, <1>2, <1>4
  <1>7. PICK h : h = [graph EXCEPT !.finals = f, !.initialStateScore = x]
    OBVIOUS
  <1>8. /\ IsGraph(h) /\ ListsFit(h) /\ Building(h) /\ h.arcs = graph.arcs
        /\ h.initialStateScore = x
    <2>1. IsButRescored(graph, h, f, x)
      BY <1>1, <1>5, <1>7, SameArcs, Zenon
    <2> QED BY <2>1, <1>1 DEF IsButRescored
  <1>9. InBounds(h)
    BY <1>1, <1>8 DEF InBounds, Arcs
  <1>10. Sound(h, FALSE, FALSE)
    BY <1>8, <1>9 DEF Sound, Building
  <1> QED BY <1>1, <1>6, <1>7, <1>10 DEF UseInv

(* A graph that has been cleared. *)
LEMMA ClearKeeps == (Init => UseInv) /\ (Clear => UseInv')
  <1>1. Sound(EmptyWordGraph, FALSE, FALSE)
    BY EmptyIsGraph DEF Sound, Building
  <1> QED BY <1>1 DEF Init, Clear, UseInv

-----------------------------------------------------------------------------
(* Scores of the best paths.                                               *)

\* No score of g exceeds b, nor a sum of k + 1 of them L[k], which is far from
\* SMALL_SCORE.
ScoresWithin(g, b, L) ==
  /\ b \in Nat
  /\ \A k \in 0 .. Len(g.arcs) : L[k] \in Nat /\ b <= L[k] /\ 2 * L[k] < -SMALL_SCORE
                                 /\ L[k] <= L[Len(g.arcs)]
  /\ \A k \in 0 .. Len(g.arcs) - 1 : L[k + 1] = L[k] + b
  /\ \A i \in Arcs(g) : -b <= g.arcs[i].score /\ g.arcs[i].score <= b
  /\ -b <= g.initialStateScore /\ g.initialStateScore <= b
  /\ \A t \in LogThresholds \cup {0} : t > SMALL_SCORE => 4 * L[Len(g.arcs)] < t - SMALL_SCORE

(* The least score. *)
LEMMA SmallScore == SMALL_SCORE \in Int /\ SMALL_SCORE < 0
  BY WordGraphConstants

(* Multiplication is monotone. *)
LEMMA TimesIsMonotone ==
  ASSUME NEW a \in Nat, NEW c \in Nat, a <= c, NEW b \in Nat
  PROVE  a * b \in Nat /\ a * b <= c * b /\ (a + 1) * b = a * b + b
  <1>1. (c - a) * b >= 0
    OBVIOUS
  <1>2. (c - a) * b = c * b - a * b
    OBVIOUS
  <1> QED BY <1>1, <1>2

(* Of some numbers, indexed by those up to n, one is the farthest from 0. *)
LEMMA FarthestFromZero ==
  ASSUME NEW n \in Nat, NEW f, \A i \in 1 .. n : f[i] \in Int, NEW x \in Int
  PROVE  \E b \in Nat : /\ -b <= x /\ x <= b /\ \A i \in 1 .. n : -b <= f[i] /\ f[i] <= b
                        /\ \/ b = x \/ b = -x
                           \/ \E i \in 1 .. n : b = f[i] \/ b = -f[i]
  <1> DEFINE Is(b, k) == /\ -b <= x /\ x <= b /\ \A i \in 1 .. k : -b <= f[i] /\ f[i] <= b
                         /\ \/ b = x \/ b = -x
                            \/ \E i \in 1 .. k : b = f[i] \/ b = -f[i]
             P(k) == \E b \in Nat : Is(b, k)
             G == {k \in 0 .. n : P(k)}
  <1>1. P(0)
    <2>1. CASE x >= 0
      <3>1. Is(x, 0)
        BY <2>1
      <3> HIDE DEF Is
      <3> QED BY <2>1, <3>1
    <2>2. CASE x < 0
      <3>1. Is(-x, 0) /\ -x \in Nat
        BY <2>2
      <3> HIDE DEF Is
      <3> QED BY <3>1
    <2> QED BY <2>1, <2>2
  <1>2. ASSUME NEW k \in 0 .. n - 1, P(k)
        PROVE  P(k + 1)
    <2>1. PICK b \in Nat : Is(b, k)
      BY <1>2
    <2>2. f[k + 1] \in Int /\ k + 1 \in 1 .. n
      OBVIOUS
    <2>3. PICK c \in Int : c = f[k + 1]
      BY <2>2
    <2>4. \A i \in 1 .. k + 1 : i \in 1 .. k \/ i = k + 1
      OBVIOUS
    <2>5. CASE -b <= c /\ c <= b
      <3>1. Is(b, k + 1)
        BY <2>1, <2>3, <2>4, <2>5
      <3> HIDE DEF Is
      <3> QED BY <3>1
    <2>6. CASE c > b
      <3>1. \A i \in 1 .. k : f[i] \in Int
        OBVIOUS
      <3>2. Is(c, k + 1) /\ c \in Nat
        BY <2>1, <2>3, <2>4, <2>6, <3>1
      <3> HIDE DEF Is
      <3> QED BY <3>2
    <2>7. CASE c < -b
      <3>1. \A i \in 1 .. k : f[i] \in Int
        OBVIOUS
      <3>2. PICK d \in Nat : d = -c
        BY <2>7
      <3>3. Is(d, k + 1)
        BY <2>1, <2>3, <2>4, <2>7, <3>1, <3>2
      <3> HIDE DEF Is
      <3> QED BY <3>3
    <2> QED BY <2>5, <2>6, <2>7
  <1> HIDE DEF P
  <1>3. 0 .. n \subseteq G
    <2>1. 0 \in G /\ \A k \in 0 .. n - 1 : k \in G => k + 1 \in G
      BY <1>1, <1>2
    <2> HIDE DEF G
    <2> QED BY <2>1, InductionUpTo
  <1>4. P(n)
    BY <1>3
  <1> QED BY <1>4 DEF P

(* The scores of a graph are within bounds. *)
LEMMA ScoresHaveBound ==
  ASSUME NEW g, IsBody(g), InBounds(g)
  PROVE  \E b, L : ScoresWithin(g, b, L)
  <1>1. PICK n : n = Len(g.arcs)
    OBVIOUS
  <1>2. n \in Nat /\ Arcs(g) = 1 .. n /\ \A i \in 1 .. n : g.arcs[i].score \in Int
    BY <1>1, GraphFacts
  <1>3. g.initialStateScore \in Int
    BY GraphFacts
  <1>4. PICK f : f = [i \in 1 .. n |-> g.arcs[i].score]
    OBVIOUS
  <1>5. PICK x \in Int : x = g.initialStateScore
    BY <1>3
  <1>6. \A i \in 1 .. n : f[i] \in Int
    BY <1>2, <1>4
  <1>7. PICK b \in Nat : /\ -b <= x /\ x <= b /\ \A i \in 1 .. n : -b <= f[i] /\ f[i] <= b
                         /\ \/ b = x \/ b = -x
                            \/ \E i \in 1 .. n : b = f[i] \/ b = -f[i]
    BY <1>2, <1>6, FarthestFromZero
  <1>8. \E y \in Scores \cup InitialScores \cup {0} : y \in Int /\ (b = y \/ b = -y)
    <2>1. \A i \in 1 .. n : f[i] \in Scores
      BY <1>2, <1>4 DEF InBounds
    <2>2. x \in InitialScores \cup {0}
      BY <1>5 DEF InBounds
    <2> QED BY <1>6, <1>7, <2>1, <2>2
  <1>9. PICK y \in Int : y \in Scores \cup InitialScores \cup {0} /\ (b = y \/ b = -y)
    BY <1>8
  <1>10. MaxArcs \in Nat /\ n <= MaxArcs /\ SMALL_SCORE \in Int /\ SMALL_SCORE < 0
    BY <1>1, WordGraphConstants DEF InBounds
  <1>11. ASSUME NEW t \in LogThresholds \cup {0}, t > SMALL_SCORE
         PROVE  t \in Int /\ 4 * (MaxArcs + 1) * b < t - SMALL_SCORE
    <2>1. t \in Int
      BY WordGraphConstants
    <2>2. CASE y = 0
      <3>1. b = 0
        BY <1>9, <2>2
      <3>2. 4 * (MaxArcs + 1) * 0 = 0
        BY <1>10
      <3> QED BY <2>1, <3>1, <3>2, <1>10, <1>11
    <2>3. CASE y # 0
      <3>1. 4 * (MaxArcs + 1) * (IF y < 0 THEN -y ELSE y) < t - SMALL_SCORE
        BY <1>9, <1>11, <2>3, WordGraphConstants
      <3>2. b = IF y < 0 THEN -y ELSE y
        BY <1>9
      <3> QED BY <2>1, <3>1, <3>2
    <2> QED BY <2>2, <2>3
  <1>12. PICK w : w = MaxArcs + 1
    OBVIOUS
  <1>13. w \in Nat /\ n + 1 <= w
    BY <1>10, <1>12, <1>2
  <1> DEFINE L == [k \in 0 .. n |-> (k + 1) * b]
  <1>14. /\ (n + 1) * b \in Nat /\ (n + 1) * b <= w * b
    <2>1. n + 1 \in Nat
      BY <1>2
    <2> QED BY <1>13, <2>1, TimesIsMonotone
  <1>15. ASSUME NEW k \in 0 .. n
         PROVE  L[k] \in Nat /\ b <= L[k] /\ L[k] <= L[n] /\ L[n] = (n + 1) * b
    <2>1. k + 1 \in Nat /\ n + 1 \in Nat /\ k + 1 <= n + 1 /\ 1 <= k + 1 /\ k \in Nat /\ 0 <= k
      BY <1>2
    <2>2. (k + 1) * b <= (n + 1) * b /\ (k + 1) * b \in Nat
      BY <2>1, TimesIsMonotone
    <2>3. k * b \in Nat /\ (k + 1) * b = k * b + b
      BY <2>1, TimesIsMonotone
    <2> QED BY <1>2, <2>2, <2>3
  <1>16. ASSUME NEW k \in 0 .. n - 1
         PROVE  L[k + 1] = L[k] + b
    <2>1. k + 1 \in Nat /\ k + 1 <= k + 1 /\ k \in 0 .. n /\ k + 1 \in 0 .. n
      BY <1>2
    <2>2. (k + 1 + 1) * b = (k + 1) * b + b
      BY <2>1, TimesIsMonotone
    <2> QED BY <2>1, <2>2
  <1>17. L[n] = (n + 1) * b /\ L[n] \in Nat
    BY <1>2, <1>15
  <1> HIDE DEF L
  <1>18. ASSUME NEW t \in LogThresholds \cup {0}, t > SMALL_SCORE
         PROVE  t \in Int /\ 4 * L[n] < t - SMALL_SCORE
    <2>1. t \in Int /\ 4 * (MaxArcs + 1) * b < t - SMALL_SCORE
      BY <1>11, <1>18
    <2>2. 4 * (MaxArcs + 1) * b = 4 * (w * b)
      BY <1>10, <1>12
    <2>3. w * b \in Nat
      BY <1>13
    <2> QED BY <2>1, <2>2, <2>3, <1>10, <1>14, <1>17
  <1>19. 4 * L[n] < -SMALL_SCORE
    BY <1>10, <1>18
  <1>20. \A k \in 0 .. n : L[k] \in Nat /\ b <= L[k] /\ 2 * L[k] < -SMALL_SCORE /\ L[k] <= L[n]
    BY <1>10, <1>15, <1>17, <1>19
  <1>21. ScoresWithin(g, b, L)
    BY <1>1, <1>2, <1>4, <1>5, <1>7, <1>16, <1>18, <1>20 DEF ScoresWithin
  <1> QED BY <1>21

-----------------------------------------------------------------------------
(* The pass of calcPrevScores.                                             *)

PrevRecords(g) ==
  [score : [States(g) -> Int], arc : [States(g) -> Nat], accessible : SUBSET Nat]

\* The states that the arcs up to k enter.
Entered(g, k) == {g.arcs[i].succ : i \in {j \in NonPruned(g) : j <= k}}

\* What the pass has made of k arcs.
PrevAfter(g, L, k, acc) ==
  /\ acc \in PrevRecords(g)
  /\ acc.accessible = {INITIAL_STATE} \cup Entered(g, k)
  /\ \A s \in States(g) \ Entered(g, k) :
       /\ acc.arc[s] = 0
       /\ acc.score[s] = IF s = INITIAL_STATE THEN g.initialStateScore ELSE SMALL_SCORE
  /\ \A s \in Entered(g, k) :
       /\ acc.arc[s] \in NonPruned(g) /\ acc.arc[s] <= k /\ g.arcs[acc.arc[s]].succ = s
       /\ acc.score[s] = acc.score[g.arcs[acc.arc[s]].pred] + g.arcs[acc.arc[s]].score
  /\ \A i \in NonPruned(g) :
       i <= k => acc.score[g.arcs[i].succ] >= acc.score[g.arcs[i].pred] + g.arcs[i].score
  /\ \A s \in {INITIAL_STATE} \cup Entered(g, k) :
       s \in States(g) => -L[k] <= acc.score[s] /\ acc.score[s] <= L[k]

(* Nothing but records of scores, arcs and states comes of a step. *)
LEMMA PrevStepType ==
  ASSUME NEW g, IsBody(g)
  PROVE  /\ PrevStart(g, INITIAL_STATE) \in PrevRecords(g)
         /\ \A acc \in PrevRecords(g), i \in 1 .. Len(g.arcs) :
              PrevStep(g, INITIAL_STATE, {}, acc, i) \in PrevRecords(g)
  <1>1. SMALL_SCORE \in Int
    BY SmallScore
  <1>2. g.initialStateScore \in Int
    BY GraphFacts
  <1>3. PrevStart(g, INITIAL_STATE) \in PrevRecords(g)
    BY <1>1, <1>2 DEF PrevStart, PrevRecords, INITIAL_STATE
  <1>4. ASSUME NEW acc \in PrevRecords(g), NEW i \in 1 .. Len(g.arcs)
        PROVE  PrevStep(g, INITIAL_STATE, {}, acc, i) \in PrevRecords(g)
    <2>1. /\ g.arcs[i].pred \in States(g) /\ g.arcs[i].succ \in States(g)
          /\ g.arcs[i].succ \in Nat /\ g.arcs[i].score \in Int /\ i \in Nat
      BY GraphFacts
    <2>2. PICK p, s, x : p = g.arcs[i].pred /\ s = g.arcs[i].succ /\ x = g.arcs[i].score
      OBVIOUS
    <2>3. PICK y : y = AtLeastSmall(x + acc.score[p])
      OBVIOUS
    <2>4. y \in Int
      BY <1>1, <2>1, <2>2, <2>3 DEF PrevRecords, AtLeastSmall
    <2>5. PICK seen : seen = acc.accessible \cup {s}
      OBVIOUS
    <2>6. /\ acc.score \in [States(g) -> Int] /\ acc.arc \in [States(g) -> Nat]
          /\ acc.accessible \in SUBSET Nat /\ seen \in SUBSET Nat
      BY <2>1, <2>2, <2>5 DEF PrevRecords
    <2>7. PrevStep(g, INITIAL_STATE, {}, acc, i) \in
            {acc, [acc EXCEPT !.score[s] = SMALL_SCORE],
             [score |-> [acc.score EXCEPT ![s] = y], arc |-> [acc.arc EXCEPT ![s] = i],
              accessible |-> seen],
             [acc EXCEPT !.accessible = seen]}
      BY <2>2, <2>3, <2>5 DEF PrevStep
    <2>8. [acc EXCEPT !.score[s] = SMALL_SCORE] \in PrevRecords(g)
      BY <1>1, <2>6 DEF PrevRecords
    <2>9. [acc EXCEPT !.accessible = seen] \in PrevRecords(g)
      BY <2>6 DEF PrevRecords
    <2>10. [score |-> [acc.score EXCEPT ![s] = y], arc |-> [acc.arc EXCEPT ![s] = i],
              accessible |-> seen] \in PrevRecords(g)
      BY <2>1, <2>4, <2>6 DEF PrevRecords
    <2> QED BY <2>7, <2>8, <2>9, <2>10
  <1> QED BY <1>3, <1>4

(* In topological order, no arc enters a state that it, or an arc before it, leaves. *)
LEMMA NoneEntersWhatWasLeft ==
  ASSUME NEW g, IsBody(g), TopologicallyOrdered(g), NEW i \in Arcs(g), NEW j \in Arcs(g), j <= i
  PROVE  g.arcs[i].succ # g.arcs[j].pred
  <1>1. i \in Nat /\ j \in Nat
    BY GraphFacts
  <1> QED BY <1>1 DEF TopologicallyOrdered

(* One arc of the pass. *)
LEMMA PrevStepKeeps ==
  ASSUME NEW g, IsBody(g), TopologicallyOrdered(g), Grounded(g), NEW b, NEW L,
         ScoresWithin(g, b, L), NEW k \in 0 .. Len(g.arcs) - 1, NEW acc, PrevAfter(g, L, k, acc),
         NEW next, next = PrevStep(g, INITIAL_STATE, {}, acc, k + 1)
  PROVE  PrevAfter(g, L, k + 1, next)
  <1>1. PICK i : i = k + 1
    OBVIOUS
  <1>2. PICK n : n = Len(g.arcs)
    OBVIOUS
  <1>3. /\ n \in Nat /\ Arcs(g) = 1 .. n /\ i \in Arcs(g) /\ i \in Nat /\ k \in Nat /\ k < i
        /\ NonPruned(g) \subseteq Arcs(g)
        /\ \A j \in NonPruned(g) : j \in Nat /\ (j <= i <=> j <= k \/ j = i)
    BY <1>1, <1>2, GraphFacts
  <1>4. /\ SMALL_SCORE \in Int /\ b \in Nat /\ L[k] \in Nat /\ L[i] = L[k] + b /\ b <= L[i]
        /\ 2 * L[i] < -SMALL_SCORE /\ L[i] \in Nat
        /\ -b <= g.arcs[i].score /\ g.arcs[i].score <= b
    <2>1. k \in 0 .. Len(g.arcs) /\ i \in 0 .. Len(g.arcs)
      BY <1>1, <1>2, <1>3
    <2>2. b \in Nat /\ L[k] \in Nat /\ L[i] \in Nat /\ b <= L[i] /\ 2 * L[i] < -SMALL_SCORE
      BY <2>1 DEF ScoresWithin
    <2>3. L[i] = L[k] + b
      BY <1>1 DEF ScoresWithin
    <2>4. -b <= g.arcs[i].score /\ g.arcs[i].score <= b
      BY <1>3 DEF ScoresWithin
    <2> QED BY <2>2, <2>3, <2>4, SmallScore
  <1>5. PICK p, s, x : p = g.arcs[i].pred /\ s = g.arcs[i].succ /\ x = g.arcs[i].score
    OBVIOUS
  <1>6. /\ p \in States(g) /\ s \in States(g) /\ s \in Nat /\ p \in Nat /\ x \in Int
        /\ s # INITIAL_STATE /\ s # p
    BY <1>3, <1>5, GraphFacts, NoneEntersWhatWasLeft
  <1>7. /\ acc.score \in [States(g) -> Int] /\ acc.arc \in [States(g) -> Nat]
        /\ acc.accessible \in SUBSET Nat
    BY DEF PrevAfter, PrevRecords
  <1>8. CASE i \notin NonPruned(g)
    <2>1. next = acc
      BY <1>1, <1>8 DEF PrevStep
    <2>2. Entered(g, i) = Entered(g, k) /\ \A j \in NonPruned(g) : j <= i => j <= k
      BY <1>3, <1>8 DEF Entered
    <2>3. ASSUME NEW t \in {INITIAL_STATE} \cup Entered(g, k), t \in States(g)
          PROVE  -L[i] <= acc.score[t] /\ acc.score[t] <= L[i]
      <3>1. -L[k] <= acc.score[t] /\ acc.score[t] <= L[k] /\ acc.score[t] \in Int
        BY <2>3, <1>7 DEF PrevAfter
      <3> QED BY SMTT(40), <3>1, <1>4
    <2>4. PrevAfter(g, L, i, acc)
      BY <2>2, <2>3, <1>3 DEF PrevAfter
    <2> QED BY SMTT(40), <1>1, <2>1, <2>4
  <1>9. CASE i \in NonPruned(g)
    <2>1. p \in {INITIAL_STATE} \cup Entered(g, k)
      <3>1. CASE p = INITIAL_STATE
        BY <3>1
      <3>2. CASE p # INITIAL_STATE
        <4>1. PICK j \in NonPruned(g) : g.arcs[j].succ = p
          BY <1>5, <1>9, <3>2 DEF Grounded
        <4>2. j < i
          BY <1>3, <1>5, <4>1 DEF TopologicallyOrdered
        <4> QED BY <1>1, <1>3, <4>1, <4>2 DEF Entered
      <3> QED BY <3>1, <3>2
    <2>2. p \in acc.accessible
      BY <2>1 DEF PrevAfter
    <2>3. -L[k] <= acc.score[p] /\ acc.score[p] <= L[k] /\ acc.score[p] \in Int
      BY <2>1, <1>6, <1>7 DEF PrevAfter
    <2>4. PICK y \in Int : y = x + acc.score[p]
      BY <2>3, <1>6
    <2>5. -L[i] <= y /\ y <= L[i] /\ y > SMALL_SCORE
      <3>1. PICK l, m, z : l = L[k] /\ m = L[i] /\ z = acc.score[p]
        BY SMTT(40)
      <3>2. /\ l \in Int /\ m \in Int /\ z \in Int /\ x \in Int /\ b \in Int /\ SMALL_SCORE \in Int
            /\ m = l + b /\ -l <= z /\ z <= l /\ -b <= x /\ x <= b /\ y = x + z
            /\ 2 * m < -SMALL_SCORE /\ m >= 0
        BY SMTT(40), <3>1, <2>3, <2>4, <1>4, <1>5, <1>6
      <3>3. -m <= y /\ y <= m /\ y > SMALL_SCORE
        BY <3>2
      <3> QED BY <3>1, <3>3
    <2>6. AtLeastSmall(x + acc.score[p]) = y
      BY SMTT(40), <2>4, <2>5, <1>4 DEF AtLeastSmall
    <2>7. PICK seen : seen = acc.accessible \cup {s}
      OBVIOUS
    <2>8. next = IF y > acc.score[s]
                   THEN [score |-> [acc.score EXCEPT ![s] = y], arc |-> [acc.arc EXCEPT ![s] = i],
                         accessible |-> seen]
                 ELSE [acc EXCEPT !.accessible = seen]
      BY <1>1, <1>5, <1>9, <2>2, <2>6, <2>7 DEF PrevStep
    <2>9. Entered(g, i) = Entered(g, k) \cup {s}
      BY <1>3, <1>5, <1>9 DEF Entered
    <2>10. acc.score[s] \in Int /\ acc.arc[s] \in Nat
      BY <1>6, <1>7
    <2>11. next \in PrevRecords(g)
      <3>1. acc \in PrevRecords(g) /\ i \in 1 .. Len(g.arcs)
        BY <1>2, <1>3 DEF PrevAfter
      <3> QED BY <1>1, <3>1, PrevStepType
    <2>12. next.accessible = {INITIAL_STATE} \cup Entered(g, i)
      <3>1. next.accessible = seen
        BY <2>8 DEF PrevAfter, PrevRecords
      <3>2. acc.accessible = {INITIAL_STATE} \cup Entered(g, k)
        BY DEF PrevAfter
      <3> QED BY <3>1, <3>2, <2>7, <2>9
    <2>13. \A t \in States(g) : t # s => next.score[t] = acc.score[t] /\ next.arc[t] = acc.arc[t]
      BY SMTT(40), <2>8, <1>7 DEF PrevAfter, PrevRecords
    <2>14. next.score[s] = IF y > acc.score[s] THEN y ELSE acc.score[s]
      <3>1. CASE y > acc.score[s]
        <4>1. next.score = [acc.score EXCEPT ![s] = y]
          BY <2>8, <3>1
        <4> QED BY <3>1, <4>1, <1>6, <1>7
      <3>2. CASE ~(y > acc.score[s])
        <4>1. next.score = acc.score
          BY <2>8, <3>2 DEF PrevAfter, PrevRecords
        <4> QED BY <3>2, <4>1
      <3> QED BY <3>1, <3>2
    <2>15. next.arc[s] = IF y > acc.score[s] THEN i ELSE acc.arc[s]
      <3>1. CASE y > acc.score[s]
        <4>1. next.arc = [acc.arc EXCEPT ![s] = i]
          BY <2>8, <3>1
        <4> QED BY <3>1, <4>1, <1>6, <1>7
      <3>2. CASE ~(y > acc.score[s])
        <4>1. next.arc = acc.arc
          BY <2>8, <3>2 DEF PrevAfter, PrevRecords
        <4> QED BY <3>2, <4>1
      <3> QED BY <3>1, <3>2
    <2>16. next.score[s] \in Int /\ next.score[s] >= y /\ next.score[s] >= acc.score[s]
      BY SMTT(40), <2>4, <2>10, <2>14
    <2>17. s \notin Entered(g, k) => y > acc.score[s]
      <3>1. s \notin Entered(g, k) => acc.score[s] = SMALL_SCORE
        BY <1>6 DEF PrevAfter
      <3> QED BY <3>1, <2>5
    <2>18. ASSUME NEW t \in States(g) \ Entered(g, i)
           PROVE  /\ next.arc[t] = 0
                  /\ next.score[t] = IF t = INITIAL_STATE THEN g.initialStateScore ELSE SMALL_SCORE
      <3>1. t # s /\ t \notin Entered(g, k)
        BY <2>9
      <3> QED BY <3>1, <2>13 DEF PrevAfter
    <2>19. ASSUME NEW j \in NonPruned(g), j <= i
           PROVE  next.score[g.arcs[j].pred] = acc.score[g.arcs[j].pred]
      <3>1. g.arcs[j].pred # s /\ g.arcs[j].pred \in States(g)
        BY <1>3, <1>5, <2>19, NoneEntersWhatWasLeft, GraphFacts
      <3> QED BY <3>1, <2>13
    <2>20. ASSUME NEW t \in Entered(g, i)
           PROVE  /\ next.arc[t] \in NonPruned(g) /\ next.arc[t] <= i /\ g.arcs[next.arc[t]].succ = t
                  /\ next.score[t] = next.score[g.arcs[next.arc[t]].pred] + g.arcs[next.arc[t]].score
      <3>1. CASE t = s /\ y > acc.score[s]
        <4>1. next.arc[t] = i /\ next.score[t] = y
          BY <3>1, <2>14, <2>15
        <4>2. next.score[p] = acc.score[p]
          BY SMTT(40), <1>3, <1>5, <1>9, <2>19
        <4>3. next.arc[t] \in NonPruned(g) /\ next.arc[t] <= i /\ g.arcs[next.arc[t]].succ = t
          BY <4>1, <3>1, <1>3, <1>5, <1>9
        <4>4. g.arcs[next.arc[t]].pred = p /\ g.arcs[next.arc[t]].score = x
          BY <4>1, <1>5
        <4>5. next.score[t] = next.score[p] + x
          BY SMTT(40), <4>1, <4>2, <1>6, <2>3, <2>4
        <4> QED BY <4>3, <4>4, <4>5
      <3>2. CASE ~(t = s /\ y > acc.score[s])
        <4>1. t \in Entered(g, k) /\ t \in States(g)
          BY <3>2, <2>9, <2>17, <1>3, GraphFacts DEF Entered
        <4>2. next.arc[t] = acc.arc[t] /\ next.score[t] = acc.score[t]
          BY <3>2, <4>1, <2>13, <2>14, <2>15
        <4>3. /\ acc.arc[t] \in NonPruned(g) /\ acc.arc[t] <= k /\ g.arcs[acc.arc[t]].succ = t
              /\ acc.score[t] = acc.score[g.arcs[acc.arc[t]].pred] + g.arcs[acc.arc[t]].score
          BY <4>1 DEF PrevAfter
        <4>4. acc.arc[t] <= i
          BY SMTT(40), <4>3, <1>3
        <4>5. next.score[g.arcs[acc.arc[t]].pred] = acc.score[g.arcs[acc.arc[t]].pred]
          BY <4>3, <4>4, <2>19
        <4> QED BY <4>2, <4>3, <4>4, <4>5
      <3> QED BY <3>1, <3>2
    <2>21. ASSUME NEW j \in NonPruned(g), j <= i
           PROVE  next.score[g.arcs[j].succ] >= next.score[g.arcs[j].pred] + g.arcs[j].score
      <3>1. next.score[g.arcs[j].pred] = acc.score[g.arcs[j].pred]
        BY SMTT(40), <2>19, <2>21
      <3>2. CASE j = i
        BY SMTT(40), <3>1, <3>2, <1>5, <1>6, <2>3, <2>4, <2>16
      <3>3. CASE j <= k
        <4>1. PICK q, r, z : q = g.arcs[j].pred /\ r = g.arcs[j].succ /\ z = g.arcs[j].score
          OBVIOUS
        <4>2. q \in States(g) /\ r \in States(g) /\ z \in Int
          BY <4>1, <1>3, GraphFacts
        <4>3. acc.score[r] >= acc.score[q] + z
          BY <4>1, <3>3 DEF PrevAfter
        <4>4. next.score[r] >= acc.score[r] /\ next.score[r] \in Int
          BY SMTT(40), <4>2, <2>13, <2>16, <1>7
        <4>5. acc.score[r] \in Int /\ acc.score[q] \in Int
          BY <4>2, <1>7
        <4> QED BY SMTT(40), <3>1, <4>1, <4>2, <4>3, <4>4, <4>5
      <3> QED BY <3>2, <3>3, <2>21, <1>3
    <2>22. ASSUME NEW t \in {INITIAL_STATE} \cup Entered(g, i), t \in States(g)
           PROVE  -L[i] <= next.score[t] /\ next.score[t] <= L[i]
      <3>1. CASE t = s /\ y > acc.score[s]
        BY <3>1, <2>5, <2>14
      <3>2. CASE ~(t = s /\ y > acc.score[s])
        <4>1. t \in {INITIAL_STATE} \cup Entered(g, k) /\ next.score[t] = acc.score[t]
          BY SMTT(40), <2>22, <3>2, <2>9, <2>13, <2>14, <2>17
        <4>2. -L[k] <= acc.score[t] /\ acc.score[t] <= L[k] /\ acc.score[t] \in Int
          BY <4>1, <2>22, <1>7 DEF PrevAfter
        <4>3. PICK l, m, z : l = L[k] /\ m = L[i] /\ z = acc.score[t]
          OBVIOUS
        <4>4. /\ l \in Int /\ m \in Int /\ z \in Int /\ b \in Int /\ b >= 0
              /\ m = l + b /\ -l <= z /\ z <= l
          BY <4>2, <4>3, <1>4
        <4>5. -m <= z /\ z <= m
          BY <4>4
        <4> QED BY <4>1, <4>3, <4>5
      <3> QED BY <3>1, <3>2
    <2> QED BY <1>1, <2>11, <2>12, <2>18, <2>20, <2>21, <2>22 DEF PrevAfter
  <1> QED BY <1>8, <1>9

(* The whole pass. *)
LEMMA PrevScoresFit ==
  ASSUME NEW g, IsBody(g), TopologicallyOrdered(g), Grounded(g), NEW b, NEW L,
         ScoresWithin(g, b, L)
  PROVE  PrevAfter(g, L, Len(g.arcs), PrevScores(g, INITIAL_STATE, {}))
  <1>1. PICK n : n = Len(g.arcs)
    OBVIOUS
  <1>2. n \in Nat /\ DOMAIN g.arcs = 1 .. n /\ \A j \in NonPruned(g) : j \in 1 .. n
    BY <1>1, GraphFacts
  <1>3. PrevStart(g, INITIAL_STATE) \in PrevRecords(g)
    BY PrevStepType
  <1>4. \A a \in PrevRecords(g), i \in 1 .. n :
          PrevStep(g, INITIAL_STATE, {}, a, i) \in PrevRecords(g)
    BY <1>1, PrevStepType
  <1>10. PICK acc : PrevScoresRows(g, INITIAL_STATE, {}, n, PrevRecords(g), acc)
    BY <1>2, <1>3, <1>4, PrevScoresByArcs, Zenon
  <1>5. /\ \A k \in 0 .. n : acc[k] \in PrevRecords(g)
        /\ acc[0] = PrevStart(g, INITIAL_STATE) /\ acc[n] = PrevScores(g, INITIAL_STATE, {})
        /\ \A k \in 0 .. n - 1 :
             acc[k + 1] = PrevStep(g, INITIAL_STATE, {}, acc[k], k + 1)
    BY <1>10 DEF PrevScoresRows
  <1> DEFINE G == {k \in 0 .. n : PrevAfter(g, L, k, acc[k])}
  <1>6. PrevAfter(g, L, 0, acc[0])
    <2>1. Entered(g, 0) = {} /\ \A j \in NonPruned(g) : ~(j <= 0)
      BY <1>2 DEF Entered
    <2>2. acc[0] = [score |-> [s \in States(g) |->
                       IF s # INITIAL_STATE THEN SMALL_SCORE ELSE g.initialStateScore],
                    arc |-> [s \in States(g) |-> 0], accessible |-> {INITIAL_STATE}]
      BY <1>5 DEF PrevStart
    <2>3. INITIAL_STATE \in States(g) =>
            -L[0] <= acc[0].score[INITIAL_STATE] /\ acc[0].score[INITIAL_STATE] <= L[0]
      <3>1. /\ b \in Nat /\ L[0] \in Nat /\ b <= L[0] /\ g.initialStateScore \in Int
            /\ -b <= g.initialStateScore /\ g.initialStateScore <= b
        <4>1. 0 \in 0 .. Len(g.arcs)
          BY <1>1, <1>2
        <4> QED BY <4>1, GraphFacts DEF ScoresWithin
      <3>2. INITIAL_STATE \in States(g) => acc[0].score[INITIAL_STATE] = g.initialStateScore
        BY <2>2
      <3> QED BY <3>1, <3>2
    <2>4. acc[0] \in PrevRecords(g)
      BY <1>3, <1>5
    <2> QED BY <2>1, <2>2, <2>3, <2>4 DEF PrevAfter
  <1>7. ASSUME NEW k \in 0 .. n - 1, PrevAfter(g, L, k, acc[k])
        PROVE  PrevAfter(g, L, k + 1, acc[k + 1])
    <2>1. k \in 0 .. Len(g.arcs) - 1
      BY <1>1
    <2>2. acc[k + 1] = PrevStep(g, INITIAL_STATE, {}, acc[k], k + 1)
      BY <1>5
    <2> QED BY <1>7, <2>1, <2>2, PrevStepKeeps
  <1>8. 0 .. n \subseteq G
    <2>1. 0 \in G /\ \A k \in 0 .. n - 1 : k \in G => k + 1 \in G
      BY <1>2, <1>6, <1>7
    <2> HIDE DEF G
    <2> QED BY <1>2, <2>1, InductionUpTo
  <1>9. n \in 0 .. n
    BY <1>2
  <1> QED BY <1>1, <1>5, <1>8, <1>9

-----------------------------------------------------------------------------
(* Paths and their scores.                                                 *)

\* q is a path of arcs of N that starts at s.
PathFrom(g, N, s, q) ==
  /\ q \in Seq(N)
  /\ q # <<>> => g.arcs[q[1]].pred = s
  /\ \A k \in 1 .. Len(q) - 1 : g.arcs[q[k]].succ = g.arcs[q[k + 1]].pred

\* Where it ends.
EndFrom(g, s, q) == IF q = <<>> THEN s ELSE g.arcs[q[Len(q)]].succ

(* The scores of a path and of its beginnings. *)
LEMMA ScoresAlongPath ==
  ASSUME NEW g, IsBody(g), NEW q \in Seq(Arcs(g))
  PROVE  \E acc : PathScoreRows(g, q, Len(q), Int, acc)
  <1>1. PICK n : n = Len(q)
    OBVIOUS
  <1>2. n \in Nat /\ DOMAIN q = 1 .. n /\ \A i \in 1 .. n : q[i] \in Arcs(g)
    BY <1>1
  <1>3. g.initialStateScore \in Int
    BY GraphFacts
  <1>4. \A a \in Int, i \in 1 .. n : PathStep(g, a, q[i]) \in Int
    <2> SUFFICES ASSUME NEW a \in Int, NEW i \in 1 .. n PROVE PathStep(g, a, q[i]) \in Int
      OBVIOUS
    <2>1. g.arcs[q[i]].score \in Int
      BY <1>2, GraphFacts
    <2> QED BY <2>1 DEF PathStep
  <1>5. \E acc : PathScoreRows(g, q, n, Int, acc)
    BY <1>2, <1>3, <1>4, PathScoreByArcs, Zenon
  <1> QED BY <1>1, <1>5

(* The score of no arc. *)
LEMMA ScoreOfNoArc ==
  ASSUME NEW g, IsBody(g)
  PROVE  PathScore(g, <<>>) = g.initialStateScore
  <1>1. <<>> \in Seq(Arcs(g)) /\ Len(<<>>) = 0
    OBVIOUS
  <1>2. PICK acc : PathScoreRows(g, <<>>, 0, Int, acc)
    BY <1>1, ScoresAlongPath
  <1> QED BY <1>2 DEF PathScoreRows

(* The score of a path. *)
LEMMA ScoreIsNumber ==
  ASSUME NEW g, IsBody(g), NEW q \in Seq(Arcs(g))
  PROVE  PathScore(g, q) \in Int
  <1>1. PICK acc : PathScoreRows(g, q, Len(q), Int, acc)
    BY ScoresAlongPath
  <1>2. Len(q) \in 0 .. Len(q)
    OBVIOUS
  <1> QED BY <1>1, <1>2 DEF PathScoreRows

(* The score of a path with one arc more at its end. *)
LEMMA ScoreOfLonger ==
  ASSUME NEW g, IsBody(g), NEW q \in Seq(Arcs(g)), NEW i \in Arcs(g)
  PROVE  PathScore(g, Append(q, i)) = PathScore(g, q) + g.arcs[i].score
  <1>1. PICK n, r : n = Len(q) /\ r = Append(q, i)
    OBVIOUS
  <1>2. n \in Nat /\ r \in Seq(Arcs(g)) /\ Len(r) = n + 1 /\ r[n + 1] = i
        /\ \A k \in 1 .. n : r[k] = q[k]
    BY <1>1
  <1>3. PICK a : PathScoreRows(g, q, n, Int, a)
    BY <1>1, ScoresAlongPath
  <1>4. PICK c : PathScoreRows(g, r, n + 1, Int, c)
    BY <1>2, ScoresAlongPath
  <1> DEFINE G == {k \in 0 .. n : c[k] = a[k]}
  <1>5. 0 .. n \subseteq G
    <2>1. 0 \in G
      BY <1>2, <1>3, <1>4 DEF PathScoreRows
    <2>2. ASSUME NEW k \in 0 .. n - 1, k \in G
          PROVE  k + 1 \in G
      <3>1. r[k + 1] = q[k + 1] /\ k \in 0 .. (n + 1) - 1 /\ k + 1 \in 0 .. n
        BY <1>2
      <3>2. a[k + 1] = PathStep(g, a[k], q[k + 1]) /\ c[k + 1] = PathStep(g, c[k], r[k + 1])
        BY <1>3, <1>4, <3>1 DEF PathScoreRows
      <3> QED BY <2>2, <3>1, <3>2
    <2> HIDE DEF G
    <2> QED BY <1>2, <2>1, <2>2, InductionUpTo
  <1>6. c[n] = a[n] /\ n \in 0 .. (n + 1) - 1
    BY <1>2, <1>5
  <1>7. c[n + 1] = PathStep(g, c[n], r[n + 1])
    BY <1>4, <1>6 DEF PathScoreRows
  <1>8. PathScore(g, r) = c[n + 1] /\ PathScore(g, q) = a[n]
    BY <1>3, <1>4 DEF PathScoreRows
  <1> QED BY <1>1, <1>2, <1>6, <1>7, <1>8 DEF PathStep

(* The score of a path with one arc more before it. *)
LEMMA ScoreOfEarlier ==
  ASSUME NEW g, IsBody(g), NEW q \in Seq(Arcs(g)), NEW i \in Arcs(g)
  PROVE  PathScore(g, <<i>> \o q) = g.arcs[i].score + PathScore(g, q)
  <1>1. PICK n, r : n = Len(q) /\ r = <<i>> \o q
    OBVIOUS
  <1>2. n \in Nat /\ r \in Seq(Arcs(g)) /\ Len(r) = n + 1 /\ r[1] = i
        /\ \A k \in 1 .. n : r[k + 1] = q[k]
    BY <1>1
  <1>3. PICK a : PathScoreRows(g, q, n, Int, a)
    BY <1>1, ScoresAlongPath
  <1>4. PICK c : PathScoreRows(g, r, n + 1, Int, c)
    BY <1>2, ScoresAlongPath
  <1>5. PICK x : x = g.arcs[i].score
    OBVIOUS
  <1>6. x \in Int
    BY <1>5, GraphFacts
  <1> DEFINE G == {k \in 0 .. n : c[k + 1] = x + a[k]}
  <1>7. 0 .. n \subseteq G
    <2>1. 0 \in G
      <3>1. 0 \in 0 .. (n + 1) - 1 /\ 0 \in 0 .. n
        BY <1>2
      <3>2. c[0 + 1] = PathStep(g, c[0], r[0 + 1]) /\ c[0] = a[0] /\ a[0] \in Int
        BY <1>3, <1>4, <3>1 DEF PathScoreRows
      <3> QED BY <1>2, <1>5, <1>6, <3>1, <3>2 DEF PathStep
    <2>2. ASSUME NEW k \in 0 .. n - 1, k \in G
          PROVE  k + 1 \in G
      <3>1. k + 1 \in 1 .. n /\ k \in 0 .. n /\ k + 1 \in 0 .. n /\ k + 1 \in 0 .. (n + 1) - 1
        BY <1>2
      <3>2. r[k + 1 + 1] = q[k + 1] /\ q[k + 1] \in Arcs(g)
        BY <1>1, <1>2, <3>1
      <3>3. a[k + 1] = PathStep(g, a[k], q[k + 1])
        BY <1>3 DEF PathScoreRows
      <3>4. c[k + 1 + 1] = PathStep(g, c[k + 1], r[k + 1 + 1])
        BY <1>4, <3>1 DEF PathScoreRows
      <3>5. c[k + 1] = x + a[k] /\ a[k] \in Int
        BY <2>2, <1>3, <3>1 DEF PathScoreRows
      <3>6. PICK y : y = g.arcs[q[k + 1]].score
        OBVIOUS
      <3>7. y \in Int
        BY <3>2, <3>6, GraphFacts
      <3>8. a[k + 1] = a[k] + y /\ c[k + 1 + 1] = x + a[k] + y
        BY <3>2, <3>3, <3>4, <3>5, <3>6 DEF PathStep
      <3> QED BY <1>6, <3>1, <3>5, <3>7, <3>8
    <2> HIDE DEF G
    <2> QED BY <1>2, <2>1, <2>2, InductionUpTo
  <1>8. PathScore(g, r) = c[n + 1] /\ PathScore(g, q) = a[n]
    BY <1>3, <1>4 DEF PathScoreRows
  <1>9. n \in 0 .. n
    BY <1>2
  <1> QED BY <1>1, <1>5, <1>7, <1>8, <1>9

(* A path with one arc more at its end. *)
LEMMA LongerPath ==
  ASSUME NEW g, NEW N, NEW s, NEW q, PathFrom(g, N, s, q), NEW i \in N,
         g.arcs[i].pred = EndFrom(g, s, q)
  PROVE  /\ PathFrom(g, N, s, Append(q, i)) /\ EndFrom(g, s, Append(q, i)) = g.arcs[i].succ
         /\ Append(q, i) # <<>>
  <1>1. PICK n, r : n = Len(q) /\ r = Append(q, i)
    OBVIOUS
  <1>2. q \in Seq(N)
    BY DEF PathFrom
  <1>3. /\ n \in Nat /\ r \in Seq(N) /\ Len(r) = n + 1 /\ r[n + 1] = i /\ r # <<>>
        /\ \A k \in 1 .. n : r[k] = q[k]
    BY <1>1, <1>2
  <1>4. g.arcs[r[1]].pred = s
    <2>1. CASE n = 0
      <3>1. q = <<>>
        BY <1>1, <1>2, <2>1, EmptySeq
      <3> QED BY <3>1, <1>3, <2>1 DEF EndFrom
    <2>2. CASE n # 0
      <3>1. q # <<>> /\ 1 \in 1 .. n
        BY <1>1, <1>3, <2>2
      <3> QED BY <3>1, <1>3 DEF PathFrom
    <2> QED BY <2>1, <2>2
  <1>5. ASSUME NEW k \in 1 .. Len(r) - 1 PROVE g.arcs[r[k]].succ = g.arcs[r[k + 1]].pred
    <2>1. CASE k = n
      <3>1. q # <<>> /\ n \in 1 .. n
        BY <1>1, <1>3, <2>1
      <3> QED BY <3>1, <1>1, <1>3, <2>1 DEF EndFrom
    <2>2. CASE k # n
      <3>1. k \in 1 .. n /\ k + 1 \in 1 .. n /\ k \in 1 .. Len(q) - 1
        BY <1>1, <1>3, <2>2
      <3> QED BY <3>1, <1>3 DEF PathFrom
    <2> QED BY <2>1, <2>2
  <1>6. PathFrom(g, N, s, r)
    BY <1>3, <1>4, <1>5 DEF PathFrom
  <1>7. EndFrom(g, s, r) = g.arcs[i].succ
    BY <1>3 DEF EndFrom
  <1> QED BY <1>1, <1>3, <1>6, <1>7

\* The path q from s is the path r and arc i.
LongerBy(g, N, s, q, r, i) ==
  /\ q = Append(r, i) /\ PathFrom(g, N, s, r) /\ i \in N
  /\ g.arcs[i].pred = EndFrom(g, s, r) /\ Len(q) = Len(r) + 1
  /\ EndFrom(g, s, q) = g.arcs[i].succ /\ i = q[Len(q)]

(* A path without its last arc. *)
LEMMA ShorterPath ==
  ASSUME NEW g, NEW N, NEW s, NEW q, PathFrom(g, N, s, q), q # <<>>
  PROVE  \E r, i : LongerBy(g, N, s, q, r, i)
  <1>1. PICK n : n = Len(q) - 1
    OBVIOUS
  <1>2. q \in Seq(N)
    BY DEF PathFrom
  <1>3. PICK r, i : r = SubSeq(q, 1, n) /\ i = q[n + 1]
    OBVIOUS
  <1>4. /\ n \in Nat /\ Len(q) = n + 1 /\ r \in Seq(N) /\ Len(r) = n /\ i \in N
        /\ \A k \in 1 .. n : r[k] = q[k]
    BY <1>1, <1>2, <1>3
  <1>5. q = Append(r, i)
    <2>1. Append(r, i) \in Seq(N) /\ Len(Append(r, i)) = n + 1
          /\ \A k \in 1 .. n + 1 : Append(r, i)[k] = q[k]
      BY <1>3, <1>4
    <2> QED BY <1>2, <1>4, <2>1, SeqEqual
  <1>6. PathFrom(g, N, s, r)
    <2>1. r # <<>> => g.arcs[r[1]].pred = s
      BY <1>4 DEF PathFrom
    <2>2. ASSUME NEW k \in 1 .. Len(r) - 1 PROVE g.arcs[r[k]].succ = g.arcs[r[k + 1]].pred
      <3>1. k \in 1 .. Len(q) - 1 /\ k \in 1 .. n /\ k + 1 \in 1 .. n
        BY <1>4
      <3> QED BY <3>1, <1>4 DEF PathFrom
    <2> QED BY <1>4, <2>1, <2>2 DEF PathFrom
  <1>7. g.arcs[i].pred = EndFrom(g, s, r)
    <2>1. CASE n = 0
      BY <2>1, <1>3, <1>4 DEF PathFrom, EndFrom
    <2>2. CASE n # 0
      <3>1. n \in 1 .. Len(q) - 1 /\ r # <<>> /\ r[n] = q[n]
        BY <2>2, <1>4
      <3> QED BY <3>1, <1>3, <1>4 DEF PathFrom, EndFrom
    <2> QED BY <2>1, <2>2
  <1>8. EndFrom(g, s, q) = g.arcs[i].succ
    BY <1>3, <1>4 DEF EndFrom
  <1> QED BY <1>3, <1>4, <1>5, <1>6, <1>7, <1>8 DEF LongerBy

(* A path with one arc more before it. *)
LEMMA EarlierPath ==
  ASSUME NEW g, NEW N, NEW i \in N, NEW q, PathFrom(g, N, g.arcs[i].succ, q)
  PROVE  /\ PathFrom(g, N, g.arcs[i].pred, <<i>> \o q) /\ <<i>> \o q # <<>>
         /\ EndFrom(g, g.arcs[i].pred, <<i>> \o q) = EndFrom(g, g.arcs[i].succ, q)
  <1>1. PICK n, r : n = Len(q) /\ r = <<i>> \o q
    OBVIOUS
  <1>2. q \in Seq(N)
    BY DEF PathFrom
  <1>3. /\ n \in Nat /\ r \in Seq(N) /\ Len(r) = n + 1 /\ r[1] = i /\ r # <<>>
        /\ \A k \in 1 .. n : r[k + 1] = q[k]
    BY <1>1, <1>2
  <1>4. ASSUME NEW k \in 1 .. Len(r) - 1 PROVE g.arcs[r[k]].succ = g.arcs[r[k + 1]].pred
    <2>1. CASE k = 1
      <3>1. q # <<>> /\ 1 \in 1 .. n
        BY <1>1, <1>2, <1>3, <2>1
      <3> QED BY <3>1, <1>3, <2>1 DEF PathFrom
    <2>2. CASE k # 1
      <3>1. k - 1 \in 1 .. Len(q) - 1 /\ k - 1 \in 1 .. n /\ k \in 1 .. n /\ k - 1 + 1 = k
        BY <1>1, <1>3, <2>2
      <3> QED BY ZenonT(60), <3>1, <1>3 DEF PathFrom
    <2> QED BY <2>1, <2>2
  <1>5. PathFrom(g, N, g.arcs[i].pred, r)
    BY <1>3, <1>4 DEF PathFrom
  <1>6. EndFrom(g, g.arcs[i].pred, r) = EndFrom(g, g.arcs[i].succ, q)
    <2>1. CASE n = 0
      <3>1. q = <<>>
        BY <2>1, <1>1, <1>2
      <3> QED BY <2>1, <3>1, <1>3 DEF EndFrom
    <2>2. CASE n # 0
      <3>1. n \in 1 .. n /\ q # <<>> /\ r[n + 1] = q[n]
        BY <2>2, <1>1, <1>3
      <3> QED BY <3>1, <1>1, <1>3 DEF EndFrom
    <2> QED BY <2>1, <2>2
  <1> QED BY <1>1, <1>3, <1>5, <1>6

(* In topological order, the arcs of a path are in order, and it is no longer
   than the graph has arcs. *)
LEMMA PathsAreShort ==
  ASSUME NEW g, IsBody(g), TopologicallyOrdered(g), NEW N \in SUBSET Arcs(g), NEW s, NEW q,
         PathFrom(g, N, s, q)
  PROVE  /\ Len(q) <= Len(g.arcs) /\ Len(q) \in Nat
         /\ \A j, k \in 1 .. Len(q) : j < k => q[j] < q[k]
  <1>1. PICK n, m : n = Len(q) /\ m = Len(g.arcs)
    OBVIOUS
  <1>2. q \in Seq(N)
    BY DEF PathFrom
  <1>3. n \in Nat /\ m \in Nat /\ \A k \in 1 .. n : q[k] \in 1 .. m /\ q[k] \in Arcs(g)
    BY SMTT(40), <1>1, <1>2, GraphFacts
  <1>4. ASSUME NEW k \in 1 .. n - 1 PROVE q[k] < q[k + 1]
    <2>1. k \in 1 .. n /\ k + 1 \in 1 .. n
      BY <1>3
    <2>2. g.arcs[q[k]].succ = g.arcs[q[k + 1]].pred
      BY <1>1 DEF PathFrom
    <2> QED BY <1>3, <2>1, <2>2 DEF TopologicallyOrdered
  <1> DEFINE P(k) == (k # 0 => q[k] >= k) /\ \A j \in 1 .. k : j < k => q[j] < q[k]
             G == {k \in 0 .. n : P(k)}
  <1>5. P(0)
    OBVIOUS
  <1>6. ASSUME NEW k \in 0 .. n - 1, P(k)
        PROVE  P(k + 1)
    <2>1. CASE k = 0
      BY <2>1, <1>3
    <2>2. CASE k # 0
      <3>1. k \in 1 .. n - 1 /\ k \in 1 .. n /\ k + 1 \in 1 .. n
        BY <2>2, <1>3
      <3>2. q[k] < q[k + 1] /\ q[k] \in Nat /\ q[k + 1] \in Nat
        BY <1>3, <1>4, <3>1
      <3>3. q[k] >= k
        BY <1>6, <2>2
      <3>4. q[k + 1] >= k + 1
        BY <3>1, <3>2, <3>3
      <3>5. ASSUME NEW j \in 1 .. k + 1, j < k + 1
            PROVE  q[j] < q[k + 1]
        <4>1. CASE j = k
          BY <4>1, <3>2
        <4>2. CASE j # k
          <5>1. j \in 1 .. k /\ j < k /\ j \in 1 .. n
            BY <3>5, <4>2, <3>1, <1>3
          <5>2. q[j] < q[k] /\ q[j] \in Nat
            BY <1>3, <1>6, <5>1
          <5> QED BY <3>2, <5>2
        <4> QED BY <4>1, <4>2
      <3> QED BY <3>4, <3>5
    <2> QED BY <2>1, <2>2
  <1> HIDE DEF P
  <1>7. 0 .. n \subseteq G
    <2>1. 0 \in G /\ \A k \in 0 .. n - 1 : k \in G => k + 1 \in G
      BY <1>3, <1>5, <1>6
    <2> HIDE DEF G
    <2> QED BY <1>3, <2>1, InductionUpTo
  <1>8. ASSUME NEW j \in 1 .. n, NEW k \in 1 .. n, j < k PROVE q[j] < q[k]
    <2>1. k \in 0 .. n /\ j \in 1 .. k
      BY <1>3, <1>8
    <2> QED BY <1>7, <1>8, <2>1 DEF P
  <1>9. n <= m
    <2>1. CASE n = 0
      BY <2>1, <1>3
    <2>2. CASE n # 0
      <3>1. n \in 0 .. n /\ n \in 1 .. n
        BY <2>2, <1>3
      <3>2. q[n] >= n
        BY <1>7, <2>2, <3>1 DEF P
      <3>3. q[n] \in 1 .. m
        BY <1>3, <3>1
      <3> QED BY <1>3, <3>2, <3>3
    <2> QED BY <2>1, <2>2
  <1> QED BY <1>1, <1>3, <1>8, <1>9

(* The state that a hypothesis has. *)
LEMMA LastStateIsEnd ==
  ASSUME NEW g, NEW q, NEW h, h.arcs = q, NEW S, q \in Seq(S)
  PROVE  LastState(g, h) = EndFrom(g, INITIAL_STATE, q)
  BY DEF LastState, EndFrom, Last

\* The paths of k arcs that start at INITIAL_STATE.
PathsOfLength(g, N, k) == {q \in Seq(N) : PathFrom(g, N, INITIAL_STATE, q) /\ Len(q) = k}

(* Paths of k + 1 arcs are those of k arcs with one more. *)
LEMMA PathsByLength ==
  ASSUME NEW g, NEW N, NEW k \in Nat
  PROVE  /\ PathsOfLength(g, N, 0) = {<<>>}
         /\ PathsOfLength(g, N, k + 1) =
              {Append(pi[1], pi[2]) : pi \in
                {qi \in PathsOfLength(g, N, k) \X N :
                   g.arcs[qi[2]].pred = LastState(g, [arcs |-> qi[1]])}}
  <1>1. PathsOfLength(g, N, 0) = {<<>>}
    <2>1. <<>> \in Seq(N) /\ Len(<<>>) = 0 /\ PathFrom(g, N, INITIAL_STATE, <<>>)
      BY DEF PathFrom
    <2>2. \A q \in Seq(N) : Len(q) = 0 => q = <<>>
      BY EmptySeq
    <2> QED BY <2>1, <2>2 DEF PathsOfLength
  <1> DEFINE R == {Append(pi[1], pi[2]) : pi \in
                {qi \in PathsOfLength(g, N, k) \X N :
                   g.arcs[qi[2]].pred = LastState(g, [arcs |-> qi[1]])}}
  <1>2. ASSUME NEW q, NEW S, q \in Seq(S)
        PROVE  LastState(g, [arcs |-> q]) = EndFrom(g, INITIAL_STATE, q)
    <2>1. PICK h : h = [arcs |-> q]
      OBVIOUS
    <2>2. h.arcs = q
      BY <2>1
    <2> QED BY <1>2, <2>1, <2>2, LastStateIsEnd
  <1>3. ASSUME NEW q \in PathsOfLength(g, N, k + 1)
        PROVE  q \in R
    <2>1. PathFrom(g, N, INITIAL_STATE, q) /\ Len(q) = k + 1 /\ q # <<>>
      BY DEF PathsOfLength
    <2>11. PICK r, i : LongerBy(g, N, INITIAL_STATE, q, r, i)
      BY <2>1, ShorterPath, Zenon
    <2>2. /\ q = Append(r, i) /\ PathFrom(g, N, INITIAL_STATE, r) /\ i \in N
          /\ g.arcs[i].pred = EndFrom(g, INITIAL_STATE, r) /\ Len(q) = Len(r) + 1
      BY <2>11 DEF LongerBy
    <2>3. r \in Seq(N) /\ Len(r) = k
      BY <2>1, <2>2 DEF PathFrom
    <2>4. r \in PathsOfLength(g, N, k)
      BY <2>2, <2>3 DEF PathsOfLength
    <2>5. g.arcs[i].pred = LastState(g, [arcs |-> r])
      BY <1>2, <2>2, <2>3
    <2>6. PICK qi : qi = <<r, i>>
      OBVIOUS
    <2>7. qi[1] = r /\ qi[2] = i /\ qi \in PathsOfLength(g, N, k) \X N
      BY <2>2, <2>4, <2>6
    <2> QED BY <2>2, <2>5, <2>7
  <1>4. ASSUME NEW q \in R
        PROVE  q \in PathsOfLength(g, N, k + 1)
    <2>1. PICK qi \in PathsOfLength(g, N, k) \X N :
            q = Append(qi[1], qi[2]) /\ g.arcs[qi[2]].pred = LastState(g, [arcs |-> qi[1]])
      OBVIOUS
    <2>2. PICK r, i : r = qi[1] /\ i = qi[2]
      OBVIOUS
    <2>3. r \in PathsOfLength(g, N, k) /\ i \in N /\ q = Append(r, i)
          /\ g.arcs[i].pred = LastState(g, [arcs |-> r])
      BY <2>1, <2>2
    <2> HIDE DEF R
    <2>4. r \in Seq(N) /\ Len(r) = k /\ PathFrom(g, N, INITIAL_STATE, r)
      BY <2>3 DEF PathsOfLength
    <2>5. g.arcs[i].pred = EndFrom(g, INITIAL_STATE, r)
      BY <1>2, <2>3, <2>4
    <2>6. PathFrom(g, N, INITIAL_STATE, q)
      BY <2>3, <2>4, <2>5, LongerPath
    <2>7. q \in Seq(N) /\ Len(q) = k + 1
      BY <2>3, <2>4
    <2> QED BY <2>6, <2>7 DEF PathsOfLength
  <1> HIDE DEF R
  <1>5. PathsOfLength(g, N, k + 1) = R
    BY <1>3, <1>4
  <1> QED BY <1>1, <1>5 DEF R

(* The paths over some arcs. *)
LEMMA PathsOverAre ==
  ASSUME NEW g, IsBody(g), NEW N
  PROVE  \A q : q \in PathsOver(g, N) <=>
                  PathFrom(g, N, INITIAL_STATE, q) /\ Len(q) <= Len(g.arcs)
  <1>1. PICK n : n = Len(g.arcs)
    OBVIOUS
  <1>2. n \in Nat
    BY <1>1, GraphFacts
  <1> DEFINE More(Q) == {Append(pi[1], pi[2]) : pi \in
                {qi \in Q \X N : g.arcs[qi[2]].pred = LastState(g, [arcs |-> qi[1]])}}
             Is(f) == f = [k \in 0 .. n |-> IF k = 0 THEN {<<>>} ELSE More(f[k - 1])]
             It == CHOOSE f : Is(f)
             F == [k \in 0 .. n |-> PathsOfLength(g, N, k)]
  <1>3. PathsOver(g, N) = UNION {It[k] : k \in 0 .. n}
    BY <1>1 DEF PathsOver
  <1>4. \A k \in Nat : PathsOfLength(g, N, k + 1) = More(PathsOfLength(g, N, k))
    BY PathsByLength
  <1>5. PathsOfLength(g, N, 0) = {<<>>}
    BY PathsByLength
  <1> HIDE DEF More
  <1>6. Is(F)
    <2>1. ASSUME NEW k \in 0 .. n
          PROVE  F[k] = IF k = 0 THEN {<<>>} ELSE More(F[k - 1])
      <3>1. CASE k = 0
        BY <3>1, <1>5
      <3>2. CASE k # 0
        <4>1. k - 1 \in Nat /\ k - 1 \in 0 .. n /\ (k - 1) + 1 = k
          BY <3>2, <1>2
        <4> QED BY <3>2, <4>1, <1>4
      <3> QED BY <3>1, <3>2
    <2>2. F = [k \in 0 .. n |-> F[k]]
      OBVIOUS
    <2> HIDE DEF F
    <2> QED BY <2>1, <2>2
  <1> HIDE DEF F
  <1>7. Is(It)
    BY <1>6
  <1> HIDE DEF It
  <1> DEFINE G == {k \in 0 .. n : It[k] = PathsOfLength(g, N, k)}
  <1>8. 0 .. n \subseteq G
    <2>1. 0 \in G
      BY <1>2, <1>5, <1>7
    <2>2. ASSUME NEW k \in 0 .. n - 1, k \in G
          PROVE  k + 1 \in G
      <3>1. k + 1 \in 0 .. n /\ k + 1 # 0 /\ (k + 1) - 1 = k /\ k \in Nat
        BY <1>2
      <3>3. PICK j : j = k + 1
        OBVIOUS
      <3>2. It[k + 1] = More(It[k])
        <4>1. j \in 0 .. n /\ j # 0 /\ j - 1 = k
          BY <3>1, <3>3
        <4>2. It[j] = More(It[j - 1])
          BY <1>7, <4>1
        <4> QED BY <3>3, <4>1, <4>2
      <3> QED BY <2>2, <3>1, <3>2, <1>4
    <2> HIDE DEF G
    <2> QED BY <1>2, <2>1, <2>2, InductionUpTo
  <1>9. \A k \in 0 .. n : It[k] = PathsOfLength(g, N, k)
    BY <1>8
  <1>10. ASSUME NEW q
         PROVE  q \in PathsOver(g, N) <=> PathFrom(g, N, INITIAL_STATE, q) /\ Len(q) <= n
    <2>1. q \in PathsOver(g, N) <=> \E k \in 0 .. n : q \in PathsOfLength(g, N, k)
      BY <1>3, <1>9
    <2>2. ASSUME NEW k \in 0 .. n, q \in PathsOfLength(g, N, k)
          PROVE  PathFrom(g, N, INITIAL_STATE, q) /\ Len(q) <= n
      BY <2>2 DEF PathsOfLength
    <2>3. ASSUME PathFrom(g, N, INITIAL_STATE, q), Len(q) <= n
          PROVE  \E k \in 0 .. n : q \in PathsOfLength(g, N, k)
      <3>1. q \in Seq(N) /\ Len(q) \in 0 .. n
        BY <2>3, <1>2 DEF PathFrom
      <3> QED BY <2>3, <3>1 DEF PathsOfLength
    <2> QED BY <2>1, <2>2, <2>3
  <1> QED BY <1>1, <1>10

(* In topological order, the paths over some arcs are all their paths. *)
LEMMA PathsOverOrdered ==
  ASSUME NEW g, IsBody(g), TopologicallyOrdered(g), NEW N \in SUBSET Arcs(g)
  PROVE  \A q : q \in PathsOver(g, N) <=> PathFrom(g, N, INITIAL_STATE, q)
  BY PathsOverAre, PathsAreShort

(* Two paths joined. *)
LEMMA JoinedPaths ==
  ASSUME NEW g, IsBody(g), NEW N \in SUBSET Arcs(g), NEW s, NEW p, PathFrom(g, N, s, p),
         NEW q, PathFrom(g, N, EndFrom(g, s, p), q)
  PROVE  /\ PathFrom(g, N, s, p \o q)
         /\ EndFrom(g, s, p \o q) = EndFrom(g, EndFrom(g, s, p), q)
         /\ PathScore(g, p \o q) = PathScore(g, p) + PathScore(g, q) - g.initialStateScore
  <1> DEFINE Fit(r) == /\ PathFrom(g, N, s, p \o r)
                       /\ EndFrom(g, s, p \o r) = EndFrom(g, EndFrom(g, s, p), r)
                       /\ PathScore(g, p \o r) = PathScore(g, p) + PathScore(g, r) - g.initialStateScore
             P(k) == \A r : PathFrom(g, N, EndFrom(g, s, p), r) /\ Len(r) = k => Fit(r)
             n == Len(q)
             G == {k \in 0 .. n : P(k)}
  <1>1. q \in Seq(N) /\ n \in Nat /\ p \in Seq(N) /\ p \in Seq(Arcs(g))
    BY DEF PathFrom
  <1>2. g.initialStateScore \in Int /\ PathScore(g, p) \in Int
    BY <1>1, GraphFacts, ScoreIsNumber
  <1>3. P(0)
    <2> SUFFICES ASSUME NEW r, PathFrom(g, N, EndFrom(g, s, p), r), Len(r) = 0
                 PROVE  Fit(r)
      OBVIOUS
    <2>1. r = <<>>
      BY EmptySeq DEF PathFrom
    <2>2. p \o r = p
      BY <1>1, <2>1
    <2>3. EndFrom(g, EndFrom(g, s, p), r) = EndFrom(g, s, p)
      BY <2>1 DEF EndFrom
    <2>4. PathScore(g, r) = g.initialStateScore
      BY <2>1, ScoreOfNoArc
    <2> QED BY <1>2, <2>2, <2>3, <2>4
  <1>4. ASSUME NEW k \in 0 .. n - 1, P(k)
        PROVE  P(k + 1)
    <2> SUFFICES ASSUME NEW r, PathFrom(g, N, EndFrom(g, s, p), r), Len(r) = k + 1
                 PROVE  Fit(r)
      OBVIOUS
    <2>1. r # <<>>
      OBVIOUS
    <2>12. PICK t, i : LongerBy(g, N, EndFrom(g, s, p), r, t, i)
      BY <2>1, ShorterPath, Zenon
    <2>2. /\ r = Append(t, i) /\ PathFrom(g, N, EndFrom(g, s, p), t) /\ i \in N
          /\ g.arcs[i].pred = EndFrom(g, EndFrom(g, s, p), t) /\ Len(r) = Len(t) + 1
          /\ EndFrom(g, EndFrom(g, s, p), r) = g.arcs[i].succ
      BY <2>12 DEF LongerBy
    <2>3. t \in Seq(N) /\ Len(t) = k /\ t \in Seq(Arcs(g)) /\ i \in Arcs(g)
      BY <2>2 DEF PathFrom
    <2>4. Fit(t)
      BY <1>4, <2>2, <2>3
    <2>5. PICK u : u = p \o t
      OBVIOUS
    <2>6. p \o r = Append(u, i) /\ u \in Seq(N) /\ u \in Seq(Arcs(g))
      BY SMTT(40), <1>1, <2>2, <2>3, <2>5
    <2>7. /\ PathFrom(g, N, s, Append(u, i)) /\ EndFrom(g, s, Append(u, i)) = g.arcs[i].succ
      BY <2>2, <2>4, <2>5, LongerPath
    <2>8. /\ PathScore(g, Append(u, i)) = PathScore(g, u) + g.arcs[i].score
          /\ PathScore(g, r) = PathScore(g, t) + g.arcs[i].score
      BY <2>2, <2>3, <2>6, ScoreOfLonger
    <2>9. PathScore(g, u) = PathScore(g, p) + PathScore(g, t) - g.initialStateScore
      BY <2>4, <2>5
    <2>10. PathScore(g, t) \in Int /\ g.arcs[i].score \in Int
      BY <2>3, ScoreIsNumber, GraphFacts
    <2>11. PathScore(g, p \o r) = PathScore(g, p) + PathScore(g, r) - g.initialStateScore
      BY SMTT(40), <1>2, <2>6, <2>8, <2>9, <2>10
    <2> QED BY <2>2, <2>6, <2>7, <2>11
  <1> HIDE DEF P
  <1>5. 0 .. n \subseteq G
    <2>1. 0 \in G /\ \A k \in 0 .. n - 1 : k \in G => k + 1 \in G
      BY <1>1, <1>3, <1>4
    <2> HIDE DEF G
    <2> QED BY <1>1, <2>1, InductionUpTo
  <1>6. P(n)
    BY <1>1, <1>5
  <1> QED BY <1>6 DEF P

-----------------------------------------------------------------------------
(* The pass of calcRestScores.                                             *)

\* A rest score is that of a path to a final state, or near SMALL_SCORE.
Reaches(L, k, x) == -L[k] <= x /\ x <= L[k]
Fails(L, k, x) == SMALL_SCORE <= x /\ x <= SMALL_SCORE + L[k]

\* The path leads from s to a final state, with a score.
BringsToEnd(g, s, q, x) ==
  PathFrom(g, NonPruned(g), s, q) /\ EndFrom(g, s, q) \in g.finals /\ PathScore(g, q) = x

\* What the pass has made of the last k arcs.
RestAfter(g, L, k, rest) ==
  /\ rest \in [States(g) -> Int]
  /\ \A s \in States(g) : Reaches(L, k, rest[s]) \/ Fails(L, k, rest[s])
  /\ \A s \in States(g) : s \in g.finals => rest[s] >= g.initialStateScore
  /\ \A i \in NonPruned(g) :
       i > Len(g.arcs) - k => rest[g.arcs[i].pred] >= AtLeastSmall(g.arcs[i].score + rest[g.arcs[i].succ])
  /\ \A s \in States(g) : Reaches(L, k, rest[s]) => \E q : BringsToEnd(g, s, q, rest[s])

(* A step makes scores of scores. *)
LEMMA RestStepType ==
  ASSUME NEW g, IsBody(g)
  PROVE  /\ RestStart(g) \in [States(g) -> Int]
         /\ \A rest \in [States(g) -> Int], k \in 1 .. Len(g.arcs) :
              RestStep(g, rest, k) \in [States(g) -> Int]
  <1>1. RestStart(g) \in [States(g) -> Int]
    BY SmallScore, GraphFacts DEF RestStart
  <1>2. ASSUME NEW rest \in [States(g) -> Int], NEW k \in 1 .. Len(g.arcs)
        PROVE  RestStep(g, rest, k) \in [States(g) -> Int]
    <2>1. PICK i : i = Len(g.arcs) + 1 - k
      OBVIOUS
    <2>2. i \in Arcs(g)
      BY <2>1, GraphFacts
    <2>3. PICK p, s, x : p = g.arcs[i].pred /\ s = g.arcs[i].succ /\ x = g.arcs[i].score
      OBVIOUS
    <2>4. p \in States(g) /\ s \in States(g) /\ x \in Int
      BY <2>2, <2>3, GraphFacts
    <2>5. PICK y : y = AtLeastSmall(x + rest[s])
      OBVIOUS
    <2>6. y \in Int
      BY <2>4, <2>5, SmallScore DEF AtLeastSmall
    <2>7. RestStep(g, rest, k) \in {rest, [rest EXCEPT ![p] = y]}
      BY <2>1, <2>3, <2>5 DEF RestStep
    <2> QED BY <2>4, <2>6, <2>7
  <1> QED BY <1>1, <1>2

(* One arc of the pass. *)
LEMMA RestStepKeeps ==
  ASSUME NEW g, IsBody(g), TopologicallyOrdered(g), NEW b, NEW L, ScoresWithin(g, b, L),
         NEW k \in 0 .. Len(g.arcs) - 1, NEW rest, RestAfter(g, L, k, rest),
         NEW next, next = RestStep(g, rest, k + 1)
  PROVE  RestAfter(g, L, k + 1, next)
  <1>1. PICK i, n, h : n = Len(g.arcs) /\ i = n - k /\ h = k + 1
    OBVIOUS
  <1>2. /\ n \in Nat /\ Arcs(g) = 1 .. n /\ i \in Arcs(g) /\ i \in Nat /\ k \in Nat
        /\ NonPruned(g) \subseteq Arcs(g) /\ h \in Nat /\ i = n + 1 - h /\ k < n
        /\ \A j \in NonPruned(g) : j \in Nat /\ (j > n - h <=> j > n - k \/ j = i)
    <2>1. /\ n \in Nat /\ Arcs(g) = 1 .. n /\ NonPruned(g) \subseteq Arcs(g) /\ k \in 0 .. n - 1
          /\ \A j \in NonPruned(g) : j \in Nat
      BY <1>1, GraphFacts
    <2>4. k \in Nat /\ k < n
      BY <2>1
    <2>5. i = n - k /\ h = k + 1 /\ n \in Nat
      BY <1>1, <2>1
    <2>2. k \in Nat /\ k < n /\ i \in 1 .. n /\ h \in Nat /\ i = n + 1 - h
      BY <2>4, <2>5
    <2>3. ASSUME NEW j \in Nat PROVE (j > n - h <=> j > n - k \/ j = i)
      BY <1>1, <2>1, <2>2
    <2> QED BY SMTT(40), <2>1, <2>2, <2>3
  <1>3. PICK l, m, sm : l = L[k] /\ m = L[h] /\ sm = SMALL_SCORE
    OBVIOUS
  <1>4. PICK p, s, x : p = g.arcs[i].pred /\ s = g.arcs[i].succ /\ x = g.arcs[i].score
    OBVIOUS
  <1>5. /\ l \in Nat /\ m \in Nat /\ m = l + b /\ b \in Nat /\ 2 * m < -sm /\ sm \in Int /\ x \in Int
        /\ -b <= x /\ x <= b
    <2>1. k \in 0 .. Len(g.arcs) /\ h \in 0 .. Len(g.arcs)
      BY <1>1, <1>2
    <2>2. b \in Nat /\ L[k] \in Nat /\ L[h] \in Nat /\ 2 * L[h] < -SMALL_SCORE
      BY <2>1 DEF ScoresWithin
    <2>3. L[h] = L[k] + b
      BY <1>1 DEF ScoresWithin
    <2>4. -b <= g.arcs[i].score /\ g.arcs[i].score <= b /\ g.arcs[i].score \in Int
      BY <1>2, GraphFacts DEF ScoresWithin
    <2> QED BY <1>3, <1>4, <2>2, <2>3, <2>4, SmallScore
  <1>6. /\ p \in States(g) /\ s \in States(g) /\ s \in Nat /\ p \in Nat /\ s # p
    BY SMTT(40), <1>2, <1>4, GraphFacts, NoneEntersWhatWasLeft
  <1>7. rest \in [States(g) -> Int]
    BY DEF RestAfter
  <1>8. ASSUME NEW z \in Int
        PROVE  /\ Reaches(L, k, z) <=> -l <= z /\ z <= l
               /\ Fails(L, k, z) <=> sm <= z /\ z <= sm + l
               /\ Reaches(L, h, z) <=> -m <= z /\ z <= m
               /\ Fails(L, h, z) <=> sm <= z /\ z <= sm + m
    BY <1>3 DEF Reaches, Fails
  <1>9. ASSUME NEW t \in States(g)
        PROVE  /\ Reaches(L, h, rest[t]) \/ Fails(L, h, rest[t])
               /\ Reaches(L, h, rest[t]) => Reaches(L, k, rest[t])
    <2>1. PICK z \in Int : z = rest[t]
      BY <1>7
    <2>2. (-l <= z /\ z <= l) \/ (sm <= z /\ z <= sm + l)
      BY <1>8, <2>1 DEF RestAfter
    <2>3. (-m <= z /\ z <= m) \/ (sm <= z /\ z <= sm + m)
      BY <2>2, <1>5
    <2>4. (-m <= z /\ z <= m) => (-l <= z /\ z <= l)
      BY <2>2, <1>5
    <2> QED BY <1>8, <2>1, <2>3, <2>4
  <1>10. CASE i \notin NonPruned(g) \/ ~(AtLeastSmall(x + rest[s]) > rest[p])
    <2>1. next = rest
      BY <1>1, <1>2, <1>4, <1>10 DEF RestStep
    <2>2. ASSUME NEW j \in NonPruned(g), j > n - h
          PROVE  rest[g.arcs[j].pred] >= AtLeastSmall(g.arcs[j].score + rest[g.arcs[j].succ])
      <3>1. CASE j > n - k
        BY <3>1, <1>1 DEF RestAfter
      <3>2. CASE j = i
        <4>1. AtLeastSmall(x + rest[s]) \in Int /\ rest[p] \in Int
          BY <1>3, <1>5, <1>6, <1>7 DEF AtLeastSmall
        <4> QED BY <3>2, <4>1, <1>4, <1>10
      <3> QED BY <3>1, <3>2, <2>2, <1>2
    <2>3. RestAfter(g, L, h, rest)
      BY <2>2, <1>1, <1>9 DEF RestAfter
    <2> QED BY <1>1, <2>1, <2>3
  <1>11. CASE i \in NonPruned(g) /\ AtLeastSmall(x + rest[s]) > rest[p]
    <2>1. PICK y : y = AtLeastSmall(x + rest[s])
      BY SMTT(40)
    <2>2. next = [rest EXCEPT ![p] = y]
      BY <1>1, <1>2, <1>4, <1>11, <2>1 DEF RestStep
    <2>3. y \in Int /\ rest[s] \in Int /\ rest[p] \in Int /\ y > rest[p]
          /\ ((y = sm /\ x + rest[s] < sm) \/ (y = x + rest[s] /\ y >= sm))
      <3>1. rest[s] \in Int /\ rest[p] \in Int
        BY <1>6, <1>7
      <3>2. PICK z \in Int, w \in Int : z = rest[s] /\ w = rest[p]
        BY <3>1
      <3>3. y = (IF x + z < sm THEN sm ELSE x + z) /\ y > w
        BY <1>3, <1>11, <2>1, <3>2 DEF AtLeastSmall
      <3>4. y \in Int /\ ((y = sm /\ x + z < sm) \/ (y = x + z /\ y >= sm))
        BY <3>3, <1>5
      <3> QED BY <3>1, <3>2, <3>3, <3>4
    <2>4. \A t \in States(g) : next[t] = IF t = p THEN y ELSE rest[t]
      BY <2>2, <1>7
    <2>5. next \in [States(g) -> Int]
      BY <2>2, <2>3, <1>7
    <2>6. Reaches(L, k, rest[s]) \/ Fails(L, k, rest[s])
      BY <1>6 DEF RestAfter
    <2>7. Reaches(L, h, y) \/ Fails(L, h, y)
      <3>1. PICK z \in Int : z = rest[s]
        BY <2>3
      <3>2. (-l <= z /\ z <= l) \/ (sm <= z /\ z <= sm + l)
        BY <1>8, <2>6, <3>1
      <3>3. (-m <= y /\ y <= m) \/ (sm <= y /\ y <= sm + m)
        BY SMTT(40), <2>3, <3>1, <3>2, <1>5
      <3> QED BY <1>8, <2>3, <3>3
    <2>8. Reaches(L, h, y) => Reaches(L, k, rest[s]) /\ y = x + rest[s]
      <3>1. PICK z \in Int : z = rest[s]
        BY <2>3
      <3>2. (-l <= z /\ z <= l) \/ (sm <= z /\ z <= sm + l)
        BY <1>8, <2>6, <3>1
      <3>3. (-m <= y /\ y <= m) => (-l <= z /\ z <= l) /\ y = x + z
        BY <2>3, <3>1, <3>2, <1>5
      <3> QED BY <1>8, <2>3, <3>1, <3>3
    <2>9. ASSUME NEW t \in States(g)
          PROVE  Reaches(L, h, next[t]) \/ Fails(L, h, next[t])
      BY <1>9, <2>4, <2>7
    <2>10. ASSUME NEW t \in States(g), t \in g.finals
           PROVE  next[t] >= g.initialStateScore
      <3>1. rest[t] >= g.initialStateScore /\ rest[t] \in Int /\ g.initialStateScore \in Int
        BY <2>10, <1>7, GraphFacts DEF RestAfter
      <3> QED BY <3>1, <2>3, <2>4
    <2>11. ASSUME NEW j \in NonPruned(g), j > n - h
           PROVE  next[g.arcs[j].pred] >= AtLeastSmall(g.arcs[j].score + next[g.arcs[j].succ])
      <3>1. PICK q, r, z : q = g.arcs[j].pred /\ r = g.arcs[j].succ /\ z = g.arcs[j].score
        OBVIOUS
      <3>2. q \in States(g) /\ r \in States(g) /\ z \in Int
        BY <1>2, <3>1, GraphFacts
      <3>3. r # p
        <4>1. i <= j
          BY <1>2, <2>11
        <4> QED BY <4>1, <1>2, <1>4, <3>1, NoneEntersWhatWasLeft
      <3>4. next[r] = rest[r]
        BY <2>4, <3>2, <3>3
      <3>5. CASE j = i
        <4>1. q = p /\ r = s /\ z = x
          BY <1>4, <3>1, <3>5
        <4> QED BY <2>1, <2>3, <2>4, <3>1, <3>4, <4>1, <1>6
      <3>6. CASE j > n - k
        <4>1. rest[q] >= AtLeastSmall(z + rest[r])
          BY <1>1, <3>1, <3>6 DEF RestAfter
        <4>2. PICK w : w = AtLeastSmall(z + rest[r])
          OBVIOUS
        <4>3. w \in Int /\ rest[q] \in Int
          BY <4>2, <3>2, <1>7, SmallScore DEF AtLeastSmall
        <4>4. next[q] >= w
          <5>1. CASE q = p
            BY <5>1, <4>1, <4>2, <4>3, <2>3, <2>4, <3>2
          <5>2. CASE q # p
            BY <5>2, <4>1, <4>2, <2>4, <3>2
          <5> QED BY <5>1, <5>2
        <4> QED BY <3>1, <3>4, <4>2, <4>4
      <3> QED BY <3>5, <3>6, <2>11, <1>2
    <2>12. ASSUME NEW t \in States(g), Reaches(L, h, next[t])
           PROVE  \E q : BringsToEnd(g, t, q, next[t])
      <3>1. CASE t = p
        <4>1. Reaches(L, k, rest[s]) /\ y = x + rest[s] /\ next[t] = y
          BY <2>4, <2>8, <2>12, <3>1
        <4>2. PICK q : BringsToEnd(g, s, q, rest[s])
          BY <4>1, <1>6 DEF RestAfter
        <4>3. /\ PathFrom(g, NonPruned(g), s, q) /\ EndFrom(g, s, q) \in g.finals
              /\ PathScore(g, q) = rest[s] /\ q \in Seq(Arcs(g))
          BY <4>2, <1>2 DEF BringsToEnd, PathFrom
        <4>4. /\ PathFrom(g, NonPruned(g), p, <<i>> \o q)
              /\ EndFrom(g, p, <<i>> \o q) = EndFrom(g, s, q)
          <5>1. PathFrom(g, NonPruned(g), g.arcs[i].succ, q) /\ i \in NonPruned(g)
            BY <4>3, <1>4, <1>11
          <5>2. PathFrom(g, NonPruned(g), g.arcs[i].pred, <<i>> \o q)
                /\ EndFrom(g, g.arcs[i].pred, <<i>> \o q) = EndFrom(g, g.arcs[i].succ, q)
            BY <5>1, EarlierPath, ZenonT(60)
          <5> QED BY <5>2, <1>4
        <4>5. PathScore(g, <<i>> \o q) = x + rest[s]
          BY <4>3, <1>2, <1>4, ScoreOfEarlier
        <4>6. BringsToEnd(g, t, <<i>> \o q, next[t])
          BY <3>1, <4>1, <4>3, <4>4, <4>5 DEF BringsToEnd
        <4> QED BY <4>6
      <3>2. CASE t # p
        <4>1. next[t] = rest[t]
          BY <2>4, <3>2
        <4>2. Reaches(L, k, rest[t])
          BY <1>9, <2>12, <4>1
        <4> QED BY <4>1, <4>2 DEF RestAfter
      <3> QED BY <3>1, <3>2
    <2>13. RestAfter(g, L, h, next)
      BY <1>1, <2>5, <2>9, <2>10, <2>11, <2>12 DEF RestAfter
    <2> QED BY <1>1, <2>13
  <1> QED BY <1>10, <1>11

(* The whole pass. *)
LEMMA RestScoresFit ==
  ASSUME NEW g, IsBody(g), TopologicallyOrdered(g), NEW b, NEW L, ScoresWithin(g, b, L)
  PROVE  RestAfter(g, L, Len(g.arcs), RestScores(g))
  <1>1. PICK n : n = Len(g.arcs)
    OBVIOUS
  <1>2. n \in Nat /\ DOMAIN g.arcs = 1 .. n /\ \A j \in NonPruned(g) : j \in 1 .. n
    BY <1>1, GraphFacts
  <1>3. RestStart(g) \in [States(g) -> Int]
    BY RestStepType
  <1>4. \A a \in [States(g) -> Int], i \in 1 .. n : RestStep(g, a, i) \in [States(g) -> Int]
    BY <1>1, RestStepType
  <1>5. PICK acc : RestScoresRows(g, n, [States(g) -> Int], acc)
    BY <1>2, <1>3, <1>4, RestScoresByArcs, Zenon
  <1>6. /\ acc[0] = RestStart(g) /\ acc[n] = RestScores(g)
        /\ \A k \in 0 .. n - 1 : acc[k + 1] = RestStep(g, acc[k], k + 1)
    BY <1>5 DEF RestScoresRows
  <1> DEFINE G == {k \in 0 .. n : RestAfter(g, L, k, acc[k])}
  <1>7. RestAfter(g, L, 0, acc[0])
    <2>1. /\ L[0] \in Nat /\ 2 * L[0] < -SMALL_SCORE /\ -L[0] <= g.initialStateScore
          /\ g.initialStateScore <= L[0] /\ g.initialStateScore \in Int
      <3>1. 0 \in 0 .. Len(g.arcs)
        BY <1>1, <1>2
      <3>2. /\ b \in Nat /\ L[0] \in Nat /\ b <= L[0] /\ g.initialStateScore \in Int
            /\ -b <= g.initialStateScore /\ g.initialStateScore <= b /\ 2 * L[0] < -SMALL_SCORE
        BY <3>1, GraphFacts DEF ScoresWithin
      <3> QED BY <3>2
    <2>2. PICK f : f = RestStart(g)
      OBVIOUS
    <2>3. \A s \in States(g) : f[s] = IF s \in g.finals THEN g.initialStateScore ELSE SMALL_SCORE
      BY <2>2 DEF RestStart
    <2>4. ASSUME NEW s \in States(g)
          PROVE  /\ Reaches(L, 0, f[s]) \/ Fails(L, 0, f[s])
                 /\ s \in g.finals => f[s] >= g.initialStateScore
                 /\ Reaches(L, 0, f[s]) => s \in g.finals /\ f[s] = g.initialStateScore
      <3>1. CASE s \in g.finals
        <4>1. f[s] = g.initialStateScore
          BY <3>1, <2>3
        <4> QED BY <3>1, <4>1, <2>1 DEF Reaches
      <3>2. CASE s \notin g.finals
        <4>1. f[s] = SMALL_SCORE
          BY <3>2, <2>3
        <4> QED BY <3>2, <4>1, <2>1, SmallScore DEF Reaches, Fails
      <3> QED BY <3>1, <3>2
    <2>5. ASSUME NEW s \in States(g), Reaches(L, 0, f[s])
          PROVE  \E q : BringsToEnd(g, s, q, f[s])
      <3>1. s \in g.finals /\ f[s] = g.initialStateScore
        BY <2>4, <2>5
      <3>2. PathFrom(g, NonPruned(g), s, <<>>) /\ EndFrom(g, s, <<>>) = s
        BY DEF PathFrom, EndFrom
      <3>3. PathScore(g, <<>>) = g.initialStateScore
        BY ScoreOfNoArc
      <3>4. BringsToEnd(g, s, <<>>, f[s])
        BY <3>1, <3>2, <3>3 DEF BringsToEnd
      <3> QED BY <3>4
    <2>6. \A i \in NonPruned(g) : ~(i > Len(g.arcs) - 0)
      BY <1>1, <1>2
    <2>7. RestAfter(g, L, 0, f)
      BY <1>3, <2>2, <2>4, <2>5, <2>6 DEF RestAfter
    <2> QED BY <1>6, <2>2, <2>7
  <1>8. ASSUME NEW k \in 0 .. n - 1, RestAfter(g, L, k, acc[k])
        PROVE  RestAfter(g, L, k + 1, acc[k + 1])
    <2>1. k \in 0 .. Len(g.arcs) - 1
      BY <1>1
    <2>2. acc[k + 1] = RestStep(g, acc[k], k + 1)
      BY <1>6
    <2> QED BY <1>8, <2>1, <2>2, RestStepKeeps
  <1>9. 0 .. n \subseteq G
    <2>1. 0 \in G /\ \A k \in 0 .. n - 1 : k \in G => k + 1 \in G
      BY <1>2, <1>7, <1>8
    <2> HIDE DEF G
    <2> QED BY <1>2, <2>1, InductionUpTo
  <1>10. n \in 0 .. n
    BY <1>2
  <1> QED BY <1>1, <1>6, <1>9, <1>10

-----------------------------------------------------------------------------
(* Paths have the scores of the passes.                                    *)

(* No path to a state is better than its score. *)
LEMMA NoBetterPathTo ==
  ASSUME NEW g, IsBody(g), TopologicallyOrdered(g), NEW L, NEW prev,
         PrevAfter(g, L, Len(g.arcs), prev), NEW q, PathFrom(g, NonPruned(g), INITIAL_STATE, q),
         INITIAL_STATE \in States(g)
  PROVE  /\ EndFrom(g, INITIAL_STATE, q) \in {INITIAL_STATE} \cup Entered(g, Len(g.arcs))
         /\ EndFrom(g, INITIAL_STATE, q) \in States(g)
         /\ PathScore(g, q) <= prev.score[EndFrom(g, INITIAL_STATE, q)]
  <1> DEFINE End(r) == EndFrom(g, INITIAL_STATE, r)
             Fit(r) == /\ End(r) \in {INITIAL_STATE} \cup Entered(g, Len(g.arcs))
                       /\ End(r) \in States(g) /\ PathScore(g, r) <= prev.score[End(r)]
             P(k) == \A r : PathFrom(g, NonPruned(g), INITIAL_STATE, r) /\ Len(r) = k => Fit(r)
             n == Len(q)
             G == {k \in 0 .. n : P(k)}
  <1>1. q \in Seq(NonPruned(g)) /\ n \in Nat
    BY DEF PathFrom
  <1>2. /\ Len(g.arcs) \in Nat /\ g.initialStateScore \in Int /\ NonPruned(g) \subseteq Arcs(g)
        /\ \A i \in NonPruned(g) : i <= Len(g.arcs)
        /\ prev.score \in [States(g) -> Int]
    BY SMTT(40), GraphFacts DEF PrevAfter, PrevRecords
  <1>3. P(0)
    <2> SUFFICES ASSUME NEW r, PathFrom(g, NonPruned(g), INITIAL_STATE, r), Len(r) = 0
                 PROVE  Fit(r)
      OBVIOUS
    <2>1. r = <<>>
      BY EmptySeq DEF PathFrom
    <2>2. PathScore(g, r) = g.initialStateScore /\ End(r) = INITIAL_STATE
      BY <2>1, ScoreOfNoArc DEF EndFrom
    <2>3. INITIAL_STATE \notin Entered(g, Len(g.arcs))
      BY <1>2, GraphFacts DEF Entered
    <2>4. prev.score[INITIAL_STATE] = g.initialStateScore
      BY <2>3 DEF PrevAfter
    <2> QED BY <2>2, <2>4, <1>2
  <1>4. ASSUME NEW k \in 0 .. n - 1, P(k)
        PROVE  P(k + 1)
    <2> SUFFICES ASSUME NEW r, PathFrom(g, NonPruned(g), INITIAL_STATE, r), Len(r) = k + 1
                 PROVE  Fit(r)
      OBVIOUS
    <2>1. r # <<>>
      OBVIOUS
    <2>11. PICK t, i : LongerBy(g, NonPruned(g), INITIAL_STATE, r, t, i)
      BY <2>1, ShorterPath, Zenon
    <2>2. /\ r = Append(t, i) /\ PathFrom(g, NonPruned(g), INITIAL_STATE, t) /\ i \in NonPruned(g)
          /\ g.arcs[i].pred = End(t) /\ Len(r) = Len(t) + 1 /\ End(r) = g.arcs[i].succ
      BY <2>11 DEF LongerBy
    <2>3. t \in Seq(NonPruned(g)) /\ Len(t) = k /\ t \in Seq(Arcs(g)) /\ i \in Arcs(g)
      BY <1>2, <2>2 DEF PathFrom
    <2>4. Fit(t)
      BY <1>4, <2>2, <2>3
    <2>5. PathScore(g, r) = PathScore(g, t) + g.arcs[i].score
      BY SMTT(40), <2>2, <2>3, ScoreOfLonger
    <2>6. prev.score[g.arcs[i].succ] >= prev.score[g.arcs[i].pred] + g.arcs[i].score
      BY <1>2, <2>2 DEF PrevAfter
    <2>7. /\ PathScore(g, t) \in Int /\ g.arcs[i].score \in Int /\ prev.score[g.arcs[i].succ] \in Int
          /\ prev.score[g.arcs[i].pred] \in Int
      BY <2>3, <1>2, ScoreIsNumber, GraphFacts
    <2>8. PathScore(g, r) <= prev.score[End(r)]
      BY SMTT(40), <2>2, <2>4, <2>5, <2>6, <2>7
    <2>9. End(r) \in Entered(g, Len(g.arcs))
      BY <1>2, <2>2 DEF Entered
    <2>10. End(r) \in States(g)
      BY <2>2, <2>3, GraphFacts
    <2> QED BY <2>8, <2>9, <2>10
  <1> HIDE DEF P
  <1>5. 0 .. n \subseteq G
    <2>1. 0 \in G /\ \A k \in 0 .. n - 1 : k \in G => k + 1 \in G
      BY <1>1, <1>3, <1>4
    <2> HIDE DEF G
    <2> QED BY <1>1, <2>1, InductionUpTo
  <1>6. P(n)
    BY <1>1, <1>5
  <1> QED BY <1>6 DEF P

\* The path leads to s, with the score that the pass gives s.
LeadsTo(g, prev, s, q) ==
  /\ PathFrom(g, NonPruned(g), INITIAL_STATE, q)
  /\ EndFrom(g, INITIAL_STATE, q) = s /\ PathScore(g, q) = prev.score[s]

(* Some path to a state that an arc enters has its score. *)
LEMMA BestPathTo ==
  ASSUME NEW g, IsBody(g), TopologicallyOrdered(g), Grounded(g), NEW L, NEW prev,
         PrevAfter(g, L, Len(g.arcs), prev),
         NEW s \in {INITIAL_STATE} \cup Entered(g, Len(g.arcs)), INITIAL_STATE \in States(g)
  PROVE  \E q : LeadsTo(g, prev, s, q)
  <1> DEFINE n == Len(g.arcs)
             Fit(t, q) == /\ PathFrom(g, NonPruned(g), INITIAL_STATE, q)
                          /\ EndFrom(g, INITIAL_STATE, q) = t /\ PathScore(g, q) = prev.score[t]
             P(k) == \A t \in Entered(g, n) : prev.arc[t] <= k => \E q : Fit(t, q)
             G == {k \in 0 .. n : P(k)}
  <1>1. /\ n \in Nat /\ NonPruned(g) \subseteq Arcs(g) /\ Arcs(g) = 1 .. n
        /\ \A i \in NonPruned(g) : i <= n /\ i \in Nat /\ i > 0
        /\ prev.score \in [States(g) -> Int]
    BY SMTT(40), GraphFacts DEF PrevAfter, PrevRecords
  <1>2. \A t \in Entered(g, n) :
          /\ prev.arc[t] \in NonPruned(g) /\ prev.arc[t] <= n /\ g.arcs[prev.arc[t]].succ = t
          /\ prev.score[t] = prev.score[g.arcs[prev.arc[t]].pred] + g.arcs[prev.arc[t]].score
    BY DEF PrevAfter
  <1>3. Fit(INITIAL_STATE, <<>>)
    <2>1. PathFrom(g, NonPruned(g), INITIAL_STATE, <<>>) /\ EndFrom(g, INITIAL_STATE, <<>>) = INITIAL_STATE
      BY DEF PathFrom, EndFrom
    <2>2. INITIAL_STATE \notin Entered(g, n)
      BY <1>1, GraphFacts DEF Entered
    <2>3. prev.score[INITIAL_STATE] = g.initialStateScore
      BY <2>2 DEF PrevAfter
    <2> QED BY <2>1, <2>3, ScoreOfNoArc
  <1>4. P(0)
    BY <1>1, <1>2
  <1>5. ASSUME NEW k \in 0 .. n - 1, P(k)
        PROVE  P(k + 1)
    <2> SUFFICES ASSUME NEW t \in Entered(g, n), prev.arc[t] <= k + 1
                 PROVE  \E q : Fit(t, q)
      OBVIOUS
    <2>1. PICK i, r : i = prev.arc[t] /\ r = g.arcs[i].pred
      BY SMTT(40)
    <2>2. /\ i \in NonPruned(g) /\ i \in Arcs(g) /\ i <= k + 1 /\ g.arcs[i].succ = t
          /\ prev.score[t] = prev.score[r] + g.arcs[i].score
      BY <1>1, <1>2, <2>1
    <2>3. \E q : Fit(r, q)
      <3>1. CASE r = INITIAL_STATE
        BY <3>1, <1>3
      <3>2. CASE r # INITIAL_STATE
        <4>1. PICK j \in NonPruned(g) : g.arcs[j].succ = r
          BY <2>1, <2>2, <3>2 DEF Grounded
        <4>2. r \in Entered(g, n)
          BY <1>1, <4>1 DEF Entered
        <4>3. prev.arc[r] \in NonPruned(g) /\ g.arcs[prev.arc[r]].succ = r
          BY SMTT(40), <1>2, <4>2
        <4>4. prev.arc[r] < i
          BY <1>1, <2>1, <2>2, <4>3 DEF TopologicallyOrdered
        <4>5. prev.arc[r] <= k
          BY <1>1, <2>2, <4>3, <4>4
        <4> QED BY SMTT(40), <1>5, <4>2, <4>5
      <3> QED BY <3>1, <3>2
    <2>4. PICK q : Fit(r, q)
      BY <2>3
    <2>5. q \in Seq(Arcs(g))
      BY SMTT(40), <1>1, <2>4 DEF PathFrom
    <2>6. /\ PathFrom(g, NonPruned(g), INITIAL_STATE, Append(q, i))
          /\ EndFrom(g, INITIAL_STATE, Append(q, i)) = t
      BY <2>1, <2>2, <2>4, LongerPath
    <2>7. PathScore(g, Append(q, i)) = prev.score[t]
      BY <2>2, <2>4, <2>5, ScoreOfLonger
    <2>8. Fit(t, Append(q, i))
      BY <2>6, <2>7
    <2> HIDE DEF Fit
    <2> QED BY <2>8
  <1> HIDE DEF P
  <1>6. 0 .. n \subseteq G
    <2>1. 0 \in 0 .. n /\ \A k \in 0 .. n - 1 : k \in 0 .. n /\ k + 1 \in 0 .. n
      BY <1>1
    <2>2. 0 \in G /\ \A k \in 0 .. n - 1 : k \in G => k + 1 \in G
      BY <2>1, <1>4, <1>5
    <2> HIDE DEF G
    <2> QED BY <1>1, <2>2, InductionUpTo
  <1>7. P(n)
    BY <1>1, <1>6
  <1>8. CASE s = INITIAL_STATE
    <2>1. LeadsTo(g, prev, s, <<>>)
      BY <1>3, <1>8 DEF LeadsTo
    <2> QED BY <2>1
  <1>9. CASE s \in Entered(g, n)
    <2>1. PICK q : Fit(s, q)
      BY <1>2, <1>7, <1>9 DEF P
    <2>2. LeadsTo(g, prev, s, q)
      BY <2>1 DEF LeadsTo
    <2> QED BY <2>2
  <1> QED BY <1>8, <1>9

-----------------------------------------------------------------------------
(* The score of the best complete path.                                    *)

\* x is the largest of v in S, if it is not below SMALL_SCORE.
BestOf(S, v, x) ==
  /\ x \in Int /\ x >= SMALL_SCORE /\ \A s \in S : x >= v[s]
  /\ x = SMALL_SCORE \/ \E s \in S : x = v[s]

(* There is no other. *)
LEMMA OneIsBest ==
  ASSUME NEW S, NEW v, \A s \in S : v[s] \in Int, NEW x, BestOf(S, v, x), NEW y, BestOf(S, v, y)
  PROVE  x = y
  <1>1. x \in Int /\ y \in Int /\ SMALL_SCORE \in Int
    BY SmallScore DEF BestOf
  <1>2. x >= y
    BY <1>1 DEF BestOf
  <1>3. y >= x
    BY <1>1 DEF BestOf
  <1> QED BY <1>1, <1>2, <1>3

(* The largest of one element more. *)
LEMMA BestWithOneMore ==
  ASSUME NEW S, NEW v, \A s \in S : v[s] \in Int, NEW c \in S, NEW x, BestOf(S \ {c}, v, x)
  PROVE  BestOf(S, v, IF v[c] > x THEN v[c] ELSE x)
  <1>1. PICK z \in Int : z = v[c]
    OBVIOUS
  <1>2. x \in Int /\ SMALL_SCORE \in Int /\ x >= SMALL_SCORE
        /\ (x = SMALL_SCORE \/ \E s \in S \ {c} : x = v[s])
    BY SmallScore DEF BestOf
  <1>3. \A s \in S : s = c \/ x >= v[s]
    BY DEF BestOf
  <1>4. PICK y \in Int : y = IF z > x THEN z ELSE x
    BY <1>2
  <1>5. y >= z /\ y >= x /\ y >= SMALL_SCORE /\ (y = z \/ y = x)
    BY <1>2, <1>4
  <1>6. \A s \in S : y >= v[s]
    <2> SUFFICES ASSUME NEW s \in S PROVE y >= v[s]
      OBVIOUS
    <2>1. PICK w \in Int : w = v[s]
      OBVIOUS
    <2> QED BY <2>1, <1>1, <1>2, <1>3, <1>5
  <1>7. BestOf(S, v, y)
    BY <1>1, <1>2, <1>5, <1>6 DEF BestOf
  <1> QED BY <1>1, <1>4, <1>7

(* There is one. *)
LEMMA SomeIsBest ==
  ASSUME NEW m \in Nat, NEW T \in SUBSET (0 .. m - 1), NEW v, \A s \in T : v[s] \in Int
  PROVE  \E x : BestOf(T, v, x)
  <1> DEFINE P(k) == \A R \in SUBSET T : R \subseteq 0 .. k - 1 => \E x : BestOf(R, v, x)
             G == {k \in 0 .. m : P(k)}
  <1>1. P(0)
    <2>1. BestOf({}, v, SMALL_SCORE)
      BY SmallScore DEF BestOf
    <2>2. \A R : R \subseteq 0 .. 0 - 1 => R = {}
      OBVIOUS
    <2> QED BY <2>1, <2>2
  <1>2. ASSUME NEW k \in 0 .. m - 1, P(k)
        PROVE  P(k + 1)
    <2> SUFFICES ASSUME NEW R \in SUBSET T, R \subseteq 0 .. k + 1 - 1
                 PROVE  \E x : BestOf(R, v, x)
      OBVIOUS
    <2>1. R \ {k} \subseteq 0 .. k - 1
      OBVIOUS
    <2>2. PICK x : BestOf(R \ {k}, v, x)
      BY <1>2, <2>1
    <2>3. CASE k \in R
      BY <2>2, <2>3, BestWithOneMore
    <2>4. CASE k \notin R
      <3>1. R \ {k} = R
        BY <2>4
      <3> QED BY <2>2, <3>1
    <2> QED BY <2>3, <2>4
  <1> HIDE DEF P
  <1>3. 0 .. m \subseteq G
    <2>1. 0 \in G /\ \A k \in 0 .. m - 1 : k \in G => k + 1 \in G
      BY <1>1, <1>2
    <2> HIDE DEF G
    <2> QED BY <2>1, InductionUpTo
  <1>4. P(m)
    BY <1>3
  <1> QED BY <1>4 DEF P

(* What a table of the largest scores of some states says. *)
LEMMA TableHasBest ==
  ASSUME NEW S, IsFiniteSet(S), NEW v, \A s \in S : v[s] \in Int, NEW it,
         \A T \in SUBSET S : it[T] = IF T = {} THEN SMALL_SCORE
                                     ELSE LET c == CHOOSE c \in T : TRUE
                                          IN IF v[c] > it[T \ {c}] THEN v[c] ELSE it[T \ {c}]
  PROVE  BestOf(S, v, it[S])
  <1> DEFINE P(k) == \A T \in SUBSET S : Cardinality(T) = k => BestOf(T, v, it[T])
             n == Cardinality(S)
             G == {k \in 0 .. n : P(k)}
  <1>1. n \in Nat
    BY FS_CardinalityType
  <1>2. P(0)
    <2> SUFFICES ASSUME NEW T \in SUBSET S, Cardinality(T) = 0 PROVE BestOf(T, v, it[T])
      OBVIOUS
    <2>1. T = {}
      BY FS_Subset, FS_EmptySet
    <2> QED BY SMTT(40), <2>1, SmallScore DEF BestOf
  <1>3. ASSUME NEW k \in 0 .. n - 1, P(k)
        PROVE  P(k + 1)
    <2> SUFFICES ASSUME NEW T \in SUBSET S, Cardinality(T) = k + 1 PROVE BestOf(T, v, it[T])
      OBVIOUS
    <2>1. T # {} /\ IsFiniteSet(T)
      BY FS_Subset, FS_EmptySet
    <2>2. PICK c : c = CHOOSE d \in T : TRUE
      OBVIOUS
    <2>3. c \in T
      BY <2>1, <2>2
    <2>8. Cardinality(T \ {c}) = Cardinality(T) - 1
      BY <2>1, <2>3, FS_RemoveElement
    <2>4. Cardinality(T \ {c}) = k
      BY <2>8
    <2>5. BestOf(T \ {c}, v, it[T \ {c}])
      BY <1>3, <2>4
    <2>6. BestOf(T, v, IF v[c] > it[T \ {c}] THEN v[c] ELSE it[T \ {c}])
      BY <2>3, <2>5, BestWithOneMore
    <2>7. it[T] = IF v[c] > it[T \ {c}] THEN v[c] ELSE it[T \ {c}]
      BY <2>1, <2>2
    <2> QED BY <2>6, <2>7
  <1> HIDE DEF P
  <1>4. 0 .. n \subseteq G
    <2>1. 0 \in G /\ \A k \in 0 .. n - 1 : k \in G => k + 1 \in G
      BY <1>1, <1>2, <1>3
    <2> HIDE DEF G
    <2> QED BY <1>1, <2>1, InductionUpTo
  <1>5. P(n)
    BY <1>1, <1>4
  <1> QED BY <1>5 DEF P

(* BestFinalScore returns the largest score of a final state. *)
LEMMA BestFinalScoreIsBest ==
  ASSUME NEW g, IsGraph(g), NEW v, \A s \in States(g) : v[s] \in Int
  PROVE  BestOf(g.finals, v, BestFinalScore(g, v))
  <1> DEFINE S == g.finals
             Step(s, best) == IF v[s] > best THEN v[s] ELSE best
             Is(f) == f = [T \in SUBSET S |->
                             IF T = {} THEN SMALL_SCORE
                             ELSE LET c == CHOOSE c \in T : TRUE IN Step(c, f[T \ {c}])]
             It == CHOOSE f : Is(f)
             h == [T \in SUBSET S |-> CHOOSE x : BestOf(T, v, x)]
  <1>1. BestFinalScore(g, v) = It[S]
    BY DEF BestFinalScore, FoldSet, MapThenFoldSet
  <1>2. PICK m \in Nat : S \subseteq 0 .. m - 1 /\ m = NumStates(g)
    BY GraphFacts DEF IsGraph
  <1>3. IsFiniteSet(S)
    <2>1. m - 1 \in Int /\ 0 \in Int
      BY <1>2
    <2>2. IsFiniteSet(0 .. m - 1)
      BY <2>1, FS_Interval
    <2> QED BY <1>2, <2>2, FS_Subset
  <1>4. \A s \in S : v[s] \in Int
    BY DEF IsGraph
  <1>5. \A T \in SUBSET S : BestOf(T, v, h[T])
    BY <1>2, <1>4, SomeIsBest
  <1> HIDE DEF S, h
  <1>6. ASSUME NEW T \in SUBSET S, T # {}, NEW c, c = CHOOSE d \in T : TRUE
        PROVE  h[T] = IF v[c] > h[T \ {c}] THEN v[c] ELSE h[T \ {c}]
    <2>1. c \in T /\ BestOf(T \ {c}, v, h[T \ {c}]) /\ \A s \in T : v[s] \in Int
      BY <1>4, <1>5, <1>6
    <2>2. BestOf(T, v, IF v[c] > h[T \ {c}] THEN v[c] ELSE h[T \ {c}])
      BY <2>1, BestWithOneMore
    <2>3. BestOf(T, v, h[T])
      BY <1>5
    <2> QED BY <2>1, <2>2, <2>3, OneIsBest
  <1>7. h[{}] = SMALL_SCORE
    <2>1. BestOf({}, v, SMALL_SCORE)
      BY SmallScore DEF BestOf
    <2> QED BY <1>5, <2>1, OneIsBest
  <1>8. h = [T \in SUBSET S |-> h[T]]
    BY DEF h
  <1>9. Is(h)
    <2>1. ASSUME NEW T \in SUBSET S
          PROVE  h[T] = IF T = {} THEN SMALL_SCORE
                        ELSE LET c == CHOOSE c \in T : TRUE IN Step(c, h[T \ {c}])
      BY <1>6, <1>7
    <2> HIDE DEF Step
    <2> QED BY <1>8, <2>1
  <1>10. Is(It)
    BY ZenonT(60), <1>9
  <1> HIDE DEF It
  <1>11. \A T \in SUBSET S : It[T] = IF T = {} THEN SMALL_SCORE
                                     ELSE LET c == CHOOSE c \in T : TRUE
                                          IN IF v[c] > It[T \ {c}] THEN v[c] ELSE It[T \ {c}]
    BY <1>10
  <1>12. BestOf(S, v, It[S])
    BY <1>3, <1>4, <1>11, TableHasBest
  <1> QED BY <1>1, <1>12 DEF S

-----------------------------------------------------------------------------
(* Pruning.                                                                *)

(* The scores of the passes, in any order of the arcs. *)
LEMMA PassesGiveScores ==
  ASSUME NEW g, IsBody(g)
  PROVE  PrevScores(g, INITIAL_STATE, {}) \in PrevRecords(g) /\ RestScores(g) \in [States(g) -> Int]
  <1>1. PICK n : n = Len(g.arcs)
    OBVIOUS
  <1>2. n \in Nat /\ DOMAIN g.arcs = 1 .. n
    BY <1>1, GraphFacts
  <1>3. PrevStart(g, INITIAL_STATE) \in PrevRecords(g)
    BY PrevStepType
  <1>4. \A a \in PrevRecords(g), i \in 1 .. n :
          PrevStep(g, INITIAL_STATE, {}, a, i) \in PrevRecords(g)
    BY <1>1, PrevStepType
  <1>5. PICK acc : PrevScoresRows(g, INITIAL_STATE, {}, n, PrevRecords(g), acc)
    BY <1>2, <1>3, <1>4, PrevScoresByArcs, Zenon
  <1>6. RestStart(g) \in [States(g) -> Int]
    BY RestStepType
  <1>7. \A a \in [States(g) -> Int], i \in 1 .. n : RestStep(g, a, i) \in [States(g) -> Int]
    BY <1>1, RestStepType
  <1>8. PICK rest : RestScoresRows(g, n, [States(g) -> Int], rest)
    BY <1>2, <1>6, <1>7, RestScoresByArcs, Zenon
  <1>9. n \in 0 .. n
    BY <1>2
  <1> QED BY <1>5, <1>8, <1>9 DEF PrevScoresRows, RestScoresRows

\* h is g with other flags.
IsButFlagged(g, h, F) ==
  /\ IsGraph(h) /\ (ListsFit(g) => ListsFit(h)) /\ (InBounds(g) => InBounds(h))
  /\ h.arcs = g.arcs /\ Arcs(h) = Arcs(g) /\ h.initialStateScore = g.initialStateScore
  /\ h.finals = g.finals /\ NonPruned(h) = {i \in Arcs(g) : ~F[i]}
  /\ (TopologicallyOrdered(h) <=> TopologicallyOrdered(g))

(* A graph of which only the flags differ. *)
LEMMA OtherFlags ==
  ASSUME NEW g, IsGraph(g), NEW F \in [Arcs(g) -> BOOLEAN],
         NEW h, h = [g EXCEPT !.arcsPruned = F]
  PROVE  IsButFlagged(g, h, F)
  <1>1. g \in [arcs : Seq(ArcRecords), arcsPruned : Seq(BOOLEAN), scrComps : Seq(Nat),
               states : Seq(StateRecords), finals : SUBSET Nat, initialStateScore : Int]
    BY DEF IsGraph, IsBody
  <1>2. Len(g.arcs) \in Nat /\ Arcs(g) = 1 .. Len(g.arcs)
    BY GraphFacts DEF IsGraph
  <1>3. F \in Seq(BOOLEAN) /\ Len(F) = Len(g.arcs)
    BY <1>2
  <1>4. /\ h.arcs = g.arcs /\ h.arcsPruned = F /\ h.scrComps = g.scrComps
        /\ h.states = g.states /\ h.finals = g.finals
        /\ h.initialStateScore = g.initialStateScore
        /\ h \in [arcs : Seq(ArcRecords), arcsPruned : Seq(BOOLEAN), scrComps : Seq(Nat),
                  states : Seq(StateRecords), finals : SUBSET Nat, initialStateScore : Int]
    BY <1>1, <1>3
  <1>5. Arcs(h) = Arcs(g) /\ States(h) = States(g)
    BY <1>4 DEF Arcs, States, NumStates
  <1>6. IsGraph(h)
    BY <1>3, <1>4, <1>5 DEF IsGraph, IsBody
  <1>7. ListsFit(g) => ListsFit(h)
    <2> SUFFICES ASSUME ListsFit(g) PROVE ListsFit(h)
      OBVIOUS
    <2>1. ASSUME NEW s \in States(h)
          PROVE  /\ h.states[s + 1].toPred = {i \in Arcs(h) : h.arcs[i].succ = s}
                 /\ h.states[s + 1].toSucc = {i \in Arcs(h) : h.arcs[i].pred = s}
      <3>1. {i \in Arcs(h) : h.arcs[i].succ = s} = {i \in Arcs(g) : g.arcs[i].succ = s}
        BY <1>4, <1>5
      <3>2. {i \in Arcs(h) : h.arcs[i].pred = s} = {i \in Arcs(g) : g.arcs[i].pred = s}
        BY <1>4, <1>5
      <3>3. h.states[s + 1] = g.states[s + 1] /\ s \in States(g)
        BY <1>4, <1>5
      <3> QED BY <3>1, <3>2, <3>3 DEF ListsFit
    <2>2. \A i \in Arcs(h) : h.scrComps[i] = h.arcs[i].words
      BY <1>4, <1>5 DEF ListsFit
    <2> QED BY <2>1, <2>2 DEF ListsFit
  <1>8. InBounds(g) => InBounds(h)
    BY <1>4, <1>5 DEF InBounds
  <1>9. NonPruned(h) = {i \in Arcs(g) : ~F[i]}
    BY <1>4, <1>5 DEF NonPruned
  <1>10. TopologicallyOrdered(h) <=> TopologicallyOrdered(g)
    BY <1>4, <1>5 DEF TopologicallyOrdered
  <1> QED BY <1>4, <1>5, <1>6, <1>7, <1>8, <1>9, <1>10 DEF IsButFlagged

\* The flags that pruning gives the arcs.
Through(g, i) ==
  ThroughArc(g.arcs[i], PrevScores(g, INITIAL_STATE, {}).score, RestScores(g))
Worst(g, t) == BestFinalScore(g, PrevScores(g, INITIAL_STATE, {}).score) + t
Flags(g, t) == [i \in Arcs(g) |-> IF t = UNLIMITED_DENSITY THEN FALSE ELSE Through(g, i) < Worst(g, t)]

(* Pruning gives the arcs their flags, and changes nothing else. *)
LEMMA PruneSetsFlags ==
  ASSUME NEW g, IsGraph(g), ListsFit(g), NEW t
  PROVE  Prune(g, t) = [g EXCEPT !.arcsPruned = Flags(g, t)]
  <1>1. UNION {g.states[k].toPred : k \in DOMAIN g.states} = Arcs(g)
    <2>1. g.states \in Seq(StateRecords) /\ NumStates(g) = Len(g.states)
      BY DEF IsGraph, IsBody, NumStates
    <2>2. ASSUME NEW k \in DOMAIN g.states
          PROVE  g.states[k].toPred \subseteq Arcs(g)
      <3>1. PICK s : s = k - 1
        OBVIOUS
      <3>2. s \in States(g) /\ k = s + 1
        BY <2>1, <3>1 DEF States
      <3> QED BY <3>2 DEF ListsFit
    <2>3. ASSUME NEW i \in Arcs(g)
          PROVE  \E k \in DOMAIN g.states : i \in g.states[k].toPred
      <3>1. g.arcs[i].succ \in States(g)
        BY GraphFacts DEF IsGraph
      <3>2. g.arcs[i].succ + 1 \in DOMAIN g.states
        BY <2>1, <3>1 DEF States
      <3> QED BY <3>1, <3>2 DEF ListsFit
    <2> QED BY <2>2, <2>3
  <1>2. CASE t = UNLIMITED_DENSITY
    BY <1>2 DEF Prune, Flags
  <1>3. CASE t # UNLIMITED_DENSITY
    <2>1. Prune(g, t) =
            [g EXCEPT !.arcsPruned =
               [i \in Arcs(g) |-> IF i \in UNION {g.states[k].toPred : k \in DOMAIN g.states}
                                  THEN Through(g, i) < Worst(g, t) ELSE @[i]]]
      BY <1>3, Zenon DEF Prune, PruneArcsToPredStates, Through, Worst
    <2> QED BY <1>1, <1>3, <2>1 DEF Flags
  <1> QED BY <1>2, <1>3

(* An arc of a graph in topological order has a score no better than one that
   enters the state it leaves. *)
LEMMA BetterArcBefore ==
  ASSUME NEW g, IsGraph(g), InBounds(g), TopologicallyOrdered(g), Grounded(g),
         NEW i \in NonPruned(g), g.arcs[i].pred # INITIAL_STATE
  PROVE  \E j \in NonPruned(g) : g.arcs[j].succ = g.arcs[i].pred /\ Through(g, j) >= Through(g, i)
  <1>1. IsBody(g)
    BY DEF IsGraph
  <1>2. PICK b, L : ScoresWithin(g, b, L)
    BY <1>1, ScoresHaveBound
  <1>3. PICK prev, rest : prev = PrevScores(g, INITIAL_STATE, {}) /\ rest = RestScores(g)
    OBVIOUS
  <1>4. PrevAfter(g, L, Len(g.arcs), prev)
    BY <1>1, <1>2, <1>3, PrevScoresFit
  <1>5. RestAfter(g, L, Len(g.arcs), rest)
    BY <1>1, <1>2, <1>3, RestScoresFit
  <1>6. PICK p : p = g.arcs[i].pred
    OBVIOUS
  <1>7. /\ Len(g.arcs) \in Nat /\ NonPruned(g) \subseteq Arcs(g)
        /\ \A k \in NonPruned(g) : k \in 1 .. Len(g.arcs)
    BY <1>1, GraphFacts
  <1>8. p \in Entered(g, Len(g.arcs))
    <2>1. PICK j \in NonPruned(g) : g.arcs[j].succ = p
      BY <1>6 DEF Grounded
    <2>2. j <= Len(g.arcs)
      BY <1>7
    <2> QED BY <2>1, <2>2 DEF Entered
  <1>9. PICK j : j = prev.arc[p]
    BY SMTT(40)
  <1>10. /\ j \in NonPruned(g) /\ g.arcs[j].succ = p
         /\ prev.score[p] = prev.score[g.arcs[j].pred] + g.arcs[j].score
    BY <1>4, <1>8, <1>9 DEF PrevAfter
  <1>11. i \in Arcs(g) /\ j \in Arcs(g)
    BY <1>7, <1>10
  <1>12. PICK x \in Int, y \in Int, z \in Int, u \in Int, v \in Int, w \in Int :
           /\ x = g.arcs[i].score /\ y = g.arcs[j].score
           /\ z = prev.score[p] /\ u = prev.score[g.arcs[j].pred]
           /\ v = rest[p] /\ w = rest[g.arcs[i].succ]
    <2>1. /\ g.arcs[i].score \in Int /\ g.arcs[j].score \in Int /\ p \in States(g)
          /\ g.arcs[j].pred \in States(g) /\ g.arcs[i].succ \in States(g)
      BY <1>1, <1>6, <1>11, GraphFacts
    <2>2. prev.score \in [States(g) -> Int]
      BY <1>4 DEF PrevAfter, PrevRecords
    <2>3. rest \in [States(g) -> Int]
      BY <1>5 DEF RestAfter
    <2> QED BY <2>1, <2>2, <2>3
  <1>13. v >= x + w
    <2>1. i > Len(g.arcs) - Len(g.arcs)
      BY <1>7
    <2>2. v >= AtLeastSmall(x + w)
      BY <1>5, <1>6, <1>12, <2>1 DEF RestAfter
    <2> QED BY <2>2, SmallScore DEF AtLeastSmall
  <1>14. Through(g, i) = (z + x) + w
    BY <1>3, <1>6, <1>12 DEF Through, ThroughArc
  <1>15. Through(g, j) = (u + y) + v
    BY <1>3, <1>10, <1>12 DEF Through, ThroughArc
  <1>16. z = u + y
    BY <1>10, <1>12
  <1>17. Through(g, j) >= Through(g, i)
    BY <1>13, <1>14, <1>15, <1>16
  <1> QED BY <1>6, <1>10, <1>17

(* Pruning. *)
LEMMA PruneKeeps == UseInv /\ (\E t \in LogThresholds : PruneBy(t)) => UseInv'
  <1> SUFFICES ASSUME UseInv, NEW t \in LogThresholds, PruneBy(t) PROVE UseInv'
    OBVIOUS
  <1>1. PICK g, F : g = graph /\ F = Flags(g, t)
    OBVIOUS
  <1>2. /\ IsGraph(g) /\ IsBody(g) /\ InBounds(g) /\ processed = FALSE /\ reordered = FALSE
        /\ ListsFit(g) /\ Building(g) /\ processed' = TRUE /\ reordered' = FALSE
        /\ graph' = Prune(g, t)
    BY <1>1 DEF UseInv, Sound, PruneBy, IsGraph
  <1>3. graph' = [g EXCEPT !.arcsPruned = F]
    BY <1>1, <1>2, PruneSetsFlags
  <1>4. F \in [Arcs(g) -> BOOLEAN]
    <2>1. \A i \in Arcs(g) : (Through(g, i) < Worst(g, t)) \in BOOLEAN
      OBVIOUS
    <2>2. \A i \in Arcs(g) :
            (IF t = UNLIMITED_DENSITY THEN FALSE ELSE Through(g, i) < Worst(g, t)) \in BOOLEAN
      BY <2>1, Zenon
    <2>3. Flags(g, t) \in [Arcs(g) -> BOOLEAN]
      BY <2>2, Zenon DEF Flags
    <2> QED BY <1>1, <2>3
  <1>5. IsButFlagged(g, graph', F)
    BY <1>2, <1>3, <1>4, OtherFlags
  <1>6. ASSUME TopologicallyOrdered(graph')
        PROVE  Grounded(graph')
    <2> SUFFICES ASSUME NEW i \in NonPruned(graph'), graph'.arcs[i].pred # INITIAL_STATE
                 PROVE  \E j \in NonPruned(graph') : graph'.arcs[j].succ = graph'.arcs[i].pred
      BY DEF Grounded
    <2>1. /\ TopologicallyOrdered(g) /\ graph'.arcs = g.arcs
          /\ NonPruned(graph') = {k \in Arcs(g) : ~F[k]}
      BY <1>5, <1>6 DEF IsButFlagged
    <2>2. NonPruned(g) = Arcs(g) /\ Grounded(g)
      BY <1>2 DEF Building, NonPruned
    <2>3. i \in NonPruned(g) /\ ~F[i] /\ i \in Arcs(g) /\ g.arcs[i].pred # INITIAL_STATE
      BY <2>1, <2>2
    <2>4. PICK j \in NonPruned(g) :
            g.arcs[j].succ = g.arcs[i].pred /\ Through(g, j) >= Through(g, i)
      BY <1>2, <2>1, <2>2, <2>3, BetterArcBefore
    <2>5. ~F[j]
      <3>1. CASE t = UNLIMITED_DENSITY
        BY <3>1, <1>1, <2>2, <2>4 DEF Flags
      <3>2. CASE t # UNLIMITED_DENSITY
        <4>1. PICK v : v = PrevScores(g, INITIAL_STATE, {}).score
          OBVIOUS
        <4>2. /\ v \in [States(g) -> Int] /\ RestScores(g) \in [States(g) -> Int]
          BY <1>2, <4>1, PassesGiveScores DEF PrevRecords
        <4>3. BestFinalScore(g, v) \in Int
          BY <1>2, <4>2, BestFinalScoreIsBest DEF BestOf
        <4>4. t \in Int
          BY WordGraphConstants
        <4>5. Worst(g, t) \in Int
          BY <4>1, <4>3, <4>4 DEF Worst
        <4>6. ASSUME NEW k \in Arcs(g) PROVE Through(g, k) \in Int
          <5>1. /\ g.arcs[k].score \in Int /\ g.arcs[k].pred \in States(g)
                /\ g.arcs[k].succ \in States(g)
            BY <1>2, GraphFacts
          <5> QED BY <4>1, <4>2, <5>1 DEF Through, ThroughArc
        <4>7. ~(Through(g, i) < Worst(g, t))
          BY <1>1, <2>3, <3>2 DEF Flags
        <4>8. Through(g, i) \in Int /\ Through(g, j) \in Int
          BY <2>2, <2>3, <4>6
        <4>9. ~(Through(g, j) < Worst(g, t))
          BY <2>4, <4>5, <4>7, <4>8
        <4> QED BY <1>1, <2>2, <4>9, <3>2 DEF Flags
      <3> QED BY <3>1, <3>2
    <2> QED BY <2>1, <2>2, <2>4, <2>5
  <1>7. IsGraph(graph') /\ InBounds(graph') /\ ListsFit(graph')
    BY <1>2, <1>5 DEF IsButFlagged
  <1> QED BY <1>2, <1>6, <1>7 DEF UseInv, Sound

-----------------------------------------------------------------------------
(* Useful states.                                                          *)

(* In topological order, each state that an arc enters is reached. *)
LEMMA ReachedAre ==
  ASSUME NEW g, IsBody(g), TopologicallyOrdered(g), Grounded(g)
  PROVE  StatesReachableFromInit(g) = {INITIAL_STATE} \cup Entered(g, Len(g.arcs))
  <1>1. PICK n : n = Len(g.arcs)
    OBVIOUS
  <1>2. /\ n \in Nat /\ DOMAIN g.arcs = 1 .. n /\ NonPruned(g) \subseteq Arcs(g) /\ Arcs(g) = 1 .. n
        /\ \A i \in 1 .. n : g.arcs[i].succ \in Nat
    BY <1>1, GraphFacts
  <1>3. {INITIAL_STATE} \in SUBSET Nat
    BY DEF INITIAL_STATE
  <1>4. \A a \in SUBSET Nat, i \in 1 .. n : ReachStep(g, a, i) \in SUBSET Nat
    BY <1>2 DEF ReachStep
  <1>5. PICK acc : ReachableRows(g, n, SUBSET Nat, acc)
    BY <1>2, <1>3, <1>4, ReachableByArcs, Zenon
  <1>6. /\ acc[0] = {INITIAL_STATE} /\ acc[n] = StatesReachableFromInit(g)
        /\ \A k \in 0 .. n - 1 : acc[k + 1] = ReachStep(g, acc[k], k + 1)
    BY <1>5 DEF ReachableRows
  <1> DEFINE G == {k \in 0 .. n : acc[k] = {INITIAL_STATE} \cup Entered(g, k)}
  <1>7. acc[0] = {INITIAL_STATE} \cup Entered(g, 0)
    <2>1. Entered(g, 0) = {}
      BY <1>2 DEF Entered
    <2> QED BY <1>6, <2>1
  <1>8. ASSUME NEW k \in 0 .. n - 1, acc[k] = {INITIAL_STATE} \cup Entered(g, k)
        PROVE  acc[k + 1] = {INITIAL_STATE} \cup Entered(g, k + 1)
    <2>1. PICK i : i = k + 1
      OBVIOUS
    <2>2. /\ i \in Arcs(g) /\ i \in Nat /\ k \in Nat
          /\ \A j \in NonPruned(g) : j \in Nat /\ (j <= i <=> j <= k \/ j = i)
      BY <1>2, <2>1
    <2>3. CASE i \in NonPruned(g)
      <3>1. g.arcs[i].pred \in acc[k]
        <4>1. CASE g.arcs[i].pred = INITIAL_STATE
          BY <4>1, <1>8
        <4>2. CASE g.arcs[i].pred # INITIAL_STATE
          <5>1. PICK j \in NonPruned(g) : g.arcs[j].succ = g.arcs[i].pred
            BY <2>3, <4>2 DEF Grounded
          <5>2. j < i
            BY <1>2, <2>2, <5>1 DEF TopologicallyOrdered
          <5>3. j <= k
            BY <2>1, <2>2, <5>2
          <5> QED BY <1>8, <5>1, <5>3 DEF Entered
        <4> QED BY <4>1, <4>2
      <3>2. acc[i] = acc[k] \cup {g.arcs[i].succ}
        BY <1>6, <2>1, <2>3, <3>1 DEF ReachStep
      <3>3. Entered(g, i) = Entered(g, k) \cup {g.arcs[i].succ}
        BY <2>2, <2>3 DEF Entered
      <3> QED BY <1>8, <2>1, <3>2, <3>3
    <2>4. CASE i \notin NonPruned(g)
      <3>1. acc[i] = acc[k]
        BY <1>6, <2>1, <2>4 DEF ReachStep
      <3>2. Entered(g, i) = Entered(g, k)
        BY <2>2, <2>4 DEF Entered
      <3> QED BY <1>8, <2>1, <3>1, <3>2
    <2> QED BY <2>3, <2>4
  <1>9. 0 .. n \subseteq G
    <2>1. 0 \in G /\ \A k \in 0 .. n - 1 : k \in G => k + 1 \in G
      BY SMTT(40), <1>2, <1>7, <1>8
    <2> HIDE DEF G
    <2> QED BY <1>2, <2>1, InductionUpTo
  <1>10. n \in 0 .. n
    BY <1>2
  <1> QED BY <1>1, <1>6, <1>9, <1>10

\* What the pass over the last k arcs makes of the useful states.
UsefulAfter(g, k, useful) ==
  /\ useful \in SUBSET States(g) /\ UsefulFinals(g) \subseteq useful
  /\ \A i \in NonPruned(g) :
       i > Len(g.arcs) - k /\ g.arcs[i].succ \in useful => g.arcs[i].pred \in useful
  /\ \A s \in useful :
       s \in UsefulFinals(g)
         \/ \E i \in NonPruned(g) : g.arcs[i].pred = s /\ g.arcs[i].succ \in useful

(* One arc of the pass. *)
LEMMA UsefulStepKeeps ==
  ASSUME NEW g, IsBody(g), TopologicallyOrdered(g), Grounded(g),
         NEW k \in 0 .. Len(g.arcs) - 1, NEW useful, UsefulAfter(g, k, useful)
  PROVE  UsefulAfter(g, k + 1, UsefulStep(g, useful, k + 1))
  <1>1. PICK n, i, h : n = Len(g.arcs) /\ i = n - k /\ h = k + 1
    OBVIOUS
  <1>2. /\ n \in Nat /\ NonPruned(g) \subseteq Arcs(g) /\ Arcs(g) = 1 .. n
    BY <1>1, GraphFacts
  <1>3. k \in Nat /\ k < n
    BY <1>1, <1>2
  <1>4. i \in 1 .. n /\ h \in Nat /\ n + 1 - h = i
    <2>1. i = n - k /\ h = k + 1 /\ n \in Nat
      BY <1>1, <1>2
    <2> QED BY <1>3, <2>1
  <1>5. ASSUME NEW j \in NonPruned(g) PROVE j \in Nat /\ (j > n - h <=> j > n - k \/ j = i)
    <2>1. i = n - k /\ h = k + 1 /\ n \in Nat /\ j \in Nat
      BY <1>1, <1>2
    <2> QED BY <1>3, <2>1
  <1>6. PICK p, s : p = g.arcs[i].pred /\ s = g.arcs[i].succ
    OBVIOUS
  <1>7. p \in States(g)
    BY <1>2, <1>4, <1>6, GraphFacts
  <1>8. i \in NonPruned(g) => p \in StatesReachableFromInit(g)
    <2> SUFFICES ASSUME i \in NonPruned(g), p # INITIAL_STATE
                 PROVE  p \in Entered(g, Len(g.arcs))
      BY ReachedAre
    <2>1. PICK j \in NonPruned(g) : g.arcs[j].succ = p
      BY <1>6 DEF Grounded
    <2>2. j <= Len(g.arcs)
      BY <1>1, <1>2
    <2> QED BY <2>1, <2>2 DEF Entered
  <1>9. UsefulStep(g, useful, h) =
          IF i \in NonPruned(g) /\ s \in useful THEN useful \cup {p} ELSE useful
    BY <1>1, <1>4, <1>6, <1>8 DEF UsefulStep
  <1>10. CASE i \in NonPruned(g) /\ s \in useful
    <2>1. PICK next : next = useful \cup {p}
      OBVIOUS
    <2>2. next \in SUBSET States(g) /\ UsefulFinals(g) \subseteq next
      BY <1>7, <2>1 DEF UsefulAfter
    <2>3. ASSUME NEW j \in NonPruned(g), j > n - h, g.arcs[j].succ \in next
          PROVE  g.arcs[j].pred \in next
      <3>1. CASE j = i
        BY <3>1, <1>6, <2>1
      <3>2. CASE j > n - k
        <4>1. i < j
          BY <3>2, <1>1, <1>2, <1>5
        <4>2. g.arcs[j].succ # p
          <5>1. i \in Nat /\ j \in Nat /\ ~(j < i)
            BY <4>1, <1>2, <1>4, <1>5
          <5> QED BY <5>1, <1>2, <1>4, <1>6 DEF TopologicallyOrdered
        <4> QED BY <4>2, <2>1, <2>3, <3>2, <1>1 DEF UsefulAfter
      <3> QED BY <3>1, <3>2, <2>3, <1>5
    <2>4. ASSUME NEW t \in next
          PROVE  t \in UsefulFinals(g)
                   \/ \E j \in NonPruned(g) : g.arcs[j].pred = t /\ g.arcs[j].succ \in next
      <3>1. CASE t = p
        BY <3>1, <1>6, <1>10, <2>1
      <3>2. CASE t \in useful
        BY <3>2, <2>1 DEF UsefulAfter
      <3> QED BY <3>1, <3>2, <2>1
    <2>5. UsefulAfter(g, h, next)
      BY <1>1, <2>2, <2>3, <2>4 DEF UsefulAfter
    <2> QED BY <1>1, <1>9, <1>10, <2>1, <2>5
  <1>11. CASE ~(i \in NonPruned(g) /\ s \in useful)
    <2>1. ASSUME NEW j \in NonPruned(g), j > n - h, g.arcs[j].succ \in useful
          PROVE  g.arcs[j].pred \in useful
      BY <1>1, <1>5, <1>6, <1>11, <2>1 DEF UsefulAfter
    <2>2. UsefulAfter(g, h, useful)
      BY <1>1, <2>1 DEF UsefulAfter
    <2> QED BY <1>1, <1>9, <1>11, <2>2
  <1> QED BY <1>10, <1>11

\* The arcs between useful states.
Kept(g, useful) ==
  {i \in NonPruned(g) : g.arcs[i].pred \in useful /\ g.arcs[i].succ \in useful}

\* The useful states are those that arcs enter and that lead to a final state.
AreUseful(g, useful) ==
  /\ useful \in SUBSET States(g)
  /\ \A i \in NonPruned(g) : g.arcs[i].succ \in useful => i \in Kept(g, useful)
  /\ \A i \in NonPruned(g) : g.arcs[i].succ \in g.finals => g.arcs[i].succ \in useful
  /\ \A s \in useful : s \in g.finals \/ \E i \in Kept(g, useful) : g.arcs[i].pred = s
  /\ \A s \in useful : s = INITIAL_STATE \/ \E i \in Kept(g, useful) : g.arcs[i].succ = s
  /\ \A i \in Kept(g, useful) : INITIAL_STATE \in useful

(* UsefulStates finds them. *)
LEMMA UsefulStatesAre ==
  ASSUME NEW g, IsGraph(g), ListsFit(g), TopologicallyOrdered(g), Grounded(g)
  PROVE  AreUseful(g, UsefulStates(g))
  <1>1. PICK n, U : n = Len(g.arcs) /\ U = UsefulStates(g)
    OBVIOUS
  <1>2. /\ IsBody(g) /\ n \in Nat /\ DOMAIN g.arcs = 1 .. n /\ NonPruned(g) \subseteq Arcs(g)
        /\ Arcs(g) = 1 .. n /\ g.finals \subseteq States(g)
        /\ \A i \in 1 .. n : g.arcs[i].pred \in States(g) /\ g.arcs[i].succ \in States(g)
    BY <1>1, GraphFacts DEF IsGraph
  <1>3. UsefulFinals(g) = {s \in g.finals : \E i \in NonPruned(g) : g.arcs[i].succ = s}
    BY <1>2, ListsOfState DEF UsefulFinals
  <1>4. UsefulFinals(g) \in SUBSET States(g)
    BY <1>2, <1>3
  <1>5. \A a \in SUBSET States(g), i \in 1 .. n : UsefulStep(g, a, i) \in SUBSET States(g)
    <2> SUFFICES ASSUME NEW a \in SUBSET States(g), NEW i \in 1 .. n
                 PROVE  UsefulStep(g, a, i) \in SUBSET States(g)
      OBVIOUS
    <2>1. PICK j : j = Len(g.arcs) + 1 - i
      OBVIOUS
    <2>2. j \in 1 .. n
      BY <1>1, <1>2, <2>1
    <2>3. g.arcs[j].pred \in States(g)
      BY <1>2, <2>2
    <2> QED BY <2>1, <2>3 DEF UsefulStep
  <1>6. PICK acc : UsefulRows(g, n, SUBSET States(g), acc)
    BY <1>2, <1>4, <1>5, UsefulByArcs, Zenon
  <1>7. /\ acc[0] = UsefulFinals(g) /\ acc[n] = U
        /\ \A k \in 0 .. n - 1 : acc[k + 1] = UsefulStep(g, acc[k], k + 1)
    BY <1>1, <1>6 DEF UsefulRows
  <1> DEFINE G == {k \in 0 .. n : UsefulAfter(g, k, acc[k])}
  <1>8. UsefulAfter(g, 0, acc[0])
    <2>1. \A i \in NonPruned(g) : ~(i > Len(g.arcs) - 0)
      BY <1>1, <1>2
    <2> QED BY <1>4, <1>7, <2>1 DEF UsefulAfter
  <1>9. ASSUME NEW k \in 0 .. n - 1, UsefulAfter(g, k, acc[k])
        PROVE  UsefulAfter(g, k + 1, acc[k + 1])
    BY <1>1, <1>2, <1>7, <1>9, UsefulStepKeeps
  <1>10. 0 .. n \subseteq G
    <2>1. 0 \in G /\ \A k \in 0 .. n - 1 : k \in G => k + 1 \in G
      BY <1>2, <1>8, <1>9
    <2> HIDE DEF G
    <2> QED BY <1>2, <2>1, InductionUpTo
  <1>11. UsefulAfter(g, n, U)
    BY <1>2, <1>7, <1>10
  <1>12. \A i \in NonPruned(g) : g.arcs[i].succ \in U => i \in Kept(g, U)
    <2> SUFFICES ASSUME NEW i \in NonPruned(g), g.arcs[i].succ \in U PROVE i \in Kept(g, U)
      OBVIOUS
    <2>1. i > Len(g.arcs) - n
      BY <1>1, <1>2
    <2> QED BY <1>11, <2>1 DEF UsefulAfter, Kept
  <1>13. \A i \in NonPruned(g) : g.arcs[i].succ \in g.finals => g.arcs[i].succ \in U
    BY <1>3, <1>11 DEF UsefulAfter
  <1>14. \A s \in U : s \in g.finals \/ \E i \in Kept(g, U) : g.arcs[i].pred = s
    BY <1>3, <1>11, <1>12 DEF UsefulAfter
  <1>15. ASSUME NEW s \in U, s # INITIAL_STATE
         PROVE  \E i \in Kept(g, U) : g.arcs[i].succ = s
    <2>1. \E i \in NonPruned(g) : g.arcs[i].succ = s
      <3>1. CASE s \in UsefulFinals(g)
        BY <1>3, <3>1
      <3>2. CASE \E i \in NonPruned(g) : g.arcs[i].pred = s
        BY <3>2, <1>15 DEF Grounded
      <3> QED BY <3>1, <3>2, <1>11 DEF UsefulAfter
    <2> QED BY <2>1, <1>12
  <1>16. ASSUME NEW i \in Kept(g, U) PROVE INITIAL_STATE \in U
    <2>1. Kept(g, U) \subseteq NonPruned(g) /\ Kept(g, U) \in SUBSET Nat
      BY <1>2 DEF Kept
    <2>2. PICK j \in Kept(g, U) : \A k \in Kept(g, U) : j <= k
      BY <2>1, LeastOfSet
    <2>3. g.arcs[j].pred \in U
      BY <2>2 DEF Kept
    <2>4. CASE g.arcs[j].pred = INITIAL_STATE
      BY <2>3, <2>4
    <2>5. CASE g.arcs[j].pred # INITIAL_STATE
      <3>1. PICK k \in Kept(g, U) : g.arcs[k].succ = g.arcs[j].pred
        BY <1>15, <2>3, <2>5
      <3>2. k < j
        BY <1>2, <2>1, <3>1 DEF TopologicallyOrdered
      <3> QED BY <2>1, <2>2, <3>2
    <2> QED BY <2>4, <2>5
  <1>17. U \in SUBSET States(g)
    BY <1>11 DEF UsefulAfter
  <1> QED BY <1>1, <1>12, <1>13, <1>14, <1>15, <1>16, <1>17 DEF AreUseful

-----------------------------------------------------------------------------
(* The reduction to useful states.                                         *)

(* The numbers of the useful states follow their order. *)
LEMMA RemappedInOrder ==
  ASSUME NEW U \in SUBSET Nat, IsFiniteSet(U), NEW s \in U
  PROVE  /\ Remapped(U, s) \in Nat
         /\ \A t \in U : s < t => Remapped(U, s) < Remapped(U, t)
         /\ \A t \in U : Remapped(U, s) = Remapped(U, t) => s = t
         /\ Remapped(U, 0) = 0
  <1> DEFINE B(t) == {x \in U : x < t}
  <1>1. ASSUME NEW t PROVE IsFiniteSet(B(t)) /\ Cardinality(B(t)) \in Nat
    <2>1. B(t) \in SUBSET U
      OBVIOUS
    <2>2. IsFiniteSet(B(t))
      BY <2>1, FS_Subset
    <2> QED BY <2>2, FS_CardinalityType
  <1>2. ASSUME NEW t \in U, NEW u \in U, t < u
        PROVE  Cardinality(B(t)) < Cardinality(B(u))
    <2>4. u \in Nat /\ t \in Nat /\ ~(t < t) /\ \A x \in U : x < t => x < u
      BY <1>2
    <2>1. B(t) \in SUBSET B(u) /\ t \in B(u) /\ t \notin B(t)
      BY <1>2, <2>4
    <2> HIDE DEF B
    <2>2. /\ Cardinality(B(t)) <= Cardinality(B(u))
          /\ Cardinality(B(u)) = Cardinality(B(t)) => B(u) = B(t)
      BY <1>1, <2>1, FS_Subset
    <2>3. Cardinality(B(u)) # Cardinality(B(t))
      BY <2>1, <2>2
    <2> QED BY <1>1, <2>2, <2>3
  <1>3. \A t : Remapped(U, t) = Cardinality(B(t))
    BY DEF Remapped
  <1>4. B(0) = {}
    <2>1. \A x \in U : ~(x < 0)
      OBVIOUS
    <2> QED BY <2>1
  <1>5. Cardinality(B(0)) = 0
    BY <1>4, FS_EmptySet
  <1> HIDE DEF B
  <1>6. ASSUME NEW t \in U, Remapped(U, s) = Remapped(U, t) PROVE s = t
    <2>1. s < t \/ t < s \/ s = t
      OBVIOUS
    <2>2. ~(s < t) /\ ~(t < s)
      BY <1>1, <1>2, <1>3, <1>6
    <2> QED BY <2>1, <2>2
  <1> QED BY <1>1, <1>2, <1>3, <1>5, <1>6

GraphRecords ==
  [arcs : Seq(ArcRecords), arcsPruned : Seq(BOOLEAN), scrComps : Seq(Nat),
   states : Seq(StateRecords), finals : SUBSET Nat, initialStateScore : Int]

(* A graph with one arc more is a record of its fields, between whatever states
   the arc is. *)
LEMMA AddArcType ==
  ASSUME NEW g \in GraphRecords, NEW p \in Nat, NEW s \in Nat, NEW w \in Nat, NEW x \in Int,
         NEW c \in Nat
  PROVE  AddArc(g, p, s, w, x, c) \in GraphRecords
  <1> DEFINE blank == [toPred |-> {}, toSucc |-> {}]
             m == IF s < NumStates(g) THEN NumStates(g) ELSE s + 1
             room == [k \in 1 .. m |-> IF k <= NumStates(g) THEN g.states[k] ELSE blank]
             i == Len(g.arcs) + 1
             st == StatesWithArc(g, p, s, i)
             a == [pred |-> p, succ |-> s, words |-> w, score |-> x]
  <1>1. /\ g.states \in Seq(StateRecords) /\ NumStates(g) = Len(g.states) /\ NumStates(g) \in Nat
        /\ g.arcs \in Seq(ArcRecords) /\ i \in Nat
        /\ g.arcsPruned \in Seq(BOOLEAN) /\ g.scrComps \in Seq(Nat)
    BY DEF GraphRecords, NumStates
  <1>2. m \in Nat
    BY <1>1
  <1>3. ASSUME NEW k \in 1 .. m PROVE room[k] \in [toPred : SUBSET Nat, toSucc : SUBSET Nat]
    <2>1. CASE k <= NumStates(g)
      <3>1. k \in 1 .. Len(g.states)
        BY <1>1, <2>1
      <3> QED BY <1>1, <2>1, <3>1, Element DEF StateRecords
    <2>2. CASE ~(k <= NumStates(g))
      BY <2>2
    <2> QED BY <2>1, <2>2
  <1>4. st = [k \in 1 .. m |-> [toPred |-> room[k].toPred \cup {j \in {i} : k = s + 1},
                                toSucc |-> room[k].toSucc \cup {j \in {i} : k = p + 1}]]
    BY DEF StatesWithArc
  <1> HIDE DEF room, m, i
  <1>5. ASSUME NEW k \in 1 .. m
        PROVE  [toPred |-> room[k].toPred \cup {j \in {i} : k = s + 1},
                toSucc |-> room[k].toSucc \cup {j \in {i} : k = p + 1}] \in StateRecords
    <2>1. room[k].toPred \cup {j \in {i} : k = s + 1} \in SUBSET Nat
          /\ room[k].toSucc \cup {j \in {i} : k = p + 1} \in SUBSET Nat
      BY <1>1, <1>3
    <2> QED BY <2>1 DEF StateRecords
  <1>6. st \in Seq(StateRecords)
    <2>1. st \in [1 .. m -> StateRecords]
      BY <1>4, <1>5
    <2> QED BY <1>2, <2>1
  <1>7. a \in ArcRecords
    BY DEF ArcRecords
  <1> HIDE DEF a, st
  <1>8. /\ Append(g.arcs, a) \in Seq(ArcRecords) /\ Append(g.arcsPruned, FALSE) \in Seq(BOOLEAN)
        /\ Append(g.scrComps, c) \in Seq(Nat)
    BY <1>1, <1>7
  <1>9. AddArc(g, p, s, w, x, c) =
          [g EXCEPT !.arcs = Append(g.arcs, a), !.arcsPruned = Append(g.arcsPruned, FALSE),
                    !.scrComps = Append(g.scrComps, c), !.states = st]
    BY DEF AddArc, a, st, i, GraphRecords
  <1> QED BY <1>6, <1>8, <1>9 DEF GraphRecords

\* Arc i of g, between useful states with their new numbers.
Renumbered(g, U, i) ==
  [pred |-> Remapped(U, g.arcs[i].pred), succ |-> Remapped(U, g.arcs[i].succ),
   words |-> g.arcs[i].words, score |-> g.arcs[i].score]

\* h is what the reduction makes of the first k arcs of g, when U is its useful
\* states: arc m of h is arc o[m] of g.
KeptAfter(g, U, k, h, o) ==
  /\ IsBody(h) /\ ListsFit(h) /\ NonPruned(h) = Arcs(h) /\ Len(h.arcs) <= k
  /\ h.finals = {Remapped(U, s) : s \in g.finals \cap U}
  /\ h.initialStateScore = g.initialStateScore
  /\ \A m \in Arcs(h) :
       o[m] \in Kept(g, U) /\ o[m] <= k /\ h.arcs[m] = Renumbered(g, U, o[m])
  /\ \A i \in Kept(g, U) : i <= k => \E m \in Arcs(h) : o[m] = i
  /\ \A m, l \in Arcs(h) : m < l => o[m] < o[l]

(* One arc. *)
LEMMA KeepStepKeeps ==
  ASSUME NEW g, IsGraph(g), ListsFit(g), TopologicallyOrdered(g), NEW U, U = UsefulStates(g),
         AreUseful(g, U), NEW k \in 0 .. Len(g.arcs) - 1, NEW h, NEW o, KeptAfter(g, U, k, h, o)
  PROVE  \E r : KeptAfter(g, U, k + 1, KeepStep(g, h, k + 1), r)
  <1>1. PICK i, next, n : i = k + 1 /\ next = KeepStep(g, h, i) /\ n = Len(h.arcs)
    OBVIOUS
  <1>2. /\ IsBody(g) /\ NonPruned(g) \subseteq Arcs(g) /\ Arcs(g) = 1 .. Len(g.arcs)
        /\ Len(g.arcs) \in Nat /\ States(g) \subseteq Nat /\ States(g) = 0 .. NumStates(g) - 1
        /\ NumStates(g) \in Nat
    BY GraphFacts DEF IsGraph
  <1>3. /\ i \in Arcs(g) /\ i \in Nat /\ k \in Nat /\ k < i /\ Kept(g, U) \subseteq NonPruned(g)
        /\ \A j \in Kept(g, U) : j \in Nat /\ (j <= i <=> j <= k \/ j = i)
    BY <1>1, <1>2 DEF Kept
  <1>4. U \in SUBSET Nat /\ IsFiniteSet(U)
    <2>1. U \in SUBSET (0 .. NumStates(g) - 1)
      BY <1>2 DEF AreUseful
    <2>2. 0 \in Int /\ NumStates(g) - 1 \in Int
      BY <1>2
    <2>3. IsFiniteSet(0 .. NumStates(g) - 1)
      BY <2>2, FS_Interval
    <2> QED BY <1>2, <2>1, <2>3, FS_Subset
  <1>5. /\ IsBody(h) /\ n \in Nat /\ Arcs(h) = 1 .. n /\ n <= k
    BY <1>1, GraphFacts DEF KeptAfter
  <1>8. \A m \in Arcs(h) :
          o[m] \in Kept(g, U) /\ o[m] <= k /\ h.arcs[m] = Renumbered(g, U, o[m])
    BY DEF KeptAfter
  <1>6. CASE i \notin Kept(g, U)
    <2>1. next = h
      BY <1>1, <1>6 DEF KeepStep, Kept
    <2>2. \A j \in Kept(g, U) : j <= i => j <= k
      BY <1>3, <1>6
    <2>3. \A m \in Arcs(h) : o[m] \in Kept(g, U) /\ o[m] <= i
      BY <1>3 DEF KeptAfter
    <2>4. n <= i
      BY <1>3, <1>5
    <2>5. KeptAfter(g, U, i, h, o)
      BY <1>1, <2>2, <2>3, <2>4 DEF KeptAfter
    <2> QED BY <1>1, <2>1, <2>5
  <1>7. CASE i \in Kept(g, U)
    <2>1. PICK p, s, w, x, c : /\ p = Remapped(U, g.arcs[i].pred) /\ s = Remapped(U, g.arcs[i].succ)
                               /\ w = g.arcs[i].words /\ x = g.arcs[i].score /\ c = g.scrComps[i]
      OBVIOUS
    <2>2. /\ g.arcs[i].pred \in U /\ g.arcs[i].succ \in U /\ g.arcs[i].succ # INITIAL_STATE
          /\ INITIAL_STATE \in U /\ i \in NonPruned(g)
          /\ w \in Nat /\ x \in Int /\ c \in Nat /\ c = w
      <3>1. g.arcs[i].pred \in U /\ g.arcs[i].succ \in U /\ i \in NonPruned(g)
        BY <1>7 DEF Kept
      <3>2. INITIAL_STATE \in U
        BY <1>7 DEF AreUseful
      <3>3. c = w
        BY <1>3, <2>1 DEF ListsFit
      <3>4. /\ g.arcs[i].succ # INITIAL_STATE /\ g.arcs[i].words \in Nat
            /\ g.arcs[i].score \in Int /\ g.scrComps[i] \in Nat
        BY <1>2, <1>3, GraphFacts
      <3> QED BY <2>1, <3>1, <3>2, <3>3, <3>4
    <2>3. p \in Nat /\ s \in Nat
      BY SMTT(40), <1>4, <2>1, <2>2, RemappedInOrder
    <2>4. s # 0
      <3>1. Remapped(U, 0) = 0 /\ 0 \in U /\ g.arcs[i].succ # 0
        BY <1>4, <2>2, RemappedInOrder DEF INITIAL_STATE
      <3>2. Remapped(U, g.arcs[i].succ) # Remapped(U, 0)
        BY SMTT(40), <1>4, <2>2, <3>1, RemappedInOrder
      <3> QED BY <2>1, <3>1, <3>2
    <2>5. p = 0 \/ p \in States(h)
      <3>1. CASE g.arcs[i].pred = INITIAL_STATE
        BY <3>1, <1>4, <2>1, <2>2, RemappedInOrder DEF INITIAL_STATE
      <3>2. CASE g.arcs[i].pred # INITIAL_STATE
        <4>1. PICK j \in Kept(g, U) : g.arcs[j].succ = g.arcs[i].pred
          BY <3>2, <2>2 DEF AreUseful
        <4>2. j < i
          BY <1>2, <1>3, <4>1 DEF TopologicallyOrdered
        <4>3. j <= k
          BY <1>3, <4>1, <4>2
        <4>4. PICK m \in Arcs(h) : o[m] = j
          BY <4>1, <4>3 DEF KeptAfter
        <4>5. h.arcs[m].succ = p
          <5>1. h.arcs[m] = Renumbered(g, U, j)
            BY <4>4, <1>8
          <5>2. Renumbered(g, U, j).succ = Remapped(U, g.arcs[j].succ)
            BY DEF Renumbered
          <5> QED BY <2>1, <4>1, <5>1, <5>2
        <4> QED BY <1>5, <4>4, <4>5, GraphFacts
      <3> QED BY <3>1, <3>2
    <2>6. next = AddArc(h, p, s, w, x, c)
      BY <1>1, <2>1, <2>2 DEF KeepStep
    <2>7. HasOneMore(h, n, next, p, s, w, x, c)
      BY <1>1, <1>5, <2>2, <2>3, <2>4, <2>5, <2>6, ArcAdded
    <2>8. PICK r : r = [m \in 1 .. n + 1 |-> IF m = n + 1 THEN i ELSE o[m]]
      OBVIOUS
    <2>9. /\ IsBody(next) /\ Arcs(next) = Arcs(h) \cup {n + 1} /\ Len(next.arcs) = n + 1
          /\ \A m \in Arcs(h) : next.arcs[m] = h.arcs[m]
          /\ next.arcs[n + 1] = [pred |-> p, succ |-> s, words |-> w, score |-> x]
          /\ NonPruned(next) = Arcs(next) /\ ListsFit(next)
          /\ next.finals = h.finals /\ next.initialStateScore = h.initialStateScore
      BY <2>2, <2>7 DEF HasOneMore, KeptAfter
    <2>10. r[n + 1] = i /\ \A m \in Arcs(h) : r[m] = o[m] /\ m # n + 1 /\ m < n + 1
      BY <1>5, <2>8
    <2>11. n + 1 <= i
      BY <1>1, <1>3, <1>5
    <2>12. \A m \in Arcs(h) : o[m] \in Kept(g, U) /\ o[m] <= k /\ o[m] < i /\ o[m] <= i
      BY <1>3, <1>8
    <2>13. ASSUME NEW m \in Arcs(next)
           PROVE  /\ r[m] \in Kept(g, U) /\ r[m] <= i
                  /\ next.arcs[m] = Renumbered(g, U, r[m])
      <3>1. CASE m = n + 1
        BY <3>1, <1>3, <1>7, <2>1, <2>9, <2>10 DEF Renumbered
      <3>2. CASE m \in Arcs(h)
        BY <3>2, <2>9, <2>10, <2>12, <1>8
      <3> QED BY <3>1, <3>2, <2>9
    <2>14. ASSUME NEW j \in Kept(g, U), j <= i
           PROVE  \E m \in Arcs(next) : r[m] = j
      <3>1. CASE j = i
        BY <3>1, <2>9, <2>10
      <3>2. CASE j <= k
        <4>1. PICK m \in Arcs(h) : o[m] = j
          BY <3>2 DEF KeptAfter
        <4> QED BY <4>1, <2>9, <2>10
      <3> QED BY <3>1, <3>2, <2>14, <1>3
    <2>15. ASSUME NEW m \in Arcs(next), NEW l \in Arcs(next), m < l
           PROVE  r[m] < r[l]
      <3>1. m \in Arcs(h)
        BY <1>5, <2>9, <2>15
      <3>2. CASE l = n + 1
        BY <3>1, <3>2, <2>10, <2>12
      <3>3. CASE l \in Arcs(h)
        BY <3>1, <3>3, <2>10, <2>15 DEF KeptAfter
      <3> QED BY <3>2, <3>3, <2>9
    <2>16. /\ next.finals = {Remapped(U, t) : t \in g.finals \cap U}
           /\ next.initialStateScore = g.initialStateScore
      BY <2>9 DEF KeptAfter
    <2>17. KeptAfter(g, U, i, next, r)
      BY <2>9, <2>11, <2>13, <2>14, <2>15, <2>16 DEF KeptAfter
    <2> QED BY <1>1, <2>17
  <1> QED BY <1>6, <1>7

(* The whole pass. *)
LEMMA KeptGraphIs ==
  ASSUME NEW g, IsGraph(g), ListsFit(g), TopologicallyOrdered(g), Grounded(g), g.arcs # <<>>,
         NEW U, U = UsefulStates(g)
  PROVE  \E o : KeptAfter(g, U, Len(g.arcs), WgComposedOfUsefulStates(g), o)
  <1>1. PICK n : n = Len(g.arcs)
    OBVIOUS
  <1>2. /\ IsBody(g) /\ n \in Nat /\ DOMAIN g.arcs = 1 .. n /\ Arcs(g) = 1 .. n
        /\ g.initialStateScore \in Int /\ NumStates(g) \in Nat
        /\ States(g) = 0 .. NumStates(g) - 1 /\ States(g) \subseteq Nat
    BY <1>1, GraphFacts DEF IsGraph
  <1>3. AreUseful(g, U)
    BY UsefulStatesAre
  <1>4. U \in SUBSET Nat /\ IsFiniteSet(U)
    <2>1. U \in SUBSET (0 .. NumStates(g) - 1)
      BY <1>2, <1>3 DEF AreUseful
    <2>2. 0 \in Int /\ NumStates(g) - 1 \in Int
      BY <1>2
    <2>3. IsFiniteSet(0 .. NumStates(g) - 1)
      BY <2>2, FS_Interval
    <2> QED BY <1>2, <2>1, <2>3, FS_Subset
  <1>5. \A s \in U : Remapped(U, s) \in Nat
    BY <1>4, RemappedInOrder
  <1>6. PICK h : h = KeepStart(g)
    OBVIOUS
  <1>7. /\ h \in GraphRecords /\ h.arcs = <<>> /\ h.arcsPruned = <<>> /\ h.scrComps = <<>>
        /\ h.states = <<>> /\ h.finals = {Remapped(U, s) : s \in g.finals \cap U}
        /\ h.initialStateScore = g.initialStateScore
    <2>1. {Remapped(U, s) : s \in g.finals \cap U} \in SUBSET Nat
      BY <1>5
    <2>2. h = [arcs |-> <<>>, arcsPruned |-> <<>>, scrComps |-> <<>>, states |-> <<>>,
               finals |-> {Remapped(U, s) : s \in g.finals \cap U},
               initialStateScore |-> g.initialStateScore]
      BY <1>6 DEF KeepStart, EmptyWordGraph
    <2> QED BY <1>2, <2>1, <2>2 DEF GraphRecords
  <1>8. KeptAfter(g, U, 0, h, <<>>)
    <2>1. Arcs(h) = {} /\ Len(h.arcs) = 0 /\ States(h) = {}
      BY <1>7 DEF Arcs, States, NumStates
    <2>2. IsBody(h)
      BY <1>7, <2>1 DEF IsBody, GraphRecords
    <2>3. ListsFit(h) /\ NonPruned(h) = Arcs(h)
      BY <2>1 DEF ListsFit, NonPruned
    <2>4. \A i \in Kept(g, U) : ~(i <= 0)
      BY <1>2 DEF Kept, NonPruned
    <2> QED BY <1>7, <2>1, <2>2, <2>3, <2>4 DEF KeptAfter
  <1>9. ASSUME NEW a \in GraphRecords, NEW i \in 1 .. n
        PROVE  KeepStep(g, a, i) \in GraphRecords
    <2>1. CASE i \in NonPruned(g) /\ g.arcs[i].pred \in U /\ g.arcs[i].succ \in U
      <3>1. PICK p, s, w, x, c : /\ p = Remapped(U, g.arcs[i].pred) /\ s = Remapped(U, g.arcs[i].succ)
                                 /\ w = g.arcs[i].words /\ x = g.arcs[i].score /\ c = g.scrComps[i]
        OBVIOUS
      <3>2. p \in Nat /\ s \in Nat
        BY <1>5, <2>1, <3>1
      <3>3. w \in Nat /\ x \in Int /\ c \in Nat
        BY <1>2, <3>1, GraphFacts
      <3>4. KeepStep(g, a, i) = AddArc(a, p, s, w, x, c)
        BY <2>1, <3>1 DEF KeepStep
      <3> QED BY <3>2, <3>3, <3>4, AddArcType
    <2>2. CASE ~(i \in NonPruned(g) /\ g.arcs[i].pred \in U /\ g.arcs[i].succ \in U)
      BY <2>2 DEF KeepStep
    <2> QED BY <2>1, <2>2
  <1>10. KeepStart(g) \in GraphRecords
    BY <1>6, <1>7
  <1>11. PICK acc : KeptRows(g, n, GraphRecords, acc)
    <2>1. \A a \in GraphRecords, i \in 1 .. n : KeepStep(g, a, i) \in GraphRecords
      BY <1>9
    <2> QED BY <1>2, <1>10, <2>1, KeptByArcs, Zenon
  <1>12. /\ acc[0] = h /\ acc[n] = WgComposedOfUsefulStates(g)
         /\ \A k \in 0 .. n - 1 : acc[k + 1] = KeepStep(g, acc[k], k + 1)
    BY <1>6, <1>11 DEF KeptRows
  <1> DEFINE G == {k \in 0 .. n : \E o : KeptAfter(g, U, k, acc[k], o)}
  <1>13. 0 .. n \subseteq G
    <2>1. 0 \in G
      BY <1>2, <1>8, <1>12
    <2>2. ASSUME NEW k \in 0 .. n - 1, k \in G PROVE k + 1 \in G
      <3>1. PICK o : KeptAfter(g, U, k, acc[k], o)
        BY <2>2
      <3>2. \E r : KeptAfter(g, U, k + 1, KeepStep(g, acc[k], k + 1), r)
        BY <1>1, <1>3, <3>1, KeepStepKeeps
      <3>3. k + 1 \in 0 .. n
        BY <1>2
      <3> QED BY <1>12, <3>2, <3>3
    <2> HIDE DEF G
    <2> QED BY <1>2, <2>1, <2>2, InductionUpTo
  <1>14. n \in 0 .. n
    BY <1>2
  <1> QED BY <1>1, <1>12, <1>13, <1>14

(* The reduced graph is sound, in topological order. *)
LEMMA KeptGraphIsSound ==
  ASSUME NEW g, IsGraph(g), InBounds(g), TopologicallyOrdered(g), NEW U, AreUseful(g, U),
         NEW h, NEW o, KeptAfter(g, U, Len(g.arcs), h, o)
  PROVE  IsGraph(h) /\ InBounds(h) /\ ListsFit(h) /\ Grounded(h) /\ TopologicallyOrdered(h)
  <1>1. PICK n : n = Len(g.arcs)
    OBVIOUS
  <1>2. /\ IsBody(g) /\ n \in Nat /\ Arcs(g) = 1 .. n /\ NumStates(g) \in Nat
        /\ States(g) = 0 .. NumStates(g) - 1 /\ States(g) \subseteq Nat
        /\ Kept(g, U) \subseteq Arcs(g)
    BY <1>1, GraphFacts DEF IsGraph, Kept
  <1>3. U \in SUBSET Nat /\ IsFiniteSet(U)
    <2>1. U \in SUBSET (0 .. NumStates(g) - 1)
      BY <1>2 DEF AreUseful
    <2>2. 0 \in Int /\ NumStates(g) - 1 \in Int
      BY <1>2
    <2>3. IsFiniteSet(0 .. NumStates(g) - 1)
      BY <2>2, FS_Interval
    <2> QED BY <1>2, <2>1, <2>3, FS_Subset
  <1>4. /\ IsBody(h) /\ ListsFit(h) /\ NonPruned(h) = Arcs(h) /\ Len(h.arcs) <= n
        /\ h.finals = {Remapped(U, s) : s \in g.finals \cap U}
        /\ h.initialStateScore = g.initialStateScore
    BY <1>1 DEF KeptAfter
  <1>5. ASSUME NEW m \in Arcs(h)
        PROVE  /\ o[m] \in Kept(g, U) /\ o[m] \in Arcs(g)
               /\ g.arcs[o[m]].pred \in U /\ g.arcs[o[m]].succ \in U
               /\ h.arcs[m].pred = Remapped(U, g.arcs[o[m]].pred)
               /\ h.arcs[m].succ = Remapped(U, g.arcs[o[m]].succ)
               /\ h.arcs[m].score = g.arcs[o[m]].score
    <2>1. o[m] \in Kept(g, U) /\ h.arcs[m] = Renumbered(g, U, o[m])
      BY DEF KeptAfter
    <2>2. /\ h.arcs[m].pred = Remapped(U, g.arcs[o[m]].pred)
          /\ h.arcs[m].succ = Remapped(U, g.arcs[o[m]].succ)
          /\ h.arcs[m].score = g.arcs[o[m]].score
      BY <2>1 DEF Renumbered
    <2> QED BY <1>2, <2>1, <2>2 DEF Kept
  <1>6. ASSUME NEW i \in Kept(g, U)
        PROVE  \E m \in Arcs(h) : o[m] = i
    BY <1>1, <1>2 DEF KeptAfter
  <1>7. IsGraph(h)
    <2> SUFFICES ASSUME NEW s \in g.finals \cap U
                 PROVE  Remapped(U, s) \in States(h) \ {INITIAL_STATE}
      BY <1>4 DEF IsGraph
    <2>1. s # INITIAL_STATE
      BY DEF IsGraph
    <2>2. PICK i \in Kept(g, U) : g.arcs[i].succ = s
      BY <2>1 DEF AreUseful
    <2>3. PICK m \in Arcs(h) : o[m] = i
      BY <1>6
    <2>4. h.arcs[m].succ = Remapped(U, s)
      BY <1>5, <2>2, <2>3
    <2> QED BY <1>4, <2>4, GraphFacts
  <1>8. InBounds(h)
    <2>1. n <= MaxArcs /\ Len(h.arcs) \in Nat /\ MaxArcs \in Nat
      BY <1>1, <1>4, GraphFacts, WordGraphConstants DEF InBounds
    <2>2. Len(h.arcs) <= MaxArcs
      BY <1>2, <1>4, <2>1
    <2> QED BY <1>4, <1>5, <2>2 DEF InBounds
  <1>9. Grounded(h)
    <2> SUFFICES ASSUME NEW m \in Arcs(h), h.arcs[m].pred # INITIAL_STATE
                 PROVE  \E l \in Arcs(h) : h.arcs[l].succ = h.arcs[m].pred
      BY <1>4 DEF Grounded
    <2>1. PICK s : s = g.arcs[o[m]].pred
      OBVIOUS
    <2>2. s \in U /\ h.arcs[m].pred = Remapped(U, s)
      BY <1>5, <2>1
    <2>3. s # INITIAL_STATE
      <3>1. Remapped(U, 0) = 0
        BY <1>3, <2>2, RemappedInOrder
      <3> QED BY <2>2, <3>1 DEF INITIAL_STATE
    <2>4. PICK i \in Kept(g, U) : g.arcs[i].succ = s
      BY <2>2, <2>3 DEF AreUseful
    <2>5. PICK l \in Arcs(h) : o[l] = i
      BY <1>6
    <2> QED BY <1>5, <2>2, <2>4, <2>5
  <1>10. TopologicallyOrdered(h)
    <2> SUFFICES ASSUME NEW l \in Arcs(h), NEW m \in Arcs(h), h.arcs[l].succ = h.arcs[m].pred,
                        ~(l < m)
                 PROVE  FALSE
      BY DEF TopologicallyOrdered
    <2>1. g.arcs[o[l]].succ = g.arcs[o[m]].pred
      <3>1. PICK s, t : s = g.arcs[o[l]].succ /\ t = g.arcs[o[m]].pred
        OBVIOUS
      <3>2. s \in U /\ t \in U /\ Remapped(U, s) = Remapped(U, t)
        BY <1>5, <3>1
      <3>3. s = t
        BY <1>3, <3>2, RemappedInOrder
      <3> QED BY <3>1, <3>3
    <2>2. o[l] < o[m]
      BY <1>5, <2>1 DEF TopologicallyOrdered
    <2>3. l \in Nat /\ m \in Nat /\ o[l] \in Nat /\ o[m] \in Nat
      BY <1>2, <1>4, <1>5, GraphFacts
    <2>4. m = l \/ m < l
      BY <2>3
    <2>5. m < l => o[m] < o[l]
      BY DEF KeptAfter
    <2> QED BY <2>2, <2>3, <2>4, <2>5
  <1> QED BY <1>4, <1>7, <1>8, <1>9, <1>10

(* The reduction to useful states. *)
LEMMA TakeUsefulKeeps == UseInv /\ TakeUseful => UseInv'
  <1> SUFFICES ASSUME UseInv, TakeUseful PROVE UseInv'
    OBVIOUS
  <1>1. PICK g, h : g = graph /\ h = graph'
    OBVIOUS
  <1>2. /\ IsGraph(g) /\ InBounds(g) /\ reordered = FALSE /\ ListsFit(g)
        /\ TopologicallyOrdered(g) /\ Grounded(g) /\ h = WgComposedOfUsefulStates(g)
        /\ processed' = TRUE /\ reordered' = FALSE
    BY <1>1 DEF UseInv, Sound, TakeUseful
  <1>3. IsGraph(h) /\ InBounds(h) /\ ListsFit(h) /\ Grounded(h)
    <2>1. CASE g.arcs = <<>>
      <3>1. h = g
        BY <1>2, <2>1 DEF WgComposedOfUsefulStates
      <3> QED BY <1>2, <3>1
    <2>2. CASE g.arcs # <<>>
      <3>1. PICK o : KeptAfter(g, UsefulStates(g), Len(g.arcs), h, o)
        BY <1>2, <2>2, KeptGraphIs
      <3>2. AreUseful(g, UsefulStates(g))
        BY <1>2, UsefulStatesAre
      <3> QED BY <1>2, <3>1, <3>2, KeptGraphIsSound
    <2> QED BY <2>1, <2>2
  <1> QED BY <1>1, <1>2, <1>3 DEF UseInv, Sound

-----------------------------------------------------------------------------
(* Topological order.                                                      *)

\* Some arcs, each once, and after those that enter the state it leaves.
Orderings(g) ==
  {a \in Seq(Arcs(g)) :
     /\ \A k, l \in 1 .. Len(a) : a[k] = a[l] => k = l
     /\ \A k \in 1 .. Len(a), j \in NonPruned(g) :
          g.arcs[j].succ = g.arcs[a[k]].pred => \E l \in 1 .. k - 1 : a[l] = j}

(* What a step of a round makes of an ordering. *)
LEMMA RoundStepKeeps ==
  ASSUME NEW g, IsBody(g), ListsFit(g), NEW a \in Orderings(g), NEW i \in Arcs(g)
  PROVE  /\ RoundStep(g, a, i) \in Orderings(g)
         /\ ToSet(a) \subseteq ToSet(RoundStep(g, a, i))
         /\ RoundStep(g, a, i) = a \/ Len(RoundStep(g, a, i)) = Len(a) + 1
         /\ MayBeAdded(g, a, i) => i \in ToSet(RoundStep(g, a, i))
  <1>1. PICK n, r : n = Len(a) /\ r = Append(a, i)
    OBVIOUS
  <1>2. a \in Seq(Arcs(g)) /\ n \in Nat
    BY <1>1 DEF Orderings
  <1>3. /\ r \in Seq(Arcs(g)) /\ Len(r) = n + 1 /\ r[n + 1] = i /\ \A k \in 1 .. n : r[k] = a[k]
    BY <1>1, <1>2
  <1>4. ToSet(a) = {a[k] : k \in 1 .. n}
    BY <1>1, <1>2 DEF ToSet
  <1>5. ToSet(r) = ToSet(a) \cup {i}
    <2>1. ToSet(r) = {r[k] : k \in 1 .. n + 1}
      BY <1>3 DEF ToSet
    <2>2. 1 .. n + 1 = (1 .. n) \cup {n + 1}
      BY <1>2
    <2> QED BY <2>1, <2>2, <1>3, <1>4
  <1>6. CASE i \notin ToSet(a) /\ MayBeAdded(g, a, i)
    <2>1. RoundStep(g, a, i) = r
      BY <1>1, <1>6 DEF RoundStep
    <2>2. \A k, l \in 1 .. n + 1 : r[k] = r[l] => k = l
      <3> SUFFICES ASSUME NEW k \in 1 .. n + 1, NEW l \in 1 .. n + 1, r[k] = r[l]
                   PROVE  k = l
        OBVIOUS
      <3>1. \A m \in 1 .. n : r[m] # i
        BY <1>3, <1>4, <1>6
      <3>2. CASE k \in 1 .. n /\ l \in 1 .. n
        BY <3>2, <1>1, <1>3 DEF Orderings
      <3>3. CASE k = n + 1 \/ l = n + 1
        <4>1. r[k] = i /\ r[l] = i
          BY <3>3, <1>3
        <4>2. k \notin 1 .. n /\ l \notin 1 .. n
          BY <4>1, <3>1
        <4> QED BY <4>2, <1>2
      <3> QED BY <3>2, <3>3, <1>2
    <2>3. ASSUME NEW k \in 1 .. n + 1, NEW j \in NonPruned(g), g.arcs[j].succ = g.arcs[r[k]].pred
          PROVE  \E l \in 1 .. k - 1 : r[l] = j
      <3>1. CASE k \in 1 .. n
        <4>1. g.arcs[j].succ = g.arcs[a[k]].pred
          BY <2>3, <3>1, <1>3
        <4>2. PICK l \in 1 .. k - 1 : a[l] = j
          BY <4>1, <3>1, <1>1 DEF Orderings
        <4>3. l \in 1 .. n
          BY <3>1, <1>2
        <4> QED BY <4>2, <4>3, <1>3
      <3>2. CASE k = n + 1
        <4>1. j \in ArcIdsToPredStates(g, g.arcs[i].pred)
          BY <2>3, <3>2, <1>3, ListsOfState
        <4>2. j \in ToSet(a)
          BY <4>1, <1>6 DEF MayBeAdded
        <4>3. PICK l \in 1 .. n : a[l] = j
          BY <4>2, <1>4
        <4>4. l \in 1 .. k - 1
          BY <3>2, <1>2
        <4> QED BY <4>3, <4>4, <1>3
      <3> QED BY <3>1, <3>2, <1>2
    <2>4. r \in Orderings(g)
      BY <1>3, <2>2, <2>3 DEF Orderings
    <2> QED BY <1>1, <1>3, <1>5, <2>1, <2>4
  <1>7. CASE ~(i \notin ToSet(a) /\ MayBeAdded(g, a, i))
    BY <1>7 DEF RoundStep
  <1> QED BY <1>6, <1>7

(* A round adds the arcs that may be added from its start. *)
LEMMA RoundKeeps ==
  ASSUME NEW g, IsBody(g), ListsFit(g), NEW a \in Orderings(g)
  PROVE  /\ Round(g, a) \in Orderings(g)
         /\ Round(g, a) = a \/ Len(Round(g, a)) > Len(a)
         /\ \A i \in Arcs(g) : MayBeAdded(g, a, i) => i \in ToSet(Round(g, a))
  <1>1. PICK n : n = Len(g.arcs)
    OBVIOUS
  <1>2. n \in Nat /\ DOMAIN g.arcs = 1 .. n /\ Arcs(g) = 1 .. n
    BY <1>1, GraphFacts
  <1>3. \A b \in Orderings(g), i \in 1 .. n : RoundStep(g, b, i) \in Orderings(g)
    BY <1>2, RoundStepKeeps
  <1>4. PICK acc : RoundRows(g, a, n, Orderings(g), acc)
    BY <1>2, <1>3, RoundByArcs, Zenon
  <1>5. /\ acc[0] = a /\ acc[n] = Round(g, a) /\ \A k \in 0 .. n : acc[k] \in Orderings(g)
        /\ \A k \in 0 .. n - 1 : acc[k + 1] = RoundStep(g, acc[k], k + 1)
    BY <1>4 DEF RoundRows
  <1> DEFINE Fit(k) == /\ acc[k] = a \/ Len(acc[k]) > Len(a)
                       /\ ToSet(a) \subseteq ToSet(acc[k])
                       /\ \A i \in 1 .. k : MayBeAdded(g, a, i) => i \in ToSet(acc[k])
             G == {k \in 0 .. n : Fit(k)}
  <1>6. Fit(0)
    BY <1>5
  <1>7. ASSUME NEW k \in 0 .. n - 1, Fit(k)
        PROVE  Fit(k + 1)
    <2>1. PICK i, b, c : i = k + 1 /\ b = acc[k] /\ c = acc[k + 1]
      OBVIOUS
    <2>2. i \in Arcs(g) /\ b \in Orderings(g) /\ c = RoundStep(g, b, i) /\ k \in Nat
      BY <1>2, <1>5, <2>1
    <2>3. /\ ToSet(b) \subseteq ToSet(c) /\ (c = b \/ Len(c) = Len(b) + 1)
          /\ MayBeAdded(g, b, i) => i \in ToSet(c)
      BY <2>2, RoundStepKeeps
    <2>4. Len(a) \in Nat /\ Len(b) \in Nat
      BY <2>2 DEF Orderings
    <2>5. MayBeAdded(g, a, i) => MayBeAdded(g, b, i)
      BY <1>7, <2>1 DEF MayBeAdded
    <2>6. \A j \in 1 .. k + 1 : j \in 1 .. k \/ j = i
      BY <2>1, <2>2
    <2>7. c = a \/ Len(c) > Len(a)
      BY <1>7, <2>1, <2>3, <2>4
    <2> QED BY <1>7, <2>1, <2>3, <2>5, <2>6, <2>7
  <1> HIDE DEF Fit
  <1>8. 0 .. n \subseteq G
    <2>1. 0 \in G /\ \A k \in 0 .. n - 1 : k \in G => k + 1 \in G
      BY <1>2, <1>6, <1>7
    <2> HIDE DEF G
    <2> QED BY <1>2, <2>1, InductionUpTo
  <1>9. Fit(n) /\ n \in 0 .. n
    BY <1>2, <1>8
  <1> QED BY <1>2, <1>5, <1>9 DEF Fit

(* An ordering is not longer than the arcs, and has them all if it is as long. *)
LEMMA OrderingIsShort ==
  ASSUME NEW g, IsBody(g), NEW a \in Orderings(g)
  PROVE  /\ Len(a) \in Nat /\ Len(a) <= Len(g.arcs)
         /\ Len(a) = Len(g.arcs) <=> Arcs(g) \subseteq ToSet(a)
  <1>1. PICK n, m : n = Len(g.arcs) /\ m = Len(a)
    OBVIOUS
  <1>2. n \in Nat /\ Arcs(g) = 1 .. n /\ m \in Nat /\ a \in [1 .. m -> 1 .. n]
        /\ \A k, l \in 1 .. m : a[k] = a[l] => k = l
    BY SMTT(40), <1>1, GraphFacts DEF Orderings
  <1>3. a \in Injection(1 .. m, 1 .. n)
    BY <1>2 DEF Injection, IsInjective
  <1>4. 1 \in Int /\ n \in Int /\ m \in Int
    BY <1>2
  <1>5. /\ IsFiniteSet(1 .. n) /\ Cardinality(1 .. n) = IF 1 > n THEN 0 ELSE n - 1 + 1
        /\ Cardinality(1 .. m) = IF 1 > m THEN 0 ELSE m - 1 + 1
    BY <1>4, FS_Interval
  <1>6. Cardinality(1 .. n) = n /\ Cardinality(1 .. m) = m
    BY <1>2, <1>5
  <1>7. m <= n /\ (m = n <=> a \in Surjection(1 .. m, 1 .. n))
    <2>1. /\ Cardinality(1 .. m) <= Cardinality(1 .. n)
          /\ Cardinality(1 .. m) = Cardinality(1 .. n) <=> a \in Surjection(1 .. m, 1 .. n)
      BY <1>3, <1>5, FS_Injection
    <2> QED BY <1>6, <2>1
  <1>8. a \in Surjection(1 .. m, 1 .. n) <=> 1 .. n \subseteq ToSet(a)
    BY <1>2 DEF Surjection, ToSet
  <1> QED BY <1>1, <1>2, <1>7, <1>8

(* The arcs that TopologicalOrder returns. *)
LEMMA OrderIs ==
  ASSUME NEW g, IsBody(g), ListsFit(g)
  PROVE  /\ TopologicalOrder(g) \in Orderings(g)
         /\ (\A a \in Orderings(g) : ~(Arcs(g) \subseteq ToSet(a)) =>
               \E i \in Arcs(g) \ ToSet(a) : MayBeAdded(g, a, i))
            => Len(TopologicalOrder(g)) = Len(g.arcs)
  <1>1. PICK n : n = Len(g.arcs)
    OBVIOUS
  <1>2. n \in Nat /\ DOMAIN g.arcs = 1 .. n /\ Arcs(g) = 1 .. n
    BY <1>1, GraphFacts
  <1>3. <<>> \in Orderings(g)
    BY DEF Orderings
  <1>4. \A a \in Orderings(g), i \in 1 .. n : Round(g, a) \in Orderings(g)
    BY RoundKeeps
  <1>5. PICK acc : OrderRows(g, n, Orderings(g), acc)
    BY <1>2, <1>3, <1>4, OrderByRounds, Zenon
  <1>6. /\ acc[0] = <<>> /\ acc[n] = TopologicalOrder(g) /\ \A k \in 0 .. n : acc[k] \in Orderings(g)
        /\ \A k \in 0 .. n - 1 : acc[k + 1] = Round(g, acc[k])
    BY <1>5 DEF OrderRows
  <1>7. n \in 0 .. n
    BY <1>2
  <1>8. ASSUME \A a \in Orderings(g) : ~(Arcs(g) \subseteq ToSet(a)) =>
                 \E i \in Arcs(g) \ ToSet(a) : MayBeAdded(g, a, i)
        PROVE  Len(acc[n]) = n
    <2> DEFINE G == {k \in 0 .. n : Len(acc[k]) >= k}
    <2>1. 0 \in G
      BY <1>2, <1>6
    <2>2. ASSUME NEW k \in 0 .. n - 1, Len(acc[k]) >= k
          PROVE  Len(acc[k + 1]) >= k + 1
      <3>1. PICK a, b : a = acc[k] /\ b = acc[k + 1]
        OBVIOUS
      <3>2. a \in Orderings(g) /\ b \in Orderings(g) /\ b = Round(g, a) /\ Len(a) >= k
        BY <1>2, <1>6, <2>2, <3>1
      <3>3. Len(a) \in Nat /\ Len(a) <= n /\ (Len(a) = n <=> Arcs(g) \subseteq ToSet(a))
        BY <1>1, <3>2, OrderingIsShort
      <3>4. Len(b) \in Nat
        BY <3>2, OrderingIsShort
      <3>5. CASE Len(a) = n
        <4>1. b = a \/ Len(b) > Len(a)
          BY <3>2, RoundKeeps
        <4> QED BY <3>1, <3>3, <3>4, <3>5, <4>1, <1>2
      <3>6. CASE Len(a) # n
        <4>1. PICK i \in Arcs(g) \ ToSet(a) : MayBeAdded(g, a, i)
          BY <1>8, <3>2, <3>3, <3>6
        <4>2. i \in ToSet(b)
          BY <3>2, <4>1, RoundKeeps
        <4>3. Len(b) > Len(a)
          BY <3>2, <4>1, <4>2, RoundKeeps
        <4> QED BY <3>1, <3>2, <3>3, <3>4, <4>3
      <3> QED BY <3>5, <3>6
    <2>3. 0 .. n \subseteq G
      <3>1. \A k \in 0 .. n - 1 : k \in G => k + 1 \in G
        BY <1>2, <2>2
      <3> HIDE DEF G
      <3> QED BY <1>2, <2>1, <3>1, InductionUpTo
    <2>4. Len(acc[n]) >= n
      BY <1>7, <2>3
    <2>5. Len(acc[n]) \in Nat /\ Len(acc[n]) <= n
      BY <1>1, <1>6, <1>7, OrderingIsShort
    <2> QED BY <1>2, <2>4, <2>5
  <1> QED BY <1>1, <1>6, <1>7, <1>8

\* h is g with its arcs in the order o.
IsReordered(g, h, o) ==
  /\ IsGraph(h) /\ Arcs(h) = Arcs(g) /\ Len(h.arcs) = Len(g.arcs) /\ NonPruned(h) = NonPruned(g)
  /\ h.finals = g.finals /\ h.initialStateScore = g.initialStateScore
  /\ (InBounds(g) => InBounds(h)) /\ (h.arcs = g.arcs => h = g)
  /\ \A k \in Arcs(g) : o[k] \in Arcs(g) /\ h.arcs[k] = g.arcs[o[k]]

(* A graph with its arcs in another order. *)
LEMMA ArcsReordered ==
  ASSUME NEW g, IsGraph(g), NEW o \in Orderings(g), Len(o) = Len(g.arcs),
         NEW h, h = [g EXCEPT !.arcs = [k \in Arcs(g) |-> @[o[k]]]]
  PROVE  IsReordered(g, h, o)
  <1>1. PICK n, q : n = Len(g.arcs) /\ q = [k \in 1 .. n |-> g.arcs[o[k]]]
    OBVIOUS
  <1>2. /\ IsBody(g) /\ n \in Nat /\ Arcs(g) = 1 .. n /\ o \in Seq(Arcs(g)) /\ Len(o) = n
        /\ \A i \in Arcs(g) : g.arcs[i] \in ArcRecords
    BY <1>1, GraphFacts DEF IsGraph, Orderings
  <1>3. \A k \in 1 .. n : o[k] \in Arcs(g)
    BY <1>2
  <1>4. q \in Seq(ArcRecords) /\ Len(q) = n /\ \A k \in 1 .. n : q[k] = g.arcs[o[k]]
    <2>1. q \in [1 .. n -> ArcRecords]
      BY <1>1, <1>2, <1>3
    <2> QED BY <1>1, <1>2, <2>1
  <1>5. /\ g \in [arcs : Seq(ArcRecords), arcsPruned : Seq(BOOLEAN), scrComps : Seq(Nat),
                  states : Seq(StateRecords), finals : SUBSET Nat, initialStateScore : Int]
        /\ h = [g EXCEPT !.arcs = q]
    BY <1>1, <1>2 DEF IsBody
  <1>6. /\ h.arcs = q /\ h.arcsPruned = g.arcsPruned /\ h.scrComps = g.scrComps
        /\ h.states = g.states /\ h.finals = g.finals
        /\ h.initialStateScore = g.initialStateScore
        /\ h \in [arcs : Seq(ArcRecords), arcsPruned : Seq(BOOLEAN), scrComps : Seq(Nat),
                  states : Seq(StateRecords), finals : SUBSET Nat, initialStateScore : Int]
    BY <1>4, <1>5
  <1>7. Len(h.arcs) = n /\ Arcs(h) = Arcs(g) /\ States(h) = States(g) /\ NonPruned(h) = NonPruned(g)
    BY <1>1, <1>4, <1>6 DEF Arcs, States, NumStates, NonPruned
  <1>8. \A k \in Arcs(g) : o[k] \in Arcs(g) /\ h.arcs[k] = g.arcs[o[k]]
    BY SMTT(40), <1>2, <1>3, <1>4, <1>6
  <1>9. IsGraph(h)
    <2>1. \A i \in Arcs(h) : /\ h.arcs[i].pred \in States(h)
                             /\ h.arcs[i].succ \in States(h) \ {INITIAL_STATE}
      BY <1>2, <1>7, <1>8 DEF IsBody
    <2>2. Len(h.arcsPruned) = Len(h.arcs) /\ Len(h.scrComps) = Len(h.arcs)
      BY <1>1, <1>2, <1>6, <1>7 DEF IsBody
    <2>3. h.finals \subseteq States(h) \ {INITIAL_STATE}
      BY <1>6, <1>7 DEF IsGraph
    <2> QED BY <1>6, <2>1, <2>2, <2>3 DEF IsGraph, IsBody
  <1>10. InBounds(g) => InBounds(h)
    BY <1>1, <1>6, <1>7, <1>8 DEF InBounds
  <1>11. h.arcs = g.arcs => h = g
    BY <1>5, <1>6
  <1> QED BY <1>1, <1>6, <1>7, <1>8, <1>9, <1>10, <1>11 DEF IsReordered

(* Ordering the arcs. *)
LEMMA OrderKeeps == UseInv /\ Order => UseInv'
  <1> SUFFICES ASSUME UseInv, Order PROVE UseInv'
    OBVIOUS
  <1>1. PICK g, h, o : g = graph /\ h = graph' /\ o = TopologicalOrder(g)
    OBVIOUS
  <1>2. /\ IsGraph(g) /\ IsBody(g) /\ InBounds(g) /\ ListsFit(g) /\ h = OrderArcsTopol(g)
        /\ Grounded(g) /\ processed' = TRUE /\ reordered' = (h.arcs # g.arcs)
    BY <1>1 DEF UseInv, Sound, Order, IsGraph, Building
  <1>3. o \in Orderings(g)
    BY <1>1, <1>2, OrderIs
  <1>4. IsGraph(h) /\ InBounds(h) /\ (h.arcs = g.arcs => h = g)
    <2>1. CASE Len(o) = Len(g.arcs)
      <3>1. h = [g EXCEPT !.arcs = [k \in Arcs(g) |-> @[o[k]]]]
        BY <1>1, <1>2, <2>1 DEF OrderArcsTopol
      <3> QED BY <1>2, <1>3, <2>1, <3>1, ArcsReordered DEF IsReordered
    <2>2. CASE Len(o) # Len(g.arcs)
      <3>1. h = g
        BY <1>1, <1>2, <2>2 DEF OrderArcsTopol
      <3> QED BY <1>2, <3>1
    <2> QED BY <2>1, <2>2
  <1>5. reordered' \in BOOLEAN
    BY <1>2
  <1>6. CASE reordered' = TRUE
    BY <1>1, <1>2, <1>4, <1>6 DEF UseInv, Sound
  <1>7. CASE reordered' = FALSE
    <2>1. h = g
      BY <1>2, <1>4, <1>7
    <2> QED BY <1>1, <1>2, <1>4, <1>7, <2>1 DEF UseInv, Sound
  <1> QED BY <1>5, <1>6, <1>7

-----------------------------------------------------------------------------
(* The theorems of the invariant.                                          *)

(* A graph is made of arcs between its states, within the bounds of the constants;
   until its arcs are reordered, the lists of its states are those of its arcs, and
   while it is built, or ordered, no arc of it leaves a state that nothing enters. *)
THEOREM UseInvariance == Spec => []UseInv
  <1>1. Init => UseInv
    BY ClearKeeps
  <1>2. UseInv /\ [Next]_vars => UseInv'
    <2>1. CASE UNCHANGED vars
      BY <2>1 DEF vars, UseInv
    <2> QED BY <2>1, BuildKeeps, MakeFinalKeeps, ScoreInitialStateKeeps, PruneKeeps, TakeUsefulKeeps,
               OrderKeeps, ClearKeeps DEF Next
  <1> QED BY <1>1, <1>2, PTL DEF Spec

(* addArc and the reduction to useful states keep the parallel vectors of a graph
   and the lists of its states in step (WordGraph.cc:75, 717). *)
THEOREM WgTypes == Spec => []WgTypeOK
  <1>1. UseInv => WgTypeOK
    <2> SUFFICES ASSUME UseInv PROVE WgTypeOK
      OBVIOUS
    <2>1. /\ IsGraph(graph) /\ IsBody(graph) /\ processed \in BOOLEAN /\ reordered \in BOOLEAN
          /\ (~reordered => ListsFit(graph))
      BY DEF UseInv, Sound, IsGraph
    <2>2. /\ Len(graph.arcsPruned) = Len(graph.arcs) /\ Len(graph.scrComps) = Len(graph.arcs)
          /\ graph.finals \subseteq States(graph)
      BY <2>1 DEF IsGraph, IsBody
    <2>3. \A i \in Arcs(graph) :
            /\ graph.arcs[i].pred \in States(graph) /\ graph.arcs[i].succ \in States(graph)
            /\ graph.arcs[i].score \in Int /\ graph.arcsPruned[i] \in BOOLEAN
      BY <2>1, GraphFacts
    <2>4. ASSUME ~reordered, NEW i \in Arcs(graph)
          PROVE  /\ graph.scrComps[i] = graph.arcs[i].words
                 /\ \A s \in States(graph) :
                      /\ (i \in graph.states[s + 1].toPred) = (graph.arcs[i].succ = s)
                      /\ (i \in graph.states[s + 1].toSucc) = (graph.arcs[i].pred = s)
      <3>1. graph.scrComps[i] = graph.arcs[i].words
        BY <2>1, <2>4 DEF ListsFit
      <3>2. ASSUME NEW s \in States(graph)
            PROVE  /\ (i \in graph.states[s + 1].toPred) <=> (graph.arcs[i].succ = s)
                   /\ (i \in graph.states[s + 1].toSucc) <=> (graph.arcs[i].pred = s)
        BY <2>1, <2>4 DEF ListsFit
      <3> QED BY <3>1, <3>2
    <2> QED BY <2>1, <2>2, <2>3, <2>4 DEF WgTypeOK
  <1> QED BY <1>1, UseInvariance, PTL

-----------------------------------------------------------------------------
(* Translations of a graph that another is made of.                        *)

\* Arc m of h is arc o[m] of g, one of N.
SameShape(g, h, N, o) ==
  /\ IsBody(g) /\ IsBody(h) /\ N \in SUBSET Arcs(g)
  /\ h.initialStateScore = g.initialStateScore
  /\ \A m \in Arcs(h) :
       /\ o[m] \in N
       /\ h.arcs[m].words = g.arcs[o[m]].words /\ h.arcs[m].score = g.arcs[o[m]].score
       /\ h.arcs[m].pred = INITIAL_STATE <=> g.arcs[o[m]].pred = INITIAL_STATE
       /\ h.arcs[m].succ \in h.finals <=> g.arcs[o[m]].succ \in g.finals
  /\ \A m, l \in Arcs(h) :
       /\ h.arcs[m].succ = h.arcs[l].pred <=> g.arcs[o[m]].succ = g.arcs[o[l]].pred
       /\ o[m] = o[l] => m = l
  /\ \A i \in N : \E m \in Arcs(h) : o[m] = i

\* The arcs p of h are the arcs q of g.
IsImage(o, p, q) == Len(q) = Len(p) /\ \A k \in 1 .. Len(p) : q[k] = o[p[k]]

\* A path gives a translation.
IsTranslation(g, N, q) ==
  PathFrom(g, N, INITIAL_STATE, q) /\ q # <<>> /\ EndFrom(g, INITIAL_STATE, q) \in g.finals

(* The translations, by their paths. *)
LEMMA TranslationsAre ==
  ASSUME NEW g, IsBody(g)
  PROVE  \A q : q \in Translations(g) <=>
                  IsTranslation(g, NonPruned(g), q) /\ Len(q) <= Len(g.arcs)
  <1> SUFFICES ASSUME NEW q
               PROVE  q \in Translations(g) <=>
                        IsTranslation(g, NonPruned(g), q) /\ Len(q) <= Len(g.arcs)
    OBVIOUS
  <1>1. q \in PathsOver(g, NonPruned(g)) <=>
          PathFrom(g, NonPruned(g), INITIAL_STATE, q) /\ Len(q) <= Len(g.arcs)
    BY PathsOverAre
  <1>2. q \in Seq(NonPruned(g)) => LastState(g, [arcs |-> q]) = EndFrom(g, INITIAL_STATE, q)
    BY LastStateIsEnd
  <1>3. PathFrom(g, NonPruned(g), INITIAL_STATE, q) => q \in Seq(NonPruned(g))
    BY DEF PathFrom
  <1> QED BY <1>1, <1>2, <1>3 DEF Translations, HypIsComplete, IsTranslation

(* A path and its image have one score. *)
LEMMA SameScore ==
  ASSUME NEW g, NEW h, NEW N, NEW o, SameShape(g, h, N, o),
         NEW p \in Seq(Arcs(h)), NEW q \in Seq(Arcs(g)), IsImage(o, p, q)
  PROVE  PathScore(h, p) = PathScore(g, q)
  <1>1. PICK n : n = Len(p)
    OBVIOUS
  <1>2. n \in Nat /\ Len(q) = n /\ IsBody(g) /\ IsBody(h)
        /\ \A k \in 1 .. n : p[k] \in Arcs(h) /\ q[k] = o[p[k]]
    BY <1>1 DEF IsImage, SameShape
  <1>3. PICK a : PathScoreRows(h, p, n, Int, a)
    BY <1>1, <1>2, ScoresAlongPath
  <1>4. PICK c : PathScoreRows(g, q, n, Int, c)
    BY <1>2, ScoresAlongPath
  <1> DEFINE G == {k \in 0 .. n : a[k] = c[k]}
  <1>5. 0 \in G
    BY <1>2, <1>3, <1>4 DEF PathScoreRows, SameShape
  <1>6. ASSUME NEW k \in 0 .. n - 1, k \in G PROVE k + 1 \in G
    <2>1. k + 1 \in 1 .. n /\ k + 1 \in 0 .. n
      BY <1>2
    <2>2. h.arcs[p[k + 1]].score = g.arcs[q[k + 1]].score
      BY <1>2, <2>1 DEF SameShape
    <2>3. a[k + 1] = PathStep(h, a[k], p[k + 1]) /\ c[k + 1] = PathStep(g, c[k], q[k + 1])
      BY <1>3, <1>4 DEF PathScoreRows
    <2> QED BY <1>6, <2>1, <2>2, <2>3 DEF PathStep
  <1>7. n \in G
    <2> HIDE DEF G
    <2>1. 0 .. n \subseteq G
      BY <1>2, <1>5, <1>6, InductionUpTo
    <2> QED BY <1>2, <2>1
  <1> QED BY <1>3, <1>4, <1>7 DEF PathScoreRows

(* A path of h has an image, and they are translations together. *)
LEMMA SamePaths ==
  ASSUME NEW g, NEW h, NEW N, NEW o, SameShape(g, h, N, o),
         NEW p \in Seq(Arcs(h)), NEW q \in Seq(N), IsImage(o, p, q)
  PROVE  IsTranslation(h, Arcs(h), p) <=> IsTranslation(g, N, q)
  <1>1. PICK n : n = Len(p)
    OBVIOUS
  <1>2. n \in Nat /\ Len(q) = n /\ IsBody(g) /\ IsBody(h)
        /\ \A k \in 1 .. n : p[k] \in Arcs(h) /\ q[k] = o[p[k]]
    BY <1>1 DEF IsImage, SameShape
  <1>3. CASE n = 0
    <2>1. p = <<>> /\ q = <<>>
      BY <1>1, <1>2, <1>3, EmptySeq
    <2> QED BY <2>1 DEF IsTranslation
  <1>4. CASE n # 0
    <2>1. p # <<>> /\ q # <<>> /\ 1 \in 1 .. n /\ n \in 1 .. n
      BY <1>1, <1>2, <1>4
    <2>2. h.arcs[p[1]].pred = INITIAL_STATE <=> g.arcs[q[1]].pred = INITIAL_STATE
      BY <1>2, <2>1 DEF SameShape
    <2>3. h.arcs[p[n]].succ \in h.finals <=> g.arcs[q[n]].succ \in g.finals
      BY <1>2, <2>1 DEF SameShape
    <2>4. ASSUME NEW k \in 1 .. n - 1
          PROVE  h.arcs[p[k]].succ = h.arcs[p[k + 1]].pred
                   <=> g.arcs[q[k]].succ = g.arcs[q[k + 1]].pred
      <3>1. k \in 1 .. n /\ k + 1 \in 1 .. n
        BY <1>2
      <3> QED BY SMTT(40), <1>2, <3>1 DEF SameShape
    <2>5. PathFrom(h, Arcs(h), INITIAL_STATE, p) <=> PathFrom(g, N, INITIAL_STATE, q)
      BY <1>1, <1>2, <2>1, <2>2, <2>4 DEF PathFrom
    <2> QED BY <1>1, <1>2, <2>1, <2>3, <2>5 DEF IsTranslation, EndFrom
  <1> QED BY <1>3, <1>4

(* Each path of h has an image, and each path over N is one. *)
LEMMA ImagesExist ==
  ASSUME NEW g, NEW h, NEW N, NEW o, SameShape(g, h, N, o)
  PROVE  /\ \A p \in Seq(Arcs(h)) : \E q \in Seq(N) : IsImage(o, p, q)
         /\ \A q \in Seq(N) : \E p \in Seq(Arcs(h)) : IsImage(o, p, q)
  <1>1. ASSUME NEW p \in Seq(Arcs(h)) PROVE \E q \in Seq(N) : IsImage(o, p, q)
    <2>1. PICK n, q : n = Len(p) /\ q = [k \in 1 .. n |-> o[p[k]]]
      OBVIOUS
    <2>2. n \in Nat /\ \A k \in 1 .. n : p[k] \in Arcs(h)
      BY <2>1
    <2>3. \A k \in 1 .. n : o[p[k]] \in N
      BY <2>2 DEF SameShape
    <2>4. q \in [1 .. n -> N]
      BY <2>1, <2>3
    <2>5. q \in Seq(N) /\ Len(q) = n
      BY <2>2, <2>4
    <2> QED BY <2>1, <2>5 DEF IsImage
  <1>2. ASSUME NEW q \in Seq(N) PROVE \E p \in Seq(Arcs(h)) : IsImage(o, p, q)
    <2>1. PICK n : n = Len(q)
      OBVIOUS
    <2>2. n \in Nat /\ \A k \in 1 .. n : q[k] \in N
      BY <2>1
    <2>3. PICK p : p = [k \in 1 .. n |-> CHOOSE m \in Arcs(h) : o[m] = q[k]]
      OBVIOUS
    <2>4. \A k \in 1 .. n : p[k] \in Arcs(h) /\ o[p[k]] = q[k]
      BY <2>2, <2>3 DEF SameShape
    <2>5. p \in [1 .. n -> Arcs(h)]
      BY <2>3, <2>4
    <2>6. p \in Seq(Arcs(h)) /\ Len(p) = n
      BY <2>2, <2>5
    <2> QED BY <2>1, <2>4, <2>6 DEF IsImage
  <1> QED BY <1>1, <1>2

\* What a path says.
Words(g, p) == [k \in DOMAIN p |-> g.arcs[p[k]].words]

(* A path and its image have the same words. *)
LEMMA SameWords ==
  ASSUME NEW g, NEW h, NEW N, NEW o, SameShape(g, h, N, o),
         NEW p \in Seq(Arcs(h)), NEW q \in Seq(N), IsImage(o, p, q)
  PROVE  Words(h, p) = Words(g, q)
  <1>1. PICK n : n = Len(p)
    OBVIOUS
  <1>2. n \in Nat /\ DOMAIN p = 1 .. n /\ DOMAIN q = 1 .. n
        /\ \A k \in 1 .. n : p[k] \in Arcs(h) /\ q[k] = o[p[k]]
    BY <1>1 DEF IsImage
  <1>3. \A k \in 1 .. n : h.arcs[p[k]].words = g.arcs[q[k]].words
    BY <1>2 DEF SameShape
  <1> QED BY <1>2, <1>3 DEF Words

(* The graphs have the same translations, if all those of g are over N. *)
LEMMA SameTranslations ==
  ASSUME NEW g, NEW h, NEW N, NEW o, SameShape(g, h, N, o), N \in SUBSET NonPruned(g),
         NonPruned(h) = Arcs(h),
         \A q \in Translations(g) : q \in Seq(N),
         \A p \in Seq(Arcs(h)), q \in Seq(N) :
           IsTranslation(h, Arcs(h), p) /\ IsTranslation(g, N, q) /\ Len(p) = Len(q) =>
             (Len(p) <= Len(h.arcs) <=> Len(q) <= Len(g.arcs))
  PROVE  Said(h) = Said(g)
  <1>1. IsBody(g) /\ IsBody(h) /\ N \in SUBSET Arcs(g)
    BY DEF SameShape
  <1>2. ASSUME NEW p \in Seq(Arcs(h)), NEW q \in Seq(N), IsImage(o, p, q)
        PROVE  /\ p \in Translations(h) <=> q \in Translations(g)
               /\ [words |-> Words(h, p), score |-> PathScore(h, p)]
                    = [words |-> Words(g, q), score |-> PathScore(g, q)]
    <2>1. q \in Seq(Arcs(g)) /\ Len(q) = Len(p)
      BY <1>1, <1>2 DEF IsImage
    <2>2. PathScore(h, p) = PathScore(g, q) /\ Words(h, p) = Words(g, q)
      BY <1>2, <2>1, SameScore, SameWords
    <2>3. IsTranslation(g, NonPruned(g), q) <=> IsTranslation(g, N, q)
      <3>1. q \in Seq(NonPruned(g))
        BY <1>2
      <3> QED BY <1>2, <3>1 DEF IsTranslation, PathFrom
    <2>4. IsTranslation(h, Arcs(h), p) <=> IsTranslation(g, N, q)
      BY <1>2, SamePaths
    <2>5. p \in Translations(h) <=> IsTranslation(h, Arcs(h), p) /\ Len(p) <= Len(h.arcs)
      BY <1>1, TranslationsAre
    <2>6. q \in Translations(g) <=> IsTranslation(g, N, q) /\ Len(q) <= Len(g.arcs)
      BY <1>1, <2>3, TranslationsAre
    <2> QED BY <2>1, <2>2, <2>4, <2>5, <2>6
  <1>3. \A x \in Said(h) : x \in Said(g)
    <2> SUFFICES ASSUME NEW p \in Translations(h)
                 PROVE  [words |-> Words(h, p), score |-> PathScore(h, p)] \in Said(g)
      BY DEF Said, Words
    <2>1. p \in Seq(Arcs(h))
      BY <1>1, TranslationsAre DEF IsTranslation, PathFrom
    <2>2. PICK q \in Seq(N) : IsImage(o, p, q)
      BY <2>1, ImagesExist
    <2> QED BY <1>2, <2>1, <2>2 DEF Said, Words
  <1>4. \A x \in Said(g) : x \in Said(h)
    <2> SUFFICES ASSUME NEW q \in Translations(g)
                 PROVE  [words |-> Words(g, q), score |-> PathScore(g, q)] \in Said(h)
      BY DEF Said, Words
    <2>1. PICK p \in Seq(Arcs(h)) : IsImage(o, p, q)
      BY ImagesExist
    <2>2. q \in Seq(N)
      OBVIOUS
    <2> QED BY <1>2, <2>1, <2>2 DEF Said, Words
  <1> QED BY <1>3, <1>4

-----------------------------------------------------------------------------
(* Reshaping keeps the translations.                                       *)

(* The reduced graph is made of the kept arcs. *)
LEMMA KeptSameShape ==
  ASSUME NEW g, IsGraph(g), NEW U, AreUseful(g, U), NEW h, IsBody(h), NEW o,
         KeptAfter(g, U, Len(g.arcs), h, o)
  PROVE  SameShape(g, h, Kept(g, U), o)
  <1>1. PICK n : n = Len(g.arcs)
    OBVIOUS
  <1>2. /\ IsBody(g) /\ n \in Nat /\ Arcs(g) = 1 .. n /\ NumStates(g) \in Nat
        /\ States(g) = 0 .. NumStates(g) - 1 /\ States(g) \subseteq Nat
        /\ Kept(g, U) \in SUBSET Arcs(g) /\ Kept(g, U) \in SUBSET Nat
    BY <1>1, GraphFacts DEF IsGraph, Kept
  <1>3. U \in SUBSET Nat /\ IsFiniteSet(U)
    <2>1. U \in SUBSET (0 .. NumStates(g) - 1)
      BY <1>2 DEF AreUseful
    <2>2. 0 \in Int /\ NumStates(g) - 1 \in Int
      BY <1>2
    <2>3. IsFiniteSet(0 .. NumStates(g) - 1)
      BY <2>2, FS_Interval
    <2> QED BY <1>2, <2>1, <2>3, FS_Subset
  <1>4. /\ h.finals = {Remapped(U, s) : s \in g.finals \cap U}
        /\ h.initialStateScore = g.initialStateScore
        /\ \A m, l \in Arcs(h) : m < l => o[m] < o[l]
    BY DEF KeptAfter
  <1>5. ASSUME NEW m \in Arcs(h)
        PROVE  /\ o[m] \in Kept(g, U) /\ INITIAL_STATE \in U
               /\ g.arcs[o[m]].pred \in U /\ g.arcs[o[m]].succ \in U
               /\ h.arcs[m].pred = Remapped(U, g.arcs[o[m]].pred)
               /\ h.arcs[m].succ = Remapped(U, g.arcs[o[m]].succ)
               /\ h.arcs[m].score = g.arcs[o[m]].score /\ h.arcs[m].words = g.arcs[o[m]].words
    <2>1. o[m] \in Kept(g, U) /\ h.arcs[m] = Renumbered(g, U, o[m])
      BY DEF KeptAfter
    <2>2. /\ h.arcs[m].pred = Remapped(U, g.arcs[o[m]].pred)
          /\ h.arcs[m].succ = Remapped(U, g.arcs[o[m]].succ)
          /\ h.arcs[m].score = g.arcs[o[m]].score /\ h.arcs[m].words = g.arcs[o[m]].words
      BY <2>1 DEF Renumbered
    <2> QED BY <1>2, <2>1, <2>2 DEF Kept, AreUseful
  <1>6. \A s, t \in U : Remapped(U, s) = Remapped(U, t) <=> s = t
    BY <1>3, RemappedInOrder
  <1>7. ASSUME NEW m \in Arcs(h)
        PROVE  h.arcs[m].pred = INITIAL_STATE <=> g.arcs[o[m]].pred = INITIAL_STATE
    <2>1. Remapped(U, 0) = 0
      BY <1>3, <1>5, RemappedInOrder
    <2> QED BY <1>5, <1>6, <2>1 DEF INITIAL_STATE
  <1>8. ASSUME NEW m \in Arcs(h)
        PROVE  h.arcs[m].succ \in h.finals <=> g.arcs[o[m]].succ \in g.finals
    BY <1>4, <1>5, <1>6
  <1>9. ASSUME NEW m \in Arcs(h), NEW l \in Arcs(h)
        PROVE  h.arcs[m].succ = h.arcs[l].pred <=> g.arcs[o[m]].succ = g.arcs[o[l]].pred
    <2>1. PICK s, t : s = g.arcs[o[m]].succ /\ t = g.arcs[o[l]].pred
      OBVIOUS
    <2>2. s \in U /\ t \in U /\ h.arcs[m].succ = Remapped(U, s) /\ h.arcs[l].pred = Remapped(U, t)
      BY <1>5, <2>1
    <2> QED BY <1>6, <2>1, <2>2
  <1>10. ASSUME NEW m \in Arcs(h), NEW l \in Arcs(h), o[m] = o[l] PROVE m = l
    <2>1. m \in Nat /\ l \in Nat /\ o[m] \in Nat /\ o[l] \in Nat
      BY <1>2, <1>5, GraphFacts
    <2>2. ~(m < l) /\ ~(l < m)
      BY <1>4, <1>10, <2>1
    <2> QED BY <2>1, <2>2
  <1>11. \A i \in Kept(g, U) : \E m \in Arcs(h) : o[m] = i
    BY <1>1, <1>2 DEF KeptAfter
  <1> QED BY <1>2, <1>4, <1>5, <1>7, <1>8, <1>9, <1>10, <1>11 DEF SameShape

(* The arcs of a translation are between useful states. *)
LEMMA TranslationsAreKept ==
  ASSUME NEW g, IsGraph(g), NEW U, AreUseful(g, U), NEW q, IsTranslation(g, NonPruned(g), q)
  PROVE  q \in Seq(Kept(g, U))
  <1>1. PICK n : n = Len(q)
    OBVIOUS
  <1>2. /\ q \in Seq(NonPruned(g)) /\ n \in Nat /\ n # 0 /\ n \in 1 .. n
        /\ g.arcs[q[n]].succ \in g.finals
        /\ \A k \in 1 .. n - 1 : g.arcs[q[k]].succ = g.arcs[q[k + 1]].pred
        /\ \A k \in 1 .. n : q[k] \in NonPruned(g)
    <2>1. q \in Seq(NonPruned(g)) /\ q # <<>>
      BY DEF IsTranslation, PathFrom
    <2>2. n \in Nat /\ n # 0 /\ n \in 1 .. n /\ \A k \in 1 .. n : q[k] \in NonPruned(g)
      BY <1>1, <2>1, EmptySeq
    <2> QED BY <1>1, <2>1, <2>2 DEF IsTranslation, PathFrom, EndFrom
  <1> DEFINE P(j) == q[n - j] \in Kept(g, U)
             G == {j \in 0 .. n - 1 : P(j)}
  <1>3. P(0)
    <2>1. g.arcs[q[n]].succ \in U
      BY <1>2 DEF AreUseful
    <2> QED BY <1>2, <2>1 DEF AreUseful
  <1>4. ASSUME NEW j \in 0 .. (n - 1) - 1, P(j) PROVE P(j + 1)
    <2>1. PICK k : k = n - (j + 1)
      OBVIOUS
    <2>2. j \in Nat /\ j < n - 1
      BY <1>2
    <2>3. k \in 1 .. n - 1 /\ k + 1 = n - j /\ k \in 1 .. n
      BY <1>2, <2>1, <2>2
    <2>4. g.arcs[q[k]].succ = g.arcs[q[k + 1]].pred /\ q[k] \in NonPruned(g)
      BY <1>2, <2>3
    <2>5. g.arcs[q[k + 1]].pred \in U
      BY <1>4, <2>3 DEF Kept
    <2>6. q[k] \in Kept(g, U)
      BY <2>4, <2>5 DEF AreUseful
    <2> QED BY <2>1, <2>6
  <1> HIDE DEF P
  <1>5. 0 .. n - 1 \subseteq G
    <2>1. 0 \in G /\ \A j \in 0 .. (n - 1) - 1 : j \in G => j + 1 \in G
      BY <1>2, <1>3, <1>4
    <2>2. n - 1 \in Nat
      BY <1>2
    <2> HIDE DEF G
    <2> QED BY <2>1, <2>2, InductionUpTo
  <1>6. ASSUME NEW k \in 1 .. n PROVE q[k] \in Kept(g, U)
    <2>1. n - k \in 0 .. n - 1 /\ n - (n - k) = k
      BY <1>2
    <2> QED BY <1>5, <2>1 DEF P
  <1>7. q \in [1 .. n -> Kept(g, U)]
    <2>1. q = [k \in 1 .. n |-> q[k]]
      BY <1>1, <1>2
    <2> QED BY <1>6, <2>1
  <1> QED BY <1>2, <1>7

(* The reduction keeps the translations. *)
LEMMA TakeUsefulSays ==
  ASSUME UseInv, TakeUseful
  PROVE  Said(graph') = Said(graph)
  <1>1. PICK g, h, U : g = graph /\ h = graph' /\ U = UsefulStates(g)
    OBVIOUS
  <1>2. /\ IsGraph(g) /\ IsBody(g) /\ InBounds(g) /\ ListsFit(g)
        /\ TopologicallyOrdered(g) /\ Grounded(g) /\ h = WgComposedOfUsefulStates(g)
    BY <1>1 DEF UseInv, Sound, TakeUseful, IsGraph
  <1>3. CASE g.arcs = <<>>
    BY <1>1, <1>2, <1>3 DEF WgComposedOfUsefulStates
  <1>4. CASE g.arcs # <<>>
    <2>1. PICK o : KeptAfter(g, U, Len(g.arcs), h, o)
      BY <1>1, <1>2, <1>4, KeptGraphIs
    <2>2. AreUseful(g, U)
      BY <1>1, <1>2, UsefulStatesAre
    <2>3. IsBody(h) /\ TopologicallyOrdered(h) /\ NonPruned(h) = Arcs(h)
      BY <1>2, <2>1, <2>2, KeptGraphIsSound DEF KeptAfter
    <2>4. SameShape(g, h, Kept(g, U), o)
      BY <1>2, <2>1, <2>2, <2>3, KeptSameShape
    <2>5. Kept(g, U) \in SUBSET NonPruned(g) /\ Kept(g, U) \in SUBSET Arcs(g)
      BY <2>4 DEF Kept, SameShape
    <2>6. \A q \in Translations(g) : q \in Seq(Kept(g, U))
      BY <1>2, <2>2, TranslationsAre, TranslationsAreKept
    <2>7. ASSUME NEW p \in Seq(Arcs(h)), NEW q \in Seq(Kept(g, U)), IsTranslation(h, Arcs(h), p),
                 IsTranslation(g, Kept(g, U), q)
          PROVE  Len(p) <= Len(h.arcs) /\ Len(q) <= Len(g.arcs)
      <3>1. Len(p) <= Len(h.arcs)
        BY <2>3, <2>7, PathsAreShort DEF IsTranslation
      <3>2. Len(q) <= Len(g.arcs)
        BY <1>2, <2>5, <2>7, PathsAreShort DEF IsTranslation
      <3> QED BY <3>1, <3>2
    <2> QED BY <1>1, <2>3, <2>4, <2>5, <2>6, <2>7, SameTranslations
  <1> QED BY <1>3, <1>4

\* The path leads from s to a final state.
Ends(g, s, q) == PathFrom(g, NonPruned(g), s, q) /\ EndFrom(g, s, q) \in g.finals

(* If an arc leaves each state that is entered and not final, each arc leads to a
   final state. *)
LEMMA EachArcLeadsToEnd ==
  ASSUME NEW g, IsBody(g), TopologicallyOrdered(g),
         \A i \in NonPruned(g) : g.arcs[i].succ \in g.finals
                                 \/ \E j \in NonPruned(g) : g.arcs[j].pred = g.arcs[i].succ
  PROVE  \A i \in NonPruned(g) : \E q : Ends(g, g.arcs[i].succ, q)
  <1>1. PICK n : n = Len(g.arcs)
    OBVIOUS
  <1>2. n \in Nat /\ Arcs(g) = 1 .. n /\ NonPruned(g) \subseteq Arcs(g)
    BY <1>1, GraphFacts
  <1> DEFINE P(k) == \A i \in NonPruned(g) : i > n - k => \E q : Ends(g, g.arcs[i].succ, q)
             G == {k \in 0 .. n : P(k)}
  <1>3. P(0)
    BY <1>2
  <1>4. ASSUME NEW k \in 0 .. n - 1, P(k) PROVE P(k + 1)
    <2> SUFFICES ASSUME NEW i \in NonPruned(g), i > n - (k + 1)
                 PROVE  \E q : Ends(g, g.arcs[i].succ, q)
      OBVIOUS
    <2>1. CASE g.arcs[i].succ \in g.finals
      <3>1. Ends(g, g.arcs[i].succ, <<>>)
        BY <2>1 DEF Ends, PathFrom, EndFrom
      <3> QED BY <3>1
    <2>2. CASE g.arcs[i].succ \notin g.finals
      <3>1. PICK j \in NonPruned(g) : g.arcs[j].pred = g.arcs[i].succ
        BY <2>2
      <3>2. i < j
        BY <1>2, <3>1 DEF TopologicallyOrdered
      <3>3. j > n - k
        <4>1. i \in Nat /\ j \in Nat /\ k \in Nat
          BY <1>2
        <4> QED BY <1>2, <3>2, <4>1
      <3>4. PICK q : Ends(g, g.arcs[j].succ, q)
        BY <1>4, <3>3
      <3>5. Ends(g, g.arcs[i].succ, <<j>> \o q)
        BY <3>1, <3>4, EarlierPath DEF Ends
      <3> QED BY <3>5
    <2> QED BY <2>1, <2>2
  <1> HIDE DEF P
  <1>5. 0 .. n \subseteq G
    <2>1. 0 \in G /\ \A k \in 0 .. n - 1 : k \in G => k + 1 \in G
      BY <1>2, <1>3, <1>4
    <2> HIDE DEF G
    <2> QED BY <1>2, <2>1, InductionUpTo
  <1>6. P(n)
    BY <1>2, <1>5
  <1>7. \A i \in NonPruned(g) : i > n - n
    BY <1>2
  <1> QED BY <1>6, <1>7 DEF P

(* What an arc leaves is entered, or the start. *)
LEMMA WhatArcLeaves ==
  ASSUME NEW g, IsBody(g), Grounded(g), NEW i \in NonPruned(g)
  PROVE  /\ g.arcs[i].pred \in {INITIAL_STATE} \cup Entered(g, Len(g.arcs))
         /\ INITIAL_STATE \in States(g)
  <1>1. Len(g.arcs) \in Nat /\ i \in Arcs(g) /\ \A j \in NonPruned(g) : j <= Len(g.arcs)
    BY GraphFacts
  <1>2. INITIAL_STATE \in States(g)
    <2>1. NumStates(g) \in Nat /\ States(g) = 0 .. NumStates(g) - 1 /\ g.arcs[i].pred \in States(g)
      BY <1>1, GraphFacts
    <2> QED BY <2>1 DEF INITIAL_STATE
  <1>3. ASSUME g.arcs[i].pred # INITIAL_STATE PROVE g.arcs[i].pred \in Entered(g, Len(g.arcs))
    <2>1. PICK j \in NonPruned(g) : g.arcs[j].succ = g.arcs[i].pred
      BY SMTT(40), <1>3 DEF Grounded
    <2> QED BY <1>1, <2>1 DEF Entered
  <1> QED BY <1>2, <1>3

\* A complete path by an arc, with its score.
RunsThrough(g, i, x, p) ==
  /\ PathFrom(g, NonPruned(g), INITIAL_STATE, p) /\ EndFrom(g, INITIAL_STATE, p) \in g.finals
  /\ p # <<>> /\ i \in ToSet(p) /\ PathScore(g, p) = x

(* The best path to an arc, the arc, and a path from there to a final state. *)
LEMMA PathThroughArc ==
  ASSUME NEW g, IsBody(g), TopologicallyOrdered(g), Grounded(g), NEW L, NEW prev,
         PrevAfter(g, L, Len(g.arcs), prev), NEW i \in NonPruned(g), NEW r,
         PathFrom(g, NonPruned(g), g.arcs[i].succ, r),
         EndFrom(g, g.arcs[i].succ, r) \in g.finals, NEW x,
         x = ((prev.score[g.arcs[i].pred] + g.arcs[i].score) + PathScore(g, r)) - g.initialStateScore
  PROVE  \E p : RunsThrough(g, i, x, p)
  <1>1. PICK N : N = NonPruned(g)
    OBVIOUS
  <1>2. N \in SUBSET Arcs(g) /\ i \in Arcs(g) /\ i \in N
    BY <1>1, GraphFacts
  <1>3. PICK s \in {INITIAL_STATE} \cup Entered(g, Len(g.arcs)) : s = g.arcs[i].pred
    BY WhatArcLeaves
  <1>4. PICK q : LeadsTo(g, prev, s, q)
    BY WhatArcLeaves, BestPathTo, Zenon
  <1>5. /\ PathFrom(g, N, INITIAL_STATE, q) /\ EndFrom(g, INITIAL_STATE, q) = g.arcs[i].pred
        /\ PathScore(g, q) = prev.score[g.arcs[i].pred]
    BY <1>1, <1>3, <1>4 DEF LeadsTo
  <1>6. PICK t : t = Append(q, i)
    OBVIOUS
  <1>7. /\ PathFrom(g, N, INITIAL_STATE, t) /\ EndFrom(g, INITIAL_STATE, t) = g.arcs[i].succ
        /\ t # <<>>
    BY SMTT(40), <1>2, <1>5, <1>6, LongerPath
  <1>8. PathScore(g, t) = prev.score[g.arcs[i].pred] + g.arcs[i].score
    <2>1. q \in Seq(Arcs(g))
      BY <1>2, <1>5 DEF PathFrom
    <2> QED BY <1>2, <1>5, <1>6, <2>1, ScoreOfLonger
  <1>9. PathFrom(g, N, EndFrom(g, INITIAL_STATE, t), r)
    BY <1>1, <1>7
  <1>10. PICK p : p = t \o r
    OBVIOUS
  <1>11. /\ PathFrom(g, N, INITIAL_STATE, p)
         /\ EndFrom(g, INITIAL_STATE, p) = EndFrom(g, g.arcs[i].succ, r)
         /\ PathScore(g, p) = PathScore(g, t) + PathScore(g, r) - g.initialStateScore
    BY <1>2, <1>7, <1>9, <1>10, JoinedPaths
  <1>12. p # <<>> /\ i \in ToSet(p)
    <2>1. q \in Seq(N) /\ r \in Seq(N)
      BY <1>5, <1>9 DEF PathFrom
    <2>2. PICK k : k = Len(q) + 1
      OBVIOUS
    <2>3. t \in Seq(N) /\ Len(t) = k /\ t[k] = i /\ k \in Nat /\ k > 0
      BY <1>2, <1>6, <2>1, <2>2
    <2>4. Len(r) \in Nat
      BY <2>1
    <2>5. t \in Seq(N) /\ r \in Seq(N)
      BY <2>1, <2>3
    <2>6. p \in Seq(N)
      BY <1>10, <2>5
    <2>7. Len(t \o r) = Len(t) + Len(r)
      BY <2>5, ConcatProperties
    <2>8. k \in 1 .. Len(t) /\ k \in 1 .. Len(p)
      BY <1>10, <2>3, <2>4, <2>7
    <2>9. p[k] = t[k]
      BY <1>10, <2>5, <2>8
    <2>10. k \in DOMAIN p /\ p[k] = i
      BY SMTT(40), <2>3, <2>6, <2>8, <2>9
    <2> QED BY SMTT(40), <2>10 DEF ToSet
  <1>13. PathScore(g, p) = x
    <2>1. /\ prev.score[g.arcs[i].pred] \in Int /\ g.arcs[i].score \in Int
          /\ g.initialStateScore \in Int
      BY <1>2, GraphFacts DEF PrevAfter, PrevRecords
    <2>2. PathScore(g, r) \in Int
      <3>1. r \in Seq(Arcs(g))
        BY <1>2, <1>9 DEF PathFrom
      <3> QED BY <3>1, ScoreIsNumber
    <2> QED BY SMTT(40), <1>8, <1>11, <2>1, <2>2
  <1>14. RunsThrough(g, i, x, p)
    BY <1>1, <1>11, <1>12, <1>13 DEF RunsThrough
  <1> QED BY <1>14

(* Then, if no arc leaves a state that nothing enters, each arc is part of a
   translation. *)
LEMMA EachArcIsSaid ==
  ASSUME NEW g, IsBody(g), InBounds(g), TopologicallyOrdered(g), Grounded(g),
         \A i \in NonPruned(g) : g.arcs[i].succ \in g.finals
                                 \/ \E j \in NonPruned(g) : g.arcs[j].pred = g.arcs[i].succ
  PROVE  UNION {ToSet(p) : p \in Translations(g)} = NonPruned(g)
  <1>1. PICK N : N = NonPruned(g)
    OBVIOUS
  <1>2. N \in SUBSET Arcs(g)
    BY <1>1, GraphFacts
  <1>3. ASSUME NEW p \in Translations(g) PROVE ToSet(p) \subseteq N
    <2>1. p \in Seq(N)
      BY <1>1, TranslationsAre DEF IsTranslation, PathFrom
    <2> QED BY <2>1 DEF ToSet
  <1>4. ASSUME NEW i \in N PROVE \E p \in Translations(g) : i \in ToSet(p)
    <2>1. PICK b, L : ScoresWithin(g, b, L)
      BY ScoresHaveBound
    <2>2. PICK prev : PrevAfter(g, L, Len(g.arcs), prev)
      BY <2>1, PrevScoresFit
    <2>3. PICK r : Ends(g, g.arcs[i].succ, r)
      BY <1>1, EachArcLeadsToEnd
    <2>4. PathFrom(g, NonPruned(g), g.arcs[i].succ, r) /\ EndFrom(g, g.arcs[i].succ, r) \in g.finals
      BY <2>3 DEF Ends
    <2>5. PICK x : x = ((prev.score[g.arcs[i].pred] + g.arcs[i].score) + PathScore(g, r))
                       - g.initialStateScore
      OBVIOUS
    <2>6. i \in NonPruned(g)
      BY <1>1
    <2>7. PICK p : RunsThrough(g, i, x, p)
      BY <2>2, <2>4, <2>5, <2>6, PathThroughArc, Zenon
    <2>8. /\ PathFrom(g, N, INITIAL_STATE, p) /\ EndFrom(g, INITIAL_STATE, p) \in g.finals
          /\ p # <<>> /\ i \in ToSet(p)
      BY <1>1, <2>7 DEF RunsThrough
    <2>9. Len(p) <= Len(g.arcs)
      BY <1>2, <2>8, PathsAreShort
    <2>10. p \in Translations(g)
      BY <1>1, <2>8, <2>9, TranslationsAre DEF IsTranslation
    <2> QED BY <2>8, <2>10
  <1> QED BY <1>1, <1>3, <1>4

(* Every arc that the reduction leaves is part of a translation. *)
LEMMA TakeUsefulKeepsOnlyUseful ==
  ASSUME UseInv, TakeUseful
  PROVE  UNION {ToSet(p) : p \in Translations(graph')} = Arcs(graph')
  <1>1. PICK g, h, U : g = graph /\ h = graph' /\ U = UsefulStates(g)
    OBVIOUS
  <1>2. /\ IsGraph(g) /\ IsBody(g) /\ InBounds(g) /\ ListsFit(g)
        /\ TopologicallyOrdered(g) /\ Grounded(g) /\ h = WgComposedOfUsefulStates(g)
    BY <1>1 DEF UseInv, Sound, TakeUseful, IsGraph
  <1>3. CASE g.arcs = <<>>
    <2>1. h = g
      BY <1>2, <1>3 DEF WgComposedOfUsefulStates
    <2>2. Arcs(g) = {} /\ Len(g.arcs) = 0
      BY <1>3 DEF Arcs
    <2>3. ASSUME NEW p \in Translations(g) PROVE FALSE
      <3>1. IsTranslation(g, NonPruned(g), p) /\ Len(p) <= 0
        BY <1>2, <2>2, TranslationsAre
      <3>2. p \in Seq(NonPruned(g)) /\ p # <<>>
        BY <3>1 DEF IsTranslation, PathFrom
      <3> QED BY <3>1, <3>2, EmptySeq
    <2>4. Translations(g) = {}
      BY <2>3
    <2> QED BY <1>1, <2>1, <2>2, <2>4
  <1>4. CASE g.arcs # <<>>
    <2>1. PICK o : KeptAfter(g, U, Len(g.arcs), h, o)
      BY <1>1, <1>2, <1>4, KeptGraphIs
    <2>2. AreUseful(g, U)
      BY <1>1, <1>2, UsefulStatesAre
    <2>3. /\ IsBody(h) /\ InBounds(h) /\ TopologicallyOrdered(h) /\ Grounded(h)
          /\ NonPruned(h) = Arcs(h)
      BY <1>2, <2>1, <2>2, KeptGraphIsSound DEF KeptAfter, IsGraph
    <2>4. SameShape(g, h, Kept(g, U), o)
      BY <1>2, <2>1, <2>2, <2>3, KeptSameShape
    <2>5. ASSUME NEW m \in Arcs(h), h.arcs[m].succ \notin h.finals
          PROVE  \E l \in Arcs(h) : h.arcs[l].pred = h.arcs[m].succ
      <3>1. o[m] \in Kept(g, U) /\ g.arcs[o[m]].succ \notin g.finals
        BY <2>4, <2>5 DEF SameShape
      <3>2. g.arcs[o[m]].succ \in U
        BY <3>1 DEF Kept
      <3>3. PICK i \in Kept(g, U) : g.arcs[i].pred = g.arcs[o[m]].succ
        BY <2>2, <3>1, <3>2 DEF AreUseful
      <3>4. PICK l \in Arcs(h) : o[l] = i
        BY <2>4 DEF SameShape
      <3>5. h.arcs[m].succ = h.arcs[l].pred
        BY <2>4, <3>3, <3>4 DEF SameShape
      <3> QED BY <3>5
    <2> QED BY <1>1, <2>3, <2>5, EachArcIsSaid
  <1> QED BY <1>3, <1>4

(* Of the arcs that have not been added, one may be: the states have no cycle. *)
LEMMA SomeMayBeAdded ==
  ASSUME NEW g, IsBody(g), ListsFit(g), Building(g), NEW a \in Orderings(g),
         ~(Arcs(g) \subseteq ToSet(a))
  PROVE  \E i \in Arcs(g) \ ToSet(a) : MayBeAdded(g, a, i)
  <1> DEFINE S == {g.arcs[i].pred : i \in Arcs(g) \ ToSet(a)}
  <1>1. S # {}
    OBVIOUS
  <1>2. \A i \in Arcs(g) : <<g.arcs[i].pred, g.arcs[i].succ>> \in Edges
    BY DEF Building
  <1>3. S \in SUBSET {e[1] : e \in Edges}
    <2> SUFFICES ASSUME NEW i \in Arcs(g) PROVE g.arcs[i].pred \in {e[1] : e \in Edges}
      OBVIOUS
    <2>1. PICK e : e = <<g.arcs[i].pred, g.arcs[i].succ>>
      OBVIOUS
    <2>2. e \in Edges /\ e[1] = g.arcs[i].pred
      BY <1>2, <2>1
    <2> QED BY <2>2
  <1> HIDE DEF S
  <1>4. PICK s \in S : \A e \in Edges : e[2] = s => e[1] \notin S
    BY <1>1, <1>3, WordGraphConstants
  <1>5. PICK i \in Arcs(g) \ ToSet(a) : g.arcs[i].pred = s
    BY <1>4 DEF S
  <1>6. ASSUME NEW j \in ArcIdsToPredStates(g, s) PROVE j \in ToSet(a)
    <2>1. j \in NonPruned(g) /\ g.arcs[j].succ = s
      BY ListsOfState
    <2>2. j \in Arcs(g)
      BY <2>1, GraphFacts
    <2>3. PICK e : e = <<g.arcs[j].pred, g.arcs[j].succ>>
      OBVIOUS
    <2>4. e \in Edges /\ e[1] = g.arcs[j].pred /\ e[2] = s
      BY <1>2, <2>1, <2>2, <2>3
    <2>5. g.arcs[j].pred \notin S
      BY <1>4, <2>4
    <2> QED BY <2>2, <2>5 DEF S
  <1>7. MayBeAdded(g, a, i)
    BY <1>5, <1>6 DEF MayBeAdded
  <1> QED BY <1>7

(* Ordering the arcs keeps the translations, and orders the arcs. *)
LEMMA OrderSays ==
  ASSUME UseInv, Order
  PROVE  Said(graph') = Said(graph) /\ TopologicallyOrdered(graph')
  <1>1. PICK g, h, o, n : /\ g = graph /\ h = graph' /\ o = TopologicalOrder(g)
                          /\ n = Len(g.arcs)
    OBVIOUS
  <1>2. /\ IsGraph(g) /\ IsBody(g) /\ InBounds(g) /\ ListsFit(g) /\ h = OrderArcsTopol(g)
        /\ Building(g)
    BY <1>1 DEF UseInv, Sound, Order, IsGraph
  <1>3. /\ n \in Nat /\ Arcs(g) = 1 .. n /\ NonPruned(g) = Arcs(g)
    BY <1>1, <1>2, GraphFacts DEF Building, NonPruned
  <1>4. o \in Orderings(g)
    BY <1>1, <1>2, OrderIs
  <1>5. Len(o) = n
    <2>1. \A a \in Orderings(g) : ~(Arcs(g) \subseteq ToSet(a)) =>
             \E i \in Arcs(g) \ ToSet(a) : MayBeAdded(g, a, i)
      BY <1>2, SomeMayBeAdded
    <2> QED BY <1>1, <1>2, <2>1, OrderIs
  <1>6. IsReordered(g, h, o)
    <2>1. h = [g EXCEPT !.arcs = [k \in Arcs(g) |-> @[o[k]]]]
      BY <1>1, <1>2, <1>5 DEF OrderArcsTopol
    <2> QED BY <1>1, <1>2, <1>4, <1>5, <2>1, ArcsReordered
  <1>7. /\ Arcs(h) = 1 .. n /\ NonPruned(h) = Arcs(h) /\ Len(h.arcs) = n /\ IsBody(h)
        /\ h.finals = g.finals /\ h.initialStateScore = g.initialStateScore
        /\ \A k \in 1 .. n : o[k] \in Arcs(g) /\ h.arcs[k] = g.arcs[o[k]]
    BY <1>1, <1>3, <1>6 DEF IsReordered, IsGraph
  <1>8. /\ \A k, l \in 1 .. n : o[k] = o[l] => k = l
        /\ \A l \in 1 .. n, j \in NonPruned(g) :
             g.arcs[j].succ = g.arcs[o[l]].pred => \E k \in 1 .. l - 1 : o[k] = j
    BY <1>4, <1>5 DEF Orderings
  <1>9. TopologicallyOrdered(h)
    <2> SUFFICES ASSUME NEW k \in 1 .. n, NEW l \in 1 .. n, h.arcs[k].succ = h.arcs[l].pred
                 PROVE  k < l
      BY <1>7 DEF TopologicallyOrdered
    <2>4. o[k] \in NonPruned(g) /\ g.arcs[o[k]].succ = g.arcs[o[l]].pred
      BY <1>3, <1>7
    <2>1. PICK m \in 1 .. l - 1 : o[m] = o[k]
      BY <1>8, <2>4
    <2>2. m \in 1 .. n
      BY <1>3
    <2>3. m = k
      BY <1>8, <2>1, <2>2
    <2> QED BY <2>1, <2>3
  <1>10. SameShape(g, h, Arcs(g), o)
    <2>1. Arcs(g) \subseteq ToSet(o)
      BY <1>1, <1>2, <1>4, <1>5, OrderingIsShort
    <2>2. \A i \in Arcs(g) : \E m \in 1 .. n : o[m] = i
      <3>1. DOMAIN o = 1 .. n
        BY <1>4, <1>5 DEF Orderings
      <3> QED BY <2>1, <3>1 DEF ToSet
    <2> QED BY ZenonT(60), <1>2, <1>7, <1>8, <2>2 DEF SameShape
  <1>11. \A q \in Translations(g) : q \in Seq(Arcs(g))
    BY <1>2, <1>3, TranslationsAre DEF IsTranslation, PathFrom
  <1>12. Said(h) = Said(g)
    BY <1>1, <1>3, <1>7, <1>10, <1>11, SameTranslations
  <1> QED BY <1>1, <1>9, <1>12

(* Reducing a graph to its useful states, or ordering its arcs, changes no translation
   and no score; every arc that is left is part of a translation, and the order is
   topological (WordGraph.cc:648, 717). *)
THEOREM ReshapingIsFaithful == Spec => ReshapingKeepsTranslations
  <1>1. ASSUME UseInv, [Next]_vars
        PROVE  [/\ TakeUseful =>
                     /\ Said(graph') = Said(graph)
                     /\ UNION {ToSet(p) : p \in Translations(graph')} = Arcs(graph')
                /\ Order => Said(graph') = Said(graph) /\ TopologicallyOrdered(graph')]_vars
    BY <1>1, TakeUsefulSays, TakeUsefulKeepsOnlyUseful, OrderSays
  <1> QED BY <1>1, UseInvariance, PTL DEF Spec, ReshapingKeepsTranslations

-----------------------------------------------------------------------------
(* What pruning retains.                                                   *)

\* A path to the arc, and one from there to where p ends.
GoesBy(g, N, p, i, a, c) ==
  /\ PathFrom(g, N, INITIAL_STATE, a) /\ EndFrom(g, INITIAL_STATE, a) = g.arcs[i].pred
  /\ PathFrom(g, N, g.arcs[i].succ, c)
  /\ EndFrom(g, g.arcs[i].succ, c) = EndFrom(g, INITIAL_STATE, p)
  /\ PathScore(g, p) = ((PathScore(g, a) + g.arcs[i].score) + PathScore(g, c)) - g.initialStateScore

(* A path consists of what precedes one of its arcs, the arc, and what follows. *)
LEMMA PathsAreSplit ==
  ASSUME NEW g, IsBody(g), NEW N \in SUBSET Arcs(g), NEW p, PathFrom(g, N, INITIAL_STATE, p),
         NEW k \in 1 .. Len(p)
  PROVE  \E a, c : GoesBy(g, N, p, p[k], a, c)
  <1> DEFINE P(m) == \A r : PathFrom(g, N, INITIAL_STATE, r) /\ Len(r) = m =>
                       \A j \in 1 .. m : \E a, c : GoesBy(g, N, r, r[j], a, c)
             n == Len(p)
             G == {m \in 0 .. n : P(m)}
  <1>1. n \in Nat
    BY DEF PathFrom
  <1>2. P(0)
    OBVIOUS
  <1>3. ASSUME NEW m \in 0 .. n - 1, P(m)
        PROVE  P(m + 1)
    <2> SUFFICES ASSUME NEW r, PathFrom(g, N, INITIAL_STATE, r), Len(r) = m + 1,
                        NEW j \in 1 .. m + 1
                 PROVE  \E a, c : GoesBy(g, N, r, r[j], a, c)
      OBVIOUS
    <2>1. r # <<>>
      BY <1>1
    <2>2. PICK t, i : LongerBy(g, N, INITIAL_STATE, r, t, i)
      BY <2>1, ShorterPath, Zenon
    <2>3. /\ r = Append(t, i) /\ PathFrom(g, N, INITIAL_STATE, t) /\ i \in N
          /\ g.arcs[i].pred = EndFrom(g, INITIAL_STATE, t) /\ Len(r) = Len(t) + 1
          /\ EndFrom(g, INITIAL_STATE, r) = g.arcs[i].succ /\ i = r[Len(r)]
      BY <2>2 DEF LongerBy
    <2>4. t \in Seq(N) /\ Len(t) \in Nat /\ t \in Seq(Arcs(g)) /\ i \in Arcs(g)
      BY <2>3 DEF PathFrom
    <2>5. Len(t) = m
      BY <2>3, <2>4, <1>1
    <2>6. PathScore(g, r) = PathScore(g, t) + g.arcs[i].score
      BY <2>3, <2>4, ScoreOfLonger
    <2>7. /\ PathScore(g, t) \in Int /\ g.arcs[i].score \in Int /\ g.initialStateScore \in Int
      BY <2>4, ScoreIsNumber, GraphFacts
    <2>8. CASE j = m + 1
      <3>1. r[j] = i
        BY <2>3, <2>8
      <3>2. /\ PathFrom(g, N, g.arcs[i].succ, <<>>)
            /\ EndFrom(g, g.arcs[i].succ, <<>>) = g.arcs[i].succ
        BY DEF PathFrom, EndFrom
      <3>3. PathScore(g, <<>>) = g.initialStateScore
        BY ScoreOfNoArc
      <3>4. PathScore(g, r) = ((PathScore(g, t) + g.arcs[i].score) + PathScore(g, <<>>))
                              - g.initialStateScore
        BY SMTT(40), <2>6, <2>7, <3>3
      <3>5. GoesBy(g, N, r, i, t, <<>>)
        BY <2>3, <3>2, <3>4 DEF GoesBy
      <3> QED BY <3>1, <3>5
    <2>9. CASE j \in 1 .. m
      <3>1. r[j] = t[j]
        BY <2>3, <2>4, <2>5, <2>9
      <3>2. PICK a, c : GoesBy(g, N, t, t[j], a, c)
        BY <1>3, <2>3, <2>5, <2>9
      <3>3. PICK h : h = t[j]
        OBVIOUS
      <3>4. /\ PathFrom(g, N, INITIAL_STATE, a) /\ EndFrom(g, INITIAL_STATE, a) = g.arcs[h].pred
            /\ PathFrom(g, N, g.arcs[h].succ, c)
            /\ EndFrom(g, g.arcs[h].succ, c) = EndFrom(g, INITIAL_STATE, t)
            /\ PathScore(g, t) = ((PathScore(g, a) + g.arcs[h].score) + PathScore(g, c))
                                 - g.initialStateScore
        BY <3>2, <3>3 DEF GoesBy
      <3>5. PICK d : d = Append(c, i)
        OBVIOUS
      <3>6. PathFrom(g, N, g.arcs[h].succ, d) /\ EndFrom(g, g.arcs[h].succ, d) = g.arcs[i].succ
        BY <2>3, <3>4, <3>5, LongerPath
      <3>7. h \in Arcs(g) /\ a \in Seq(Arcs(g)) /\ c \in Seq(Arcs(g))
        <4>1. h \in N
          BY <2>4, <2>5, <2>9, <3>3, Element
        <4> QED BY SMTT(40), <4>1, <3>4 DEF PathFrom
      <3>8. PathScore(g, d) = PathScore(g, c) + g.arcs[i].score
        BY <2>4, <3>5, <3>7, ScoreOfLonger
      <3>9. /\ PathScore(g, a) \in Int /\ PathScore(g, c) \in Int /\ g.arcs[h].score \in Int
        BY <3>7, ScoreIsNumber, GraphFacts
      <3>10. PathScore(g, r) = ((PathScore(g, a) + g.arcs[h].score) + PathScore(g, d))
                               - g.initialStateScore
        <4>1. PICK u \in Int, v \in Int, w \in Int, x \in Int, y \in Int, z \in Int :
                /\ u = PathScore(g, t) /\ v = g.arcs[i].score /\ w = PathScore(g, a)
                /\ x = g.arcs[h].score /\ y = PathScore(g, c) /\ z = g.initialStateScore
          BY <2>7, <3>9
        <4>2. u = ((w + x) + y) - z
          BY <3>4, <4>1
        <4>3. PathScore(g, r) = u + v /\ PathScore(g, d) = y + v
          BY <2>6, <3>8, <4>1
        <4>4. u + v = ((w + x) + (y + v)) - z
          BY <4>2
        <4> QED BY <4>1, <4>3, <4>4
      <3>11. GoesBy(g, N, r, h, a, d)
        BY <2>3, <3>4, <3>6, <3>10 DEF GoesBy
      <3> QED BY <3>1, <3>3, <3>11
    <2> QED BY <2>8, <2>9, <1>1
  <1> HIDE DEF P
  <1>4. 0 .. n \subseteq G
    <2>1. 0 \in 0 .. n /\ \A m \in 0 .. n - 1 : m \in 0 .. n /\ m + 1 \in 0 .. n
      BY <1>1
    <2>2. 0 \in G /\ \A m \in 0 .. n - 1 : m \in G => m + 1 \in G
      BY <2>1, <1>2, <1>3
    <2> HIDE DEF G
    <2> QED BY <1>1, <2>2, InductionUpTo
  <1>5. P(n)
    BY <1>1, <1>4
  <1> QED BY <1>5 DEF P

(* No path from a state to a final state is better than the rest score of the state. *)
LEMMA NoBetterPathFrom ==
  ASSUME NEW g, IsBody(g), NEW L, NEW rest, RestAfter(g, L, Len(g.arcs), rest),
         NEW s \in States(g), NEW q, PathFrom(g, NonPruned(g), s, q),
         EndFrom(g, s, q) \in g.finals
  PROVE  PathScore(g, q) <= rest[s]
  <1> DEFINE Fit(r) == /\ EndFrom(g, s, r) \in States(g)
                       /\ (PathScore(g, r) + rest[EndFrom(g, s, r)]) - g.initialStateScore <= rest[s]
             P(k) == \A r : PathFrom(g, NonPruned(g), s, r) /\ Len(r) = k => Fit(r)
             n == Len(q)
             G == {k \in 0 .. n : P(k)}
  <1>1. q \in Seq(NonPruned(g)) /\ n \in Nat
    BY DEF PathFrom
  <1>2. /\ Len(g.arcs) \in Nat /\ g.initialStateScore \in Int /\ NonPruned(g) \subseteq Arcs(g)
        /\ \A i \in NonPruned(g) : i > Len(g.arcs) - Len(g.arcs)
        /\ rest \in [States(g) -> Int]
    BY SMTT(40), GraphFacts DEF RestAfter
  <1>3. P(0)
    <2> SUFFICES ASSUME NEW r, PathFrom(g, NonPruned(g), s, r), Len(r) = 0
                 PROVE  Fit(r)
      OBVIOUS
    <2>1. r = <<>>
      BY EmptySeq DEF PathFrom
    <2>2. PathScore(g, r) = g.initialStateScore /\ EndFrom(g, s, r) = s
      BY <2>1, ScoreOfNoArc DEF EndFrom
    <2>3. rest[s] \in Int
      BY <1>2
    <2> QED BY <2>2, <2>3, <1>2
  <1>4. ASSUME NEW k \in 0 .. n - 1, P(k)
        PROVE  P(k + 1)
    <2> SUFFICES ASSUME NEW r, PathFrom(g, NonPruned(g), s, r), Len(r) = k + 1
                 PROVE  Fit(r)
      OBVIOUS
    <2>1. r # <<>>
      BY <1>1
    <2>2. PICK t, i : LongerBy(g, NonPruned(g), s, r, t, i)
      BY <2>1, ShorterPath, Zenon
    <2>3. /\ r = Append(t, i) /\ PathFrom(g, NonPruned(g), s, t) /\ i \in NonPruned(g)
          /\ g.arcs[i].pred = EndFrom(g, s, t) /\ Len(r) = Len(t) + 1
          /\ EndFrom(g, s, r) = g.arcs[i].succ
      BY <2>2 DEF LongerBy
    <2>4. t \in Seq(NonPruned(g)) /\ t \in Seq(Arcs(g)) /\ i \in Arcs(g)
      BY <1>2, <2>3 DEF PathFrom
    <2>5. Len(t) = k
      <3>1. Len(t) \in Nat
        BY <2>4
      <3> QED BY <2>3, <3>1, <1>1
    <2>6. Fit(t)
      BY <1>4, <2>3, <2>5
    <2>7. PathScore(g, r) = PathScore(g, t) + g.arcs[i].score
      BY <2>3, <2>4, ScoreOfLonger
    <2>8. rest[g.arcs[i].pred] >= AtLeastSmall(g.arcs[i].score + rest[g.arcs[i].succ])
      BY <1>2, <2>3 DEF RestAfter
    <2>9. g.arcs[i].succ \in States(g) /\ g.arcs[i].pred \in States(g)
      BY <2>4, GraphFacts
    <2>10. PICK w \in Int, x \in Int, y \in Int, z \in Int :
             /\ w = PathScore(g, t) /\ x = g.arcs[i].score
             /\ y = rest[g.arcs[i].succ] /\ z = rest[g.arcs[i].pred]
      BY <1>2, <2>4, <2>9, ScoreIsNumber, GraphFacts
    <2>11. z >= x + y
      <3>1. z >= AtLeastSmall(x + y)
        BY <2>8, <2>10
      <3> QED BY <3>1, SmallScore DEF AtLeastSmall
    <2>12. PICK u \in Int, v \in Int : u = g.initialStateScore /\ v = rest[s]
      BY <1>2
    <2>13. (w + z) - u <= v
      BY <2>3, <2>6, <2>10, <2>12
    <2>14. ((w + x) + y) - u <= v
      BY SMTT(40), <2>11, <2>13
    <2> QED BY <2>3, <2>7, <2>9, <2>10, <2>12, <2>14
  <1> HIDE DEF P
  <1>5. 0 .. n \subseteq G
    <2>1. 0 \in G /\ \A k \in 0 .. n - 1 : k \in G => k + 1 \in G
      BY <1>1, <1>3, <1>4
    <2> HIDE DEF G
    <2> QED BY <1>1, <2>1, InductionUpTo
  <1>6. Fit(q)
    <2>1. P(n)
      BY <1>1, <1>5
    <2> QED BY <2>1 DEF P
  <1>7. rest[EndFrom(g, s, q)] >= g.initialStateScore
    BY <1>6 DEF RestAfter
  <1>8. PICK w \in Int, u \in Int, v \in Int, z \in Int :
          /\ w = PathScore(g, q) /\ u = g.initialStateScore /\ v = rest[s]
          /\ z = rest[EndFrom(g, s, q)]
    <2>1. q \in Seq(Arcs(g))
      BY <1>1, <1>2
    <2> QED BY <2>1, <1>2, <1>6, ScoreIsNumber
  <1>9. (w + z) - u <= v /\ z >= u
    BY <1>6, <1>7, <1>8
  <1> QED BY <1>8, <1>9

\* The complete paths of a graph, and those within a threshold of the best.
CompletePaths(g) ==
  {p \in PathsOver(g, Arcs(g)) : p # <<>> /\ LastState(g, [arcs |-> p]) \in g.finals}
GoodPaths(g, t) ==
  {p \in CompletePaths(g) : \A q \in CompletePaths(g) : PathScore(g, p) >= PathScore(g, q) + t}

(* What the complete paths are. *)
LEMMA CompletePathsAre ==
  ASSUME NEW g, IsBody(g), TopologicallyOrdered(g)
  PROVE  \A p : p \in CompletePaths(g) <=>
                  /\ PathFrom(g, Arcs(g), INITIAL_STATE, p) /\ p # <<>>
                  /\ EndFrom(g, INITIAL_STATE, p) \in g.finals
  <1>1. Arcs(g) \in SUBSET Arcs(g)
    OBVIOUS
  <1>2. \A p : p \in PathsOver(g, Arcs(g)) <=> PathFrom(g, Arcs(g), INITIAL_STATE, p)
    BY <1>1, PathsOverOrdered
  <1>3. ASSUME NEW p, PathFrom(g, Arcs(g), INITIAL_STATE, p)
        PROVE  LastState(g, [arcs |-> p]) = EndFrom(g, INITIAL_STATE, p)
    <2>1. PICK h : h = [arcs |-> p]
      OBVIOUS
    <2>2. h.arcs = p /\ p \in Seq(Arcs(g))
      BY <2>1, <1>3 DEF PathFrom
    <2> QED BY <2>1, <2>2, LastStateIsEnd
  <1> QED BY <1>2, <1>3 DEF CompletePaths

\* Graphs whose arcs have just been added, in order, with the scores of the passes.
HasPasses(g, b, L, prev, rest) ==
  /\ IsGraph(g) /\ IsBody(g) /\ TopologicallyOrdered(g) /\ Grounded(g) /\ NonPruned(g) = Arcs(g)
  /\ ScoresWithin(g, b, L)
  /\ prev = PrevScores(g, INITIAL_STATE, {}) /\ PrevAfter(g, L, Len(g.arcs), prev)
  /\ rest = RestScores(g) /\ RestAfter(g, L, Len(g.arcs), rest)

(* The best score of a final state is that of the best complete path. *)
LEMMA BestFinalIsBestPath ==
  ASSUME NEW g, NEW b, NEW L, NEW prev, NEW rest, HasPasses(g, b, L, prev, rest),
         CompletePaths(g) # {}, NEW x, x = BestFinalScore(g, prev.score)
  PROVE  /\ x \in Int /\ x >= -L[Len(g.arcs)]
         /\ \A p \in CompletePaths(g) : PathScore(g, p) <= x /\ PathScore(g, p) \in Int
         /\ \E p \in CompletePaths(g) : PathScore(g, p) = x
  <1>1. /\ IsGraph(g) /\ IsBody(g) /\ TopologicallyOrdered(g) /\ Grounded(g)
        /\ NonPruned(g) = Arcs(g) /\ PrevAfter(g, L, Len(g.arcs), prev) /\ ScoresWithin(g, b, L)
    BY DEF HasPasses
  <1>2. prev.score \in [States(g) -> Int]
    BY <1>1 DEF PrevAfter, PrevRecords
  <1>3. PICK m : m = L[Len(g.arcs)]
    OBVIOUS
  <1>4. m \in Nat /\ -m > SMALL_SCORE
    <2>1. Len(g.arcs) \in 0 .. Len(g.arcs)
      BY <1>1, GraphFacts
    <2>2. m \in Nat /\ 2 * m < -SMALL_SCORE
      BY <1>1, <1>3, <2>1 DEF ScoresWithin
    <2> QED BY <2>2, SmallScore
  <1>5. BestOf(g.finals, prev.score, x)
    BY <1>1, <1>2, BestFinalScoreIsBest
  <1>6. g.finals \subseteq States(g) \ {INITIAL_STATE}
    BY <1>1 DEF IsGraph
  <1>7. x \in Int /\ \A s \in g.finals : x >= prev.score[s]
    BY <1>5 DEF BestOf
  <1>8. ASSUME NEW p \in CompletePaths(g)
        PROVE  /\ PathScore(g, p) <= x /\ PathScore(g, p) \in Int /\ x >= -m
               /\ INITIAL_STATE \in States(g)
    <2>1. /\ PathFrom(g, NonPruned(g), INITIAL_STATE, p) /\ p # <<>>
          /\ EndFrom(g, INITIAL_STATE, p) \in g.finals
      BY <1>1, CompletePathsAre
    <2>2. p \in Seq(Arcs(g)) /\ Len(p) \in Nat /\ Len(p) # 0
      BY <2>1, <1>1, EmptySeq DEF PathFrom
    <2>3. 1 \in 1 .. Len(p)
      BY <2>2
    <2>4. p[1] \in NonPruned(g)
      BY <1>1, <2>2, <2>3, Element
    <2>5. INITIAL_STATE \in States(g)
      BY <1>1, <2>4, WhatArcLeaves
    <2>6. PICK s : s = EndFrom(g, INITIAL_STATE, p)
      OBVIOUS
    <2>7. /\ s \in {INITIAL_STATE} \cup Entered(g, Len(g.arcs)) /\ s \in States(g)
          /\ PathScore(g, p) <= prev.score[s]
      BY <1>1, <2>1, <2>5, <2>6, NoBetterPathTo
    <2>8. -m <= prev.score[s] /\ prev.score[s] <= x
      BY <1>1, <1>3, <1>7, <2>1, <2>6, <2>7 DEF PrevAfter
    <2>9. prev.score[s] \in Int /\ PathScore(g, p) \in Int
      BY <1>1, <1>2, <2>2, <2>7, ScoreIsNumber
    <2> QED BY <1>4, <1>7, <2>5, <2>7, <2>8, <2>9
  <1>9. x >= -m /\ INITIAL_STATE \in States(g)
    BY <1>8
  <1>10. PICK s \in g.finals : x = prev.score[s]
    <2>1. x # SMALL_SCORE
      BY <1>4, <1>7, <1>9, SmallScore
    <2> QED BY <1>5, <2>1 DEF BestOf
  <1>11. s \in Entered(g, Len(g.arcs))
    <2> SUFFICES ASSUME s \in States(g) \ Entered(g, Len(g.arcs)) PROVE FALSE
      BY <1>6
    <2>1. prev.score[s] = SMALL_SCORE
      BY <1>1, <1>6 DEF PrevAfter
    <2> QED BY <2>1, <1>4, <1>7, <1>9, <1>10, SmallScore
  <1>12. PICK r \in {INITIAL_STATE} \cup Entered(g, Len(g.arcs)) : r = s
    BY <1>11
  <1>13. PICK q : LeadsTo(g, prev, r, q)
    BY <1>1, <1>9, BestPathTo, Zenon
  <1>14. /\ PathFrom(g, Arcs(g), INITIAL_STATE, q) /\ EndFrom(g, INITIAL_STATE, q) = s
         /\ PathScore(g, q) = x
    BY <1>1, <1>10, <1>12, <1>13 DEF LeadsTo
  <1>15. q # <<>>
    BY <1>6, <1>14 DEF EndFrom
  <1>16. q \in CompletePaths(g)
    BY <1>1, <1>14, <1>15, CompletePathsAre
  <1> QED BY <1>3, <1>7, <1>8, <1>9, <1>14, <1>16

(* An arc has a score by the passes no lower than that of a path it is part of. *)
LEMMA ThroughIsNoLess ==
  ASSUME NEW g, NEW b, NEW L, NEW prev, NEW rest, HasPasses(g, b, L, prev, rest),
         NEW p \in CompletePaths(g), NEW i \in ToSet(p), g.initialStateScore = 0
  PROVE  i \in Arcs(g) /\ PathScore(g, p) <= Through(g, i)
  <1>1. /\ IsBody(g) /\ TopologicallyOrdered(g) /\ Grounded(g) /\ NonPruned(g) = Arcs(g)
        /\ PrevAfter(g, L, Len(g.arcs), prev) /\ RestAfter(g, L, Len(g.arcs), rest)
    BY DEF HasPasses
  <1>2. /\ PathFrom(g, Arcs(g), INITIAL_STATE, p) /\ p # <<>>
        /\ EndFrom(g, INITIAL_STATE, p) \in g.finals
    BY <1>1, CompletePathsAre
  <1>3. p \in Seq(Arcs(g))
    BY <1>2 DEF PathFrom
  <1>4. PICK k \in 1 .. Len(p) : i = p[k]
    BY <1>3 DEF ToSet
  <1>5. i \in Arcs(g) /\ i \in NonPruned(g)
    BY <1>1, <1>3, <1>4, Element
  <1>6. PICK a, c : GoesBy(g, Arcs(g), p, i, a, c)
    <2>1. Arcs(g) \in SUBSET Arcs(g)
      OBVIOUS
    <2>2. \E a, c : GoesBy(g, Arcs(g), p, p[k], a, c)
      BY <1>1, <1>2, <2>1, PathsAreSplit, Zenon
    <2> QED BY <1>4, <2>2
  <1>7. /\ PathFrom(g, NonPruned(g), INITIAL_STATE, a)
        /\ EndFrom(g, INITIAL_STATE, a) = g.arcs[i].pred
        /\ PathFrom(g, NonPruned(g), g.arcs[i].succ, c)
        /\ EndFrom(g, g.arcs[i].succ, c) \in g.finals
        /\ PathScore(g, p) = ((PathScore(g, a) + g.arcs[i].score) + PathScore(g, c)) - g.initialStateScore
    BY <1>1, <1>2, <1>6 DEF GoesBy
  <1>8. PathScore(g, a) <= prev.score[g.arcs[i].pred]
    <2>1. INITIAL_STATE \in States(g)
      BY <1>1, <1>5, WhatArcLeaves
    <2> QED BY <1>1, <1>7, <2>1, NoBetterPathTo
  <1>9. PathScore(g, c) <= rest[g.arcs[i].succ]
    <2>1. g.arcs[i].succ \in States(g)
      BY <1>1, <1>5, GraphFacts
    <2> QED BY <1>1, <1>7, <2>1, NoBetterPathFrom
  <1>10. PICK u \in Int, v \in Int, w \in Int, y \in Int, z \in Int :
           /\ u = PathScore(g, a) /\ v = prev.score[g.arcs[i].pred] /\ w = g.arcs[i].score
           /\ y = PathScore(g, c) /\ z = rest[g.arcs[i].succ]
    <2>1. a \in Seq(Arcs(g)) /\ c \in Seq(Arcs(g))
      BY <1>1, <1>7 DEF PathFrom
    <2>2. PathScore(g, a) \in Int /\ PathScore(g, c) \in Int
      BY <1>1, <2>1, ScoreIsNumber
    <2>3. /\ g.arcs[i].pred \in States(g) /\ g.arcs[i].succ \in States(g)
          /\ g.arcs[i].score \in Int
      BY SMTT(40), <1>1, <1>5, GraphFacts
    <2>4. prev.score \in [States(g) -> Int] /\ rest \in [States(g) -> Int]
      BY <1>1 DEF PrevAfter, PrevRecords, RestAfter
    <2> QED BY <2>2, <2>3, <2>4
  <1>11. PathScore(g, p) = ((u + w) + y) - 0
    BY <1>7, <1>10
  <1>12. Through(g, i) = (v + w) + z
    BY <1>10 DEF HasPasses, Through, ThroughArc
  <1>13. u <= v /\ y <= z
    BY <1>8, <1>9, <1>10
  <1> QED BY <1>5, <1>11, <1>12, <1>13

(* An arc whose score is within the threshold is part of a path with that score. *)
LEMMA ThroughIsPath ==
  ASSUME NEW g, NEW b, NEW L, NEW prev, NEW rest, HasPasses(g, b, L, prev, rest),
         NEW i \in Arcs(g), g.initialStateScore = 0,
         NEW t \in LogThresholds, t > SMALL_SCORE, NEW x \in Int, x >= -L[Len(g.arcs)],
         Through(g, i) >= x + t
  PROVE  \E p \in CompletePaths(g) : i \in ToSet(p) /\ PathScore(g, p) = Through(g, i)
  <1>1. /\ IsBody(g) /\ TopologicallyOrdered(g) /\ Grounded(g) /\ NonPruned(g) = Arcs(g)
        /\ PrevAfter(g, L, Len(g.arcs), prev) /\ RestAfter(g, L, Len(g.arcs), rest)
        /\ ScoresWithin(g, b, L)
    BY DEF HasPasses
  <1>2. PICK r, s : r = g.arcs[i].pred /\ s = g.arcs[i].succ
    OBVIOUS
  <1>3. /\ r \in {INITIAL_STATE} \cup Entered(g, Len(g.arcs)) /\ r \in States(g)
        /\ s \in States(g) /\ g.arcs[i].score \in Int
    BY <1>1, <1>2, GraphFacts, WhatArcLeaves
  <1>4. PICK v \in Int, w \in Int, z \in Int :
          v = prev.score[r] /\ w = g.arcs[i].score /\ z = rest[s]
    <2>1. prev.score \in [States(g) -> Int] /\ rest \in [States(g) -> Int]
      BY <1>1 DEF PrevAfter, PrevRecords, RestAfter
    <2> QED BY SMTT(40), <1>3, <2>1
  <1>5. Through(g, i) = (v + w) + z
    BY <1>2, <1>4 DEF HasPasses, Through, ThroughArc
  <1>6. PICK m : m = L[Len(g.arcs)]
    OBVIOUS
  <1>7. m \in Nat /\ v <= m /\ w <= m /\ 4 * m < t - SMALL_SCORE
    <2>1. Len(g.arcs) \in 0 .. Len(g.arcs)
      BY <1>1, GraphFacts
    <2>2. b \in Nat /\ m \in Nat /\ b <= m
      BY <1>1, <1>6, <2>1 DEF ScoresWithin
    <2>3. w <= b /\ 4 * m < t - SMALL_SCORE
      BY SMTT(40), <1>1, <1>4, <1>6 DEF ScoresWithin
    <2>4. v <= m
      BY <1>1, <1>3, <1>4, <1>6 DEF PrevAfter
    <2> QED BY <2>2, <2>3, <2>4
  <1>8. Reaches(L, Len(g.arcs), z)
    <2> SUFFICES ASSUME Fails(L, Len(g.arcs), z) PROVE FALSE
      BY <1>1, <1>3, <1>4 DEF RestAfter
    <2>1. z <= SMALL_SCORE + m
      BY <1>6 DEF Fails
    <2>2. t \in Int
      BY WordGraphConstants
    <2>3. (v + w) + z >= x + t /\ x >= -m
      BY <1>5, <1>6
    <2> QED BY <1>7, <2>1, <2>2, <2>3, SmallScore
  <1>9. PICK q : BringsToEnd(g, s, q, z)
    BY <1>1, <1>3, <1>4, <1>8 DEF RestAfter
  <1>10. /\ PathFrom(g, NonPruned(g), g.arcs[i].succ, q)
         /\ EndFrom(g, g.arcs[i].succ, q) \in g.finals /\ PathScore(g, q) = z
    BY <1>2, <1>9 DEF BringsToEnd
  <1>11. PICK y : y = ((prev.score[g.arcs[i].pred] + g.arcs[i].score) + PathScore(g, q))
                      - g.initialStateScore
    OBVIOUS
  <1>12. y = Through(g, i)
    <2>1. y = ((v + w) + z) - 0
      BY <1>2, <1>4, <1>10, <1>11
    <2> QED BY <1>5, <2>1
  <1>13. i \in NonPruned(g)
    BY <1>1
  <1>14. PICK p : RunsThrough(g, i, y, p)
    BY <1>1, <1>10, <1>11, <1>13, PathThroughArc, Zenon
  <1>15. p \in CompletePaths(g)
    BY <1>1, <1>14, CompletePathsAre DEF RunsThrough
  <1> QED BY <1>12, <1>14, <1>15 DEF RunsThrough

(* Pruning leaves the arcs of the good paths. *)
LEMMA PruneLeavesGoodPaths ==
  ASSUME NEW g, NEW b, NEW L, NEW prev, NEW rest, HasPasses(g, b, L, prev, rest),
         g.initialStateScore = 0, NEW t \in LogThresholds, t > SMALL_SCORE,
         CompletePaths(g) # {}
  PROVE  {i \in Arcs(g) : ~(Through(g, i) < Worst(g, t))} = UNION {ToSet(p) : p \in GoodPaths(g, t)}
  <1>1. PICK x : x = BestFinalScore(g, prev.score)
    OBVIOUS
  <1>2. /\ x \in Int /\ x >= -L[Len(g.arcs)]
        /\ \A p \in CompletePaths(g) : PathScore(g, p) <= x /\ PathScore(g, p) \in Int
        /\ \E p \in CompletePaths(g) : PathScore(g, p) = x
    BY <1>1, BestFinalIsBestPath
  <1>3. t \in Int
    BY WordGraphConstants
  <1>4. Worst(g, t) = x + t
    BY <1>1 DEF HasPasses, Worst
  <1>5. ASSUME NEW i \in Arcs(g) PROVE Through(g, i) \in Int
    <2>1. /\ g.arcs[i].score \in Int /\ g.arcs[i].pred \in States(g) /\ g.arcs[i].succ \in States(g)
      BY GraphFacts DEF HasPasses
    <2>2. prev.score \in [States(g) -> Int] /\ rest \in [States(g) -> Int]
      BY DEF HasPasses, PrevAfter, PrevRecords, RestAfter
    <2>3. prev.score[g.arcs[i].pred] \in Int /\ rest[g.arcs[i].succ] \in Int
      BY <2>1, <2>2
    <2> QED BY SMTT(40), <2>1, <2>3 DEF HasPasses, Through, ThroughArc
  <1>6. \A p \in CompletePaths(g) : p \in GoodPaths(g, t) <=> PathScore(g, p) >= x + t
    <2> SUFFICES ASSUME NEW p \in CompletePaths(g)
                 PROVE  (\A q \in CompletePaths(g) : PathScore(g, p) >= PathScore(g, q) + t)
                          <=> PathScore(g, p) >= x + t
      BY DEF GoodPaths
    <2>1. PICK y \in Int : y = PathScore(g, p)
      BY <1>2
    <2>2. ASSUME y >= x + t, NEW q \in CompletePaths(g) PROVE y >= PathScore(g, q) + t
      <3>1. PICK z \in Int : z = PathScore(g, q) /\ z <= x
        BY <1>2
      <3> QED BY <1>2, <1>3, <2>2, <3>1
    <2> QED BY <1>2, <2>1, <2>2
  <1>7. ASSUME NEW i \in Arcs(g), ~(Through(g, i) < Worst(g, t))
        PROVE  \E p \in GoodPaths(g, t) : i \in ToSet(p)
    <2>1. Through(g, i) >= x + t
      BY <1>2, <1>3, <1>4, <1>5, <1>7
    <2>2. PICK p \in CompletePaths(g) : i \in ToSet(p) /\ PathScore(g, p) = Through(g, i)
      BY <1>2, <2>1, ThroughIsPath
    <2> QED BY <1>6, <2>1, <2>2
  <1>8. ASSUME NEW p \in GoodPaths(g, t), NEW i \in ToSet(p)
        PROVE  i \in Arcs(g) /\ ~(Through(g, i) < Worst(g, t))
    <2>1. p \in CompletePaths(g)
      BY DEF GoodPaths
    <2>2. i \in Arcs(g) /\ PathScore(g, p) <= Through(g, i)
      BY <2>1, ThroughIsNoLess
    <2>3. PathScore(g, p) >= x + t /\ PathScore(g, p) \in Int
      BY <1>2, <1>6, <2>1
    <2>4. PICK y \in Int, z \in Int : y = PathScore(g, p) /\ z = Through(g, i)
      BY <1>5, <2>2, <2>3
    <2>5. ~(z < x + t)
      BY <1>2, <1>3, <2>2, <2>3, <2>4
    <2> QED BY <1>4, <2>2, <2>4, <2>5
  <1> QED BY <1>7, <1>8

(* Pruning retains exactly the arcs of the paths whose score is within the threshold
   of the best one's (WordGraph.cc:1056). *)
THEOREM PruningIsByPaths == Spec => PruneKeepsGoodPaths
  <1>1. ASSUME UseInv, NEW t \in LogThresholds \ {UNLIMITED_DENSITY}, PruneBy(t),
               TopologicallyOrdered(graph), graph.initialStateScore = 0, t > SMALL_SCORE,
               CompletePaths(graph) # {}
        PROVE  NonPruned(graph') = UNION {ToSet(p) : p \in GoodPaths(graph, t)}
    <2>1. PICK g, F : g = graph /\ F = Flags(g, t)
      OBVIOUS
    <2>2. /\ IsGraph(g) /\ IsBody(g) /\ ListsFit(g) /\ Building(g) /\ InBounds(g)
          /\ graph' = Prune(g, t) /\ TopologicallyOrdered(g) /\ g.initialStateScore = 0
          /\ CompletePaths(g) # {}
      BY <1>1, <2>1 DEF UseInv, Sound, PruneBy, IsGraph
    <2>3. NonPruned(g) = Arcs(g) /\ Grounded(g)
      BY <2>2 DEF Building, NonPruned
    <2>4. PICK b, L : ScoresWithin(g, b, L)
      BY <2>2, ScoresHaveBound
    <2>5. PICK prev, rest : prev = PrevScores(g, INITIAL_STATE, {}) /\ rest = RestScores(g)
      OBVIOUS
    <2>6. HasPasses(g, b, L, prev, rest)
      BY <2>2, <2>3, <2>4, <2>5, PrevScoresFit, RestScoresFit DEF HasPasses
    <2>7. F = [i \in Arcs(g) |-> Through(g, i) < Worst(g, t)]
      BY <2>1 DEF Flags
    <2>8. F \in [Arcs(g) -> BOOLEAN]
      <3>1. \A i \in Arcs(g) : (Through(g, i) < Worst(g, t)) \in BOOLEAN
        OBVIOUS
      <3> QED BY <2>7, <3>1
    <2>9. graph' = [g EXCEPT !.arcsPruned = F]
      BY <2>1, <2>2, PruneSetsFlags
    <2>10. NonPruned(graph') = {i \in Arcs(g) : ~F[i]}
      BY <2>2, <2>8, <2>9, OtherFlags DEF IsButFlagged
    <2>11. {i \in Arcs(g) : ~F[i]} = {i \in Arcs(g) : ~(Through(g, i) < Worst(g, t))}
      BY <2>7
    <2> QED BY <1>1, <2>1, <2>2, <2>6, <2>10, <2>11, PruneLeavesGoodPaths
  <1>2. ASSUME UseInv, [Next]_vars
        PROVE  [\A t \in LogThresholds \ {UNLIMITED_DENSITY} :
                  PruneBy(t) /\ TopologicallyOrdered(graph) /\ graph.initialStateScore = 0
                    /\ t > SMALL_SCORE
                  => LET all  == {p \in PathsOver(graph, Arcs(graph)) : p # <<>>
                                    /\ LastState(graph, [arcs |-> p]) \in graph.finals}
                         good == {p \in all : \A q \in all : PathScore(graph, p) >= PathScore(graph, q) + t}
                     IN all # {} => NonPruned(graph') = UNION {ToSet(p) : p \in good}]_vars
    BY <1>1, <1>2 DEF CompletePaths, GoodPaths
  <1> QED BY <1>2, UseInvariance, PTL DEF Spec, PruneKeepsGoodPaths

-----------------------------------------------------------------------------
(* What the n-best search expects of the rest of a path.                   *)

\* After k arcs of the pass, counted from the last.
HeurAfter(g, k, h) ==
  /\ h \in [States(g) -> Int]
  /\ \A s \in States(g) : h[s] <= 0
  /\ \A s \in States(g) : s \in g.finals => h[s] = 0
  /\ \A i \in NonPruned(g) :
       i > Len(g.arcs) - k => h[g.arcs[i].pred] >= g.arcs[i].score + h[g.arcs[i].succ]

(* The tables of the pass. *)
LEMMA HeurStepType ==
  ASSUME NEW g, IsBody(g)
  PROVE  /\ HeurStart(g) \in [States(g) -> Int]
         /\ \A rest \in [States(g) -> Int], k \in 1 .. Len(g.arcs) :
              HeurStep(g, rest, k) \in [States(g) -> Int]
  <1>1. HeurStart(g) \in [States(g) -> Int]
    BY SmallScore DEF HeurStart
  <1>2. ASSUME NEW rest \in [States(g) -> Int], NEW k \in 1 .. Len(g.arcs)
        PROVE  HeurStep(g, rest, k) \in [States(g) -> Int]
    <2>1. PICK i, a : i = Len(g.arcs) + 1 - k /\ a = g.arcs[i]
      OBVIOUS
    <2>2. i \in Arcs(g)
      BY <2>1, GraphFacts
    <2>3. a.pred \in States(g) /\ a.succ \in States(g) /\ a.score \in Int
      BY <2>1, <2>2, GraphFacts
    <2>4. PICK x : x = a.score + rest[a.succ]
      OBVIOUS
    <2>5. x \in Int
      BY <2>3, <2>4
    <2>6. HeurStep(g, rest, k) =
            IF i \in NonPruned(g) /\ x > rest[a.pred] THEN [rest EXCEPT ![a.pred] = x] ELSE rest
      BY <2>1, <2>4 DEF HeurStep
    <2> QED BY <2>3, <2>5, <2>6
  <1> QED BY <1>1, <1>2

(* One arc of the pass. *)
LEMMA HeurStepKeeps ==
  ASSUME NEW g, IsGraph(g), IsBody(g), TopologicallyOrdered(g),
         \A i \in Arcs(g) : g.arcs[i].score < 0,
         NEW k \in 0 .. Len(g.arcs) - 1, NEW rest, HeurAfter(g, k, rest),
         NEW next, next = HeurStep(g, rest, k + 1)
  PROVE  HeurAfter(g, k + 1, next)
  <1>1. PICK n : n = Len(g.arcs)
    OBVIOUS
  <1>2. PICK i : i = n - k
    OBVIOUS
  <1>3. /\ n \in Nat /\ Arcs(g) = 1 .. n /\ i \in Arcs(g) /\ i \in Nat /\ k \in Nat
        /\ i = (n + 1) - (k + 1) /\ NonPruned(g) \subseteq Arcs(g)
        /\ \A j \in NonPruned(g) : j \in Nat /\ (j > n - (k + 1) <=> j > n - k \/ j = i)
        /\ \A j \in NonPruned(g) : j > n - k => i <= j
    BY SMTT(40), <1>1, <1>2, GraphFacts
  <1>4. PICK p, s, x : p = g.arcs[i].pred /\ s = g.arcs[i].succ /\ x = g.arcs[i].score
    OBVIOUS
  <1>5. p \in States(g) /\ s \in States(g) /\ x \in Int /\ x < 0 /\ s # p
    BY SMTT(40), <1>3, <1>4, GraphFacts, NoneEntersWhatWasLeft
  <1>6. rest \in [States(g) -> Int]
    BY DEF HeurAfter
  <1>7. PICK c, d \in Int : c = rest[s] /\ d = rest[p]
    BY <1>5, <1>6
  <1>8. c <= 0 /\ x + c < 0 /\ x + c \in Int
    <2>1. c <= 0
      BY <1>5, <1>7 DEF HeurAfter
    <2> QED BY <1>5, <2>1
  <1>9. next = IF i \in NonPruned(g) /\ x + c > d THEN [rest EXCEPT ![p] = x + c] ELSE rest
    <2>1. PICK z, m : z = x + rest[s] /\ m = k + 1
      OBVIOUS
    <2>2. i = Len(g.arcs) + 1 - m
      <3>1. i = n + 1 - m
        BY <1>3, <2>1
      <3> QED BY <1>1, <3>1
    <2>3. next = IF i \in NonPruned(g) /\ z > rest[p] THEN [rest EXCEPT ![p] = z] ELSE rest
      BY <1>4, <2>1, <2>2 DEF HeurStep
    <2> QED BY <1>7, <2>1, <2>3
  <1>10. CASE i \in NonPruned(g) /\ x + c > d
    <2>1. /\ next = [rest EXCEPT ![p] = x + c] /\ next \in [States(g) -> Int]
          /\ next[p] = x + c /\ next[s] = c /\ \A t \in States(g) : t # p => next[t] = rest[t]
      BY <1>5, <1>6, <1>7, <1>8, <1>9, <1>10
    <2>2. p \notin g.finals
      BY <1>5, <1>7, <1>8, <1>10 DEF HeurAfter
    <2>3. \A t \in States(g) : next[t] <= 0 /\ (t \in g.finals => next[t] = 0)
      <3> SUFFICES ASSUME NEW t \in States(g)
                   PROVE  next[t] <= 0 /\ (t \in g.finals => next[t] = 0)
        OBVIOUS
      <3>1. CASE t = p
        BY <3>1, <2>1, <2>2, <1>8
      <3>2. CASE t # p
        BY <3>2, <2>1 DEF HeurAfter
      <3> QED BY <3>1, <3>2
    <2>4. ASSUME NEW j \in NonPruned(g), j > n - (k + 1)
          PROVE  next[g.arcs[j].pred] >= g.arcs[j].score + next[g.arcs[j].succ]
      <3>1. CASE j = i
        <4>1. PICK u, v \in Int : u = next[p] /\ v = next[s]
          BY <1>7, <1>8, <2>1
        <4>2. u >= x + v
          BY <1>8, <2>1, <4>1
        <4> QED BY <3>1, <4>1, <4>2, <1>4
      <3>2. CASE j # i
        <4>1. j \in Arcs(g) /\ i <= j /\ j > n - k
          BY <1>3, <2>4, <3>2
        <4>2. g.arcs[j].succ # p /\ g.arcs[j].pred \in States(g) /\ g.arcs[j].succ \in States(g)
              /\ g.arcs[j].score \in Int
          BY <1>3, <1>4, <4>1, GraphFacts, NoneEntersWhatWasLeft
        <4>3. PICK e, f, y \in Int :
                e = rest[g.arcs[j].pred] /\ f = rest[g.arcs[j].succ] /\ y = g.arcs[j].score
          BY <1>6, <4>2
        <4>4. e >= y + f
          BY <1>1, <4>1, <4>3 DEF HeurAfter
        <4>5. next[g.arcs[j].succ] = f
          BY <2>1, <4>2, <4>3
        <4>6. PICK u \in Int : u = next[g.arcs[j].pred]
          BY <2>1, <4>2
        <4>7. u >= e
          <5>1. CASE g.arcs[j].pred = p
            BY <5>1, <4>3, <4>6, <2>1, <1>7, <1>8, <1>10
          <5>2. CASE g.arcs[j].pred # p
            BY SMTT(40), <5>2, <4>2, <4>3, <4>6, <2>1
          <5> QED BY <5>1, <5>2
        <4>8. u >= y + f
          BY <4>4, <4>7
        <4> QED BY <4>3, <4>5, <4>6, <4>8
      <3> QED BY <3>1, <3>2
    <2> QED BY <1>1, <2>1, <2>3, <2>4 DEF HeurAfter
  <1>11. CASE ~(i \in NonPruned(g) /\ x + c > d)
    <2>1. next = rest
      BY <1>9, <1>11
    <2>2. ASSUME NEW j \in NonPruned(g), j > n - (k + 1)
          PROVE  rest[g.arcs[j].pred] >= g.arcs[j].score + rest[g.arcs[j].succ]
      <3>1. CASE j = i
        <4>1. d >= x + c
          BY <1>8, <1>11, <2>2, <3>1
        <4> QED BY <3>1, <4>1, <1>4, <1>7
      <3>2. CASE j # i
        <4>1. j > n - k
          BY <1>3, <2>2, <3>2
        <4> QED BY <1>1, <4>1 DEF HeurAfter
      <3> QED BY <3>1, <3>2
    <2>3. HeurAfter(g, k + 1, rest)
      BY <1>1, <2>2 DEF HeurAfter
    <2> QED BY <2>1, <2>3
  <1> QED BY <1>10, <1>11

(* The whole pass. *)
LEMMA HeurFits ==
  ASSUME NEW g, IsGraph(g), IsBody(g), TopologicallyOrdered(g),
         \A i \in Arcs(g) : g.arcs[i].score < 0
  PROVE  HeurAfter(g, Len(g.arcs), NbSearchHeurInfo(g))
  <1>1. PICK n : n = Len(g.arcs)
    OBVIOUS
  <1>2. n \in Nat /\ DOMAIN g.arcs = 1 .. n /\ \A j \in NonPruned(g) : j \in 1 .. n
    BY <1>1, GraphFacts
  <1>3. HeurStart(g) \in [States(g) -> Int]
    BY HeurStepType
  <1>4. \A a \in [States(g) -> Int], i \in 1 .. n : HeurStep(g, a, i) \in [States(g) -> Int]
    BY <1>1, HeurStepType
  <1>5. PICK acc : HeurRows(g, n, [States(g) -> Int], acc)
    BY <1>2, <1>3, <1>4, HeurByArcs, Zenon
  <1>6. /\ acc[0] = HeurStart(g) /\ acc[n] = NbSearchHeurInfo(g)
        /\ \A k \in 0 .. n - 1 : acc[k + 1] = HeurStep(g, acc[k], k + 1)
    BY <1>5 DEF HeurRows
  <1> DEFINE G == {k \in 0 .. n : HeurAfter(g, k, acc[k])}
  <1>7. HeurAfter(g, 0, acc[0])
    <2>1. PICK f : f = HeurStart(g)
      OBVIOUS
    <2>2. \A s \in States(g) : f[s] = IF s \in g.finals THEN 0 ELSE SMALL_SCORE
      BY <2>1 DEF HeurStart
    <2>3. \A s \in States(g) : f[s] <= 0 /\ (s \in g.finals => f[s] = 0)
      BY <2>2, SmallScore
    <2>4. \A i \in NonPruned(g) : ~(i > Len(g.arcs) - 0)
      BY <1>1, <1>2
    <2>5. HeurAfter(g, 0, f)
      BY <1>3, <2>1, <2>3, <2>4 DEF HeurAfter
    <2> QED BY <1>6, <2>1, <2>5
  <1>8. ASSUME NEW k \in 0 .. n - 1, HeurAfter(g, k, acc[k])
        PROVE  HeurAfter(g, k + 1, acc[k + 1])
    <2>1. k \in 0 .. Len(g.arcs) - 1
      BY <1>1
    <2>2. acc[k + 1] = HeurStep(g, acc[k], k + 1)
      BY <1>6
    <2> QED BY <1>8, <2>1, <2>2, HeurStepKeeps
  <1>9. 0 .. n \subseteq G
    <2>1. 0 \in G /\ \A k \in 0 .. n - 1 : k \in G => k + 1 \in G
      BY <1>2, <1>7, <1>8
    <2> HIDE DEF G
    <2> QED BY <1>2, <2>1, InductionUpTo
  <1>10. n \in 0 .. n
    BY <1>2
  <1> QED BY <1>1, <1>6, <1>9, <1>10

-----------------------------------------------------------------------------
(* The paths that the n-best search takes up: they end at the first final  *)
(* state they meet.                                                        *)

Begun(g) ==
  {p \in Seq(NonPruned(g)) :
     /\ PathFrom(g, NonPruned(g), INITIAL_STATE, p)
     /\ \A k \in 1 .. Len(p) - 1 : g.arcs[p[k]].succ \notin g.finals}

Full(g, p) == p # <<>> /\ EndFrom(g, INITIAL_STATE, p) \in g.finals

Follows(g, p, i) == i \in NonPruned(g) /\ g.arcs[i].pred = EndFrom(g, INITIAL_STATE, p)

\* What a search with heuristic h expects of the paths that begin with p.
Est(g, h, p) == PathScore(g, p) + h[EndFrom(g, INITIAL_STATE, p)]

(* What is taken up goes on to what is taken up. *)
LEMMA BegunGoesOn ==
  ASSUME NEW g, NEW p \in Begun(g), ~Full(g, p), NEW i, Follows(g, p, i)
  PROVE  Append(p, i) \in Begun(g)
  <1>1. /\ PathFrom(g, NonPruned(g), INITIAL_STATE, p) /\ p \in Seq(NonPruned(g)) /\ Len(p) \in Nat
        /\ \A k \in 1 .. Len(p) - 1 : g.arcs[p[k]].succ \notin g.finals
    BY DEF Begun
  <1>2. PathFrom(g, NonPruned(g), INITIAL_STATE, Append(p, i))
    BY <1>1, LongerPath DEF Follows
  <1>3. i \in NonPruned(g)
    BY DEF Follows
  <1>4. /\ Append(p, i) \in Seq(NonPruned(g)) /\ Len(Append(p, i)) = Len(p) + 1
        /\ \A k \in 1 .. Len(p) : Append(p, i)[k] = p[k]
    BY <1>1, <1>3, AppendedElement
  <1>5. ASSUME NEW k \in 1 .. Len(p)
        PROVE  g.arcs[p[k]].succ \notin g.finals
    <2>1. CASE k = Len(p)
      <3>1. p # <<>>
        BY <2>1, <1>5
      <3> QED BY <2>1, <3>1 DEF Full, EndFrom
    <2>2. CASE k # Len(p)
      BY <2>2, <1>1
    <2> QED BY <2>1, <2>2
  <1>6. PICK q : q = Append(p, i)
    OBVIOUS
  <1>7. \A k \in 1 .. Len(q) - 1 : k \in 1 .. Len(p) /\ q[k] = p[k]
    BY <1>1, <1>4, <1>6
  <1>8. \A k \in 1 .. Len(q) - 1 : g.arcs[q[k]].succ \notin g.finals
    BY <1>5, <1>7
  <1> QED BY <1>2, <1>4, <1>6, <1>8 DEF Begun

\* q is p and one arc more.
GoesOn(g, q, p, i) == q = Append(p, i) /\ p \in Begun(g) /\ Follows(g, p, i) /\ ~Full(g, p)
                        /\ Len(q) = Len(p) + 1

(* All that is taken up comes from the empty path. *)
LEMMA BegunCameFrom ==
  ASSUME NEW g, NEW q \in Begun(g), q # <<>>
  PROVE  \E p, i : GoesOn(g, q, p, i)
  <1>1. /\ PathFrom(g, NonPruned(g), INITIAL_STATE, q) /\ q \in Seq(NonPruned(g))
        /\ \A k \in 1 .. Len(q) - 1 : g.arcs[q[k]].succ \notin g.finals
    BY DEF Begun
  <1>2. PICK p, i : LongerBy(g, NonPruned(g), INITIAL_STATE, q, p, i)
    BY <1>1, ShorterPath, Zenon
  <1>3. /\ q = Append(p, i) /\ PathFrom(g, NonPruned(g), INITIAL_STATE, p) /\ i \in NonPruned(g)
        /\ g.arcs[i].pred = EndFrom(g, INITIAL_STATE, p) /\ Len(q) = Len(p) + 1
    BY <1>2 DEF LongerBy
  <1>4. p \in Seq(NonPruned(g)) /\ Len(p) \in Nat
    BY <1>3 DEF PathFrom
  <1>5. \A k \in 1 .. Len(p) : k \in 1 .. Len(q) - 1 /\ q[k] = p[k]
    BY <1>3, <1>4, AppendedElement
  <1>6. \A k \in 1 .. Len(p) : g.arcs[p[k]].succ \notin g.finals
    BY <1>1, <1>5
  <1>7. p \in Begun(g)
    BY <1>3, <1>4, <1>6 DEF Begun
  <1>8. ~Full(g, p)
    <2> SUFFICES ASSUME p # <<>> PROVE EndFrom(g, INITIAL_STATE, p) \notin g.finals
      BY DEF Full
    <2>1. Len(p) # 0
      BY <1>4, EmptySeq
    <2>2. Len(p) \in 1 .. Len(p)
      BY <1>4, <2>1
    <2> QED BY <1>6, <2>2 DEF EndFrom
  <1>9. GoesOn(g, q, p, i)
    BY <1>3, <1>7, <1>8 DEF GoesOn, Follows
  <1> QED BY <1>9

(* The empty path comes first. *)
LEMMA NothingIsBegun ==
  ASSUME NEW g
  PROVE  <<>> \in Begun(g) /\ ~Full(g, <<>>)
  <1>1. <<>> \in Seq(NonPruned(g)) /\ Len(<<>>) = 0 /\ PathFrom(g, NonPruned(g), INITIAL_STATE, <<>>)
    BY DEF PathFrom
  <1> QED BY <1>1 DEF Begun, Full

(* Scores and ends of what is taken up. *)
LEMMA BegunFacts ==
  ASSUME NEW g, IsBody(g), INITIAL_STATE \in States(g), NEW p \in Begun(g)
  PROVE  /\ p \in Seq(Arcs(g)) /\ p \in Seq(NonPruned(g))
         /\ PathFrom(g, NonPruned(g), INITIAL_STATE, p)
         /\ PathScore(g, p) \in Int /\ EndFrom(g, INITIAL_STATE, p) \in States(g)
  <1>1. NonPruned(g) \subseteq Arcs(g)
    BY GraphFacts
  <1>2. p \in Seq(NonPruned(g)) /\ PathFrom(g, NonPruned(g), INITIAL_STATE, p)
    BY DEF Begun
  <1>3. p \in Seq(Arcs(g))
    BY <1>1, <1>2
  <1>4. PathScore(g, p) \in Int
    BY <1>3, ScoreIsNumber
  <1>5. EndFrom(g, INITIAL_STATE, p) \in States(g)
    <2>1. CASE p = <<>>
      BY <2>1 DEF EndFrom
    <2>2. CASE p # <<>>
      <3>1. Len(p) \in 1 .. Len(p)
        BY <2>2, <1>3, EmptySeq
      <3>2. p[Len(p)] \in Arcs(g)
        BY <1>3, <3>1, Element
      <3>3. g.arcs[p[Len(p)]].succ \in States(g)
        BY <3>2, GraphFacts
      <3> QED BY <2>2, <3>3 DEF EndFrom
    <2> QED BY <2>1, <2>2
  <1> QED BY <1>2, <1>3, <1>4, <1>5

(* Estimates never rise along a path, and are exact at its end. *)
LEMMA EstimatesFall ==
  ASSUME NEW g, IsBody(g), INITIAL_STATE \in States(g), NEW h, HeurAfter(g, Len(g.arcs), h),
         NEW p \in Begun(g)
  PROVE  /\ Est(g, h, p) \in Int
         /\ Full(g, p) => Est(g, h, p) = PathScore(g, p)
         /\ \A i : Follows(g, p, i) /\ ~Full(g, p) => Est(g, h, Append(p, i)) <= Est(g, h, p)
  <1>1. PICK e : e = EndFrom(g, INITIAL_STATE, p)
    OBVIOUS
  <1>2. /\ p \in Seq(Arcs(g)) /\ p \in Seq(NonPruned(g)) /\ PathScore(g, p) \in Int /\ e \in States(g)
        /\ PathFrom(g, NonPruned(g), INITIAL_STATE, p)
    BY <1>1, BegunFacts
  <1>3. h \in [States(g) -> Int]
    BY DEF HeurAfter
  <1>4. Est(g, h, p) = PathScore(g, p) + h[e]
    BY <1>1 DEF Est
  <1>5. PICK x, y \in Int : x = PathScore(g, p) /\ y = h[e]
    BY <1>2, <1>3
  <1>6. Full(g, p) => y = 0
    BY <1>1, <1>2, <1>5 DEF Full, HeurAfter
  <1>7. ASSUME NEW i, Follows(g, p, i), ~Full(g, p)
        PROVE  Est(g, h, Append(p, i)) <= x + y
    <2>1. i \in NonPruned(g) /\ i \in Arcs(g) /\ g.arcs[i].pred = e /\ i > Len(g.arcs) - Len(g.arcs)
      BY <1>1, <1>7, GraphFacts DEF Follows
    <2>2. EndFrom(g, INITIAL_STATE, Append(p, i)) = g.arcs[i].succ
      BY <1>1, <1>2, <2>1, LongerPath
    <2>3. PathScore(g, Append(p, i)) = x + g.arcs[i].score
      BY <1>2, <1>5, <2>1, ScoreOfLonger
    <2>4. PICK a, z \in Int : a = g.arcs[i].score /\ z = h[g.arcs[i].succ]
      BY <1>3, <2>1, GraphFacts
    <2>5. y >= a + z
      BY <1>5, <2>1, <2>4 DEF HeurAfter
    <2>6. Est(g, h, Append(p, i)) = (x + a) + z
      BY <2>2, <2>3, <2>4 DEF Est
    <2> QED BY <2>5, <2>6
  <1> QED BY <1>4, <1>5, <1>6, <1>7

-----------------------------------------------------------------------------
(* Finite sets.                                                            *)

(* The paths over some arcs are finitely many. *)
LEMMA PathsAreFinite ==
  ASSUME NEW g, IsBody(g), NEW N \in SUBSET Arcs(g)
  PROVE  IsFiniteSet(PathsOver(g, N))
  <1>1. PICK n : n = Len(g.arcs)
    OBVIOUS
  <1>2. n \in Nat /\ Arcs(g) = 1 .. n
    BY <1>1, GraphFacts
  <1>3. IsFiniteSet(N)
    <2>1. IsFiniteSet(1 .. n)
      BY <1>2, FS_Interval
    <2> QED BY <1>2, <2>1, FS_Subset
  <1> DEFINE U(k) == {q \in Seq(N) : PathFrom(g, N, INITIAL_STATE, q) /\ Len(q) <= k}
             P(k) == IsFiniteSet(PathsOfLength(g, N, k)) /\ IsFiniteSet(U(k))
             G == {k \in 0 .. n : P(k)}
  <1>4. P(0)
    <2>1. PathsOfLength(g, N, 0) = {<<>>}
      BY <1>2, PathsByLength
    <2>2. U(0) = PathsOfLength(g, N, 0)
      <3>1. \A q \in Seq(N) : Len(q) <= 0 <=> Len(q) = 0
        BY LenProperties
      <3> QED BY <3>1 DEF PathsOfLength
    <2>3. IsFiniteSet({<<>>})
      BY FS_Singleton
    <2> QED BY <2>1, <2>2, <2>3
  <1>5. ASSUME NEW k \in 0 .. n - 1, P(k)
        PROVE  P(k + 1)
    <2>1. PICK A : A = PathsOfLength(g, N, k) \X N
      OBVIOUS
    <2>2. PICK D : D = {qi \in A : g.arcs[qi[2]].pred = LastState(g, [arcs |-> qi[1]])}
      OBVIOUS
    <2>3. IsFiniteSet(D)
      <3>1. IsFiniteSet(PathsOfLength(g, N, k))
        BY <1>5
      <3>2. IsFiniteSet(A)
        BY <1>3, <2>1, <3>1, FS_Product
      <3>3. D \in SUBSET A
        BY <2>2
      <3> QED BY <3>2, <3>3, FS_Subset
    <2>4. PICK R : R = {Append(pi[1], pi[2]) : pi \in D}
      OBVIOUS
    <2>5. IsFiniteSet(R)
      <3>1. PICK f : f = [pi \in D |-> Append(pi[1], pi[2])]
        OBVIOUS
      <3>2. f \in Surjection(D, R)
        BY <2>4, <3>1 DEF Surjection
      <3> QED BY <2>3, <3>2, FS_Surjection
    <2>6. PathsOfLength(g, N, k + 1) = R
      <3>1. k \in Nat
        OBVIOUS
      <3>2. PathsOfLength(g, N, k + 1) =
              {Append(pi[1], pi[2]) : pi \in
                {qi \in PathsOfLength(g, N, k) \X N :
                   g.arcs[qi[2]].pred = LastState(g, [arcs |-> qi[1]])}}
        BY <3>1, PathsByLength
      <3> QED BY <2>1, <2>2, <2>4, <3>2, Zenon
    <2>7. U(k + 1) = U(k) \cup R
      <3>1. k \in Nat /\ \A q \in Seq(N) : Len(q) <= k + 1 <=> Len(q) <= k \/ Len(q) = k + 1
        BY LenProperties
      <3>2. R = {q \in Seq(N) : PathFrom(g, N, INITIAL_STATE, q) /\ Len(q) = k + 1}
        BY <2>6 DEF PathsOfLength
      <3> QED BY <3>1, <3>2
    <2>8. IsFiniteSet(U(k + 1))
      <3>1. PICK V : V = U(k)
        OBVIOUS
      <3>2. IsFiniteSet(V)
        BY <1>5, <3>1
      <3>3. IsFiniteSet(V \cup R)
        BY <2>5, <3>2, FS_Union
      <3> HIDE DEF U
      <3> QED BY <2>7, <3>1, <3>3
    <2> QED BY <2>5, <2>6, <2>8
  <1> HIDE DEF P
  <1>6. 0 .. n \subseteq G
    <2>1. 0 \in G /\ \A k \in 0 .. n - 1 : k \in G => k + 1 \in G
      BY <1>2, <1>4, <1>5
    <2> HIDE DEF G
    <2> QED BY <1>2, <2>1, InductionUpTo
  <1>7. IsFiniteSet(U(n))
    <2>1. n \in 0 .. n
      BY <1>2
    <2> QED BY <1>6, <2>1 DEF P
  <1>8. PathsOver(g, N) = U(n)
    <2>1. \A q : q \in PathsOver(g, N) <=> PathFrom(g, N, INITIAL_STATE, q) /\ Len(q) <= n
      BY <1>1, PathsOverAre
    <2>2. \A q : PathFrom(g, N, INITIAL_STATE, q) => q \in Seq(N)
      BY DEF PathFrom
    <2>3. \A q : q \in PathsOver(g, N) <=> q \in U(n)
      BY <2>1, <2>2
    <2> HIDE DEF U
    <2> QED BY <2>3
  <1> QED BY <1>7, <1>8

(* Of finitely many things, one has the greatest value. *)
LEMMA OneIsGreatest ==
  ASSUME NEW S, IsFiniteSet(S), S # {}, NEW v, \A x \in S : v[x] \in Int
  PROVE  \E x \in S : \A y \in S : v[y] <= v[x]
  <1>1. PICK n \in Nat : n = Cardinality(S)
    BY FS_CardinalityType
  <1>2. PICK f : f \in Bijection(1 .. n, S)
    BY <1>1, FS_CardinalityType DEF ExistsBijection
  <1>3. f \in [1 .. n -> S] /\ \A y \in S : \E i \in 1 .. n : f[i] = y
    BY <1>2 DEF Bijection, Surjection
  <1>4. n # 0
    BY <1>1, FS_EmptySet
  <1> DEFINE P(k) == k > 0 => \E x \in S : \A i \in 1 .. k : v[f[i]] <= v[x]
             G == {k \in 0 .. n : P(k)}
  <1>5. P(0)
    OBVIOUS
  <1>6. ASSUME NEW k \in 0 .. n - 1, P(k)
        PROVE  P(k + 1)
    <2>1. PICK j : j = k + 1
      OBVIOUS
    <2>2. j \in 1 .. n /\ k \in Nat /\ \A i \in 1 .. j : i \in 1 .. n /\ (i \in 1 .. k \/ i = j)
      BY <1>1, <2>1
    <2>3. PICK z : z = f[j]
      OBVIOUS
    <2>4. z \in S
      BY <1>3, <2>2, <2>3
    <2>5. PICK c \in Int : c = v[z]
      BY <2>4
    <2>6. \E x \in S : \A i \in 1 .. j : v[f[i]] <= v[x]
      <3>1. CASE k = 0
        <4>1. \A i \in 1 .. j : f[i] = z
          BY <2>2, <2>3, <3>1
        <4>2. \A i \in 1 .. j : v[f[i]] <= v[z]
          BY <4>1, <2>5
        <4> QED BY <2>4, <4>2
      <3>2. CASE k # 0
        <4>1. PICK x \in S : \A i \in 1 .. k : v[f[i]] <= v[x]
          BY <1>6, <2>2, <3>2
        <4>2. PICK d \in Int : d = v[x]
          OBVIOUS
        <4>3. \A i \in 1 .. j : v[f[i]] \in Int
          BY <1>3, <2>2
        <4>4. CASE c <= d
          <5>1. \A i \in 1 .. j : v[f[i]] <= d
            BY <2>2, <2>3, <2>5, <4>1, <4>2, <4>4
          <5> QED BY <4>2, <5>1
        <4>5. CASE d < c
          <5>1. \A i \in 1 .. j : v[f[i]] <= c
            BY <2>2, <2>3, <2>5, <4>1, <4>2, <4>3, <4>5
          <5> QED BY <2>4, <2>5, <5>1
        <4> QED BY <4>4, <4>5
      <3> QED BY <3>1, <3>2
    <2> QED BY <2>1, <2>6
  <1> HIDE DEF P
  <1>7. 0 .. n \subseteq G
    <2>1. 0 \in G /\ \A k \in 0 .. n - 1 : k \in G => k + 1 \in G
      BY <1>5, <1>6
    <2> HIDE DEF G
    <2> QED BY <2>1, InductionUpTo
  <1>8. P(n) /\ n > 0
    <2>1. n \in 0 .. n
      OBVIOUS
    <2> QED BY <1>4, <1>7, <2>1
  <1>9. PICK x \in S : \A i \in 1 .. n : v[f[i]] <= v[x]
    BY <1>8 DEF P
  <1>10. \A y \in S : v[y] <= v[x]
    BY <1>3, <1>9
  <1> QED BY <1>10

(* As many things as places, where no two places hold the same. *)
LEMMA PlacesCounted ==
  ASSUME NEW n \in Nat, NEW f, NEW S, S = {f[k] : k \in 1 .. n},
         \A j, k \in 1 .. n : f[j] = f[k] => j = k
  PROVE  IsFiniteSet(S) /\ Cardinality(S) = n
  <1>1. PICK m : m = [k \in 1 .. n |-> f[k]]
    OBVIOUS
  <1>2. m \in Bijection(1 .. n, S)
    BY <1>1 DEF Bijection, Injection, Surjection, IsInjective
  <1>3. ExistsBijection(1 .. n, S)
    BY <1>2 DEF ExistsBijection
  <1>4. IsFiniteSet(1 .. n) /\ Cardinality(1 .. n) = n
    <2>1. 1 \in Int /\ n \in Int
      OBVIOUS
    <2> QED BY <2>1, FS_Interval
  <1> QED BY <1>3, <1>4, FS_Bijection

-----------------------------------------------------------------------------
(* The n-best search, iteration by iteration.                              *)

Hyp(g, p) == [score |-> PathScore(g, p), arcs |-> p]
Hyps(g) == {Hyp(g, p) : p \in Begun(g)}

\* The hypotheses in c are the complete ones of P, each once and best first; none
\* in O promises better.
AreComplete(g, h, c, O, P) ==
  /\ c \in Seq(Hyps(g))
  /\ \A m \in 1 .. Len(c) :
       c[m].arcs \in P /\ Full(g, c[m].arcs) /\ c[m] = Hyp(g, c[m].arcs)
  /\ \A m, l \in 1 .. Len(c) : c[m].arcs = c[l].arcs => m = l
  /\ \A p \in P : Full(g, p) => \E m \in 1 .. Len(c) : c[m].arcs = p
  /\ \A m \in 1 .. Len(c) - 1 : c[m].score >= c[m + 1].score
  /\ \A m \in 1 .. Len(c), p \in O : c[m].score >= Est(g, h, p)

\* P is what the search has taken, O what it may take next.
Taken(g, O, P) ==
  /\ O \in SUBSET Begun(g) /\ P \in SUBSET Begun(g) /\ O \cap P = {} /\ <<>> \in O \cup P
  /\ \A p \in P : \A i : Follows(g, p, i) /\ ~Full(g, p) => Append(p, i) \in O \cup P
  /\ \A p \in Begun(g) : \A i : Append(p, i) \in O \cup P => p \in P

Searched(g, n, h, s, O, P) ==
  /\ s = [open |-> {Hyp(g, p) : p \in O}, complete |-> s.complete]
  /\ Taken(g, O, P)
  /\ AreComplete(g, h, s.complete, O, P) /\ Len(s.complete) <= n

(* What comes after all the others is put at the end. *)
LEMMA PushedLast ==
  ASSUME NEW S, NEW c \in Seq(S), NEW e \in S, \A k \in 1 .. Len(c) : c[k].score >= e.score
  PROVE  PushByScore(c, e) = Append(c, e)
  <1>1. PICK n \in Nat : n = Len(c)
    BY LenProperties
  <1>2. {k \in DOMAIN c : c[k].score >= e.score} = 1 .. n
    BY <1>1, LenProperties
  <1>3. Cardinality(1 .. n) = n
    <2>1. 1 \in Int /\ n \in Int
      OBVIOUS
    <2> QED BY <2>1, FS_Interval
  <1>4. PushByScore(c, e) = InsertAt(c, n + 1, e)
    BY <1>2, <1>3 DEF PushByScore
  <1>5. InsertAt(c, n + 1, e) = (SubSeq(c, 1, n) \o <<e>>) \o SubSeq(c, n + 1, n)
    <2>1. (n + 1) - 1 = n
      OBVIOUS
    <2> QED BY <1>1, <2>1 DEF InsertAt
  <1>6. SubSeq(c, 1, n) = c /\ SubSeq(c, n + 1, n) = <<>>
    BY <1>1
  <1>7. (c \o <<e>>) \o <<>> = Append(c, e)
    OBVIOUS
  <1> QED BY <1>4, <1>5, <1>6, <1>7

\* The best of what is open.
IsTop(g, h, O, top, p) ==
  /\ p \in O /\ top = Hyp(g, p) /\ \A o \in O : Est(g, h, o) <= Est(g, h, p)

(* There is one, and the search takes it. *)
LEMMA TopIs ==
  ASSUME NEW g, IsBody(g), INITIAL_STATE \in States(g), NEW h, HeurAfter(g, Len(g.arcs), h),
         NEW O \in SUBSET Begun(g), IsFiniteSet(O), NEW open, open = {Hyp(g, p) : p \in O},
         open # {},
         NEW top, top = CHOOSE e \in open : \A o \in open : NbEstimate(g, h, o) <= NbEstimate(g, h, e)
  PROVE  \E p : IsTop(g, h, O, top, p)
  <1>1. ASSUME NEW p \in O
        PROVE  NbEstimate(g, h, Hyp(g, p)) = Est(g, h, p) /\ Est(g, h, p) \in Int
    <2>1. PICK e : e = Hyp(g, p)
      OBVIOUS
    <2>2. e.arcs = p /\ e.score = PathScore(g, p)
      BY <2>1 DEF Hyp
    <2>3. p \in Seq(Arcs(g)) /\ p \in Begun(g)
      BY BegunFacts
    <2>4. LastState(g, e) = EndFrom(g, INITIAL_STATE, p)
      BY <2>2, <2>3, LastStateIsEnd
    <2>5. NbEstimate(g, h, e) = Est(g, h, p)
      BY <2>2, <2>4 DEF NbEstimate, Est
    <2> QED BY <2>1, <2>3, <2>5, EstimatesFall
  <1>2. PICK v : v = [p \in O |-> Est(g, h, p)]
    OBVIOUS
  <1>3. PICK q \in O : \A y \in O : v[y] <= v[q]
    <2>1. O # {} /\ \A p \in O : v[p] \in Int
      BY <1>1, <1>2
    <2> QED BY <2>1, OneIsGreatest
  <1>4. Hyp(g, q) \in open /\ \A o \in open : NbEstimate(g, h, o) <= NbEstimate(g, h, Hyp(g, q))
    BY <1>1, <1>2, <1>3
  <1>5. top \in open /\ \A o \in open : NbEstimate(g, h, o) <= NbEstimate(g, h, top)
    BY <1>4
  <1>6. PICK p \in O : top = Hyp(g, p)
    BY <1>5
  <1>7. \A o \in O : Est(g, h, o) <= Est(g, h, p)
    BY <1>1, <1>5, <1>6
  <1>8. IsTop(g, h, O, top, p)
    BY <1>6, <1>7 DEF IsTop
  <1> QED BY <1>8

(* The best is complete. *)
LEMMA CompleteOneTaken ==
  ASSUME NEW g, IsBody(g), INITIAL_STATE \in States(g), NEW h, HeurAfter(g, Len(g.arcs), h),
         NEW O, NEW P, Taken(g, O, P), NEW c, AreComplete(g, h, c, O, P),
         NEW top, NEW p, IsTop(g, h, O, top, p), Full(g, p),
         NEW d, d = PushByScore(c, top)
  PROVE  /\ Taken(g, O \ {p}, P \cup {p}) /\ AreComplete(g, h, d, O \ {p}, P \cup {p})
         /\ Len(d) = Len(c) + 1
  <1>1. /\ p \in O /\ p \in Begun(g) /\ p \notin P /\ top = Hyp(g, p)
        /\ \A o \in O : Est(g, h, o) <= Est(g, h, p)
    BY DEF IsTop, Taken
  <1>2. Est(g, h, p) = PathScore(g, p) /\ PathScore(g, p) \in Int
    BY <1>1, EstimatesFall, BegunFacts
  <1>3. top \in Hyps(g) /\ top.score = PathScore(g, p) /\ top.arcs = p
    BY <1>1 DEF Hyps, Hyp
  <1>4. c \in Seq(Hyps(g)) /\ Len(c) \in Nat
    BY LenProperties DEF AreComplete
  <1>5. \A k \in 1 .. Len(c) : c[k].score >= top.score
    BY <1>1, <1>2, <1>3 DEF AreComplete
  <1>6. d = Append(c, top)
    BY <1>3, <1>4, <1>5, PushedLast
  <1>7. PICK m : m = Len(c) + 1
    OBVIOUS
  <1>8. /\ d \in Seq(Hyps(g)) /\ Len(d) = m /\ d[m] = top /\ \A k \in 1 .. Len(c) : d[k] = c[k]
        /\ m \in 1 .. m /\ \A k \in 1 .. m : k \in 1 .. Len(c) \/ k = m
        /\ \A k \in 1 .. Len(c) : k \in 1 .. m /\ k # m
        /\ \A k \in 1 .. m - 1 : k \in 1 .. Len(c) /\ (k + 1 = m \/ k \in 1 .. Len(c) - 1)
    BY <1>3, <1>4, <1>6, <1>7, AppendedElement
  <1>9. Taken(g, O \ {p}, P \cup {p})
    <2>1. (O \ {p}) \cup (P \cup {p}) = O \cup P
      BY <1>1
    <2> QED BY ZenonT(60), <1>1, <2>1 DEF Taken
  <1>10. \A k \in 1 .. m : d[k].arcs \in P \cup {p} /\ Full(g, d[k].arcs) /\ d[k] = Hyp(g, d[k].arcs)
    <2> SUFFICES ASSUME NEW k \in 1 .. m
                 PROVE  d[k].arcs \in P \cup {p} /\ Full(g, d[k].arcs) /\ d[k] = Hyp(g, d[k].arcs)
      OBVIOUS
    <2>1. CASE k = m
      BY <2>1, <1>1, <1>3, <1>8
    <2>2. CASE k \in 1 .. Len(c)
      BY SMTT(40), <2>2, <1>8 DEF AreComplete
    <2> QED BY <2>1, <2>2, <1>8
  <1>11. \A k \in 1 .. Len(c) : c[k].arcs # p
    BY <1>1 DEF AreComplete
  <1>12. \A k, l \in 1 .. m : d[k].arcs = d[l].arcs => k = l
    <2> SUFFICES ASSUME NEW k \in 1 .. m, NEW l \in 1 .. m, d[k].arcs = d[l].arcs PROVE k = l
      OBVIOUS
    <2>1. CASE k = m /\ l = m
      BY <2>1
    <2>2. CASE k = m /\ l \in 1 .. Len(c)
      BY <2>2, <1>3, <1>8, <1>11
    <2>3. CASE k \in 1 .. Len(c) /\ l = m
      BY <2>3, <1>3, <1>8, <1>11
    <2>4. CASE k \in 1 .. Len(c) /\ l \in 1 .. Len(c)
      BY <2>4, <1>8 DEF AreComplete
    <2> QED BY <2>1, <2>2, <2>3, <2>4, <1>8
  <1>13. \A q \in P \cup {p} : Full(g, q) => \E k \in 1 .. m : d[k].arcs = q
    <2>1. ASSUME NEW q \in P, Full(g, q)
          PROVE  \E k \in 1 .. m : d[k].arcs = q
      <3>1. PICK k \in 1 .. Len(c) : c[k].arcs = q
        BY <2>1 DEF AreComplete
      <3> QED BY <3>1, <1>8
    <2>2. d[m].arcs = p
      BY <1>3, <1>8
    <2> QED BY <2>1, <2>2, <1>8
  <1>14. \A k \in 1 .. m - 1 : d[k].score >= d[k + 1].score
    <2> SUFFICES ASSUME NEW k \in 1 .. m - 1 PROVE d[k].score >= d[k + 1].score
      OBVIOUS
    <2>1. k \in 1 .. Len(c) /\ d[k] = c[k]
      BY <1>8
    <2>2. CASE k + 1 = m
      <3>1. d[k + 1] = top
        BY <2>2, <1>8
      <3> QED BY <2>1, <3>1, <1>5
    <2>3. CASE k \in 1 .. Len(c) - 1
      <3>1. k + 1 \in 1 .. Len(c)
        BY <2>3, <1>4
      <3>2. d[k + 1] = c[k + 1]
        BY <3>1, <1>8
      <3> QED BY <2>1, <2>3, <3>2 DEF AreComplete
    <2> QED BY <2>2, <2>3, <1>8
  <1>15. \A k \in 1 .. m, o \in O \ {p} : d[k].score >= Est(g, h, o)
    <2> SUFFICES ASSUME NEW k \in 1 .. m, NEW o \in O \ {p} PROVE d[k].score >= Est(g, h, o)
      OBVIOUS
    <2>1. CASE k = m
      <3>1. o \in Begun(g)
        BY DEF Taken
      <3>2. Est(g, h, o) \in Int /\ Est(g, h, o) <= PathScore(g, p)
        BY <1>1, <1>2, <3>1, EstimatesFall
      <3> QED BY <2>1, <3>2, <1>2, <1>3, <1>8
    <2>2. CASE k \in 1 .. Len(c)
      BY <2>2, <1>8 DEF AreComplete
    <2> QED BY <2>1, <2>2, <1>8
  <1>16. AreComplete(g, h, d, O \ {p}, P \cup {p})
    BY <1>8, <1>10, <1>12, <1>13, <1>14, <1>15 DEF AreComplete
  <1> QED BY <1>7, <1>8, <1>9, <1>16

\* The paths that follow p.
Extended(g, p) == {Append(p, i) : i \in {j \in NonPruned(g) : Follows(g, p, j)}}

(* The best goes on. *)
LEMMA IncompleteOneTaken ==
  ASSUME NEW g, IsBody(g), INITIAL_STATE \in States(g), NEW h, HeurAfter(g, Len(g.arcs), h),
         NEW O, NEW P, Taken(g, O, P), NEW c, AreComplete(g, h, c, O, P),
         NEW top, NEW p, IsTop(g, h, O, top, p), ~Full(g, p),
         NEW N, N = (O \ {p}) \cup Extended(g, p)
  PROVE  Taken(g, N, P \cup {p}) /\ AreComplete(g, h, c, N, P \cup {p})
  <1>1. /\ p \in O /\ p \in Begun(g) /\ p \notin P
        /\ \A o \in O : Est(g, h, o) <= Est(g, h, p)
    BY DEF IsTop, Taken
  <1>2. p \in Seq(NonPruned(g)) /\ Len(p) \in Nat
    BY LenProperties DEF Begun, Taken, IsTop
  <1>3. \A i : Follows(g, p, i) => Append(p, i) \in Begun(g)
    BY <1>1, BegunGoesOn
  <1>4. ASSUME NEW i, Follows(g, p, i)
        PROVE  Append(p, i) \notin P /\ Append(p, i) # p /\ Append(p, i) # <<>>
    <2>1. i \in NonPruned(g)
      BY <1>4 DEF Follows
    <2>2. Len(Append(p, i)) = Len(p) + 1
      BY <1>2, <2>1
    <2>3. Append(p, i) \notin P
      BY <1>1 DEF Taken
    <2> QED BY <2>2, <2>3, <1>2
  <1>5. Taken(g, N, P \cup {p})
    <2>1. Extended(g, p) \subseteq Begun(g) /\ Extended(g, p) \cap (P \cup {p}) = {}
      BY <1>3, <1>4 DEF Extended
    <2>2. \A i : Follows(g, p, i) => Append(p, i) \in N
      BY DEF Extended, Follows
    <2>3. O \in SUBSET Begun(g) /\ P \in SUBSET Begun(g) /\ O \cap P = {} /\ <<>> \in O \cup P
      BY DEF Taken
    <2>4. O \cup P \subseteq N \cup (P \cup {p})
      OBVIOUS
    <2>5. \A q \in P \cup {p} : \A i : Follows(g, q, i) /\ ~Full(g, q) => Append(q, i) \in N \cup (P \cup {p})
      <3> SUFFICES ASSUME NEW q \in P \cup {p}, NEW i, Follows(g, q, i), ~Full(g, q)
                   PROVE  Append(q, i) \in N \cup (P \cup {p})
        OBVIOUS
      <3>1. CASE q = p
        BY <3>1, <2>2
      <3>2. CASE q \in P
        <4>1. Append(q, i) \in O \cup P
          BY <3>2 DEF Taken
        <4> QED BY <2>4, <4>1
      <3> QED BY <3>1, <3>2
    <2>6. \A q \in Begun(g) : \A i : Append(q, i) \in N \cup (P \cup {p}) => q \in P \cup {p}
      <3> SUFFICES ASSUME NEW q \in Begun(g), NEW i, Append(q, i) \in N \cup (P \cup {p}), q \notin P
                   PROVE  q = p
        OBVIOUS
      <3>1. Append(q, i) \notin O \cup P
        BY DEF Taken
      <3>2. Append(q, i) \in Extended(g, p)
        BY <3>1, <1>1
      <3>3. PICK j \in NonPruned(g) : Append(q, i) = Append(p, j)
        BY <3>2 DEF Extended
      <3>4. q \in Seq(NonPruned(g))
        BY DEF Begun
      <3>5. PICK S : S = NonPruned(g) \cup {i}
        OBVIOUS
      <3>6. q \in Seq(S) /\ p \in Seq(S) /\ i \in S /\ j \in S
        BY <1>2, <3>3, <3>4, <3>5
      <3> QED BY <3>3, <3>6, AppendInjective
    <2>7. N \subseteq Begun(g) /\ N \cap (P \cup {p}) = {} /\ <<>> \in N \cup (P \cup {p})
      BY <2>1, <2>3, <2>4
    <2> QED BY ZenonT(60), <1>1, <2>3, <2>5, <2>6, <2>7 DEF Taken
  <1>6. ASSUME NEW m \in 1 .. Len(c), NEW o \in N
        PROVE  c[m].score >= Est(g, h, o)
    <2>1. CASE o \in O
      BY <2>1 DEF AreComplete
    <2>2. CASE o \in Extended(g, p)
      <3>1. PICK i : Follows(g, p, i) /\ o = Append(p, i)
        BY <2>2 DEF Extended
      <3>2. Est(g, h, o) <= Est(g, h, p) /\ Est(g, h, p) \in Int /\ o \in Begun(g)
        BY <1>1, <1>3, <3>1, EstimatesFall
      <3>3. Est(g, h, o) \in Int
        BY <3>2, EstimatesFall
      <3>4. c[m].score >= Est(g, h, p) /\ c[m] = Hyp(g, c[m].arcs) /\ c[m].arcs \in P
        BY <1>1 DEF AreComplete
      <3>5. c[m].score \in Int
        <4>1. c[m].arcs \in Begun(g)
          BY <3>4 DEF Taken
        <4>2. PathScore(g, c[m].arcs) \in Int
          BY <4>1, BegunFacts
        <4>3. c[m].score = PathScore(g, c[m].arcs)
          BY <3>4 DEF Hyp
        <4> QED BY <4>2, <4>3
      <3> QED BY <3>2, <3>3, <3>4, <3>5
    <2> QED BY <2>1, <2>2
  <1>7. AreComplete(g, h, c, N, P \cup {p})
    BY <1>1, <1>6 DEF AreComplete
  <1> QED BY <1>5, <1>7

\* The search has all that was asked for, or nothing left.
Ended(n, s) == Len(s.complete) >= n \/ s.open = {}

\* An iteration takes one more path, unless the search has ended.
Progress(g, n, h, s, P, t, O1, P1) ==
  /\ Searched(g, n, h, t, O1, P1)
  /\ \/ Ended(n, s) /\ t = s /\ P1 = P
     \/ ~Ended(n, s) /\ \E p \in Begun(g) : p \notin P /\ P1 = P \cup {p}

\* A graph that the search is made for.
Searchable(g) ==
  /\ IsGraph(g) /\ IsBody(g) /\ ListsFit(g) /\ TopologicallyOrdered(g)
  /\ INITIAL_STATE \in States(g) /\ \A i \in Arcs(g) : g.arcs[i].score < 0

(* What is taken up is finite. *)
LEMMA BegunIsFinite ==
  ASSUME NEW g, IsBody(g), TopologicallyOrdered(g)
  PROVE  /\ IsFiniteSet(Begun(g)) /\ Begun(g) \subseteq PathsOver(g, NonPruned(g))
         /\ IsFiniteSet(PathsOver(g, NonPruned(g)))
  <1>1. NonPruned(g) \in SUBSET Arcs(g)
    BY GraphFacts
  <1>2. IsFiniteSet(PathsOver(g, NonPruned(g)))
    BY <1>1, PathsAreFinite
  <1>3. Begun(g) \in SUBSET PathsOver(g, NonPruned(g))
    BY <1>1, PathsOverOrdered DEF Begun
  <1> QED BY <1>2, <1>3, FS_Subset

(* One iteration. *)
LEMMA IterationKeeps ==
  ASSUME NEW g, Searchable(g), NEW h, HeurAfter(g, Len(g.arcs), h), NEW n \in Nat,
         NEW s, NEW O, NEW P, Searched(g, n, h, s, O, P),
         NEW t, t = NbIteration(g, n, h, s)
  PROVE  \E O1, P1 : Progress(g, n, h, s, P, t, O1, P1)
  <1>1. IsBody(g) /\ ListsFit(g) /\ TopologicallyOrdered(g) /\ INITIAL_STATE \in States(g)
    BY DEF Searchable
  <1>2. PICK c : c = s.complete
    OBVIOUS
  <1>3. /\ s = [open |-> {Hyp(g, p) : p \in O}, complete |-> c] /\ s.open = {Hyp(g, p) : p \in O}
        /\ Taken(g, O, P) /\ AreComplete(g, h, c, O, P) /\ Len(c) <= n
        /\ O \in SUBSET Begun(g)
    BY <1>2 DEF Searched, Taken
  <1>4. CASE Ended(n, s)
    <2>1. t = s
      BY <1>4 DEF Ended, NbIteration
    <2>2. Progress(g, n, h, s, P, t, O, P)
      BY <1>4, <2>1 DEF Progress
    <2> QED BY <2>2
  <1>5. CASE ~Ended(n, s)
    <2>1. ~(Len(c) >= n) /\ s.open # {}
      BY <1>2, <1>5 DEF Ended
    <2>2. IsFiniteSet(O)
      BY <1>1, <1>3, BegunIsFinite, FS_Subset
    <2>3. PICK top : top = CHOOSE e \in s.open :
                       \A o \in s.open : NbEstimate(g, h, o) <= NbEstimate(g, h, e)
      OBVIOUS
    <2>4. PICK p : IsTop(g, h, O, top, p)
      BY <1>1, <1>3, <2>1, <2>2, <2>3, TopIs, Zenon
    <2>5. /\ p \in O /\ p \in Begun(g) /\ p \notin P /\ top = Hyp(g, p) /\ top.arcs = p
          /\ top.score = PathScore(g, p)
      BY <1>3, <2>4 DEF IsTop, Hyp, Taken
    <2>6. p \in Seq(Arcs(g)) /\ p \in Seq(NonPruned(g))
      BY <1>1, <2>5, BegunFacts
    <2>7. LastState(g, top) = EndFrom(g, INITIAL_STATE, p)
      BY <2>5, <2>6, LastStateIsEnd
    <2>8. HypIsComplete(g, top) <=> Full(g, p)
      BY <2>5, <2>7 DEF HypIsComplete, Full
    <2>9. s.open \ {top} = {Hyp(g, o) : o \in O \ {p}}
      <3>1. \A o \in O : Hyp(g, o) = Hyp(g, p) => o = p
        BY DEF Hyp
      <3> QED BY <1>3, <2>5, <3>1
    <2>10. Len(c) \in Nat
      BY <1>3, LenProperties DEF AreComplete
    <2>11. CASE Full(g, p)
      <3>1. t = [open |-> s.open \ {top}, complete |-> PushByScore(c, top)]
        BY <1>2, <2>1, <2>3, <2>8, <2>11 DEF NbIteration
      <3>2. PICK d : d = PushByScore(c, top)
        OBVIOUS
      <3>3. /\ Taken(g, O \ {p}, P \cup {p}) /\ AreComplete(g, h, d, O \ {p}, P \cup {p})
            /\ Len(d) = Len(c) + 1
        BY SMTT(40), <1>1, <1>3, <2>4, <2>11, <3>2, CompleteOneTaken
      <3>4. Len(d) <= n
        BY <2>1, <2>10, <3>3
      <3>5. t.complete = d /\ t = [open |-> {Hyp(g, o) : o \in O \ {p}}, complete |-> t.complete]
        <4>1. PICK V : V = s.open \ {top}
          OBVIOUS
        <4>2. t = [open |-> V, complete |-> d]
          BY <3>1, <3>2, <4>1
        <4>3. t.complete = d /\ t = [open |-> V, complete |-> t.complete]
          BY <4>2
        <4> QED BY <2>9, <4>1, <4>3, Zenon
      <3>6. Searched(g, n, h, t, O \ {p}, P \cup {p})
        BY <3>3, <3>4, <3>5 DEF Searched
      <3>7. Progress(g, n, h, s, P, t, O \ {p}, P \cup {p})
        BY <1>5, <2>5, <3>6 DEF Progress
      <3> QED BY <3>7
    <2>12. CASE ~Full(g, p)
      <3>1. PICK X : X = {[score |-> top.score + g.arcs[i].score, arcs |-> Append(top.arcs, i)] :
                            i \in ArcIdsToSuccStates(g, LastState(g, top))}
        OBVIOUS
      <3>2. t = [s EXCEPT !.open = (@ \ {top}) \cup X]
        BY <1>2, <2>1, <2>3, <2>8, <2>12, <3>1 DEF NbIteration
      <3>3. ArcIdsToSuccStates(g, LastState(g, top)) = {j \in NonPruned(g) : Follows(g, p, j)}
        <4>1. PICK e : e = LastState(g, top)
          OBVIOUS
        <4>2. ArcIdsToSuccStates(g, e) = {j \in NonPruned(g) : g.arcs[j].pred = e}
          BY <1>1, ListsOfState
        <4> QED BY <2>7, <4>1, <4>2 DEF Follows
      <3>4. X = {Hyp(g, q) : q \in Extended(g, p)}
        <4>1. ASSUME NEW i \in NonPruned(g)
              PROVE  [score |-> top.score + g.arcs[i].score, arcs |-> Append(top.arcs, i)]
                       = Hyp(g, Append(p, i))
          <5>1. i \in Arcs(g)
            BY <1>1, GraphFacts
          <5>2. PathScore(g, Append(p, i)) = PathScore(g, p) + g.arcs[i].score
            BY <1>1, <2>6, <5>1, ScoreOfLonger
          <5> QED BY <2>5, <5>2 DEF Hyp
        <4>2. X = {Hyp(g, Append(p, i)) : i \in {j \in NonPruned(g) : Follows(g, p, j)}}
          BY <3>1, <3>3, <4>1
        <4> QED BY <4>2 DEF Extended
      <3>5. PICK N : N = (O \ {p}) \cup Extended(g, p)
        OBVIOUS
      <3>6. Taken(g, N, P \cup {p}) /\ AreComplete(g, h, c, N, P \cup {p})
        BY <1>1, <1>3, <2>4, <2>12, <3>5, IncompleteOneTaken
      <3>7. (s.open \ {top}) \cup X = {Hyp(g, o) : o \in N}
        BY <2>9, <3>4, <3>5
      <3>8. t = [open |-> {Hyp(g, o) : o \in N}, complete |-> c] /\ t.complete = c
        BY <1>3, <3>2, <3>7
      <3>9. Searched(g, n, h, t, N, P \cup {p})
        BY <1>3, <3>6, <3>8 DEF Searched
      <3>10. Progress(g, n, h, s, P, t, N, P \cup {p})
        BY <1>5, <2>5, <3>9 DEF Progress
      <3> QED BY <3>10
    <2> QED BY <2>11, <2>12
  <1> QED BY <1>4, <1>5

\* Before the first iteration.
SearchStart(g) == [open |-> {[score |-> g.initialStateScore, arcs |-> <<>>]}, complete |-> <<>>]

LEMMA StartIsSearched ==
  ASSUME NEW g, IsBody(g), NEW h, NEW n \in Nat
  PROVE  Searched(g, n, h, SearchStart(g), {<<>>}, {})
  <1>1. <<>> \in Begun(g)
    BY NothingIsBegun
  <1>2. PathScore(g, <<>>) = g.initialStateScore
    BY ScoreOfNoArc
  <1>3. AreComplete(g, h, <<>>, {<<>>}, {})
    BY DEF AreComplete
  <1>4. Taken(g, {<<>>}, {})
    <2>1. \A p \in Begun(g) : \A i : Append(p, i) # <<>>
      <3> SUFFICES ASSUME NEW p \in Begun(g), NEW i PROVE Append(p, i) # <<>>
        OBVIOUS
      <3>1. p \in Seq(NonPruned(g) \cup {i})
        BY DEF Begun
      <3> QED BY <3>1, AppendProperties
    <2> QED BY <1>1, <2>1 DEF Taken
  <1>5. SearchStart(g) = [open |-> {Hyp(g, p) : p \in {<<>>}}, complete |-> <<>>]
    BY <1>2 DEF SearchStart, Hyp
  <1> QED BY <1>3, <1>4, <1>5 DEF Searched

\* The searches of k iterations.
SearchRows(g, n, h, it, acc) ==
  /\ \A k \in 0 .. it : \E O, P : Searched(g, n, h, acc[k], O, P)
  /\ acc[0] = SearchStart(g) /\ acc[it].complete = NbSearch(g, n, it)
  /\ \A k \in 0 .. it - 1 : acc[k + 1] = NbIteration(g, n, h, acc[k])

(* The search, iteration by iteration. *)
LEMMA SearchByIterations ==
  ASSUME NEW g, Searchable(g), NEW h, HeurAfter(g, Len(g.arcs), h), h = NbSearchHeurInfo(g),
         NEW n \in Nat, NEW it \in Nat
  PROVE  \E acc : SearchRows(g, n, h, it, acc)
  <1> DEFINE b == SearchStart(g)
             Step(s) == NbIteration(g, n, h, s)
             Is(f) == f = [k \in 0 .. it |-> IF k = 0 THEN b ELSE Step(f[k - 1])]
             It == CHOOSE f : Is(f)
             All == [open : SUBSET Hyps(g), complete : Seq(Hyps(g))]
             A == {s \in All : \E O, P : Searched(g, n, h, s, O, P)}
             F == [x \in A \X (1 .. it) |-> Step(x[1])]
  <1>1. NbSearch(g, n, it) = It[it].complete
    BY DEF NbSearch, SearchStart
  <1>2. ASSUME NEW s, NEW O, NEW P, Searched(g, n, h, s, O, P)
        PROVE  s \in A
    <2>1. s = [open |-> {Hyp(g, p) : p \in O}, complete |-> s.complete]
      BY <1>2 DEF Searched
    <2>2. s.complete \in Seq(Hyps(g)) /\ O \in SUBSET Begun(g)
      BY <1>2 DEF Searched, AreComplete, Taken
    <2>3. {Hyp(g, p) : p \in O} \in SUBSET Hyps(g)
      BY <2>2 DEF Hyps
    <2>4. s \in All
      BY <2>1, <2>2, <2>3
    <2> QED BY <1>2, <2>4
  <1>3. b \in A
    <2>1. Searched(g, n, h, b, {<<>>}, {})
      BY StartIsSearched DEF Searchable
    <2> HIDE DEF A, b
    <2> QED BY <1>2, <2>1
  <1>4. \A a \in A, i \in 1 .. it : F[<<a, i>>] = Step(a) /\ Step(a) \in A
    <2> SUFFICES ASSUME NEW a \in A, NEW i \in 1 .. it
                 PROVE  F[<<a, i>>] = Step(a) /\ Step(a) \in A
      OBVIOUS
    <2>1. PICK O, P : Searched(g, n, h, a, O, P)
      OBVIOUS
    <2>2. PICK t : t = Step(a)
      OBVIOUS
    <2>3. PICK O1, P1 : Progress(g, n, h, a, P, t, O1, P1)
      BY <2>1, <2>2, IterationKeeps, Zenon
    <2>4. Searched(g, n, h, t, O1, P1)
      BY <2>3 DEF Progress
    <2>5. t \in A
      BY <1>2, <2>4
    <2> HIDE DEF A, Step
    <2> QED BY <2>2, <2>5
  <1>5. \A s \in A : \E O, P : Searched(g, n, h, s, O, P)
    OBVIOUS
  <1> HIDE DEF b, Step, A, F
  <1>6. PICK f : IsFoldTable(f, it, b, F) /\ \A S \in SUBSET (1 .. it) : f[S] \in A
    BY ZenonT(60), <1>3, <1>4, FoldTableExists
  <1>7. PICK e : e = [k \in 0 .. it |-> f[1 .. k]]
    OBVIOUS
  <1>8. ASSUME NEW k \in 0 .. it
        PROVE  e[k] = (IF k = 0 THEN b ELSE Step(e[k - 1])) /\ e[k] \in A
    <2>1. 1 .. k \in SUBSET (1 .. it) /\ e[k] = f[1 .. k]
      BY <1>7
    <2>2. CASE k = 0
      <3>1. 1 .. 0 = {}
        OBVIOUS
      <3> QED BY <2>1, <2>2, <3>1, <1>6 DEF IsFoldTable
    <2>3. CASE k # 0
      <3>1. PICK j \in 0 .. it - 1 : j = k - 1 /\ k = j + 1
        BY <2>3
      <3>2. /\ 1 .. k \in SUBSET (1 .. it) /\ 1 .. k # {}
            /\ Max(1 .. k) = k /\ (1 .. k) \ {k} = 1 .. j
        BY <3>1, FirstNumbers
      <3>3. f[1 .. k] = F[<<f[1 .. j], k>>]
        BY <1>6, <3>2 DEF IsFoldTable
      <3>4. e[j] = f[1 .. j] /\ f[1 .. j] \in A /\ k \in 1 .. it
        <4>1. j \in 0 .. it /\ 1 .. j \in SUBSET (1 .. it)
          BY <3>1
        <4> QED BY <4>1, <1>6, <1>7, <2>3
      <3> QED BY <1>4, <1>6, <2>1, <2>3, <3>1, <3>3, <3>4
    <2> QED BY <2>2, <2>3
  <1>9. Is(e)
    <2>1. e = [k \in 0 .. it |-> e[k]]
      BY <1>7
    <2>2. \A k \in 0 .. it : e[k] = IF k = 0 THEN b ELSE Step(e[k - 1])
      BY <1>8
    <2> QED BY <2>1, <2>2
  <1>10. Is(It)
    BY <1>9
  <1> HIDE DEF It
  <1>11. ASSUME NEW k \in 0 .. it
         PROVE  It[k] = IF k = 0 THEN b ELSE Step(It[k - 1])
    BY <1>10
  <1>12. \A k \in 0 .. it - 1 : It[k + 1] = Step(It[k])
    <2> SUFFICES ASSUME NEW k \in 0 .. it - 1
                 PROVE  It[k + 1] = Step(It[k])
      OBVIOUS
    <2>1. PICK j \in 0 .. it : j = k + 1 /\ j # 0 /\ j - 1 = k
      OBVIOUS
    <2> QED BY <1>11, <2>1
  <1>13. It[0] = b
    <2>1. 0 \in 0 .. it
      OBVIOUS
    <2> QED BY <1>11, <2>1
  <1>14. \A k \in 0 .. it : It[k] \in A
    <2>1. ASSUME NEW k \in 0 .. it - 1, It[k] \in A
          PROVE  It[k + 1] \in A
      <3>1. k + 1 \in 1 .. it
        OBVIOUS
      <3> QED BY <1>4, <1>12, <2>1, <3>1
    <2> QED BY <1>3, <1>13, <2>1, FoldStays
  <1>15. SearchRows(g, n, h, it, It)
    BY <1>1, <1>5, <1>12, <1>13, <1>14 DEF SearchRows, b, Step
  <1> QED BY <1>15

-----------------------------------------------------------------------------
(* What the n-best search finds.                                           *)

\* A search that has ended.
IsResult(g, n, h, it, s, O, P) ==
  Searched(g, n, h, s, O, P) /\ Ended(n, s) /\ s.complete = NbSearch(g, n, it)

(* As many iterations as there are paths suffice. *)
LEMMA SearchEnds ==
  ASSUME NEW g, Searchable(g), NEW h, HeurAfter(g, Len(g.arcs), h), h = NbSearchHeurInfo(g),
         NEW n \in Nat, NEW it, it = Cardinality(PathsOver(g, NonPruned(g)))
  PROVE  \E s, O, P : IsResult(g, n, h, it, s, O, P)
  <1>1. IsBody(g) /\ TopologicallyOrdered(g)
    BY DEF Searchable
  <1>2. PICK T : T = PathsOver(g, NonPruned(g))
    OBVIOUS
  <1>3. IsFiniteSet(T) /\ Begun(g) \subseteq T /\ it = Cardinality(T) /\ it \in Nat
    BY <1>1, <1>2, BegunIsFinite, FS_CardinalityType
  <1>4. PICK acc : SearchRows(g, n, h, it, acc)
    BY <1>3, SearchByIterations, Zenon
  <1> DEFINE Q(k, O, P) == Searched(g, n, h, acc[k], O, P)
                             /\ (Ended(n, acc[k]) \/ (IsFiniteSet(P) /\ Cardinality(P) = k))
             G == {k \in 0 .. it : \E O, P : Q(k, O, P)}
  <1>5. \E O, P : Q(0, O, P)
    <2>1. Searched(g, n, h, acc[0], {<<>>}, {})
      BY <1>1, <1>4, StartIsSearched DEF SearchRows
    <2>2. Q(0, {<<>>}, {})
      BY <2>1, FS_EmptySet
    <2> HIDE DEF Q
    <2> QED BY <2>2
  <1>6. ASSUME NEW k \in 0 .. it - 1, NEW O, NEW P, Q(k, O, P)
        PROVE  \E O1, P1 : Q(k + 1, O1, P1)
    <2>1. PICK s, t : s = acc[k] /\ t = acc[k + 1]
      OBVIOUS
    <2>2. t = NbIteration(g, n, h, s) /\ Searched(g, n, h, s, O, P)
      BY <1>4, <1>6, <2>1 DEF SearchRows
    <2>3. PICK O1, P1 : Progress(g, n, h, s, P, t, O1, P1)
      BY <2>2, IterationKeeps, Zenon
    <2>4. Searched(g, n, h, t, O1, P1)
      BY <2>3 DEF Progress
    <2>5. Ended(n, t) \/ (IsFiniteSet(P1) /\ Cardinality(P1) = k + 1)
      <3>1. CASE Ended(n, s) /\ t = s /\ P1 = P
        BY <3>1
      <3>2. CASE ~Ended(n, s) /\ \E p \in Begun(g) : p \notin P /\ P1 = P \cup {p}
        <4>1. PICK p : p \notin P /\ P1 = P \cup {p}
          BY <3>2
        <4>2. IsFiniteSet(P) /\ Cardinality(P) = k
          BY <1>6, <2>1, <3>2
        <4>3. IsFiniteSet(P \cup {p}) /\ Cardinality(P \cup {p}) = k + 1
          BY <4>1, <4>2, FS_AddElement
        <4> QED BY <4>1, <4>3
      <3> QED BY <3>1, <3>2, <2>3 DEF Progress
    <2>6. Q(k + 1, O1, P1)
      BY <2>1, <2>4, <2>5
    <2> HIDE DEF Q
    <2> QED BY <2>6
  <1>7. 0 .. it \subseteq G
    <2>1. 0 \in G
      BY <1>3, <1>5
    <2>2. ASSUME NEW k \in 0 .. it - 1, k \in G
          PROVE  k + 1 \in G
      <3>1. PICK O, P : Q(k, O, P)
        BY <2>2
      <3> HIDE DEF Q
      <3>2. \E O1, P1 : Q(k + 1, O1, P1)
        BY <1>6, <3>1
      <3> QED BY <1>3, <3>2
    <2> HIDE DEF G
    <2> QED BY <1>3, <2>1, <2>2, InductionUpTo
  <1>8. PICK O, P : Q(it, O, P)
    <2>1. it \in 0 .. it
      BY <1>3
    <2> HIDE DEF Q
    <2> QED BY <1>7, <2>1
  <1>9. PICK s : s = acc[it]
    OBVIOUS
  <1>10. Searched(g, n, h, s, O, P) /\ s.complete = NbSearch(g, n, it)
    BY <1>4, <1>8, <1>9 DEF SearchRows
  <1>11. Ended(n, s)
    <2> SUFFICES ASSUME ~Ended(n, s) PROVE FALSE
      OBVIOUS
    <2>1. Cardinality(P) = it /\ P \in SUBSET Begun(g) /\ O \in SUBSET Begun(g) /\ O \cap P = {}
      BY <1>8, <1>9, <1>10 DEF Searched, Taken
    <2>2. P \in SUBSET T
      BY <1>3, <2>1
    <2>3. P = T
      BY <1>3, <2>1, <2>2, FS_Subset
    <2>4. O = {}
      BY <1>3, <2>1, <2>3
    <2>5. s.open = {}
      BY <1>10, <2>4 DEF Searched
    <2> QED BY <2>5 DEF Ended
  <1>12. IsResult(g, n, h, it, s, O, P)
    BY <1>10, <1>11 DEF IsResult
  <1> QED BY <1>12

(* What the search has not taken promises no more than something it may take. *)
LEMMA NoneIsMissed ==
  ASSUME NEW g, Searchable(g), NEW h, HeurAfter(g, Len(g.arcs), h), NEW O, NEW P, Taken(g, O, P),
         NEW q \in Begun(g)
  PROVE  q \in P \/ \E r \in O : Est(g, h, q) <= Est(g, h, r)
  <1>1. IsBody(g) /\ INITIAL_STATE \in States(g)
    BY DEF Searchable
  <1>2. \A p \in Begun(g) : Len(p) \in Nat /\ Est(g, h, p) \in Int
    BY <1>1, EstimatesFall, LenProperties DEF Begun
  <1>3. O \in SUBSET Begun(g) /\ P \in SUBSET Begun(g) /\ <<>> \in O \cup P
    BY DEF Taken
  <1> DEFINE Safe(p) == p \in P \/ \E r \in O : Est(g, h, p) <= Est(g, h, r)
             R(k) == \A p \in Begun(g) : Len(p) = k => Safe(p)
             G == {k \in Nat : R(k)}
  <1>4. \A p \in O \cup P : Safe(p)
    BY <1>2, <1>3
  <1>5. R(0)
    <2> SUFFICES ASSUME NEW p \in Begun(g), Len(p) = 0 PROVE Safe(p)
      OBVIOUS
    <2>1. p = <<>>
      BY EmptySeq DEF Begun
    <2> HIDE DEF Safe
    <2> QED BY <1>3, <1>4, <2>1
  <1>6. ASSUME NEW k \in Nat, R(k)
        PROVE  R(k + 1)
    <2> SUFFICES ASSUME NEW p \in Begun(g), Len(p) = k + 1 PROVE Safe(p)
      OBVIOUS
    <2>1. p # <<>>
      <3>1. Len(p) # 0
        OBVIOUS
      <3> QED BY <3>1
    <2>2. PICK s, i : GoesOn(g, p, s, i)
      BY <2>1, BegunCameFrom, Zenon
    <2>3. /\ p = Append(s, i) /\ s \in Begun(g) /\ Follows(g, s, i) /\ ~Full(g, s)
          /\ Len(p) = Len(s) + 1
      BY <2>2 DEF GoesOn
    <2>4. Len(s) = k
      <3>1. PICK j \in Nat : j = Len(s)
        BY <1>2, <2>3
      <3> QED BY <2>3, <3>1
    <2>5. Safe(s)
      BY <1>6, <2>3, <2>4
    <2>6. CASE s \in P
      <3>1. p \in O \cup P
        BY <2>3, <2>6 DEF Taken
      <3> HIDE DEF Safe
      <3> QED BY <1>4, <3>1
    <2>7. CASE \E r \in O : Est(g, h, s) <= Est(g, h, r)
      <3>1. PICK r \in O : Est(g, h, s) <= Est(g, h, r)
        BY <2>7
      <3>2. Est(g, h, p) <= Est(g, h, s)
        BY <1>1, <2>3, EstimatesFall
      <3>3. PICK x, y, z \in Int : x = Est(g, h, p) /\ y = Est(g, h, s) /\ z = Est(g, h, r)
        BY <1>2, <1>3, <2>3
      <3>4. x <= z
        BY <3>1, <3>2, <3>3
      <3> QED BY <3>1, <3>3, <3>4
    <2> QED BY <2>5, <2>6, <2>7
  <1> HIDE DEF R
  <1>7. Nat \subseteq G
    <2>1. 0 \in G /\ \A k \in Nat : k \in G => k + 1 \in G
      BY <1>5, <1>6
    <2> HIDE DEF G
    <2> QED BY <2>1, InductionOnSet
  <1>8. Safe(q)
    BY <1>2, <1>7 DEF R
  <1> QED BY <1>8

\* The translations that end at the first final state they meet.
First(g) == {p \in Translations(g) : \A k \in 1 .. Len(p) - 1 : g.arcs[p[k]].succ \notin g.finals}

LEMMA FirstAre ==
  ASSUME NEW g, Searchable(g)
  PROVE  First(g) = {p \in Begun(g) : Full(g, p)} /\ IsFiniteSet(First(g))
  <1>1. IsBody(g) /\ TopologicallyOrdered(g) /\ NonPruned(g) \in SUBSET Arcs(g)
    BY GraphFacts DEF Searchable
  <1>2. ASSUME NEW p
        PROVE  p \in First(g) <=> p \in Begun(g) /\ Full(g, p)
    <2>1. p \in Translations(g) <=> IsTranslation(g, NonPruned(g), p) /\ Len(p) <= Len(g.arcs)
      BY <1>1, TranslationsAre
    <2>2. IsTranslation(g, NonPruned(g), p) => Len(p) <= Len(g.arcs) /\ p \in Seq(NonPruned(g))
      BY <1>1, PathsAreShort DEF IsTranslation, PathFrom
    <2> QED BY <2>1, <2>2 DEF First, Begun, Full, IsTranslation
  <1>3. First(g) = {p \in Begun(g) : Full(g, p)}
    BY <1>2
  <1>4. IsFiniteSet(Begun(g)) /\ First(g) \in SUBSET Begun(g)
    BY <1>1, <1>3, BegunIsFinite
  <1> QED BY <1>3, <1>4, FS_Subset

\* The n best of First, best first and each once.
IsNbest(g, n, list) ==
  LET kept == {list[k].arcs : k \in DOMAIN list}
  IN /\ kept \subseteq First(g)
     /\ Cardinality(kept) = Len(list)
     /\ Len(list) = IF Cardinality(First(g)) < n THEN Cardinality(First(g)) ELSE n
     /\ \A k \in DOMAIN list : list[k].score = PathScore(g, list[k].arcs)
     /\ \A k \in 1 .. Len(list) - 1 : list[k].score >= list[k + 1].score
     /\ \A p \in kept, q \in First(g) \ kept : PathScore(g, p) >= PathScore(g, q)

(* A search that has ended has found them. *)
LEMMA NbestListIs ==
  ASSUME NEW g, Searchable(g), g.arcs # <<>>, NEW n \in Nat,
         NEW it, it = Cardinality(PathsOver(g, NonPruned(g)))
  PROVE  IsNbest(g, n, NbestList(g, n, it))
  <1>1. /\ IsGraph(g) /\ IsBody(g) /\ TopologicallyOrdered(g) /\ INITIAL_STATE \in States(g)
        /\ \A i \in Arcs(g) : g.arcs[i].score < 0
    BY DEF Searchable
  <1>2. PICK h : h = NbSearchHeurInfo(g)
    OBVIOUS
  <1>3. HeurAfter(g, Len(g.arcs), h)
    BY <1>1, <1>2, HeurFits
  <1>4. PICK s, O, P : IsResult(g, n, h, it, s, O, P)
    BY <1>2, <1>3, SearchEnds, Zenon
  <1>5. PICK c : c = s.complete
    OBVIOUS
  <1>6. /\ Taken(g, O, P) /\ AreComplete(g, h, c, O, P) /\ Len(c) <= n
        /\ Len(c) >= n \/ s.open = {}
        /\ s = [open |-> {Hyp(g, p) : p \in O}, complete |-> c] /\ c = NbSearch(g, n, it)
    BY <1>4, <1>5 DEF IsResult, Searched, Ended
  <1>7. NbestList(g, n, it) = c
    BY <1>6 DEF NbestList
  <1>8. PICK m \in Nat : m = Len(c)
    BY <1>6, LenProperties DEF AreComplete
  <1>9. DOMAIN c = 1 .. m
    BY <1>6, <1>8, LenProperties DEF AreComplete
  <1>10. PICK K : K = {c[k].arcs : k \in 1 .. m}
    OBVIOUS
  <1>11. PICK F : F = First(g)
    OBVIOUS
  <1>12. F = {p \in Begun(g) : Full(g, p)} /\ IsFiniteSet(F)
    BY <1>11, FirstAre
  <1>13. P \in SUBSET Begun(g) /\ O \in SUBSET Begun(g)
    BY <1>6 DEF Taken
  <1>14. /\ \A k \in 1 .. m : c[k].arcs \in P /\ Full(g, c[k].arcs) /\ c[k] = Hyp(g, c[k].arcs)
         /\ \A j, k \in 1 .. m : c[j].arcs = c[k].arcs => j = k
         /\ \A p \in P : Full(g, p) => p \in K
         /\ \A k \in 1 .. m - 1 : c[k].score >= c[k + 1].score
         /\ \A k \in 1 .. m, p \in O : c[k].score >= Est(g, h, p)
    BY <1>6, <1>8, <1>10 DEF AreComplete
  <1>15. \A k \in 1 .. m : c[k].score = PathScore(g, c[k].arcs)
    <2> SUFFICES ASSUME NEW k \in 1 .. m PROVE c[k].score = PathScore(g, c[k].arcs)
      OBVIOUS
    <2>1. PICK p : p = c[k].arcs
      OBVIOUS
    <2>2. c[k] = Hyp(g, p)
      BY <1>14, <2>1
    <2>3. c[k].score = PathScore(g, p)
      BY <2>2 DEF Hyp
    <2> QED BY <2>1, <2>3
  <1>16. K \in SUBSET F
    BY <1>10, <1>12, <1>13, <1>14
  <1>17. IsFiniteSet(K) /\ Cardinality(K) = m
    <2>1. PICK f : f = [k \in 1 .. m |-> c[k].arcs]
      OBVIOUS
    <2>2. K = {f[k] : k \in 1 .. m} /\ \A j, k \in 1 .. m : f[j] = f[k] => j = k
      BY <1>10, <1>14, <2>1
    <2> QED BY <2>2, PlacesCounted
  <1>18. Cardinality(F) \in Nat /\ m <= Cardinality(F)
    BY <1>12, <1>16, <1>17, FS_Subset, FS_CardinalityType
  <1>19. m = IF Cardinality(F) < n THEN Cardinality(F) ELSE n
    <2>1. CASE m >= n
      BY <1>6, <1>8, <1>18, <2>1
    <2>2. CASE s.open = {}
      <3>1. O = {}
        BY <1>6, <2>2
      <3>2. F \subseteq K
        <4> SUFFICES ASSUME NEW q \in F PROVE q \in K
          OBVIOUS
        <4>1. q \in Begun(g) /\ Full(g, q)
          BY <1>12
        <4>2. q \in P
          BY <1>3, <1>6, <3>1, <4>1, NoneIsMissed
        <4> QED BY <1>14, <4>1, <4>2
      <3>3. m = Cardinality(F)
        BY <1>16, <1>17, <3>2
      <3> QED BY <1>6, <1>8, <1>18, <3>3
    <2> QED BY <1>6, <1>8, <2>1, <2>2
  <1>20. ASSUME NEW p \in K, NEW q \in F \ K
         PROVE  PathScore(g, p) >= PathScore(g, q)
    <2>1. PICK k \in 1 .. m : p = c[k].arcs
      BY <1>10
    <2>2. q \in Begun(g) /\ Full(g, q)
      BY <1>12
    <2>3. PICK r \in O : Est(g, h, q) <= Est(g, h, r)
      <3>1. q \notin P
        BY <1>14, <2>2
      <3>2. q \in P \/ \E r \in O : Est(g, h, q) <= Est(g, h, r)
        BY <1>3, <1>6, <2>2, NoneIsMissed
      <3> QED BY <3>1, <3>2
    <2>4. PathScore(g, p) >= Est(g, h, r)
      BY <1>14, <1>15, <2>1
    <2>5. Est(g, h, q) = PathScore(g, q) /\ Est(g, h, q) \in Int /\ Est(g, h, r) \in Int
      BY <1>1, <1>3, <1>13, <2>2, EstimatesFall
    <2>6. PathScore(g, p) \in Int
      BY <1>1, <1>12, <1>16, BegunFacts
    <2> QED BY <2>3, <2>4, <2>5, <2>6
  <1>21. IsNbest(g, n, c)
    BY <1>8, <1>9, <1>10, <1>11, <1>14, <1>15, <1>16, <1>17, <1>19, <1>20 DEF IsNbest
  <1> QED BY <1>7, <1>21

-----------------------------------------------------------------------------
(* The best path.                                                          *)

\* The table of the paths that the last arcs lead back along.
BackRow(g, prev, f, t) ==
  IF t = INITIAL_STATE \/ prev.arc[t] = 0 THEN <<>>
  ELSE Append(f[g.arcs[prev.arc[t]].pred], prev.arc[t])
IsBack(g, prev, f) == f = [t \in States(g) |-> BackRow(g, prev, f, t)]

\* The arc that the pass has last on the way to a state, and where it leaves:
\* the arcs before it come earlier.
ArcIsBack(g, prev, t, i, r) ==
  /\ i \in NonPruned(g) /\ g.arcs[i].succ = t /\ r \in States(g)
  /\ prev.arc[r] \in Nat /\ prev.arc[r] < i

LEMMA ArcsBack ==
  ASSUME NEW g, IsBody(g), TopologicallyOrdered(g), NEW L, NEW prev,
         PrevAfter(g, L, Len(g.arcs), prev), NEW t \in States(g), NEW i, i = prev.arc[t], i # 0,
         NEW r, r = g.arcs[i].pred
  PROVE  ArcIsBack(g, prev, t, i, r)
  <1>1. PICK n : n = Len(g.arcs)
    OBVIOUS
  <1>2. t \in Entered(g, n)
    BY <1>1 DEF PrevAfter
  <1>3. i \in NonPruned(g) /\ g.arcs[i].succ = t /\ i \in Arcs(g) /\ i \in Nat /\ i > 0
    BY SMTT(40), <1>1, <1>2, GraphFacts DEF PrevAfter
  <1>4. r \in States(g) /\ prev.arc[r] \in Nat
    BY ZenonT(60), <1>3, GraphFacts DEF PrevAfter, PrevRecords
  <1>5. prev.arc[r] < i
    <2>1. CASE r \in Entered(g, n)
      <3>1. prev.arc[r] \in NonPruned(g) /\ g.arcs[prev.arc[r]].succ = r
        BY SMTT(40), <1>1, <2>1 DEF PrevAfter
      <3>2. prev.arc[r] \in Arcs(g)
        BY SMTT(40), <3>1, GraphFacts
      <3> QED BY SMTT(40), <1>3, <3>1, <3>2 DEF TopologicallyOrdered
    <2>2. CASE r \notin Entered(g, n)
      <3>1. prev.arc[r] = 0
        BY <1>1, <1>4, <2>2 DEF PrevAfter
      <3> QED BY <1>3, <3>1
    <2> QED BY <2>1, <2>2
  <1> QED BY <1>3, <1>4, <1>5 DEF ArcIsBack

(* There is such a table. *)
LEMMA BackExists ==
  ASSUME NEW g, IsBody(g), TopologicallyOrdered(g), NEW L, NEW prev,
         PrevAfter(g, L, Len(g.arcs), prev)
  PROVE  \E f : IsBack(g, prev, f)
  <1>1. PICK n \in Nat : n = Len(g.arcs)
    BY GraphFacts
  <1>2. \A t \in States(g) : prev.arc[t] \in 0 .. n
    <2> SUFFICES ASSUME NEW t \in States(g) PROVE prev.arc[t] \in 0 .. n
      OBVIOUS
    <2>1. prev.arc[t] \in Nat
      BY DEF PrevAfter, PrevRecords
    <2>2. ASSUME NEW i, i = prev.arc[t], i # 0 PROVE i \in 1 .. n
      <3>1. PICK r : r = g.arcs[i].pred
        OBVIOUS
      <3>2. ArcIsBack(g, prev, t, i, r)
        BY <2>2, <3>1, ArcsBack, Zenon
      <3> QED BY <1>1, <3>2, GraphFacts DEF ArcIsBack
    <2> QED BY <2>1, <2>2
  <1> DEFINE Upto(f, k) == /\ f = [t \in States(g) |-> f[t]]
                           /\ \A t \in States(g) : prev.arc[t] <= k => f[t] = BackRow(g, prev, f, t)
             G == {k \in 0 .. n : \E f : Upto(f, k)}
  <1>3. \E f : Upto(f, 0)
    <2>1. PICK f : f = [t \in States(g) |-> <<>>]
      OBVIOUS
    <2>2. \A t \in States(g) : prev.arc[t] <= 0 => prev.arc[t] = 0
      BY <1>2
    <2>3. Upto(f, 0)
      BY <2>1, <2>2 DEF BackRow
    <2> HIDE DEF Upto
    <2> QED BY <2>3
  <1>4. ASSUME NEW k \in 0 .. n - 1, NEW f, Upto(f, k)
        PROVE  \E e : Upto(e, k + 1)
    <2>1. PICK e : e = [t \in States(g) |-> IF prev.arc[t] = k + 1 THEN BackRow(g, prev, f, t) ELSE f[t]]
      OBVIOUS
    <2>2. ASSUME NEW t \in States(g), prev.arc[t] <= k + 1
          PROVE  e[t] = BackRow(g, prev, e, t)
      <3>1. e[t] = BackRow(g, prev, f, t)
        <4>1. CASE prev.arc[t] = k + 1
          BY <2>1, <4>1
        <4>2. CASE prev.arc[t] # k + 1
          <5>1. prev.arc[t] <= k
            BY <1>2, <2>2, <4>2
          <5> QED BY <1>4, <2>1, <4>2, <5>1
        <4> QED BY <4>1, <4>2
      <3>2. BackRow(g, prev, e, t) = BackRow(g, prev, f, t)
        <4>1. CASE t = INITIAL_STATE \/ prev.arc[t] = 0
          BY <4>1 DEF BackRow
        <4>2. CASE ~(t = INITIAL_STATE \/ prev.arc[t] = 0)
          <5>1. PICK i, r : i = prev.arc[t] /\ r = g.arcs[i].pred
            BY SMTT(40)
          <5>2. ArcIsBack(g, prev, t, i, r)
            BY <4>2, <5>1, ArcsBack, Zenon
          <5>3. prev.arc[r] # k + 1
            BY <1>2, <2>2, <5>1, <5>2 DEF ArcIsBack
          <5>4. e[r] = f[r]
            BY <2>1, <5>2, <5>3 DEF ArcIsBack
          <5> QED BY <4>2, <5>1, <5>4 DEF BackRow
        <4> QED BY <4>1, <4>2
      <3> QED BY <3>1, <3>2
    <2>3. e = [t \in States(g) |-> e[t]]
      BY <2>1
    <2>4. Upto(e, k + 1)
      BY <2>2, <2>3
    <2> HIDE DEF Upto
    <2> QED BY <2>4
  <1>5. 0 .. n \subseteq G
    <2>1. 0 \in G
      BY <1>3
    <2>2. ASSUME NEW k \in 0 .. n - 1, k \in G
          PROVE  k + 1 \in G
      <3>1. PICK f : Upto(f, k)
        BY <2>2
      <3> HIDE DEF Upto
      <3>2. \E e : Upto(e, k + 1)
        BY <1>4, <3>1
      <3> QED BY <3>2
    <2> HIDE DEF G
    <2> QED BY <2>1, <2>2, InductionUpTo
  <1>6. PICK f : Upto(f, n)
    <2>1. n \in 0 .. n
      OBVIOUS
    <2> HIDE DEF Upto
    <2> QED BY <1>5, <2>1
  <1>7. \A t \in States(g) : f[t] = BackRow(g, prev, f, t)
    BY <1>2, <1>6
  <1>8. IsBack(g, prev, f)
    BY <1>6, <1>7 DEF IsBack
  <1> QED BY <1>8

(* Its paths have the scores of the pass. *)
LEMMA BackLeads ==
  ASSUME NEW g, IsBody(g), TopologicallyOrdered(g), Grounded(g), NEW L, NEW prev,
         PrevAfter(g, L, Len(g.arcs), prev), NEW f, IsBack(g, prev, f), INITIAL_STATE \in States(g),
         NEW s \in Entered(g, Len(g.arcs)), s \in States(g)
  PROVE  LeadsTo(g, prev, s, f[s])
  <1>1. PICK n \in Nat : n = Len(g.arcs)
    BY GraphFacts
  <1>2. /\ INITIAL_STATE \notin Entered(g, n)
        /\ prev.score[INITIAL_STATE] = g.initialStateScore
    <2>1. INITIAL_STATE \notin Entered(g, n)
      BY GraphFacts DEF Entered
    <2> QED BY <1>1, <2>1 DEF PrevAfter
  <1>3. LeadsTo(g, prev, INITIAL_STATE, f[INITIAL_STATE])
    <2>1. f[INITIAL_STATE] = <<>>
      BY DEF IsBack, BackRow
    <2>2. PathFrom(g, NonPruned(g), INITIAL_STATE, <<>>) /\ EndFrom(g, INITIAL_STATE, <<>>) = INITIAL_STATE
      BY DEF PathFrom, EndFrom
    <2> QED BY <1>2, <2>1, <2>2, ScoreOfNoArc DEF LeadsTo
  <1> DEFINE P(k) == \A t \in Entered(g, n) \cap States(g) :
                       prev.arc[t] <= k => LeadsTo(g, prev, t, f[t])
             G == {k \in 0 .. n : P(k)}
  <1>4. \A t \in Entered(g, n) \cap States(g) : prev.arc[t] \in 1 .. n
    BY ZenonT(60), <1>1, GraphFacts DEF PrevAfter
  <1>5. P(0)
    BY <1>4
  <1>6. ASSUME NEW k \in 0 .. n - 1, P(k)
        PROVE  P(k + 1)
    <2> SUFFICES ASSUME NEW t \in Entered(g, n) \cap States(g), prev.arc[t] <= k + 1
                 PROVE  LeadsTo(g, prev, t, f[t])
      OBVIOUS
    <2>1. PICK i, r : i = prev.arc[t] /\ r = g.arcs[i].pred
      OBVIOUS
    <2>2. /\ i \in NonPruned(g) /\ g.arcs[i].succ = t /\ r \in States(g) /\ i \in 1 .. n
          /\ prev.arc[r] \in Nat /\ prev.arc[r] < i /\ i # 0
      <3>1. t \in States(g)
        OBVIOUS
      <3>2. i \in 1 .. n
        BY <1>4, <2>1
      <3>3. i # 0
        BY <3>2
      <3>4. PrevAfter(g, L, Len(g.arcs), prev) /\ i = prev.arc[t] /\ r = g.arcs[i].pred
        BY <2>1
      <3>5. ArcIsBack(g, prev, t, i, r)
        BY <3>1, <3>3, <3>4, ArcsBack, Zenon
      <3> QED BY <3>2, <3>3, <3>5 DEF ArcIsBack
    <2>3. LeadsTo(g, prev, r, f[r])
      <3>1. CASE r = INITIAL_STATE
        BY <3>1, <1>3
      <3>2. CASE r # INITIAL_STATE
        <4>1. r \in Entered(g, n)
          BY <1>1, <2>1, <2>2, <3>2, WhatArcLeaves
        <4>2. prev.arc[r] <= k
          BY SMTT(40), <2>1, <2>2
        <4> QED BY <1>6, <2>2, <4>1, <4>2
      <3> QED BY <3>1, <3>2
    <2>4. PICK q : q = f[r]
      OBVIOUS
    <2>5. /\ PathFrom(g, NonPruned(g), INITIAL_STATE, q) /\ EndFrom(g, INITIAL_STATE, q) = r
          /\ PathScore(g, q) = prev.score[r]
      BY <2>3, <2>4 DEF LeadsTo
    <2>6. f[t] = Append(q, i)
      <3>1. t # INITIAL_STATE
        BY <1>2
      <3> QED BY <2>1, <2>2, <2>4, <3>1 DEF IsBack, BackRow
    <2>7. q \in Seq(Arcs(g)) /\ i \in Arcs(g)
      <3>1. NonPruned(g) \subseteq Arcs(g)
        BY GraphFacts
      <3>2. q \in Seq(NonPruned(g))
        BY <2>5 DEF PathFrom
      <3> QED BY <2>2, <3>1, <3>2
    <2>8. /\ PathFrom(g, NonPruned(g), INITIAL_STATE, Append(q, i))
          /\ EndFrom(g, INITIAL_STATE, Append(q, i)) = t
      BY <2>1, <2>2, <2>5, LongerPath
    <2>9. prev.score[t] = prev.score[r] + g.arcs[i].score
      BY <1>1, <2>1 DEF PrevAfter
    <2>10. PathScore(g, Append(q, i)) = prev.score[t]
      BY <2>5, <2>7, <2>9, ScoreOfLonger
    <2> QED BY <2>6, <2>8, <2>10 DEF LeadsTo
  <1> HIDE DEF P
  <1>7. 0 .. n \subseteq G
    <2>1. 0 \in G /\ \A k \in 0 .. n - 1 : k \in G => k + 1 \in G
      BY <1>5, <1>6
    <2> HIDE DEF G
    <2> QED BY <2>1, InductionUpTo
  <1>8. P(n)
    <2>1. n \in 0 .. n
      OBVIOUS
    <2> QED BY <1>7, <2>1
  <1>9. s \in Entered(g, n) \cap States(g) /\ prev.arc[s] <= n
    BY <1>1, <1>4
  <1> QED BY <1>8, <1>9 DEF P

(* An arc makes a path worse, if all scores are negative. *)
LEMMA NoArcHelps ==
  ASSUME NEW g, IsBody(g), \A i \in Arcs(g) : g.arcs[i].score < 0, NEW q \in Seq(Arcs(g))
  PROVE  PathScore(g, q) <= g.initialStateScore
  <1>1. PICK n \in Nat : n = Len(q)
    BY LenProperties
  <1>2. PICK acc : PathScoreRows(g, q, n, Int, acc)
    BY <1>1, ScoresAlongPath, Zenon
  <1>3. PICK x \in Int : x = g.initialStateScore
    BY GraphFacts
  <1>4. /\ acc[0] = x /\ acc[n] = PathScore(g, q)
        /\ \A k \in 0 .. n - 1 : acc[k + 1] = acc[k] + g.arcs[q[k + 1]].score
    BY <1>2, <1>3 DEF PathScoreRows, PathStep
  <1> DEFINE A == {y \in Int : y <= x}
  <1>5. \A k \in 0 .. n - 1 : acc[k] \in A => acc[k + 1] \in A
    <2> SUFFICES ASSUME NEW k \in 0 .. n - 1, acc[k] \in A PROVE acc[k + 1] \in A
      OBVIOUS
    <2>1. k + 1 \in 1 .. Len(q)
      BY <1>1
    <2>2. q[k + 1] \in Arcs(g)
      BY <2>1, Element
    <2>3. PICK y, z \in Int : y = acc[k] /\ z = g.arcs[q[k + 1]].score
      BY <2>2, GraphFacts
    <2>4. z < 0 /\ y <= x
      BY <2>2, <2>3
    <2>5. acc[k + 1] = y + z
      BY <1>4, <2>3
    <2> QED BY <2>4, <2>5
  <1>6. acc[0] \in A
    BY <1>4
  <1> HIDE DEF A
  <1>7. acc[n] \in A
    <2>1. \A k \in 0 .. n : acc[k] \in A
      BY ZenonT(60), <1>5, <1>6, FoldStays
    <2> QED BY <2>1
  <1> QED BY <1>3, <1>4, <1>7 DEF A

\* What bestPathFromFinalStateToIdx reads off the pass.
Back(g, prev) ==
  CHOOSE f : f = [t \in States(g) |->
                    IF t = INITIAL_STATE \/ prev.arc[t] = 0 THEN <<>>
                    ELSE Append(f[g.arcs[prev.arc[t]].pred], prev.arc[t])]
BestEnds(g, prev, x) == {t \in g.finals : prev.score[t] = x /\ x > SMALL_SCORE}
BestByTable(g, prev, x) ==
  [score |-> x,
   path |-> IF BestEnds(g, prev, x) = {} THEN <<>>
            ELSE Back(g, prev)[CHOOSE t \in BestEnds(g, prev, x) : TRUE]]

LEMMA BestPathByTable ==
  ASSUME NEW g, NEW prev, prev = PrevScores(g, INITIAL_STATE, {}),
         NEW x, x = BestFinalScore(g, prev.score)
  PROVE  BestPathFromFinalStateToIdx(g, INITIAL_STATE, {}) = BestByTable(g, prev, x)
  BY SMTT(40) DEF BestPathFromFinalStateToIdx, BestByTable, Back, BestEnds

LEMMA BackIsTable ==
  ASSUME NEW g, NEW prev, NEW f, IsBack(g, prev, f)
  PROVE  IsBack(g, prev, Back(g, prev))
  <1> DEFINE Is(h) == h = [t \in States(g) |->
                 IF t = INITIAL_STATE \/ prev.arc[t] = 0 THEN <<>>
                 ELSE Append(h[g.arcs[prev.arc[t]].pred], prev.arc[t])]
  <1>1. Is(f)
    BY ZenonT(60) DEF IsBack, BackRow
  <1>2. Is(CHOOSE h : Is(h))
    BY <1>1
  <1> QED BY <1>2 DEF IsBack, BackRow, Back

(* The best path is the best of First. *)
LEMMA BestPathIsBest ==
  ASSUME NEW g, Searchable(g), InBounds(g), Grounded(g), First(g) # {},
         NEW best, best = BestPathFromFinalStateToIdx(g, INITIAL_STATE, {})
  PROVE  /\ PathScore(g, best.path) = best.score /\ best.path \in First(g)
         /\ \A p \in First(g) : PathScore(g, p) <= best.score
  <1>1. /\ IsGraph(g) /\ IsBody(g) /\ TopologicallyOrdered(g) /\ INITIAL_STATE \in States(g)
        /\ \A i \in Arcs(g) : g.arcs[i].score < 0
        /\ g.finals \subseteq States(g) \ {INITIAL_STATE}
    BY DEF Searchable, IsGraph
  <1>2. PICK b, L : ScoresWithin(g, b, L)
    BY <1>1, ScoresHaveBound
  <1>3. PICK prev : prev = PrevScores(g, INITIAL_STATE, {})
    OBVIOUS
  <1>4. PrevAfter(g, L, Len(g.arcs), prev)
    BY <1>1, <1>2, <1>3, PrevScoresFit
  <1>5. prev.score \in [States(g) -> Int]
    BY <1>4 DEF PrevAfter, PrevRecords
  <1>6. PICK x : x = BestFinalScore(g, prev.score)
    OBVIOUS
  <1>7. BestOf(g.finals, prev.score, x)
    BY <1>1, <1>5, <1>6, BestFinalScoreIsBest
  <1>8. x \in Int /\ \A s \in g.finals : x >= prev.score[s] /\ prev.score[s] \in Int
    BY <1>1, <1>5, <1>7 DEF BestOf
  <1>9. PICK m : m = L[Len(g.arcs)]
    OBVIOUS
  <1>10. m \in Nat /\ -m > SMALL_SCORE
    <2>1. Len(g.arcs) \in 0 .. Len(g.arcs)
      BY <1>1, GraphFacts
    <2>2. m \in Nat /\ 2 * m < -SMALL_SCORE
      BY <1>2, <1>9, <2>1 DEF ScoresWithin
    <2> QED BY <2>2, SmallScore
  <1>11. ASSUME NEW p \in Begun(g), EndFrom(g, INITIAL_STATE, p) \in g.finals
         PROVE  PathScore(g, p) <= x /\ PathScore(g, p) \in Int /\ x >= -m
    <2>1. PICK s : s = EndFrom(g, INITIAL_STATE, p)
      OBVIOUS
    <2>2. PathFrom(g, NonPruned(g), INITIAL_STATE, p) /\ PathScore(g, p) \in Int
      BY <1>1, BegunFacts
    <2>3. /\ s \in {INITIAL_STATE} \cup Entered(g, Len(g.arcs)) /\ s \in States(g)
          /\ PathScore(g, p) <= prev.score[s]
      BY <1>1, <1>4, <2>1, <2>2, NoBetterPathTo
    <2>4. -m <= prev.score[s] /\ prev.score[s] <= x /\ prev.score[s] \in Int
      BY <1>4, <1>8, <1>9, <1>11, <2>1, <2>3 DEF PrevAfter
    <2> QED BY <1>8, <1>10, <2>2, <2>3, <2>4
  <1>12. First(g) = {p \in Begun(g) : Full(g, p)}
    BY FirstAre
  <1>13. x >= -m /\ \A p \in First(g) : PathScore(g, p) <= x
    BY <1>11, <1>12 DEF Full
  <1>14. x > SMALL_SCORE
    BY <1>8, <1>10, <1>13, SmallScore
  <1>15. best = BestByTable(g, prev, x)
    BY <1>3, <1>6, BestPathByTable, Zenon
  <1>16. PICK f : f = Back(g, prev) /\ IsBack(g, prev, f)
    BY <1>1, <1>4, BackExists, BackIsTable, Zenon
  <1> DEFINE ends == BestEnds(g, prev, x)
  <1>17. ends # {}
    <2>1. \E s \in g.finals : x = prev.score[s]
      BY <1>7, <1>14, SmallScore DEF BestOf
    <2> QED BY <1>14, <2>1 DEF BestEnds
  <1>18. PICK t : t \in ends /\ best = [score |-> x, path |-> f[t]]
    BY <1>15, <1>16, <1>17 DEF BestByTable
  <1>19. t \in g.finals /\ prev.score[t] = x /\ t \in States(g) /\ t # INITIAL_STATE
    BY <1>1, <1>18 DEF BestEnds
  <1> HIDE DEF ends
  <1>20. t \in Entered(g, Len(g.arcs))
    <2> SUFFICES ASSUME t \in States(g) \ Entered(g, Len(g.arcs)) PROVE FALSE
      BY <1>19
    <2>1. prev.score[t] = SMALL_SCORE
      BY <1>4, <1>19 DEF PrevAfter
    <2> QED BY <2>1, <1>14, <1>19, SmallScore
  <1>21. PICK q : q = f[t] /\ best.path = q /\ best.score = x
    BY <1>18
  <1>22. LeadsTo(g, prev, t, q)
    BY <1>1, <1>4, <1>16, <1>19, <1>20, <1>21, BackLeads
  <1>23. /\ PathFrom(g, NonPruned(g), INITIAL_STATE, q) /\ EndFrom(g, INITIAL_STATE, q) = t
         /\ PathScore(g, q) = x
    BY <1>19, <1>22 DEF LeadsTo
  <1>24. q # <<>> /\ Full(g, q)
    BY <1>19, <1>23 DEF EndFrom, Full
  <1>25. NonPruned(g) \in SUBSET Arcs(g)
    BY <1>1, GraphFacts
  <1>26. q \in Seq(NonPruned(g)) /\ Len(q) \in Nat
    BY <1>23, LenProperties DEF PathFrom
  <1>27. ASSUME NEW k \in 1 .. Len(q) - 1, g.arcs[q[k]].succ \in g.finals
         PROVE  FALSE
    <2>1. PICK j : j = k + 1
      OBVIOUS
    <2>2. j \in 1 .. Len(q)
      BY <1>26, <2>1
    <2>3. PICK i : i = q[j]
      OBVIOUS
    <2>4. i \in NonPruned(g) /\ i \in Arcs(g) /\ g.arcs[i].pred = g.arcs[q[k]].succ
      BY <1>23, <1>25, <1>26, <2>1, <2>2, <2>3, Element DEF PathFrom
    <2>5. PICK a, c : GoesBy(g, NonPruned(g), q, i, a, c)
      BY <1>1, <1>23, <1>25, <2>2, <2>3, PathsAreSplit, Zenon
    <2>6. /\ PathFrom(g, NonPruned(g), INITIAL_STATE, a)
          /\ EndFrom(g, INITIAL_STATE, a) = g.arcs[i].pred
          /\ PathFrom(g, NonPruned(g), g.arcs[i].succ, c)
          /\ PathScore(g, q) = ((PathScore(g, a) + g.arcs[i].score) + PathScore(g, c)) - g.initialStateScore
      BY <2>5 DEF GoesBy
    <2>7. a \in Seq(Arcs(g)) /\ c \in Seq(Arcs(g))
      BY <1>25, <2>6 DEF PathFrom
    <2>8. PathScore(g, c) <= g.initialStateScore
      BY <1>1, <2>7, NoArcHelps
    <2>9. PICK u, v, w, z \in Int : /\ u = PathScore(g, a) /\ v = g.arcs[i].score
                                    /\ w = PathScore(g, c) /\ z = g.initialStateScore
      BY <1>1, <2>4, <2>7, ScoreIsNumber, GraphFacts
    <2>10. x = ((u + v) + w) - z /\ v < 0 /\ w <= z
      BY <1>1, <1>23, <2>4, <2>6, <2>8, <2>9
    <2>11. u <= x
      <3>1. PICK s : s = EndFrom(g, INITIAL_STATE, a)
        OBVIOUS
      <3>2. s \in g.finals
        BY <1>27, <2>4, <2>6, <3>1
      <3>3. u <= prev.score[s]
        BY <1>1, <1>4, <2>6, <2>9, <3>1, NoBetterPathTo
      <3>4. PICK y \in Int : y = prev.score[s]
        BY <1>8, <3>2
      <3>5. y <= x
        BY <1>8, <3>2, <3>4
      <3> QED BY <1>8, <3>3, <3>4, <3>5
    <2> QED BY <1>8, <2>10, <2>11
  <1>28. q \in First(g)
    <2>1. q \in Begun(g)
      BY <1>23, <1>26, <1>27 DEF Begun
    <2> QED BY <1>12, <1>24, <2>1
  <1> QED BY <1>13, <1>21, <1>23, <1>28

(* The n-best list holds the best translations, in order, and the best path is *)
(* the first of them (obtainNbestList, bestPathFromFinalStateToIdx).           *)
THEOREM NbestIsRight == Spec => []NbestIsBest
  <1>1. ASSUME UseInv, TopologicallyOrdered(graph), ~reordered, graph.arcs # <<>>,
               \A i \in Arcs(graph) : graph.arcs[i].score < 0
        PROVE  /\ \A n \in Len4Nbest :
                    IsNbest(graph, n, NbestList(graph, n, Cardinality(PathsOver(graph, NonPruned(graph)))))
               /\ LET best == BestPathFromFinalStateToIdx(graph, INITIAL_STATE, {})
                  IN First(graph) # {} =>
                       /\ PathScore(graph, best.path) = best.score /\ best.path \in First(graph)
                       /\ \A p \in First(graph) : PathScore(graph, p) <= best.score
    <2>1. PICK g : g = graph
      OBVIOUS
    <2>2. /\ IsGraph(g) /\ IsBody(g) /\ InBounds(g) /\ ListsFit(g) /\ Grounded(g)
          /\ TopologicallyOrdered(g)
      BY <1>1, <2>1 DEF UseInv, Sound, IsGraph
    <2>3. INITIAL_STATE \in States(g)
      <3>1. Len(g.arcs) # 0
        <4>1. g.arcs \in Seq(ArcRecords)
          BY <2>2 DEF IsBody
        <4> QED BY <1>1, <2>1, <4>1, EmptySeq
      <3>2. 1 \in Arcs(g)
        BY <2>2, <3>1, GraphFacts
      <3>3. PICK N \in Nat : States(g) = 0 .. N - 1
        BY <2>2, GraphFacts
      <3>4. g.arcs[1].pred \in 0 .. N - 1
        BY <2>2, <3>2, <3>3, GraphFacts
      <3> QED BY <3>3, <3>4 DEF INITIAL_STATE
    <2>4. Searchable(g)
      BY <1>1, <2>1, <2>2, <2>3 DEF Searchable
    <2>5. \A n \in Len4Nbest : n \in Nat
      BY WordGraphConstants
    <2>6. PICK it : it = Cardinality(PathsOver(g, NonPruned(g)))
      OBVIOUS
    <2>7. \A n \in Len4Nbest : IsNbest(g, n, NbestList(g, n, it))
      BY <1>1, <2>1, <2>4, <2>5, <2>6, NbestListIs
    <2>8. PICK best : best = BestPathFromFinalStateToIdx(g, INITIAL_STATE, {})
      OBVIOUS
    <2>9. First(g) # {} =>
            /\ PathScore(g, best.path) = best.score /\ best.path \in First(g)
            /\ \A p \in First(g) : PathScore(g, p) <= best.score
      BY SMTT(40), <2>2, <2>4, <2>8, BestPathIsBest
    <2> QED BY <2>1, <2>6, <2>7, <2>8, <2>9
  <1>2. UseInv => NbestIsBest
    BY <1>1 DEF NbestIsBest, IsNbest, First
  <1> QED BY <1>2, UseInvariance, PTL
=============================================================================
