------------------------- MODULE MissileGameProofs --------------------------
(***************************************************************************)
(* Proofs about Missile Command: the missile list stays whole, no freed    *)
(* memory is used while the game is on, every enemy is counted once, and   *)
(* no notification of the process is lost; for any number of cells, of     *)
(* missiles and of ticks they fly or burn.                                 *)
(*                                                                         *)
(* The invariant describes the list as an injective sequence of cells, and *)
(* says where the tasklet's two pointers are in it.  Nth, which follows    *)
(* the NEXT fields as many times as there are cells, is shown to run       *)
(* through that sequence by induction, with the least-number principle.    *)
(*                                                                         *)
(* At the end, the geometry of MissileFlight: both crosshairs agree, and   *)
(* every missile stays on the screen.                                      *)
(***************************************************************************)
EXTENDS MissileGame, MissileFlight, FiniteSetTheorems, WellFoundedInduction, TLAPS

-----------------------------------------------------------------------------
(* The inductive invariant. *)

\* The cells q[1], ..., q[n] are the list that starts at head,
\* with the NEXT fields nx.
At(n, q, i) == IF i \in 1 .. n THEN q[i] ELSE Null
Elements(n, q) == { q[i] : i \in 1 .. n }

Chain(nx, n, q, head) ==
  /\ q \in [1 .. n -> Cells]
  /\ head = At(n, q, 1)
  /\ \A i \in 1 .. n : nx[q[i]] = At(n, q, i + 1)
  /\ \A i, j \in 1 .. n : q[i] = q[j] => i = j

\* The tasklet is at a missile of the list, and edi at the one before it.
Walking(n, q) == running => \E j \in 1 .. n : edx = q[j] /\ edi = At(n, q, j - 1)

\* A missile that is not yet in the list.
Held == IF pc = "addCopy" THEN {cell} ELSE {}

\* The list in memory, while the process is not inside head_case of ENDGAME,
\* before it has freed the head, and after that.
Lists == 0 .. Cardinality(Cells)
WholeList ==
  \E n \in Lists : \E q \in [1 .. n -> Cells] :
    Chain(next, n, q, mp1_missile_list) /\ Elements(n, q) = alloc \ Held /\ Walking(n, q)
RestUnlinked ==
  /\ \E n \in Lists : \E q \in [1 .. n -> Cells] :
       Chain(next, n, q, esi) /\ Elements(n, q) = alloc \ {cell}
  /\ next[cell] = Null
  /\ mp1_missile_list = IF cell \in alloc THEN cell ELSE Null
  /\ running => cell \in alloc /\ edx = cell /\ edi = Null
RestFreed ==
  /\ \E n \in Lists : \E q \in [1 .. n -> Cells] :
       Chain(next, n, q, esi) /\ Elements(n, q) = alloc
  /\ mp1_missile_list = cell /\ cell \notin alloc
  /\ ~running

InMemory ==
  ~bad => /\ pc = "unlinked" => RestUnlinked
          /\ pc = "freed" => RestFreed
          /\ pc \notin {"unlinked", "freed"} => WholeList

\* What the steps of the process leave in its variables.
Control ==
  /\ running => pc \in Window /\ edx \in Cells
  /\ bad => Ending
  /\ pc = "addCopy" => cell \in alloc /\ back \in {"loop", "inject"}
  /\ pc = "endLoop" => cell = mp1_missile_list
  /\ pc \in {"unlinked", "freed"} => cell \in Cells

\* The enemies in flight, and that each is counted once.
Flying == { i \in Cells \ Held : Enemy(missile[i]) /\ missile[i].exploded = 0 }
Counted ==
  /\ \A c \in Cells \ alloc : ~Enemy(missile[c])
  /\ mp1_score + arrived + Cardinality(Flying) <= enemies
  /\ ~Ending => mp1_score + arrived + Cardinality(Flying) = enemies
  /\ enemies <= MaxEnemies
  /\ pc = "addCopy" => /\ missile[cell].exploded = 0
                       /\ Enemy(missile[cell]) => enemies < MaxEnemies

\* Unless a signal is pending, the process knows the score, or is about to
\* read it, or has read it, or GETSTATUS told it nothing.  The score has 16
\* bits of the status word.
Known ==
  ~missed =>
    /\ score = mp1_score
    /\ bases_left = BasesOf(StatusWord) \/ (bases_left = 3 /\ \A b \in Bases : base_alive[b])
Notified ==
  MaxEnemies < 2^16 /\ ~sigusr1 =>
    \/ pc \in {"statusMalloc", "statusFailed"}
    \/ pc \in {"statusCopy", "statusFree"} /\ status_word = StatusWord
    \/ pc \notin Handling /\ Known

IInv == TypeOK /\ InMemory /\ Control /\ Counted /\ Notified

-----------------------------------------------------------------------------
(* Induction over natural numbers, and the walk Nth along the list. *)

\* Every set of natural numbers has a least one.
LEMMA LeastNumber ==
  ASSUME NEW T, T \subseteq Nat, T # {} PROVE \E k \in T : \A j \in T : k <= j
<1> DEFINE R == OpToRel(<, Nat)
<1>1. IsWellFoundedOn(R, Nat)
  BY NatLessThanWellFounded
<1>2. R = {ss \in Nat \X Nat : ss[1] < ss[2]}
  BY DEF OpToRel
<1> HIDE DEF R
<1>3. PICK k \in T : \A j \in T : ~(<<j, k>> \in R)
  BY <1>1, WFMin
<1>4. \A j \in T : ~(j < k)
  BY <1>2, <1>3
<1> QED BY <1>4

\* Induction up to n, for membership in a set.
LEMMA InductionUpTo ==
  ASSUME NEW n \in Nat, NEW S, 0 \in S,
         \A k \in 0 .. n : k < n /\ k \in S => k + 1 \in S
  PROVE  \A k \in 0 .. n : k \in S
<1> DEFINE T == { k \in 0 .. n : k \notin S }
<1> SUFFICES ASSUME T # {} PROVE FALSE
  OBVIOUS
<1>1. PICK k \in T : \A j \in T : k <= j
  <2>1. T \subseteq Nat
    OBVIOUS
  <2> HIDE DEF T
  <2> QED BY <2>1, LeastNumber
<1>2. k # 0 /\ k - 1 \in 0 .. n /\ k - 1 < n /\ (k - 1) + 1 = k
  BY <1>1
<1>3. k - 1 \in S
  <2>1. k - 1 \notin T
    BY <1>1, <1>2
  <2> QED BY <1>2, <2>1
<1> QED BY <1>2, <1>3

\* Along the list, step after step.
Follow(x) == IF x = Null THEN Null ELSE next[x]
Steps(f, n) == f = [k \in 0 .. n |-> IF k = 0 THEN mp1_missile_list ELSE Follow(f[k - 1])]

\* Such a walk exists, whatever is in memory: one more step extends it.
LEMMA StepsExist ==
  ASSUME NEW n \in Nat PROVE \E f : Steps(f, n)
<1> DEFINE S == { k \in 0 .. n : \E f : Steps(f, k) }
<1>1. 0 \in S
  <2> DEFINE f == [i \in 0 .. 0 |-> mp1_missile_list]
  <2>1. \A i \in 0 .. 0 : i = 0
    OBVIOUS
  <2>2. Steps(f, 0)
    BY <2>1 DEF Steps
  <2>3. 0 \in 0 .. n
    OBVIOUS
  <2> HIDE DEF f
  <2> QED BY <2>2, <2>3
<1>2. ASSUME NEW k \in 0 .. n, k < n, k \in S PROVE k + 1 \in S
  <2>1. PICK f : Steps(f, k)
    BY <1>2
  <2> DEFINE g == [i \in 0 .. k + 1 |-> IF i = k + 1 THEN Follow(f[k]) ELSE f[i]]
  <2>2. \A i \in 0 .. k : g[i] = f[i]
    OBVIOUS
  <2>3. g[k + 1] = Follow(f[k])
    OBVIOUS
  <2>4. g = [i \in 0 .. k + 1 |-> g[i]]
    OBVIOUS
  <2> HIDE DEF g
  <2>5. ASSUME NEW i \in 0 .. k + 1
        PROVE  g[i] = IF i = 0 THEN mp1_missile_list ELSE Follow(g[i - 1])
    <3>1. CASE i = k + 1
      <4>1. i # 0 /\ i - 1 = k /\ k \in 0 .. k
        BY <3>1
      <4> QED BY <2>2, <2>3, <3>1, <4>1
    <3>2. CASE i \in 0 .. k
      <4>1. f[i] = IF i = 0 THEN mp1_missile_list ELSE Follow(f[i - 1])
        BY <2>1, <3>2 DEF Steps
      <4>2. i # 0 => i - 1 \in 0 .. k
        BY <3>2
      <4>3. i # 0 => g[i - 1] = f[i - 1]
        BY <2>2, <4>2
      <4> QED BY <2>2, <3>2, <4>1, <4>3
    <3> QED BY <3>1, <3>2
  <2>6. Steps(g, k + 1)
    BY <2>4, <2>5 DEF Steps
  <2>7. k + 1 \in 0 .. n
    BY <1>2
  <2> QED BY <2>6, <2>7
<1>3. n \in S
  <2> HIDE DEF S
  <2>1. \A k \in 0 .. n : k < n /\ k \in S => k + 1 \in S
    BY <1>2
  <2>2. n \in 0 .. n
    OBVIOUS
  <2> QED BY <1>1, <2>1, <2>2, InductionUpTo
<1> QED BY <1>3

\* Nth is that walk.
LEMMA NthSteps ==
  /\ Cardinality(Cells) \in Nat
  /\ Nth[0] = mp1_missile_list
  /\ \A k \in 1 .. Cardinality(Cells) : Nth[k] = Follow(Nth[k - 1])
<1> DEFINE N == Cardinality(Cells)
<1>1. N \in Nat
  BY GameAssumption, FS_CardinalityType
<1> HIDE DEF N
<1>2. Steps(CHOOSE f : Steps(f, N), N)
  BY <1>1, StepsExist
<1>3. Nth = CHOOSE f : Steps(f, N)
  BY DEF Nth, Steps, Follow, N
<1>4. Steps(Nth, N)
  BY <1>2, <1>3
<1>5. Nth[0] = mp1_missile_list
  BY <1>1, <1>4 DEF Steps
<1>6. ASSUME NEW k \in 1 .. N PROVE Nth[k] = Follow(Nth[k - 1])
  <2>1. k \in 0 .. N /\ k # 0
    BY <1>1
  <2> QED BY <1>4, <2>1 DEF Steps
<1> QED BY <1>1, <1>5, <1>6 DEF N

\* It stays among the cells.
LEMMA ListedCells ==
  ASSUME TypeOK PROVE Listed \subseteq Cells
<1> DEFINE N == Cardinality(Cells)
           S == { k \in 0 .. N : Nth[k] \in CellOrNull }
<1>1. N \in Nat
  BY NthSteps
<1>2. 0 \in S
  BY <1>1, NthSteps DEF TypeOK
<1>3. ASSUME NEW k \in 0 .. N, k < N, k \in S PROVE k + 1 \in S
  <2>1. k + 1 \in 1 .. N /\ (k + 1) - 1 = k /\ k + 1 \in 0 .. N
    BY <1>1, <1>3
  <2>2. Nth[k + 1] = Follow(Nth[k])
    BY <2>1, NthSteps
  <2> QED BY <1>3, <2>1, <2>2 DEF Follow, TypeOK, CellOrNull
<1> HIDE DEF N
<1>4. \A k \in 0 .. N : k \in S
  <2> HIDE DEF S
  <2> QED BY <1>1, <1>2, <1>3, InductionUpTo
<1> QED BY <1>4 DEF Listed, CellOrNull, N

\* The cells of a list are not more than there are.
LEMMA Fits ==
  ASSUME NEW n \in Nat, NEW nx, NEW q, NEW head, Chain(nx, n, q, head)
  PROVE  n \in Lists
<1>1. q \in Injection(1 .. n, Cells)
  BY DEF Chain, Injection, IsInjective
<1>2. Cardinality(1 .. n) <= Cardinality(Cells)
  BY <1>1, FS_Injection, GameAssumption
<1>3. Cardinality(1 .. n) = n
  BY FS_Interval
<1> QED BY <1>2, <1>3, NthSteps DEF Lists

\* Listed are the elements of the list, and Nth ends behind them.
LEMMA ListedElements ==
  ASSUME NEW n \in Lists, NEW q, Chain(next, n, q, mp1_missile_list)
  PROVE  Nth[Cardinality(Cells)] = Null /\ Listed = Elements(n, q)
<1> DEFINE N == Cardinality(Cells)
           S == { k \in 0 .. N : Nth[k] = At(n, q, k + 1) }
<1>1. N \in Nat /\ n \in 0 .. N
  BY NthSteps DEF Lists
<1>2. 0 \in S
  BY <1>1, NthSteps DEF Chain
<1>3. ASSUME NEW k \in 0 .. N, k < N, k \in S PROVE k + 1 \in S
  <2>1. k + 1 \in 1 .. N /\ (k + 1) - 1 = k /\ k + 1 \in 0 .. N
    BY <1>1, <1>3
  <2>2. Nth[k + 1] = Follow(Nth[k])
    BY <2>1, NthSteps
  <2>3. CASE k + 1 \in 1 .. n
    <3>1. Nth[k] = q[k + 1] /\ q[k + 1] \in Cells
      BY <1>3, <2>3 DEF At, Chain
    <3>2. next[q[k + 1]] = At(n, q, (k + 1) + 1)
      BY <2>3 DEF Chain
    <3> QED BY <2>1, <2>2, <3>1, <3>2, GameAssumption DEF Follow
  <2>4. CASE k + 1 \notin 1 .. n
    <3>1. Nth[k] = Null
      BY <1>3, <2>4 DEF At
    <3>2. (k + 1) + 1 \notin 1 .. n
      BY <1>1, <2>4
    <3> QED BY <2>1, <2>2, <3>1, <3>2 DEF Follow, At
  <2> QED BY <2>3, <2>4
<1> HIDE DEF N
<1>4. \A k \in 0 .. N : Nth[k] = At(n, q, k + 1)
  <2>1. \A k \in 0 .. N : k \in S
    <3> HIDE DEF S
    <3> QED BY <1>1, <1>2, <1>3, InductionUpTo
  <2> QED BY <2>1
<1>5. Nth[N] = Null
  <2>1. N \in 0 .. N /\ N + 1 \notin 1 .. n
    BY <1>1
  <2> QED BY <1>4, <2>1 DEF At
<1>6. Elements(n, q) \subseteq Listed
  <2> SUFFICES ASSUME NEW i \in 1 .. n PROVE q[i] \in Listed
    BY DEF Elements
  <2>1. i - 1 \in 0 .. N /\ (i - 1) + 1 = i
    BY <1>1
  <2>2. Nth[i - 1] = q[i]
    BY <1>4, <2>1 DEF At
  <2>3. q[i] # Null
    BY GameAssumption DEF Chain
  <2> QED BY <2>1, <2>2, <2>3 DEF Listed, N
<1>7. Listed \subseteq Elements(n, q)
  BY <1>4 DEF Listed, Elements, At, N
<1> QED BY <1>5, <1>6, <1>7 DEF N

-----------------------------------------------------------------------------
(* Changing the list. *)

\* The list without its j-th cell.
Without(n, q, j) == [i \in 1 .. n - 1 |-> IF i < j THEN q[i] ELSE q[i + 1]]

\* What mp1_missile_remove does to the NEXT fields nx.
Relinked(nx, n, q, head, j) ==
  IF q[j] = head THEN [nx EXCEPT ![q[j]] = Null]
                 ELSE [nx EXCEPT ![At(n, q, j - 1)] = nx[q[j]], ![q[j]] = Null]

\* They are then the list without the cell removed.
LEMMA Unlinked ==
  ASSUME NEW n \in Nat, NEW q, NEW nx \in [Cells -> CellOrNull], NEW head,
         Chain(nx, n, q, head), NEW j \in 1 .. n
  PROVE  /\ Chain(Relinked(nx, n, q, head, j), n - 1, Without(n, q, j), IF q[j] = head THEN nx[q[j]] ELSE head)
         /\ Elements(n - 1, Without(n, q, j)) = Elements(n, q) \ {q[j]}
         /\ nx[q[j]] = At(n - 1, Without(n, q, j), j)
<1> DEFINE r == Without(n, q, j)
           nxt == Relinked(nx, n, q, head, j)
<1>1. /\ q \in [1 .. n -> Cells] /\ head = At(n, q, 1)
      /\ \A i \in 1 .. n : nx[q[i]] = At(n, q, i + 1)
      /\ \A i, k \in 1 .. n : q[i] = q[k] => i = k
  BY DEF Chain
<1>2. \A i \in 1 .. n - 1 : i \in 1 .. n /\ i + 1 \in 1 .. n
  OBVIOUS
<1>3. \A i \in 1 .. n - 1 : r[i] = IF i < j THEN q[i] ELSE q[i + 1]
  BY DEF Without
<1>4. r \in [1 .. n - 1 -> Cells]
  BY <1>1, <1>2 DEF Without
<1> HIDE DEF r
<1>5. \A i, k \in 1 .. n - 1 : r[i] = r[k] => i = k
  <2> SUFFICES ASSUME NEW i \in 1 .. n - 1, NEW k \in 1 .. n - 1, r[i] = r[k] PROVE i = k
    OBVIOUS
  <2>1. PICK a \in 1 .. n : r[i] = q[a] /\ a = IF i < j THEN i ELSE i + 1
    BY <1>2, <1>3
  <2>2. PICK b \in 1 .. n : r[k] = q[b] /\ b = IF k < j THEN k ELSE k + 1
    BY <1>2, <1>3
  <2>3. a = b
    BY <1>1, <2>1, <2>2
  <2> QED BY <2>1, <2>2, <2>3
<1>6. Elements(n - 1, r) = Elements(n, q) \ {q[j]}
  <2>1. ASSUME NEW i \in 1 .. n - 1 PROVE r[i] \in Elements(n, q) /\ r[i] # q[j]
    <3>1. PICK a \in 1 .. n : r[i] = q[a] /\ a = IF i < j THEN i ELSE i + 1
      BY <1>2, <1>3
    <3>2. a # j
      BY <3>1
    <3> QED BY <1>1, <3>1, <3>2 DEF Elements
  <2>2. ASSUME NEW a \in 1 .. n, q[a] # q[j] PROVE q[a] \in Elements(n - 1, r)
    <3>1. a # j
      BY <2>2
    <3>2. CASE a < j
      <4>1. a \in 1 .. n - 1
        BY <3>2
      <4> QED BY <1>3, <3>2, <4>1 DEF Elements
    <3>3. CASE a > j
      <4>1. a - 1 \in 1 .. n - 1 /\ ~(a - 1 < j) /\ (a - 1) + 1 = a
        BY <3>3
      <4> QED BY <1>3, <4>1 DEF Elements
    <3> QED BY <3>1, <3>2, <3>3
  <2> QED BY <2>1, <2>2 DEF Elements
<1>7. nx[q[j]] = At(n - 1, r, j)
  <2>1. nx[q[j]] = At(n, q, j + 1)
    BY <1>1
  <2>2. CASE j < n
    <3>1. j + 1 \in 1 .. n /\ j \in 1 .. n - 1
      BY <2>2
    <3> QED BY <1>3, <2>1, <3>1 DEF At
  <2>3. CASE j = n
    <3>1. j + 1 \notin 1 .. n /\ j \notin 1 .. n - 1
      BY <2>3
    <3> QED BY <2>1, <3>1 DEF At
  <2> QED BY <2>2, <2>3
<1>8. q[j] = head <=> j = 1
  <2>1. head = q[1] /\ 1 \in 1 .. n
    BY <1>1 DEF At
  <2> QED BY <1>1, <2>1
<1>9. (IF q[j] = head THEN nx[q[j]] ELSE head) = At(n - 1, r, 1)
  <2>1. CASE j = 1
    BY <1>7, <1>8, <2>1
  <2>2. CASE j # 1
    <3>1. 1 \in 1 .. n - 1 /\ 1 < j /\ 1 \in 1 .. n
      BY <2>2
    <3> QED BY <1>1, <1>3, <1>8, <2>2, <3>1 DEF At
  <2> QED BY <2>1, <2>2
<1> USE DEF Relinked
<1>10. ASSUME NEW i \in 1 .. n - 1 PROVE nxt[r[i]] = At(n - 1, r, i + 1)
  <2>1. r[i] \in Cells /\ q[j] \in Cells
    BY <1>1, <1>4
  <2>2. r[i] # q[j]
    BY <1>6 DEF Elements
  <2>3. CASE i + 1 = j
    <3>1. j # 1 /\ i < j /\ i = j - 1 /\ j - 1 \in 1 .. n
      BY <2>3
    <3>2. r[i] = At(n, q, j - 1)
      BY <1>3, <3>1 DEF At
    <3>3. nxt[r[i]] = nx[q[j]]
      BY <1>8, <2>1, <2>2, <3>1, <3>2
    <3> QED BY <1>7, <2>3, <3>3
  <2>4. CASE i + 1 # j
    <3>1. PICK a \in 1 .. n : r[i] = q[a] /\ a = IF i < j THEN i ELSE i + 1
      BY <1>2, <1>3
    <3>2. j # 1 => j - 1 \in 1 .. n /\ a # j - 1
      BY <2>4, <3>1
    <3>3. j # 1 => At(n, q, j - 1) \in Cells /\ r[i] # At(n, q, j - 1)
      BY <1>1, <3>1, <3>2 DEF At
    <3>4. nxt[r[i]] = nx[q[a]]
      BY <1>8, <2>1, <2>2, <3>1, <3>3
    <3>5. nx[q[a]] = At(n, q, a + 1)
      BY <1>1
    <3>6. CASE i + 1 \in 1 .. n - 1
      <4>1. At(n - 1, r, i + 1) = r[i + 1]
        BY <3>6 DEF At
      <4>2. r[i + 1] = IF i + 1 < j THEN q[i + 1] ELSE q[(i + 1) + 1]
        BY <1>3, <3>6
      <4>3. /\ i + 1 < j => a = i /\ a + 1 \in 1 .. n /\ a + 1 = i + 1
            /\ ~(i + 1 < j) => a = i + 1 /\ a + 1 \in 1 .. n /\ a + 1 = (i + 1) + 1
        BY <2>4, <3>1, <3>6
      <4> QED BY <3>4, <3>5, <4>1, <4>2, <4>3 DEF At
    <3>7. CASE i + 1 \notin 1 .. n - 1
      <4>1. i = n - 1 /\ ~(i < j) /\ a + 1 \notin 1 .. n
        BY <2>4, <3>1, <3>7
      <4> QED BY <3>4, <3>5, <3>7, <4>1 DEF At
    <3> QED BY <3>6, <3>7
  <2> QED BY <2>3, <2>4
<1> QED BY <1>4, <1>5, <1>6, <1>7, <1>9, <1>10 DEF Chain, r

\* The list with a new cell in front.
Before(n, q, c) == [i \in 1 .. n + 1 |-> IF i = 1 THEN c ELSE q[i - 1]]

\* A NEXT field is set.
Put(nx, c, d) == [nx EXCEPT ![c] = d]

\* ADDMISSILE links a new cell in front.
LEMMA Linked ==
  ASSUME NEW n \in Nat, NEW q, NEW nx \in [Cells -> CellOrNull], NEW head,
         Chain(nx, n, q, head), NEW c \in Cells \ Elements(n, q)
  PROVE  \E m \in Lists : \E r \in [1 .. m -> Cells] :
           Chain(Put(nx, c, head), m, r, c) /\ Elements(m, r) = Elements(n, q) \cup {c}
<1> DEFINE r == Before(n, q, c)
           nxt == Put(nx, c, head)
<1>1. /\ q \in [1 .. n -> Cells] /\ head = At(n, q, 1)
      /\ \A i \in 1 .. n : nx[q[i]] = At(n, q, i + 1)
      /\ \A i, k \in 1 .. n : q[i] = q[k] => i = k
      /\ \A i \in 1 .. n : q[i] # c
  BY DEF Chain, Elements
<1>2. r[1] = c /\ 1 \in 1 .. n + 1
  BY DEF Before
<1>3. \A i \in 1 .. n : i + 1 \in 1 .. n + 1 /\ r[i + 1] = q[i]
  BY DEF Before
<1>4. \A i \in 1 .. n + 1 : i = 1 \/ (i - 1 \in 1 .. n /\ (i - 1) + 1 = i)
  OBVIOUS
<1>5. r \in [1 .. n + 1 -> Cells]
  BY <1>1, <1>4 DEF Before
<1> HIDE DEF r
<1>6. \A i \in 1 .. n + 1 : i = 1 \/ r[i] = q[i - 1]
  <2> SUFFICES ASSUME NEW i \in 1 .. n + 1, i # 1 PROVE r[i] = q[i - 1]
    OBVIOUS
  <2> QED BY <1>3, <1>4
<1>7. \A i, k \in 1 .. n + 1 : r[i] = r[k] => i = k
  <2> SUFFICES ASSUME NEW i \in 1 .. n + 1, NEW k \in 1 .. n + 1, r[i] = r[k] PROVE i = k
    OBVIOUS
  <2> QED BY <1>1, <1>2, <1>4, <1>6
<1>8. Elements(n + 1, r) = Elements(n, q) \cup {c}
  <2>1. \A i \in 1 .. n + 1 : r[i] \in Elements(n, q) \cup {c}
    BY <1>2, <1>4, <1>6 DEF Elements
  <2>2. c \in Elements(n + 1, r)
    BY <1>2 DEF Elements
  <2>3. \A i \in 1 .. n : q[i] \in Elements(n + 1, r)
    BY <1>3 DEF Elements
  <2> QED BY <2>1, <2>2, <2>3 DEF Elements
<1>9. ASSUME NEW i \in 1 .. n + 1 PROVE nxt[r[i]] = At(n + 1, r, i + 1)
  <2>1. CASE i = 1
    <3>1. nxt[r[i]] = At(n, q, 1)
      BY <1>1, <1>2, <2>1 DEF Put
    <3>2. CASE 1 \in 1 .. n
      <4>1. 1 + 1 \in 1 .. n + 1 /\ r[1 + 1] = q[1]
        BY <1>3, <3>2
      <4> QED BY <2>1, <3>1, <3>2, <4>1 DEF At
    <3>3. CASE 1 \notin 1 .. n
      <4>1. 1 + 1 \notin 1 .. n + 1
        BY <3>3
      <4> QED BY <2>1, <3>1, <3>3, <4>1 DEF At
    <3> QED BY <3>2, <3>3
  <2>2. CASE i # 1
    <3>1. PICK k \in 1 .. n : i = k + 1 /\ r[i] = q[k]
      BY <1>4, <1>6, <2>2
    <3>2. nxt[r[i]] = At(n, q, k + 1)
      BY <1>1, <3>1 DEF Put
    <3>3. CASE k + 1 \in 1 .. n
      <4>1. (k + 1) + 1 \in 1 .. n + 1 /\ r[(k + 1) + 1] = q[k + 1]
        BY <1>3, <3>3
      <4> QED BY <3>1, <3>2, <3>3, <4>1 DEF At
    <3>4. CASE k + 1 \notin 1 .. n
      <4>1. (k + 1) + 1 \notin 1 .. n + 1
        BY <3>4
      <4> QED BY <3>1, <3>2, <3>4, <4>1 DEF At
    <3> QED BY <3>3, <3>4
  <2> QED BY <2>1, <2>2
<1>10. c = At(n + 1, r, 1)
  BY <1>2 DEF At
<1>11. Chain(nxt, n + 1, r, c)
  BY <1>5, <1>7, <1>9, <1>10 DEF Chain
<1> DEFINE m == n + 1
<1>12. m \in Nat /\ Chain(nxt, m, r, c) /\ r \in [1 .. m -> Cells] /\ Elements(m, r) = Elements(n, q) \cup {c}
  BY <1>5, <1>8, <1>11
<1> HIDE DEF m
<1>13. m \in Lists
  BY <1>12, Fits
<1> QED BY <1>12, <1>13

\* ENDGAME goes on with the list behind the head.
LEMMA HeadUnlinked ==
  ASSUME NEW n \in Nat, NEW q, NEW nx \in [Cells -> CellOrNull], NEW head \in Cells,
         Chain(nx, n, q, head)
  PROVE  \E m \in Lists : \E r \in [1 .. m -> Cells] :
           /\ Chain(Put(nx, head, Null), m, r, nx[head])
           /\ Elements(m, r) = Elements(n, q) \ {head}
<1>1. PICK j \in 1 .. n : j = 1 /\ q[j] = head
  BY GameAssumption DEF Chain, At
<1> DEFINE nxt == Relinked(nx, n, q, head, j)
           r == Without(n, q, j)
<1>2. nxt = Put(nx, head, Null)
  BY <1>1 DEF Relinked, Put
<1>3. /\ Chain(nxt, n - 1, r, IF q[j] = head THEN nx[q[j]] ELSE head)
      /\ Elements(n - 1, r) = Elements(n, q) \ {q[j]}
  BY Unlinked
<1> HIDE DEF r, nxt
<1>4. Chain(nxt, n - 1, r, nx[head]) /\ Elements(n - 1, r) = Elements(n, q) \ {head}
  BY <1>1, <1>3
<1>5. n - 1 \in Lists
  BY <1>1, <1>4, Fits
<1>6. r \in [1 .. n - 1 -> Cells]
  BY <1>4 DEF Chain
<1> QED BY <1>2, <1>4, <1>5, <1>6

-----------------------------------------------------------------------------
(* The tasklet's way along the list. *)

ListTypes ==
  /\ mp1_missile_list \in CellOrNull /\ next \in [Cells -> CellOrNull]
  /\ alloc \subseteq Cells /\ bad \in BOOLEAN
  /\ edx \in CellOrNull /\ edi \in CellOrNull /\ running \in BOOLEAN

\* The tasklet goes on to the next missile, or stops.
LEMMA AdvanceOK ==
  ASSUME TypeOK, InMemory, Control, running, Advance(edx, next),
         UNCHANGED <<list, alloc, bad, process>>
  PROVE  ListTypes' /\ InMemory' /\ Control'
<1>1. edx \in Cells /\ edx # Null
  BY GameAssumption DEF Control
<1>2. /\ edx' = next[edx]
      /\ edi' = IF next[edx] = Null THEN Null ELSE edx
      /\ running' = (next[edx] # Null)
  BY <1>1 DEF Advance
<1>3. UNCHANGED <<mp1_missile_list, next, alloc, bad, pc, back, cell, esi>>
  BY DEF list, process
<1>4. Held' = Held
  BY <1>3 DEF Held
<1>5. ListTypes'
  BY <1>1, <1>2, <1>3 DEF TypeOK, ListTypes, CellOrNull
<1>6. Control'
  <2>1. running' => edx' \in Cells
    BY <1>2, <1>5 DEF ListTypes, CellOrNull
  <2> QED BY <1>3, <2>1 DEF Control, Ending
<1>7. CASE bad
  BY <1>3, <1>5, <1>6, <1>7 DEF InMemory
<1>8. CASE ~bad /\ pc = "unlinked"
  <2>1. RestUnlinked
    BY <1>8 DEF InMemory
  <2>2. ~running'
    BY <1>2, <2>1 DEF RestUnlinked
  <2>3. RestUnlinked'
    BY <1>3, <2>1, <2>2 DEF RestUnlinked
  <2> QED BY <1>3, <1>5, <1>6, <1>8, <2>3 DEF InMemory
<1>9. CASE ~bad /\ pc = "freed"
  BY <1>9 DEF InMemory, RestFreed
<1>10. CASE ~bad /\ pc \notin {"unlinked", "freed"}
  <2>0. PICK n \in Lists : \E q \in [1 .. n -> Cells] :
          Chain(next, n, q, mp1_missile_list) /\ Elements(n, q) = alloc \ Held /\ Walking(n, q)
    BY <1>10 DEF InMemory, WholeList
  <2>1. PICK q \in [1 .. n -> Cells] :
          Chain(next, n, q, mp1_missile_list) /\ Elements(n, q) = alloc \ Held /\ Walking(n, q)
    BY <2>0
  <2>2. PICK j \in 1 .. n : edx = q[j]
    BY <2>1 DEF Walking
  <2>3. n \in Nat
    BY NthSteps DEF Lists
  <2>4. next[edx] = At(n, q, j + 1)
    BY <2>1, <2>2 DEF Chain
  <2>5. Walking(n, q)'
    <3> SUFFICES ASSUME running' PROVE \E k \in 1 .. n : edx' = q[k] /\ edi' = At(n, q, k - 1)
      BY DEF Walking
    <3>1. next[edx] # Null
      BY <1>2
    <3>2. j + 1 \in 1 .. n /\ edx' = q[j + 1]
      BY <1>2, <2>4, <3>1 DEF At
    <3>3. (j + 1) - 1 = j /\ edi' = At(n, q, j)
      BY <1>2, <2>2, <2>3, <3>1 DEF At
    <3> QED BY <3>2, <3>3
  <2>6. WholeList'
    BY <1>3, <1>4, <2>1, <2>5 DEF WholeList
  <2> QED BY <1>3, <1>5, <1>6, <1>10, <2>6 DEF InMemory
<1> QED BY <1>7, <1>8, <1>9, <1>10

\* The tasklet removes the missile it is at, and goes on behind the next one.
LEMMA RemoveOK ==
  ASSUME TypeOK, InMemory, Control, running, Remove, UNCHANGED process
  PROVE  ListTypes' /\ InMemory' /\ Control'
<1> DEFINE nxt == IF edx = mp1_missile_list
                  THEN [next EXCEPT ![edx] = Null]
                  ELSE [next EXCEPT ![edi] = next[edx], ![edx] = Null]
<1>1. edx \in Cells /\ edx # Null /\ next[edx] \in CellOrNull /\ pc \in Window
  BY GameAssumption DEF Control, TypeOK
<1>2. /\ next' = nxt
      /\ mp1_missile_list' = IF edx = mp1_missile_list THEN next[edx] ELSE mp1_missile_list
      /\ alloc' = alloc \ {edx}
      /\ bad' = (bad \/ edx \notin alloc \/ edi \notin alloc \cup {Null})
      /\ Advance(next[edx], nxt)
  BY DEF Remove
<1>3. UNCHANGED <<pc, back, cell, esi>> /\ Held' = Held
  BY DEF process, Held
<1>4. nxt \in [Cells -> CellOrNull]
  BY <1>1 DEF TypeOK, CellOrNull
<1> HIDE DEF nxt
<1>5. /\ edx' = IF next[edx] = Null THEN Null ELSE nxt[next[edx]]
      /\ edi' = IF edx' = Null THEN Null ELSE next[edx]
      /\ running' = (edx' # Null)
  BY <1>2 DEF Advance
<1>6. ListTypes'
  <2>1. edx' \in CellOrNull /\ edi' \in CellOrNull /\ running' \in BOOLEAN
    BY <1>1, <1>4, <1>5 DEF CellOrNull
  <2>2. bad' \in BOOLEAN
    BY <1>2
  <2> QED BY <1>1, <1>2, <1>4, <2>1, <2>2 DEF TypeOK, ListTypes
<1>7. Ending' <=> Ending
  BY <1>3 DEF Ending
<1>8. running' => pc' \in Window /\ edx' \in Cells
  BY <1>1, <1>3, <1>5, <1>6 DEF ListTypes, CellOrNull
<1>9. pc' # "endLoop"
  BY <1>1, <1>3 DEF Window, Handling
<1>10. CASE bad
  <2>1. bad' /\ Ending /\ pc # "addCopy"
    BY <1>2, <1>10 DEF Control, Ending
  <2> QED BY <1>3, <1>6, <1>7, <1>8, <1>9, <2>1 DEF Control, InMemory
<1>11. CASE ~bad /\ pc = "unlinked"
  <2>1. RestUnlinked
    BY <1>11 DEF InMemory
  <2>2. /\ cell \in alloc /\ edx = cell /\ edi = Null /\ next[cell] = Null /\ mp1_missile_list = cell
    BY <2>1 DEF RestUnlinked
  <2>3. ~bad' /\ ~running' /\ mp1_missile_list' = Null /\ cell \notin alloc'
    BY <1>2, <1>5, <1>11, <2>2
  <2>4. next' = next
    BY <1>2, <2>2 DEF nxt, TypeOK
  <2>5. RestUnlinked'
    <3>0. PICK n \in Lists : \E q \in [1 .. n -> Cells] :
            Chain(next, n, q, esi) /\ Elements(n, q) = alloc \ {cell}
      BY <2>1 DEF RestUnlinked
    <3>1. PICK q \in [1 .. n -> Cells] :
            Chain(next, n, q, esi) /\ Elements(n, q) = alloc \ {cell}
      BY <3>0
    <3>2. Elements(n, q) = alloc' \ {cell'}
      BY <1>2, <1>3, <2>2, <3>1
    <3> QED BY <1>3, <2>2, <2>3, <2>4, <3>1, <3>2 DEF RestUnlinked
  <2>6. Control'
    BY <1>3, <1>7, <1>8, <1>11, <2>3 DEF Control
  <2> QED BY <1>3, <1>6, <1>11, <2>5, <2>6 DEF InMemory
<1>12. CASE ~bad /\ pc = "freed"
  BY <1>12 DEF InMemory, RestFreed
<1>13. CASE ~bad /\ pc \notin {"unlinked", "freed"}
  <2>0. PICK n \in Lists : \E q \in [1 .. n -> Cells] :
          Chain(next, n, q, mp1_missile_list) /\ Elements(n, q) = alloc \ Held /\ Walking(n, q)
    BY <1>13 DEF InMemory, WholeList
  <2>1. PICK q \in [1 .. n -> Cells] :
          Chain(next, n, q, mp1_missile_list) /\ Elements(n, q) = alloc \ Held /\ Walking(n, q)
    BY <2>0
  <2>2. PICK j \in 1 .. n : edx = q[j] /\ edi = At(n, q, j - 1)
    BY <2>1 DEF Walking
  <2>3. n \in Nat /\ next \in [Cells -> CellOrNull]
    BY NthSteps DEF Lists, TypeOK
  <2> DEFINE r == Without(n, q, j)
  <2>4. edx \in alloc \ Held
    BY <2>1, <2>2 DEF Elements
  <2>5. edi \in alloc \cup {Null}
    BY <2>1, <2>2 DEF Elements, At
  <2>6. ~bad'
    BY <1>2, <1>13, <2>4, <2>5
  <2>7. nxt = Relinked(next, n, q, mp1_missile_list, j)
    BY <2>2 DEF nxt, Relinked
  <2>8. /\ Chain(nxt, n - 1, r, IF q[j] = mp1_missile_list THEN next[q[j]] ELSE mp1_missile_list)
        /\ Elements(n - 1, r) = Elements(n, q) \ {q[j]}
        /\ next[q[j]] = At(n - 1, r, j)
    BY <2>1, <2>3, <2>7, Unlinked
  <2> HIDE DEF r
  <2>9. Chain(next', n - 1, r, mp1_missile_list') /\ Elements(n - 1, r) = alloc' \ Held'
    BY <1>2, <1>3, <2>1, <2>2, <2>8
  <2>10. n - 1 \in Lists /\ r \in [1 .. n - 1 -> Cells]
    <3>1. n - 1 \in Nat
      BY <2>3
    <3> QED BY <2>8, <3>1, Fits DEF Chain
  <2>11. Walking(n - 1, r)'
    <3> SUFFICES ASSUME running'
                 PROVE  \E k \in 1 .. n - 1 : edx' = r[k] /\ edi' = At(n - 1, r, k - 1)
      BY DEF Walking
    <3>1. next[edx] # Null /\ edx' = nxt[next[edx]] /\ edx' # Null /\ edi' = next[edx]
      BY <1>5
    <3>2. j \in 1 .. n - 1 /\ next[edx] = r[j]
      BY <2>2, <2>8, <3>1 DEF At
    <3>3. nxt[r[j]] = At(n - 1, r, j + 1)
      BY <2>8, <3>2 DEF Chain
    <3>4. j + 1 \in 1 .. n - 1 /\ edx' = r[j + 1]
      BY <3>1, <3>2, <3>3 DEF At
    <3>5. (j + 1) - 1 = j /\ edi' = At(n - 1, r, j)
      BY <2>3, <3>1, <3>2 DEF At
    <3> QED BY <3>4, <3>5
  <2>12. WholeList'
    BY <2>9, <2>10, <2>11 DEF WholeList
  <2>13. pc' = "addCopy" => cell' \in alloc' /\ back' \in {"loop", "inject"}
    BY <1>2, <1>3, <2>4 DEF Control, Held
  <2>14. Control'
    BY <1>3, <1>8, <1>9, <1>13, <2>6, <2>13 DEF Control
  <2> QED BY <1>3, <1>6, <1>13, <2>12, <2>14 DEF InMemory
<1> QED BY <1>10, <1>11, <1>12, <1>13

\* A clock tick finds the list in order, except inside ENDGAME.
LEMMA StartOK ==
  ASSUME IInv, TaskletStart PROVE IInv'
<1>1. /\ UNCHANGED <<mp1_missile_list, next, missile, alloc, base_alive, mp1_score, arrived, pc, back,
                     cell, esi, status_word, quit, pie, sigusr1, score, bases_left, missed, enemies, shots>>
      /\ ~running /\ pc \in Window /\ mp1_missile_list # Null /\ edi' = Null
  BY DEF TaskletStart, list, game, process, user, counts
<1>2. TypeOK /\ InMemory /\ Control /\ Counted /\ Notified
  BY DEF IInv
<1>3. mp1_missile_list \in Cells
  BY <1>1, <1>2 DEF TypeOK, CellOrNull
<1>4. Held' = Held /\ Flying' = Flying /\ StatusWord' = StatusWord /\ (Ending' <=> Ending) /\ (Known' <=> Known)
  BY <1>1 DEF Held, Flying, StatusWord, Ending, Known
<1>5. Counted' /\ Notified'
  BY <1>1, <1>2, <1>4 DEF Counted, Notified
<1>6. CASE mp1_missile_list \in alloc
  <2>1. running' = TRUE /\ edx' = mp1_missile_list /\ bad' = bad
    BY <1>6 DEF TaskletStart
  <2>2. TypeOK'
    BY <1>1, <1>2, <1>3, <2>1 DEF TypeOK, CellOrNull
  <2>3. Control'
    BY <1>1, <1>2, <1>3, <1>4, <2>1 DEF Control
  <2>4. InMemory'
    <3>1. CASE bad
      BY <2>1, <3>1 DEF InMemory
    <3>2. CASE ~bad /\ pc = "unlinked"
      <4>1. RestUnlinked
        BY <1>2, <3>2 DEF InMemory
      <4>2. RestUnlinked'
        BY <1>1, <2>1, <4>1 DEF RestUnlinked
      <4> QED BY <1>1, <3>2, <4>2 DEF InMemory
    <3>3. CASE ~bad /\ pc = "freed"
      BY <1>2, <1>6, <3>3 DEF InMemory, RestFreed
    <3>4. CASE ~bad /\ pc \notin {"unlinked", "freed"}
      <4>1. PICK n \in Lists : \E q \in [1 .. n -> Cells] :
              Chain(next, n, q, mp1_missile_list) /\ Elements(n, q) = alloc \ Held
        BY <1>2, <3>4 DEF InMemory, WholeList
      <4>2. PICK q \in [1 .. n -> Cells] :
              Chain(next, n, q, mp1_missile_list) /\ Elements(n, q) = alloc \ Held
        BY <4>1
      <4>3. 1 \in 1 .. n /\ mp1_missile_list = q[1]
        BY <1>1, <4>2 DEF Chain, At
      <4>4. At(n, q, 1 - 1) = Null
        BY DEF At
      <4>5. Walking(n, q)'
        BY <1>1, <2>1, <4>3, <4>4 DEF Walking
      <4>6. WholeList'
        BY <1>1, <1>4, <4>2, <4>5 DEF WholeList
      <4> QED BY <1>1, <3>4, <4>6 DEF InMemory
    <3> QED BY <3>1, <3>2, <3>3, <3>4
  <2> QED BY <1>5, <2>2, <2>3, <2>4 DEF IInv
<1>7. CASE mp1_missile_list \notin alloc
  <2>1. bad' = TRUE /\ UNCHANGED <<running, edx>>
    BY <1>7 DEF TaskletStart
  <2>2. Ending
    <3>1. CASE bad \/ pc \in {"unlinked", "freed"}
      BY <1>2, <3>1 DEF Control, Ending
    <3>2. CASE ~bad /\ pc \notin {"unlinked", "freed"}
      <4>1. PICK n \in Lists : \E q \in [1 .. n -> Cells] :
              Chain(next, n, q, mp1_missile_list) /\ Elements(n, q) = alloc \ Held
        BY <1>2, <3>2 DEF InMemory, WholeList
      <4>2. PICK q \in [1 .. n -> Cells] :
              Chain(next, n, q, mp1_missile_list) /\ Elements(n, q) = alloc \ Held
        BY <4>1
      <4>3. mp1_missile_list \in Elements(n, q)
        BY <1>1, <4>2 DEF Chain, At, Elements
      <4> QED BY <1>7, <4>2, <4>3
    <3> QED BY <3>1, <3>2
  <2>3. TypeOK' /\ InMemory' /\ Control'
    BY <1>1, <1>2, <1>4, <2>1, <2>2 DEF TypeOK, InMemory, Control, CellOrNull
  <2> QED BY <1>5, <2>3 DEF IInv
<1> QED BY <1>6, <1>7

\* The tasklet never sees a missile that is not yet in the list.
LEMMA ListedFree ==
  ASSUME IInv PROVE Listed \subseteq Cells \ Held
<1>1. Listed \subseteq Cells
  BY ListedCells DEF IInv
<1>2. CASE pc = "addCopy"
  <2>1. ~bad
    BY <1>2 DEF IInv, Control, Ending
  <2>2. PICK n \in Lists : \E q \in [1 .. n -> Cells] :
          Chain(next, n, q, mp1_missile_list) /\ Elements(n, q) = alloc \ Held
    BY <1>2, <2>1 DEF IInv, InMemory, WholeList
  <2>3. PICK q \in [1 .. n -> Cells] :
          Chain(next, n, q, mp1_missile_list) /\ Elements(n, q) = alloc \ Held
    BY <2>2
  <2>4. Listed = Elements(n, q)
    BY <2>3, ListedElements
  <2> QED BY <1>1, <2>3, <2>4
<1>3. CASE pc # "addCopy"
  BY <1>1, <1>3 DEF Held
<1> QED BY <1>2, <1>3

\* Nor does it walk to one.
LEMMA WalkFree ==
  ASSUME IInv, running PROVE edx \in Cells \ Held
<1>1. edx \in Cells
  BY DEF IInv, Control
<1>2. CASE pc = "addCopy"
  <2>1. ~bad
    BY <1>2 DEF IInv, Control, Ending
  <2>2. PICK n \in Lists : \E q \in [1 .. n -> Cells] : Elements(n, q) = alloc \ Held /\ Walking(n, q)
    BY <1>2, <2>1 DEF IInv, InMemory, WholeList
  <2>3. PICK q \in [1 .. n -> Cells] : Elements(n, q) = alloc \ Held /\ Walking(n, q)
    BY <2>2
  <2>4. edx \in Elements(n, q)
    BY <2>3 DEF Walking, Elements
  <2> QED BY <1>1, <2>3, <2>4
<1>3. CASE pc # "addCopy"
  BY <1>1, <1>3 DEF Held
<1> QED BY <1>2, <1>3

\* What is left of a missile that was freed.
LEMMA ScrapType == Scrap \in Missile /\ ~Enemy(Scrap) /\ Scrap.exploded = 0
<1>1. 0 \in 0 .. Explosion /\ 0 \in 0 .. MaxFlight /\ 0 \in Bases
  BY GameAssumption DEF Bases
<1> QED BY <1>1 DEF Scrap, Fresh, Missile, Enemy

\* An exploding missile counts down.
LEMMA CountedDown ==
  ASSUME NEW m \in Missile, NEW l \in 0 .. Explosion
  PROVE  /\ [m EXCEPT !.exploded = l] \in Missile
         /\ [m EXCEPT !.exploded = l].c = m.c
         /\ [m EXCEPT !.exploded = l].exploded = l
BY DEF Missile

\* A missile that is destroyed, or has arrived, starts to explode.
LEMMA Exploded ==
  ASSUME NEW m \in Missile, NEW b \in BOOLEAN
  PROVE  /\ [m EXCEPT !.exploded = Explosion, !.over = b] \in Missile
         /\ [m EXCEPT !.exploded = Explosion, !.over = b].c = m.c
         /\ [m EXCEPT !.exploded = Explosion, !.over = b].exploded = Explosion
         /\ Explosion > 1
<1>1. Explosion \in 0 .. Explosion /\ Explosion > 1
  BY GameAssumption
<1> QED BY <1>1 DEF Missile

\* An explosion at edx: what it destroys was in flight and is counted, and
\* the user is notified of every change.
LEMMA ExplodeOK ==
  ASSUME IInv, running, NEW m \in Missile, m.exploded > 0, m.c = missile[edx].c,
         NEW hit, NEW low, Explode(m, hit, low),
         arrived' = IF edx \in Flying THEN arrived + 1 ELSE arrived,
         Enemy(missile[edx]) /\ edx \in Flying => hit = {},
         UNCHANGED <<process, user, counts>>
  PROVE  IInv'
<1> DEFINE left == m.exploded - 1
           kills == Enemy(m) /\ m.over /\ base_alive[m.base]
<1>1. TypeOK /\ InMemory /\ Control /\ Counted /\ Notified
  BY DEF IInv
<1>2. UNCHANGED <<pc, back, cell, esi, status_word, quit, pie, score, bases_left, missed, enemies, shots>>
  BY DEF process, user, counts
<1>3. edx \in Cells \ Held /\ missile \in [Cells -> Missile]
  BY <1>1, WalkFree DEF TypeOK
<1>4. /\ hit \subseteq Targets \ {edx}
      /\ missile' = [i \in Cells |->
           CASE i = edx   -> IF left = 0 THEN Scrap ELSE [m EXCEPT !.exploded = left]
             [] i \in hit -> [missile[i] EXCEPT !.exploded = Explosion, !.over = i \in low]
             [] OTHER     -> missile[i]]
      /\ mp1_score' = mp1_score + Cardinality(hit)
      /\ base_alive' = IF kills THEN [base_alive EXCEPT ![m.base] = FALSE] ELSE base_alive
      /\ sigusr1' = (sigusr1 \/ kills \/ hit # {})
  BY DEF Explode
<1>5. left = 0 => Remove
  BY DEF Explode
<1>6. left # 0 => Advance(edx, next) /\ UNCHANGED <<list, alloc, bad>>
  BY DEF Explode
<1>7. m.exploded \in 1 .. Explosion /\ left \in 0 .. Explosion /\ Explosion \in Nat /\ Explosion > 1
  BY GameAssumption DEF Missile
<1> HIDE DEF left, kills
<1>8. ListTypes' /\ InMemory' /\ Control'
  <2>1. CASE left = 0
    BY <1>1, <1>5, <2>1, RemoveOK
  <2>2. CASE left # 0
    BY <1>1, <1>6, <2>2, AdvanceOK
  <2> QED BY <2>1, <2>2
<1>9. hit \subseteq Flying \ {edx}
  BY <1>4, ListedFree DEF Targets, Flying
<1>10. Held' = Held /\ (Ending' <=> Ending)
  BY <1>2 DEF Held, Ending
<1>11. /\ missile'[edx] = IF left = 0 THEN Scrap ELSE [m EXCEPT !.exploded = left]
       /\ \A i \in hit : missile'[i] = [missile[i] EXCEPT !.exploded = Explosion, !.over = i \in low]
       /\ \A i \in Cells \ (hit \cup {edx}) : missile'[i] = missile[i]
  BY <1>3, <1>4, <1>9 DEF Flying
<1>12. /\ missile'[edx] \in Missile
       /\ Enemy(missile'[edx]) => Enemy(missile[edx]) /\ missile'[edx].exploded # 0
  <2>1. CASE left = 0
    BY <1>11, <2>1, ScrapType
  <2>2. CASE left # 0
    <3>1. missile'[edx] = [m EXCEPT !.exploded = left]
      BY <1>11, <2>2
    <3>2. missile'[edx] \in Missile /\ missile'[edx].c = m.c /\ missile'[edx].exploded = left
      BY <1>7, <3>1, CountedDown
    <3> QED BY <2>2, <3>2 DEF Enemy
  <2> QED BY <2>1, <2>2
<1>13. \A i \in hit : missile'[i] \in Missile /\ missile'[i].c = missile[i].c /\ missile'[i].exploded # 0
  <2> SUFFICES ASSUME NEW i \in hit
               PROVE  missile'[i] \in Missile /\ missile'[i].c = missile[i].c /\ missile'[i].exploded # 0
    OBVIOUS
  <2>1. missile[i] \in Missile
    BY <1>3, <1>9 DEF Flying
  <2>2. missile'[i] = [missile[i] EXCEPT !.exploded = Explosion, !.over = i \in low]
    BY <1>11
  <2> DEFINE o == missile[i]
             b == i \in low
  <2>3. o \in Missile /\ b \in BOOLEAN /\ missile'[i] = [o EXCEPT !.exploded = Explosion, !.over = b]
    BY <2>1, <2>2
  <2> HIDE DEF o, b
  <2>4. missile'[i] \in Missile /\ missile'[i].c = o.c /\ missile'[i].exploded = Explosion
    BY <2>3, Exploded
  <2> QED BY <1>7, <2>4 DEF o
<1>14. missile' \in [Cells -> Missile]
  <2>1. \A i \in Cells : missile'[i] \in Missile
    BY <1>3, <1>11, <1>12, <1>13
  <2>2. missile' = [i \in Cells |-> missile'[i]]
    BY <1>4
  <2> QED BY <2>1, <2>2
<1>15. Flying' = (Flying \ {edx}) \ hit
  <2>1. ASSUME NEW i \in Cells \ Held
        PROVE  i \in Flying' <=> i \in (Flying \ {edx}) \ hit
    <3>1. i \in Flying' <=> Enemy(missile'[i]) /\ missile'[i].exploded = 0
      BY <1>10, <2>1 DEF Flying, Enemy
    <3>2. i \in Flying <=> Enemy(missile[i]) /\ missile[i].exploded = 0
      BY <2>1 DEF Flying
    <3>3. CASE i = edx
      BY <1>12, <3>1, <3>3
    <3>4. CASE i \in hit
      BY <1>13, <3>1, <3>4
    <3>5. CASE i \notin hit \cup {edx}
      BY <1>11, <3>1, <3>2, <3>5
    <3> QED BY <3>3, <3>4, <3>5
  <2>2. Flying' \subseteq Cells \ Held
    BY <1>10 DEF Flying
  <2> QED BY <2>1, <2>2 DEF Flying
<1>16. /\ IsFiniteSet(Flying) /\ IsFiniteSet(hit) /\ Cardinality(Flying) \in Nat /\ Cardinality(hit) \in Nat
       /\ Cardinality(Flying') = (IF edx \in Flying THEN Cardinality(Flying) - 1 ELSE Cardinality(Flying))
                                   - Cardinality(hit)
  <2>1. IsFiniteSet(Flying)
    BY FS_Subset, GameAssumption DEF Flying
  <2>2. IsFiniteSet(hit)
    BY <1>9, <2>1, FS_Subset
  <2>3. IsFiniteSet(Flying \ {edx}) /\ Cardinality(Flying \ {edx})
          = IF edx \in Flying THEN Cardinality(Flying) - 1 ELSE Cardinality(Flying)
    BY <2>1, FS_RemoveElement
  <2>4. (Flying \ {edx}) \cap hit = hit
    BY <1>9
  <2>5. Cardinality((Flying \ {edx}) \ hit) = Cardinality(Flying \ {edx}) - Cardinality(hit)
    <3> DEFINE F == Flying \ {edx}
    <3>1. IsFiniteSet(F) /\ F \cap hit = hit
      BY <2>3, <2>4
    <3> HIDE DEF F
    <3>2. Cardinality(F \ hit) = Cardinality(F) - Cardinality(F \cap hit)
      BY <2>2, <3>1, FS_Difference
    <3>3. Cardinality(F \ hit) = Cardinality(F) - Cardinality(hit)
      BY <3>1, <3>2
    <3> QED BY <3>3 DEF F
  <2>6. Cardinality(Flying) \in Nat /\ Cardinality(hit) \in Nat
    BY <2>1, <2>2, FS_CardinalityType
  <2> QED BY <1>15, <2>1, <2>2, <2>3, <2>5, <2>6
<1>17. mp1_score \in Nat /\ arrived \in Nat /\ enemies \in Nat
  BY <1>1 DEF TypeOK
<1>18. mp1_score' + arrived' + Cardinality(Flying') = mp1_score + arrived + Cardinality(Flying)
  <2> DEFINE f == Cardinality(Flying)
             g == Cardinality(Flying')
             h == Cardinality(hit)
  <2>1. f \in Nat /\ h \in Nat /\ g = (IF edx \in Flying THEN f - 1 ELSE f) - h
    BY <1>16
  <2>2. mp1_score' = mp1_score + h
    BY <1>4
  <2> HIDE DEF f, g, h
  <2>3. mp1_score' + arrived' + g = mp1_score + arrived + f
    BY <1>17, <2>1, <2>2
  <2> QED BY <2>3 DEF f, g
<1>19. \A i \in Cells : Enemy(missile'[i]) => Enemy(missile[i])
  BY <1>11, <1>12, <1>13 DEF Enemy
<1>20. Counted'
  <2>1. \A c \in Cells \ alloc' : ~Enemy(missile'[c])
    <3>1. CASE left = 0
      <4>1. alloc' = alloc \ {edx}
        BY <1>5, <3>1 DEF Remove
      <4>2. ~Enemy(missile'[edx])
        BY <1>11, <3>1, ScrapType
      <4> QED BY <1>1, <1>19, <4>1, <4>2 DEF Counted
    <3>2. CASE left # 0
      BY <1>1, <1>6, <1>19, <3>2 DEF Counted
    <3> QED BY <3>1, <3>2
  <2>2. pc = "addCopy" => cell \in Cells
    BY <1>1 DEF Control, TypeOK
  <2>3. pc' = "addCopy" => /\ missile'[cell'].exploded = 0
                           /\ Enemy(missile'[cell']) => enemies' < MaxEnemies
    <3>1. pc = "addCopy" => cell \in Held /\ cell \notin hit \cup {edx}
      BY <1>3, <1>9 DEF Held, Flying
    <3>2. pc = "addCopy" => missile'[cell] = missile[cell]
      BY <1>11, <2>2, <3>1
    <3> QED BY <1>1, <1>2, <3>2 DEF Counted
  <2>4. /\ mp1_score' + arrived' + Cardinality(Flying') <= enemies'
        /\ ~Ending' => mp1_score' + arrived' + Cardinality(Flying') = enemies'
        /\ enemies' <= MaxEnemies
    BY <1>1, <1>2, <1>10, <1>18 DEF Counted
  <2> QED BY <2>1, <2>3, <2>4 DEF Counted, Enemy
<1>21. Notified'
  <2>1. CASE sigusr1'
    BY <2>1 DEF Notified
  <2>2. CASE ~sigusr1'
    <3>1. ~sigusr1 /\ ~kills /\ hit = {}
      BY <1>4, <2>2
    <3>2. base_alive' = base_alive
      BY <1>4, <3>1
    <3>3. mp1_score' = mp1_score
      BY <1>4, <1>17, <3>1, FS_EmptySet
    <3>4. StatusWord' = StatusWord /\ (Known' <=> Known)
      BY <1>2, <3>2, <3>3 DEF StatusWord, Known
    <3> QED BY <1>1, <1>2, <3>1, <3>4 DEF Notified
  <2> QED BY <2>1, <2>2
<1>22. TypeOK'
  <2>1. mp1_score' \in Nat /\ arrived' \in Nat
    <3> DEFINE h == Cardinality(hit)
    <3>1. h \in Nat /\ mp1_score' = mp1_score + h
      BY <1>4, <1>16
    <3> HIDE DEF h
    <3> QED BY <1>17, <3>1
  <2>2. base_alive' \in [Bases -> BOOLEAN]
    BY <1>1, <1>4 DEF TypeOK
  <2>3. sigusr1' \in BOOLEAN
    BY <1>4
  <2> QED BY <1>1, <1>2, <1>8, <1>14, <2>1, <2>2, <2>3 DEF TypeOK, ListTypes
<1> QED BY <1>8, <1>20, <1>21, <1>22 DEF IInv

\* The visit of a missile by the tasklet.
LEMMA VisitOK ==
  ASSUME IInv,
         VisitMoving \/ \E hit, low : VisitExploded(hit, low) \/ VisitArrived(hit, low)
  PROVE  IInv'
<1>1. TypeOK /\ InMemory /\ Control /\ Counted /\ Notified
  BY DEF IInv
<1>2. running => edx \in Cells \ Held /\ missile \in [Cells -> Missile] /\ missile[edx] \in Missile
  BY <1>1, WalkFree DEF TypeOK
<1>3. ASSUME NEW hit, NEW low, VisitExploded(hit, low) PROVE IInv'
  <2>1. /\ running /\ missile[edx].exploded > 0 /\ Explode(missile[edx], hit, low)
        /\ UNCHANGED <<process, user, counts>> /\ arrived' = arrived
    BY <1>3 DEF VisitExploded
  <2>2. edx \notin Flying
    BY <2>1 DEF Flying
  <2> QED BY <1>2, <2>1, <2>2, ExplodeOK
<1>4. ASSUME NEW hit, NEW low, VisitArrived(hit, low) PROVE IInv'
  <2> DEFINE m == [missile[edx] EXCEPT !.exploded = Explosion, !.over = TRUE]
  <2>1. /\ running /\ missile[edx].exploded = 0 /\ Explode(m, hit, low)
        /\ arrived' = IF Enemy(missile[edx]) THEN arrived + 1 ELSE arrived
        /\ UNCHANGED <<process, user, counts>>
    BY <1>4 DEF VisitArrived
  <2>2. edx \in Flying <=> Enemy(missile[edx])
    BY <1>2, <2>1 DEF Flying
  <2>3. m \in Missile /\ m.exploded > 0 /\ m.c = missile[edx].c
    <3> DEFINE o == missile[edx]
               b == TRUE
    <3>1. o \in Missile /\ b \in BOOLEAN /\ m = [o EXCEPT !.exploded = Explosion, !.over = b]
      BY <1>2, <2>1
    <3> HIDE DEF o, b, m
    <3>2. m \in Missile /\ m.c = o.c /\ m.exploded = Explosion /\ Explosion > 1
      BY <3>1, Exploded
    <3> QED BY <3>2, GameAssumption DEF o
  <2>4. Enemy(missile[edx]) => hit = {}
    BY <2>1, <2>3 DEF Explode, Enemy
  <2> HIDE DEF m
  <2> QED BY <2>1, <2>2, <2>3, <2>4, ExplodeOK
<1>5. CASE VisitMoving
  <2>1. running /\ missile[edx].togo > 0 /\ Advance(edx, next)
    BY <1>5 DEF VisitMoving
  <2>2. /\ UNCHANGED <<mp1_missile_list, next, alloc, bad, base_alive, mp1_score, arrived, pc, back, cell,
                       esi, status_word, quit, pie, sigusr1, score, bases_left, missed, enemies, shots>>
        /\ UNCHANGED <<list, alloc, bad, process>>
    BY <1>5 DEF VisitMoving, list, game, process, user, counts
  <2>3. missile' = [missile EXCEPT ![edx] = [missile[edx] EXCEPT !.togo = missile[edx].togo - 1]]
    BY <1>5 DEF VisitMoving
  <2>4. [missile[edx] EXCEPT !.togo = missile[edx].togo - 1] \in Missile
    BY <1>2, <2>1, GameAssumption DEF Missile
  <2>5. missile' \in [Cells -> Missile]
    BY <1>2, <2>1, <2>3, <2>4
  <2>6. \A i \in Cells : missile'[i].c = missile[i].c /\ missile'[i].exploded = missile[i].exploded
    BY <1>2, <2>1, <2>3 DEF Missile
  <2>7. ListTypes' /\ InMemory' /\ Control'
    BY <1>1, <2>1, <2>2, AdvanceOK
  <2>8. Held' = Held /\ (Ending' <=> Ending) /\ StatusWord' = StatusWord /\ (Known' <=> Known)
    BY <2>2 DEF Held, Ending, StatusWord, Known
  <2>9. Flying' = Flying
    BY <2>6, <2>8 DEF Flying, Enemy
  <2>10. Counted'
    <3>1. pc = "addCopy" => cell \in Cells
      BY <1>1 DEF Control, TypeOK
    <3>2. \A c \in Cells : Enemy(missile[c])' <=> Enemy(missile[c])
      BY <2>6 DEF Enemy
    <3>3. (\A c \in Cells \ alloc : ~Enemy(missile[c]))'
      BY <1>1, <2>2, <2>6 DEF Counted, Enemy
    <3>4. (pc = "addCopy" => /\ missile[cell].exploded = 0
                             /\ Enemy(missile[cell]) => enemies < MaxEnemies)'
      BY <1>1, <2>2, <2>6, <3>1 DEF Counted, Enemy
    <3> QED BY <1>1, <2>2, <2>8, <2>9, <3>3, <3>4 DEF Counted
  <2>11. Notified'
    BY <1>1, <2>2, <2>8 DEF Notified
  <2>12. TypeOK'
    BY <1>1, <2>2, <2>5, <2>7 DEF TypeOK, ListTypes
  <2> QED BY <2>7, <2>10, <2>11, <2>12 DEF IInv
<1> QED BY <1>3, <1>4, <1>5

-----------------------------------------------------------------------------
(* The steps of the process. *)

\* A step that leaves what the process knows alone.
LEMMA StillNotified ==
  ASSUME Notified, UNCHANGED <<sigusr1, score, bases_left, missed, mp1_score, base_alive>>,
         pc \notin Handling, pc' \notin Handling
  PROVE  Notified'
<1>1. Known' <=> Known
  BY DEF Known, StatusWord
<1> QED BY <1>1 DEF Notified, Handling

\* A step that leaves the list alone.
LEMMA QuietOK ==
  ASSUME IInv, TypeOK', Notified', ~running,
         UNCHANGED <<list, heap, game, tasklet, enemies>>,
         pc \notin {"addCopy", "unlinked", "freed"}, pc' \notin {"addCopy", "unlinked", "freed"},
         Ending => Ending', pc' = "endLoop" => cell' = mp1_missile_list
  PROVE  IInv'
<1>1. TypeOK /\ InMemory /\ Control /\ Counted
  BY DEF IInv
<1>2. UNCHANGED <<mp1_missile_list, next, missile, alloc, bad, mp1_score, arrived, edx, edi, running>>
  BY DEF list, heap, game, tasklet
<1>3. Held = {} /\ Held' = {}
  BY DEF Held
<1>4. Flying' = Flying
  BY <1>2, <1>3 DEF Flying
<1>5. Counted'
  BY <1>1, <1>2, <1>4 DEF Counted
<1>6. Control'
  BY <1>1, <1>2 DEF Control
<1>7. InMemory'
  <2>1. CASE bad
    BY <1>2, <2>1 DEF InMemory
  <2>2. CASE ~bad
    <3>1. PICK n \in Lists : \E q \in [1 .. n -> Cells] :
            Chain(next, n, q, mp1_missile_list) /\ Elements(n, q) = alloc \ Held
      BY <1>1, <2>2 DEF InMemory, WholeList
    <3>2. PICK q \in [1 .. n -> Cells] :
            Chain(next, n, q, mp1_missile_list) /\ Elements(n, q) = alloc \ Held
      BY <3>1
    <3>3. Walking(n, q)'
      BY <1>2 DEF Walking
    <3>4. WholeList'
      BY <1>2, <1>3, <3>2, <3>3 DEF WholeList
    <3> QED BY <3>4 DEF InMemory
  <2> QED BY <2>1, <2>2
<1> QED BY <1>5, <1>6, <1>7 DEF IInv

\* A missile is made: it has a cell of its own and is in no list yet.
LEMMA AddCallOK ==
  ASSUME IInv, NEW c \in Cells, NEW m \in Missile, AddCall(c, m), ~running,
         pc \in {"loop", "inject"}, pc' = "addCopy", back' \in {"loop", "inject"},
         UNCHANGED enemies, shots' \in Nat, m.exploded = 0, Enemy(m) => enemies < MaxEnemies
  PROVE  IInv'
<1>1. TypeOK /\ InMemory /\ Control /\ Counted /\ Notified
  BY DEF IInv
<1>2. /\ c \notin alloc /\ alloc' = alloc \cup {c} /\ missile' = [missile EXCEPT ![c] = m] /\ cell' = c
      /\ UNCHANGED <<mp1_missile_list, next, bad, base_alive, mp1_score, arrived, edx, edi, running,
                     esi, status_word, quit, pie, sigusr1, score, bases_left, missed>>
  BY DEF AddCall, list, game, tasklet, user
<1>3. Held = {} /\ Held' = {c}
  BY <1>2 DEF Held
<1>4. ~Ending /\ ~Ending' /\ ~bad
  BY <1>1 DEF Ending, Control, Handling
<1>5. missile' \in [Cells -> Missile] /\ missile'[c] = m /\ \A i \in Cells \ {c} : missile'[i] = missile[i]
  BY <1>1, <1>2 DEF TypeOK
<1>6. Flying' = Flying
  <2>1. ~Enemy(missile[c])
    BY <1>1, <1>2 DEF Counted
  <2> QED BY <1>3, <1>5, <2>1 DEF Flying, Enemy
<1>7. TypeOK'
  BY <1>1, <1>2, <1>5 DEF TypeOK, CellOrNull, UserMode, Label, Window
<1>8. Control'
  BY <1>2, <1>4, <1>5 DEF Control
<1>9. Counted'
  <2>1. \A i \in Cells \ alloc' : ~Enemy(missile'[i])
    BY <1>1, <1>2, <1>5 DEF Counted
  <2>2. missile'[cell'] = m
    BY <1>2, <1>5
  <2>3. /\ mp1_score' + arrived' + Cardinality(Flying') <= enemies'
        /\ mp1_score' + arrived' + Cardinality(Flying') = enemies'
        /\ enemies' <= MaxEnemies
    BY <1>1, <1>2, <1>4, <1>6 DEF Counted
  <2> QED BY <2>1, <2>2, <2>3 DEF Counted, Enemy
<1>10. Notified'
  BY <1>1, <1>2, StillNotified DEF Handling
<1>11. InMemory'
  <2>1. PICK n \in Lists : \E q \in [1 .. n -> Cells] :
          Chain(next, n, q, mp1_missile_list) /\ Elements(n, q) = alloc \ Held
    BY <1>1, <1>4 DEF InMemory, WholeList
  <2>2. PICK q \in [1 .. n -> Cells] :
          Chain(next, n, q, mp1_missile_list) /\ Elements(n, q) = alloc \ Held
    BY <2>1
  <2>3. Walking(n, q)'
    BY <1>2 DEF Walking
  <2>4. Elements(n, q) = alloc' \ Held'
    BY <1>2, <1>3, <2>2
  <2>5. WholeList'
    BY <1>2, <2>2, <2>3, <2>4 DEF WholeList
  <2> QED BY <2>5 DEF InMemory
<1> QED BY <1>7, <1>8, <1>9, <1>10, <1>11 DEF IInv

\* The copy is done: the missile becomes the head of the list.
LEMMA AddLinkOK ==
  ASSUME IInv, AddLink PROVE IInv'
<1>1. TypeOK /\ InMemory /\ Control /\ Counted /\ Notified
  BY DEF IInv
<1>2. /\ ~running /\ pc = "addCopy" /\ pc' = back
      /\ next' = [next EXCEPT ![cell] = mp1_missile_list] /\ mp1_missile_list' = cell /\ cell' = Null
      /\ enemies' = IF Enemy(missile[cell]) THEN enemies + 1 ELSE enemies
      /\ UNCHANGED <<missile, alloc, bad, base_alive, mp1_score, arrived, edx, edi, running, back,
                     esi, status_word, quit, pie, sigusr1, score, bases_left, missed, shots>>
  BY DEF AddLink, Step, heap, game, tasklet, user
<1>3. cell \in alloc /\ cell \in Cells /\ back \in {"loop", "inject"}
  BY <1>1, <1>2 DEF Control, TypeOK
<1>4. Held = {cell} /\ Held' = {} /\ ~Ending /\ ~Ending' /\ ~bad
  BY <1>1, <1>2, <1>3 DEF Held, Ending, Control
<1>5. enemies \in Nat /\ mp1_score \in Nat /\ arrived \in Nat
  BY <1>1 DEF TypeOK
<1>6. TypeOK'
  <2>1. enemies' \in Nat
    BY <1>2, <1>5
  <2>2. next' \in [Cells -> CellOrNull]
    BY <1>1, <1>2, <1>3 DEF TypeOK, CellOrNull
  <2> QED BY <1>1, <1>2, <1>3, <2>1, <2>2 DEF TypeOK, CellOrNull, UserMode, Label, Window
<1>7. Control'
  BY <1>2, <1>3, <1>4 DEF Control
<1>8. Notified'
  BY <1>1, <1>2, <1>3, StillNotified DEF Handling, UserMode
<1>9. InMemory'
  <2>1. PICK n \in Lists : \E q \in [1 .. n -> Cells] :
          Chain(next, n, q, mp1_missile_list) /\ Elements(n, q) = alloc \ Held
    BY <1>1, <1>2, <1>4 DEF InMemory, WholeList
  <2>2. PICK q \in [1 .. n -> Cells] :
          Chain(next, n, q, mp1_missile_list) /\ Elements(n, q) = alloc \ Held
    BY <2>1
  <2>3. n \in Nat /\ next \in [Cells -> CellOrNull] /\ cell \in Cells \ Elements(n, q)
    BY <1>1, <1>3, <1>4, <2>2, NthSteps DEF TypeOK, Lists
  <2>4. next' = Put(next, cell, mp1_missile_list)
    BY <1>2 DEF Put
  <2>5. PICK m \in Lists : \E r \in [1 .. m -> Cells] :
          /\ Chain(Put(next, cell, mp1_missile_list), m, r, cell)
          /\ Elements(m, r) = Elements(n, q) \cup {cell}
    BY <2>2, <2>3, Linked
  <2>6. PICK r \in [1 .. m -> Cells] :
          /\ Chain(Put(next, cell, mp1_missile_list), m, r, cell)
          /\ Elements(m, r) = Elements(n, q) \cup {cell}
    BY <2>5
  <2>7. Chain(next', m, r, mp1_missile_list') /\ Elements(m, r) = alloc' \ Held'
    BY <1>2, <1>3, <1>4, <2>2, <2>4, <2>6
  <2>8. Walking(m, r)'
    BY <1>2 DEF Walking
  <2>9. WholeList'
    BY <2>7, <2>8 DEF WholeList
  <2> QED BY <1>2, <1>3, <2>9 DEF InMemory
<1>10. Counted'
  <2>1. missile[cell].exploded = 0 /\ (Enemy(missile[cell]) => enemies < MaxEnemies)
    BY <1>1, <1>2 DEF Counted
  <2>2. IsFiniteSet(Flying) /\ cell \notin Flying
    BY <1>4, FS_Subset, GameAssumption DEF Flying
  <2>3. Cardinality(Flying) \in Nat
    BY <2>2, FS_CardinalityType
  <2>4. mp1_score + arrived + Cardinality(Flying) = enemies /\ enemies <= MaxEnemies
    BY <1>1, <1>4 DEF Counted
  <2>5. \A i \in Cells \ alloc' : ~Enemy(missile'[i])
    BY <1>1, <1>2 DEF Counted
  <2>6. CASE Enemy(missile[cell])
    <3>1. Flying' = Flying \cup {cell}
      BY <1>2, <1>3, <1>4, <2>1, <2>6 DEF Flying, Enemy
    <3>2. Cardinality(Flying') = Cardinality(Flying) + 1
      BY <2>2, <3>1, FS_AddElement
    <3>3. /\ mp1_score' + arrived' + Cardinality(Flying') = enemies'
          /\ enemies' <= MaxEnemies /\ enemies' \in Nat
      BY <1>2, <1>5, <2>1, <2>3, <2>4, <2>6, <3>2, GameAssumption
    <3>4. mp1_score' + arrived' + Cardinality(Flying') <= enemies'
      BY <3>3
    <3> QED BY <1>2, <1>3, <2>5, <3>3, <3>4 DEF Counted, Enemy
  <2>7. CASE ~Enemy(missile[cell])
    <3>1. Flying' = Flying
      BY <1>2, <1>3, <1>4, <2>7 DEF Flying, Enemy
    <3>2. /\ mp1_score' + arrived' + Cardinality(Flying') = enemies'
          /\ enemies' <= MaxEnemies /\ enemies' \in Nat
      BY <1>2, <1>5, <2>4, <2>7, <3>1
    <3>3. mp1_score' + arrived' + Cardinality(Flying') <= enemies'
      BY <3>2
    <3> QED BY <1>2, <1>3, <2>5, <3>2, <3>3 DEF Counted, Enemy
  <2> QED BY <2>6, <2>7
<1> QED BY <1>6, <1>7, <1>8, <1>9, <1>10 DEF IInv

\* The copy failed: the missile is freed again.
LEMMA AddFailsOK ==
  ASSUME IInv, AddFails PROVE IInv'
<1>1. TypeOK /\ InMemory /\ Control /\ Counted /\ Notified
  BY DEF IInv
<1>2. /\ ~running /\ pc = "addCopy" /\ pc' = back
      /\ alloc' = alloc \ {cell} /\ missile' = [missile EXCEPT ![cell] = Scrap] /\ cell' = Null
      /\ UNCHANGED <<mp1_missile_list, next, bad, base_alive, mp1_score, arrived, edx, edi, running, back,
                     esi, status_word, quit, pie, sigusr1, score, bases_left, missed, enemies, shots>>
  BY DEF AddFails, Step, list, game, tasklet, user, counts
<1>3. cell \in alloc /\ cell \in Cells /\ back \in {"loop", "inject"}
  BY <1>1, <1>2 DEF Control, TypeOK
<1>4. Held = {cell} /\ Held' = {} /\ ~Ending /\ ~Ending' /\ ~bad
  BY <1>1, <1>2, <1>3 DEF Held, Ending, Control
<1>5. missile' \in [Cells -> Missile] /\ missile'[cell] = Scrap /\ \A i \in Cells \ {cell} : missile'[i] = missile[i]
  BY <1>1, <1>2, <1>3, ScrapType DEF TypeOK
<1>6. TypeOK'
  BY <1>1, <1>2, <1>3, <1>5 DEF TypeOK, CellOrNull, UserMode, Label, Window
<1>7. Control'
  BY <1>2, <1>3, <1>4 DEF Control
<1>8. Notified'
  BY <1>1, <1>2, <1>3, StillNotified DEF Handling, UserMode
<1>9. Flying' = Flying
  <2>1. ~Enemy(missile'[cell])
    BY <1>5, ScrapType
  <2> QED BY <1>4, <1>5, <2>1 DEF Flying, Enemy
<1>10. Counted'
  <2>1. \A i \in Cells \ alloc' : ~Enemy(missile'[i])
    <3>1. ~Enemy(missile'[cell])
      BY <1>5, ScrapType
    <3> QED BY <1>1, <1>2, <1>5, <3>1 DEF Counted
  <2> QED BY <1>1, <1>2, <1>3, <1>4, <1>9, <2>1 DEF Counted, Enemy
<1>11. InMemory'
  <2>1. PICK n \in Lists : \E q \in [1 .. n -> Cells] :
          Chain(next, n, q, mp1_missile_list) /\ Elements(n, q) = alloc \ Held
    BY <1>1, <1>2, <1>4 DEF InMemory, WholeList
  <2>2. PICK q \in [1 .. n -> Cells] :
          Chain(next, n, q, mp1_missile_list) /\ Elements(n, q) = alloc \ Held
    BY <2>1
  <2>3. Walking(n, q)'
    BY <1>2 DEF Walking
  <2>4. Elements(n, q) = alloc' \ Held'
    BY <1>2, <1>4, <2>2
  <2>5. WholeList'
    BY <1>2, <2>2, <2>3, <2>4 DEF WholeList
  <2> QED BY <1>2, <1>3, <2>5 DEF InMemory
<1> QED BY <1>6, <1>7, <1>8, <1>10, <1>11 DEF IInv

\* The status word.
Word(x, y, z, s) == (4 * x + 2 * y + z) * 2^17 + s

\* The process tells the score from the status word.
LEMMA StatusBits ==
  ASSUME NEW x \in {0, 1}, NEW y \in {0, 1}, NEW z \in {0, 1}, NEW s \in 0 .. 2^16 - 1
  PROVE  Word(x, y, z, s) % 2^16 = s
<1>1. 2^16 = 65536 /\ 2^17 = 2 * 65536
  OBVIOUS
<1> DEFINE n == 2 * (4 * x + 2 * y + z)
<1>2. n \in Nat /\ s \in Nat /\ s < 65536 /\ Word(x, y, z, s) = n * 65536 + s
  BY <1>1 DEF Word
<1> HIDE DEF n
<1>3. (n * 65536 + s) % 65536 = s
  BY <1>2
<1> QED BY <1>1, <1>2, <1>3

\* sigusr1_handler.
LEMMA HandlerOK ==
  ASSUME IInv, sigusr1_handler PROVE IInv'
<1>1. TypeOK /\ InMemory /\ Control /\ Counted /\ Notified
  BY DEF IInv
<1>2. CASE HandlerEnter
  <2>1. /\ ~running /\ sigusr1 /\ pc \in UserMode /\ sigusr1' = FALSE /\ pc' = "statusMalloc" /\ back' = pc
        /\ UNCHANGED <<list, heap, game, tasklet, cell, esi, status_word, quit, pie, user, counts>>
    BY <1>2 DEF HandlerEnter
  <2>2. TypeOK'
    BY <1>1, <2>1 DEF TypeOK, list, heap, game, tasklet, user, counts, Label, Window, UserMode, Handling
  <2>3. Notified'
    BY <2>1 DEF Notified
  <2>4. Ending => Ending'
    BY <2>1 DEF Ending, UserMode, Handling
  <2> QED BY <2>1, <2>2, <2>3, <2>4, QuietOK DEF UserMode, counts
<1>3. CASE StatusRead
  <2>1. /\ ~running /\ pc = "statusMalloc" /\ pc' = "statusCopy" /\ status_word' = StatusWord
        /\ UNCHANGED <<list, heap, game, tasklet, back, cell, esi, quit, pie, sigusr1, user, counts>>
    BY <1>3 DEF StatusRead, Step
  <2>2. status_word' \in Nat
    <3>1. \A b \in BOOLEAN : Bit(b) \in Nat
      BY DEF Bit
    <3>2. Bit(base_alive[0]) \in Nat /\ Bit(base_alive[1]) \in Nat /\ Bit(base_alive[2]) \in Nat /\ mp1_score \in Nat
      BY <1>1, <3>1 DEF TypeOK, Bases
    <3>3. 2^17 \in Nat
      OBVIOUS
    <3> QED BY <2>1, <3>2, <3>3 DEF StatusWord
  <2>3. TypeOK'
    BY <1>1, <2>1, <2>2 DEF TypeOK, list, heap, game, tasklet, user, counts, Label, Window, UserMode, Handling
  <2>4. StatusWord' = StatusWord
    BY <2>1 DEF StatusWord, game
  <2>5. Notified'
    BY <2>1, <2>4 DEF Notified
  <2>6. Ending => Ending'
    BY <2>1 DEF Ending, Handling
  <2> QED BY <2>1, <2>3, <2>5, <2>6, QuietOK DEF counts
<1>4. CASE \E done \in BOOLEAN : StatusCopied(done)
  <2>1. /\ ~running /\ pc = "statusCopy" /\ pc' \in {"statusFree", "statusFailed"}
        /\ UNCHANGED <<list, heap, game, tasklet, back, cell, esi, status_word, quit, pie, sigusr1, user,
                       counts>>
    BY <1>4 DEF StatusCopied, Step
  <2>2. TypeOK'
    BY <1>1, <2>1 DEF TypeOK, list, heap, game, tasklet, user, counts, Label, Window, Handling
  <2>3. StatusWord' = StatusWord
    BY <2>1 DEF StatusWord, game
  <2>4. Notified'
    BY <1>1, <2>1, <2>3 DEF Notified, Handling
  <2>5. Ending => Ending'
    BY <2>1 DEF Ending, Handling
  <2> QED BY <2>1, <2>2, <2>4, <2>5, QuietOK DEF counts
<1>5. CASE (\E zero \in BOOLEAN : StatusReturned(zero)) \/ StatusFailed
  <2>1. /\ ~running /\ pc \in {"statusFree", "statusFailed"} /\ pc' = back /\ status_word' = 0
        /\ missed' \in BOOLEAN
        /\ \/ ~missed' /\ pc = "statusFree" /\ score' = ScoreOf(status_word)
             /\ bases_left' = BasesOf(status_word)
           \/ missed' /\ UNCHANGED <<score, bases_left>>
        /\ UNCHANGED <<list, heap, game, tasklet, back, cell, esi, quit, pie, sigusr1, counts>>
    BY <1>5 DEF StatusReturned, StatusFailed, Step
  <2>2. back \in UserMode /\ status_word \in Nat /\ mp1_score \in Nat /\ base_alive \in [Bases -> BOOLEAN]
    BY <1>1 DEF TypeOK
  <2>3. score' \in Nat /\ bases_left' \in 0 .. 3
    <3>1. 2^16 = 65536 /\ 2^17 = 131072 /\ 2^18 = 262144
      OBVIOUS
    <3>2. BitOf(status_word, 16) \in 0 .. 1 /\ BitOf(status_word, 17) \in 0 .. 1 /\ BitOf(status_word, 18) \in 0 .. 1
      BY <2>2, <3>1 DEF BitOf
    <3>3. ScoreOf(status_word) \in Nat /\ BasesOf(status_word) \in 0 .. 3
      BY <2>2, <3>1, <3>2 DEF ScoreOf, BasesOf
    <3>4. score \in Nat /\ bases_left \in 0 .. 3
      BY <1>1 DEF TypeOK
    <3> QED BY <2>1, <3>3, <3>4
  <2>4. TypeOK'
    BY <1>1, <2>1, <2>2, <2>3 DEF TypeOK, list, heap, game, tasklet, counts, Label, Window, UserMode
  <2>5. Ending => Ending'
    BY <2>1, <2>2 DEF Ending, UserMode, Handling
  <2>6. Notified'
    <3> SUFFICES ASSUME MaxEnemies < 2^16, ~sigusr1, ~missed' PROVE Known'
      BY <2>1, <2>2 DEF Notified, Known, UserMode, Handling
    <3>1. pc = "statusFree" /\ status_word = StatusWord
      BY <1>1, <2>1 DEF Notified, Handling
    <3>2. mp1_score \in 0 .. 2^16 - 1
      <4>1. IsFiniteSet(Flying)
        BY FS_Subset, GameAssumption DEF Flying
      <4>2. Cardinality(Flying) \in Nat
        BY <4>1, FS_CardinalityType
      <4>3. mp1_score + arrived + Cardinality(Flying) <= enemies /\ enemies <= MaxEnemies
        BY <1>1 DEF Counted
      <4>4. arrived \in Nat /\ enemies \in Nat /\ MaxEnemies \in Nat /\ 2^16 = 65536
        BY <1>1, GameAssumption DEF TypeOK
      <4> HIDE DEF Flying
      <4> QED BY <2>2, <4>2, <4>3, <4>4
    <3> DEFINE x == Bit(base_alive[0])
               y == Bit(base_alive[1])
               z == Bit(base_alive[2])
    <3>3. x \in {0, 1} /\ y \in {0, 1} /\ z \in {0, 1}
      BY <2>2 DEF Bit
    <3>4. status_word = Word(x, y, z, mp1_score)
      BY <3>1 DEF StatusWord, Word
    <3>5. StatusWord' = StatusWord /\ mp1_score' = mp1_score
      BY <2>1 DEF StatusWord, game
    <3> HIDE DEF x, y, z
    <3>6. ScoreOf(status_word) = mp1_score
      BY <3>2, <3>3, <3>4, StatusBits DEF ScoreOf
    <3> QED BY <2>1, <3>1, <3>5, <3>6 DEF Known
  <2> QED BY <2>1, <2>2, <2>4, <2>5, <2>6, QuietOK DEF UserMode, counts
<1> QED BY <1>2, <1>3, <1>4, <1>5 DEF sigusr1_handler

\* ENDGAME, for one missile: NEXT is cleared,
LEMMA EndUnlinkOK ==
  ASSUME IInv, EndUnlink PROVE IInv'
<1>1. TypeOK /\ InMemory /\ Control /\ Counted /\ Notified
  BY DEF IInv
<1>2. /\ ~running /\ pc = "endLoop" /\ pc' = "unlinked" /\ cell # Null /\ esi' = next[cell]
      /\ next' = [next EXCEPT ![cell] = Null]
      /\ UNCHANGED <<mp1_missile_list, missile, alloc, bad, base_alive, mp1_score, arrived, edx, edi, running,
                     back, cell, status_word, quit, pie, sigusr1, score, bases_left, missed, enemies, shots>>
  BY DEF EndUnlink, Step, heap, game, tasklet, user, counts
<1>3. cell = mp1_missile_list /\ cell \in Cells
  BY <1>1, <1>2 DEF Control, TypeOK, CellOrNull
<1>4. Held = {} /\ Held' = {} /\ Ending /\ Ending'
  BY <1>2 DEF Held, Ending
<1>5. TypeOK'
  BY <1>1, <1>2, <1>3 DEF TypeOK, CellOrNull, Label, Window
<1>6. Control'
  BY <1>1, <1>2, <1>3, <1>4 DEF Control
<1>7. Notified'
  BY <1>1, <1>2, StillNotified DEF Handling
<1>8. Flying' = Flying
  BY <1>2, <1>4 DEF Flying
<1>9. Counted'
  BY <1>1, <1>2, <1>4, <1>8 DEF Counted
<1>10. InMemory'
  <2>1. CASE bad
    BY <1>2, <2>1 DEF InMemory
  <2>2. CASE ~bad
    <3>1. PICK n \in Lists : \E q \in [1 .. n -> Cells] :
            Chain(next, n, q, mp1_missile_list) /\ Elements(n, q) = alloc \ Held
      BY <1>1, <1>2, <2>2 DEF InMemory, WholeList
    <3>2. PICK q \in [1 .. n -> Cells] :
            Chain(next, n, q, mp1_missile_list) /\ Elements(n, q) = alloc \ Held
      BY <3>1
    <3>3. n \in Nat /\ next \in [Cells -> CellOrNull]
      BY <1>1, NthSteps DEF TypeOK, Lists
    <3>4. next' = Put(next, mp1_missile_list, Null) /\ esi' = next[mp1_missile_list]
      BY <1>2, <1>3 DEF Put
    <3>5. PICK m \in Lists : \E r \in [1 .. m -> Cells] :
            /\ Chain(Put(next, mp1_missile_list, Null), m, r, next[mp1_missile_list])
            /\ Elements(m, r) = Elements(n, q) \ {mp1_missile_list}
      BY <1>3, <3>2, <3>3, HeadUnlinked
    <3>6. PICK r \in [1 .. m -> Cells] :
            /\ Chain(Put(next, mp1_missile_list, Null), m, r, next[mp1_missile_list])
            /\ Elements(m, r) = Elements(n, q) \ {mp1_missile_list}
      BY <3>5
    <3>7. Chain(next', m, r, esi') /\ Elements(m, r) = alloc' \ {cell'}
      BY <1>2, <1>3, <1>4, <3>2, <3>4, <3>6
    <3>8. cell \in alloc
      BY <1>2, <1>3, <1>4, <3>2 DEF Chain, At, Elements
    <3>9. next'[cell'] = Null
      BY <1>1, <1>2, <1>3 DEF TypeOK
    <3>10. RestUnlinked'
      BY <1>2, <1>3, <3>7, <3>8, <3>9 DEF RestUnlinked
    <3> QED BY <1>2, <3>10 DEF InMemory
  <2> QED BY <2>1, <2>2
<1> QED BY <1>5, <1>6, <1>7, <1>9, <1>10 DEF IInv

\* the missile is freed (once: a tasklet in the window may have done it),
LEMMA EndFreeOK ==
  ASSUME IInv, EndFree PROVE IInv'
<1>1. TypeOK /\ InMemory /\ Control /\ Counted /\ Notified
  BY DEF IInv
<1>2. /\ ~running /\ pc = "unlinked" /\ pc' = "freed"
      /\ alloc' = alloc \ {cell} /\ missile' = [missile EXCEPT ![cell] = Scrap]
      /\ bad' = (bad \/ cell \notin alloc)
      /\ UNCHANGED <<mp1_missile_list, next, base_alive, mp1_score, arrived, edx, edi, running, back, cell, esi,
                     status_word, quit, pie, sigusr1, score, bases_left, missed, enemies, shots>>
  BY DEF EndFree, Step, list, game, tasklet, user, counts
<1>3. cell \in Cells
  BY <1>1, <1>2 DEF Control
<1>4. Held = {} /\ Held' = {} /\ Ending /\ Ending'
  BY <1>2 DEF Held, Ending
<1>5. missile' \in [Cells -> Missile] /\ missile'[cell] = Scrap /\ \A i \in Cells \ {cell} : missile'[i] = missile[i]
  BY <1>1, <1>2, <1>3, ScrapType DEF TypeOK
<1>6. TypeOK'
  BY <1>1, <1>2, <1>5 DEF TypeOK, Label, Window
<1>7. Control'
  BY <1>2, <1>3, <1>4 DEF Control
<1>8. Notified'
  BY <1>1, <1>2, StillNotified DEF Handling
<1>9. ~Enemy(missile'[cell])
  BY <1>5, ScrapType
<1>10. Counted'
  <2>1. Flying' \subseteq Flying
    BY <1>4, <1>5, <1>9 DEF Flying, Enemy
  <2>2. IsFiniteSet(Flying)
    BY FS_Subset, GameAssumption DEF Flying
  <2>3. IsFiniteSet(Flying') /\ Cardinality(Flying') <= Cardinality(Flying)
    BY <2>1, <2>2, FS_Subset
  <2>4. Cardinality(Flying) \in Nat /\ Cardinality(Flying') \in Nat
    BY <2>2, <2>3, FS_CardinalityType
  <2>5. mp1_score + arrived + Cardinality(Flying) <= enemies
    BY <1>1 DEF Counted
  <2>6. mp1_score \in Nat /\ arrived \in Nat /\ enemies \in Nat
    BY <1>1 DEF TypeOK
  <2>7. mp1_score' + arrived' + Cardinality(Flying') <= enemies'
    <3> DEFINE f == Cardinality(Flying)
               g == Cardinality(Flying')
    <3>1. f \in Nat /\ g \in Nat /\ g <= f /\ mp1_score + arrived + f <= enemies
      BY <2>3, <2>4, <2>5
    <3> HIDE DEF f, g
    <3>2. mp1_score' + arrived' + g <= enemies'
      BY <1>2, <2>6, <3>1
    <3> QED BY <3>2 DEF g
  <2>8. \A i \in Cells \ alloc' : ~Enemy(missile'[i])
    BY <1>1, <1>2, <1>5, <1>9 DEF Counted
  <2> QED BY <1>1, <1>2, <1>4, <2>7, <2>8 DEF Counted, Enemy
<1>11. InMemory'
  <2>1. CASE bad'
    BY <2>1 DEF InMemory
  <2>2. CASE ~bad'
    <3>1. ~bad /\ cell \in alloc
      BY <1>2, <2>2
    <3>2. RestUnlinked
      BY <1>1, <1>2, <3>1 DEF InMemory
    <3>3. RestFreed'
      BY <1>2, <3>1, <3>2 DEF RestUnlinked, RestFreed
    <3> QED BY <1>2, <3>3 DEF InMemory
  <2> QED BY <2>1, <2>2
<1> QED BY <1>6, <1>7, <1>8, <1>10, <1>11 DEF IInv

\* and the head moves on.
LEMMA EndHeadOK ==
  ASSUME IInv, EndHead PROVE IInv'
<1>1. TypeOK /\ InMemory /\ Control /\ Counted /\ Notified
  BY DEF IInv
<1>2. /\ ~running /\ pc = "freed" /\ pc' = "endLoop"
      /\ mp1_missile_list' = esi /\ cell' = esi /\ esi' = Null
      /\ UNCHANGED <<next, missile, alloc, bad, base_alive, mp1_score, arrived, edx, edi, running, back,
                     status_word, quit, pie, sigusr1, score, bases_left, missed, enemies, shots>>
  BY DEF EndHead, Step, heap, game, tasklet, user, counts
<1>3. Held = {} /\ Held' = {} /\ Ending /\ Ending'
  BY <1>2 DEF Held, Ending
<1>4. TypeOK'
  BY <1>1, <1>2 DEF TypeOK, CellOrNull, Label
<1>5. Control'
  BY <1>1, <1>2, <1>3 DEF Control
<1>6. Notified'
  BY <1>1, <1>2, StillNotified DEF Handling
<1>7. Flying' = Flying
  BY <1>2, <1>3 DEF Flying
<1>8. Counted'
  BY <1>1, <1>2, <1>3, <1>7 DEF Counted
<1>9. InMemory'
  <2>1. CASE bad
    BY <1>2, <2>1 DEF InMemory
  <2>2. CASE ~bad
    <3>1. RestFreed
      BY <1>1, <1>2, <2>2 DEF InMemory
    <3>2. PICK n \in Lists : \E q \in [1 .. n -> Cells] : Chain(next, n, q, esi) /\ Elements(n, q) = alloc
      BY <3>1 DEF RestFreed
    <3>3. PICK q \in [1 .. n -> Cells] : Chain(next, n, q, esi) /\ Elements(n, q) = alloc
      BY <3>2
    <3>4. Walking(n, q)'
      BY <1>2 DEF Walking
    <3>5. Elements(n, q) = alloc' \ Held'
      BY <1>2, <1>3, <3>3
    <3>6. WholeList'
      BY <1>2, <3>3, <3>4, <3>5 DEF WholeList
    <3> QED BY <1>2, <3>6 DEF InMemory
  <2> QED BY <2>1, <2>2
<1> QED BY <1>4, <1>5, <1>6, <1>8, <1>9 DEF IInv

-----------------------------------------------------------------------------
(* The invariant. *)

\* The main loop and the end of the game.
LEMMA MainOK ==
  ASSUME IInv, main PROVE IInv'
<1>1. TypeOK /\ InMemory /\ Control /\ Counted /\ Notified
  BY DEF IInv
<1>2. ASSUME NEW c \in Cells, NEW k \in 0 .. MaxFlight, Fire(c, k) PROVE IInv'
  <2> DEFINE m == Fresh("*", 0, k)
  <2>1. m \in Missile /\ m.exploded = 0 /\ ~Enemy(m)
    BY GameAssumption DEF Fresh, Missile, Enemy, Bases
  <2> HIDE DEF m
  <2>2. /\ ~running /\ pc = "loop" /\ pc' = "addCopy" /\ back' = "inject" /\ shots' = shots + 1
        /\ AddCall(c, m) /\ UNCHANGED enemies
    BY <1>2 DEF Fire, Step, m
  <2>3. shots' \in Nat
    BY <1>1, <2>2 DEF TypeOK
  <2> QED BY <2>1, <2>2, <2>3, AddCallOK
<1>3. ASSUME NEW c \in Cells, NEW k \in 0 .. MaxFlight, NEW b \in AimedAt, InjectEnemy(c, b, k) PROVE IInv'
  <2> DEFINE m == Fresh("e", b, k)
  <2>1. m \in Missile /\ m.exploded = 0
    BY GameAssumption DEF Fresh, Missile, Bases
  <2> HIDE DEF m
  <2>2. /\ ~running /\ pc = "inject" /\ pc' = "addCopy" /\ back' = "loop" /\ enemies < MaxEnemies
        /\ AddCall(c, m) /\ UNCHANGED <<enemies, shots>>
    BY <1>3 DEF InjectEnemy, Step, counts, m
  <2>3. shots' \in Nat
    BY <1>1, <2>2 DEF TypeOK
  <2> QED BY <2>1, <2>2, <2>3, AddCallOK
<1>4. CASE OtherCommand \/ InjectNone
  <2>1. /\ ~running /\ pc \in {"loop", "inject"} /\ pc' \in {"loop", "inject"}
        /\ UNCHANGED <<list, heap, game, tasklet, back, cell, esi, status_word, quit, pie, sigusr1, user, counts>>
    BY <1>4 DEF OtherCommand, InjectNone, Step
  <2>2. TypeOK'
    BY <1>1, <2>1 DEF TypeOK, list, heap, game, tasklet, user, counts, Label, Window, UserMode
  <2>3. Notified'
    BY <1>1, <2>1, StillNotified DEF game, user, Handling
  <2>4. ~Ending
    BY <2>1 DEF Ending, Handling
  <2> QED BY <2>1, <2>2, <2>3, <2>4, QuietOK DEF counts
<1>5. ASSUME NEW key \in BOOLEAN, LeaveLoop(key) PROVE IInv'
  <2>1. /\ ~running /\ pc = "loop" /\ pc' = "endLoop" /\ quit' = (bases_left # 0) /\ cell' = mp1_missile_list
        /\ UNCHANGED <<list, heap, game, tasklet, back, esi, status_word, pie, sigusr1, user, counts>>
    BY <1>5 DEF LeaveLoop, Step
  <2>2. quit' \in BOOLEAN
    BY <2>1
  <2>3. TypeOK'
    BY <1>1, <2>1, <2>2 DEF TypeOK, list, heap, game, tasklet, user, counts, Label
  <2>4. Notified'
    BY <1>1, <2>1, StillNotified DEF game, user, Handling
  <2>5. ~Ending
    BY <2>1 DEF Ending, Handling
  <2> QED BY <2>1, <2>3, <2>4, <2>5, QuietOK DEF counts
<1>6. CASE EndDone \/ PieOff
  <2>1. /\ ~running /\ pc \in {"endLoop", "ended"} /\ pc' \in {"ended", "over"} /\ pie' \in {pie, FALSE}
        /\ UNCHANGED <<list, heap, game, tasklet, back, cell, esi, status_word, quit, sigusr1, user, counts>>
    BY <1>6 DEF EndDone, PieOff, Step
  <2>2. TypeOK'
    BY <1>1, <2>1 DEF TypeOK, list, heap, game, tasklet, user, counts, Label, Window, UserMode
  <2>3. Notified'
    BY <1>1, <2>1, StillNotified DEF game, user, Handling
  <2>4. Ending'
    BY <2>1 DEF Ending
  <2> QED BY <2>1, <2>2, <2>3, <2>4, QuietOK DEF counts
<1> QED BY <1>2, <1>3, <1>4, <1>5, <1>6, AddLinkOK, AddFailsOK, EndUnlinkOK, EndFreeOK, EndHeadOK DEF main

\* A step that changes nothing.
LEMMA StutterOK ==
  ASSUME IInv, UNCHANGED vars PROVE IInv'
<1>1. UNCHANGED <<mp1_missile_list, next, missile, alloc, bad, base_alive, mp1_score, arrived, edx, edi, running,
                  pc, back, cell, esi, status_word, quit, pie, sigusr1, score, bases_left, missed, enemies, shots>>
  BY DEF vars, list, heap, game, tasklet, process, user, counts
<1>2. Held' = Held /\ (Ending' <=> Ending) /\ StatusWord' = StatusWord /\ (Known' <=> Known)
  BY <1>1 DEF Held, Ending, StatusWord, Known
<1>3. Flying' = Flying
  BY <1>1, <1>2 DEF Flying
<1>4. TypeOK'
  BY <1>1 DEF IInv, TypeOK
<1>5. Control' /\ Counted' /\ Notified'
  BY <1>1, <1>2, <1>3 DEF IInv, Control, Counted, Notified
<1>6. (WholeList' <=> WholeList) /\ (RestUnlinked' <=> RestUnlinked) /\ (RestFreed' <=> RestFreed)
  BY <1>1, <1>2 DEF WholeList, RestUnlinked, RestFreed, Walking
<1>7. InMemory'
  BY <1>1, <1>6 DEF IInv, InMemory
<1> QED BY <1>4, <1>5, <1>7 DEF IInv

\* After STARTGAME the list is empty and the process knows the score.
LEMMA InitOK ==
  ASSUME Init PROVE IInv
<1>1. TypeOK
  <2>1. missile \in [Cells -> Missile]
    BY ScrapType DEF Init
  <2>2. next \in [Cells -> CellOrNull] /\ base_alive \in [Bases -> BOOLEAN]
    BY DEF Init, CellOrNull
  <2>3. {edx, edi, cell, esi} \subseteq CellOrNull /\ mp1_missile_list \in CellOrNull
    BY DEF Init, CellOrNull
  <2>4. pc \in Label /\ back \in UserMode /\ bases_left \in 0 .. 3 /\ alloc \subseteq Cells
    BY DEF Init, Label, Window, UserMode
  <2>5. running \in BOOLEAN /\ quit \in BOOLEAN /\ pie \in BOOLEAN /\ sigusr1 \in BOOLEAN /\ bad \in BOOLEAN
    BY DEF Init
  <2>6. {mp1_score, arrived, status_word, score, enemies, shots} \subseteq Nat
    BY DEF Init
  <2>7. missed \in BOOLEAN
    BY DEF Init
  <2> QED BY <2>1, <2>2, <2>3, <2>4, <2>5, <2>6, <2>7 DEF TypeOK
<1>2. Held = {} /\ \A c \in Cells : ~Enemy(missile[c])
  BY ScrapType DEF Init, Held
<1>3. Flying = {} /\ Cardinality(Flying) = 0
  <2>1. Flying = {}
    BY <1>2 DEF Flying
  <2> QED BY <2>1, FS_EmptySet
<1>4. Counted
  <2>1. mp1_score + arrived + Cardinality(Flying) = 0
    BY <1>3 DEF Init
  <2> QED BY <1>2, <2>1, GameAssumption DEF Init, Counted
<1>5. Control /\ Notified
  BY DEF Init, Control, Notified, Known, Bases, Handling
<1>6. InMemory
  <2> DEFINE q == [i \in 1 .. 0 |-> Null]
  <2>1. 0 \in Lists
    BY NthSteps DEF Lists
  <2>2. q \in [1 .. 0 -> Cells] /\ Elements(0, q) = {} /\ Chain(next, 0, q, Null)
    BY DEF Elements, Chain, At
  <2>3. WholeList
    BY <1>2, <2>1, <2>2 DEF Init, WholeList, Walking
  <2> QED BY <2>3 DEF Init, InMemory
<1> QED BY <1>1, <1>4, <1>5, <1>6 DEF IInv

\* IInv holds in every state of the game.
THEOREM Inductive == Spec => []IInv
<1>1. Init => IInv
  BY InitOK
<1>2. IInv /\ [Next]_vars => IInv'
  <2> SUFFICES ASSUME IInv, [Next]_vars PROVE IInv'
    OBVIOUS
  <2>1. CASE mp1_rtc_tasklet
    BY <2>1, StartOK, VisitOK DEF mp1_rtc_tasklet
  <2> QED BY <2>1, MainOK, HandlerOK, StutterOK DEF Next, Over
<1> QED BY <1>1, <1>2, PTL DEF Spec

\* What IInv says of the list: it ends, and holds every missile in memory but
\* the one that is being added.
LEMMA ListedAlloc ==
  ASSUME IInv, ~bad, pc \notin {"unlinked", "freed"}
  PROVE  Nth[Cardinality(Cells)] = Null /\ Listed = alloc \ Held
<1>1. PICK n \in Lists : \E q \in [1 .. n -> Cells] :
        Chain(next, n, q, mp1_missile_list) /\ Elements(n, q) = alloc \ Held
  BY DEF IInv, InMemory, WholeList
<1>2. PICK q \in [1 .. n -> Cells] :
        Chain(next, n, q, mp1_missile_list) /\ Elements(n, q) = alloc \ Held
  BY <1>1
<1> QED BY <1>2, ListedElements

\* ADDMISSILE and the tasklet's removals keep the list whole: no cycle, no
\* missile lost, none freed while it is listed.
THEOREM ListStaysSound == Spec => []ListSound
<1>1. IInv => ListSound
  <2> SUFFICES ASSUME IInv PROVE ListSound
    OBVIOUS
  <2>1. ASSUME ~bad, pc \notin {"unlinked", "freed"}
        PROVE  Nth[Cardinality(Cells)] = Null /\ Listed = IF pc = "addCopy" THEN alloc \ {cell} ELSE alloc
    BY <2>1, ListedAlloc DEF Held
  <2> QED BY <2>1 DEF IInv, ListSound
<1> QED BY <1>1, Inductive, PTL

\* While the game is on, no freed memory is used: only a tasklet in the
\* windows of ENDGAME can do so.
THEOREM NoUseAfterFree == Spec => []SafeWhilePlaying
<1>1. IInv => SafeWhilePlaying
  BY DEF IInv, Control, SafeWhilePlaying
<1> QED BY <1>1, Inductive, PTL

\* Each enemy launched is scored once, or arrives once, or is still in flight.
THEOREM EachEnemyOnce == Spec => []EnemiesAccounted
<1>1. IInv => EnemiesAccounted
  <2> SUFFICES ASSUME IInv, ~Ending
               PROVE  enemies = mp1_score + arrived
                        + Cardinality({ i \in Listed : Enemy(missile[i]) /\ missile[i].exploded = 0 })
    BY DEF EnemiesAccounted
  <2>1. ~bad /\ pc \notin {"unlinked", "freed"}
    BY DEF IInv, Control, Ending
  <2>2. Listed = alloc \ Held /\ alloc \subseteq Cells
    BY <2>1, ListedAlloc DEF IInv, TypeOK
  <2>3. \A c \in Cells \ alloc : ~Enemy(missile[c])
    BY DEF IInv, Counted
  <2>4. { i \in Listed : Enemy(missile[i]) /\ missile[i].exploded = 0 } = Flying
    BY <2>2, <2>3 DEF Flying
  <2>5. mp1_score + arrived + Cardinality(Flying) = enemies
    BY DEF IInv, Counted
  <2> QED BY <2>4, <2>5
<1> QED BY <1>1, Inductive, PTL

\* With fewer than 2^16 enemies, so that the score fits into its 16 bits of
\* the status word: no notification is lost, whatever the order of clock
\* ticks, signals and system calls, if the last GETSTATUS returned 0.
THEOREM StatusArrives ==
  ASSUME MaxEnemies < 2^16 PROVE Spec => []StatusCurrent
<1>1. IInv => StatusCurrent
  <2> SUFFICES ASSUME IInv, ~sigusr1, pc \in UserMode \cup {"addCopy", "over"} PROVE Known
    BY DEF StatusCurrent, Known
  <2> QED BY DEF IInv, Notified, UserMode, Handling
<1> QED BY <1>1, Inductive, PTL

-----------------------------------------------------------------------------
(* The flight.                                                             *)
(*                                                                         *)
(* A missile on its way has a number of ticks after which it is in the     *)
(* cell it is aimed at.  Each tick takes one off that number, and what     *)
(* lies between two places on the screen is on the screen.  make_missile   *)
(* provides the number: the distance over the speed, rounded; the error    *)
(* of this rounding and those of the root and the quotient stay below      *)
(* half a cell for the speeds the code uses.                               *)

\* Division with its remainder.
LEMMA DivMod ==
  ASSUME NEW n \in Int, NEW d \in Nat \ {0}
  PROVE  n = d * (n \div d) + (n % d) /\ n % d \in 0 .. d - 1 /\ n \div d \in Int
  OBVIOUS

\* What rounding down loses.
LEMMA DivBounds ==
  ASSUME NEW n \in Nat, NEW d \in Nat \ {0}
  PROVE  n \div d \in Nat /\ d * (n \div d) <= n /\ n < d * (n \div d) + d
<1>1. /\ n = d * (n \div d) + (n % d) /\ n % d \in 0 .. d - 1
      /\ n \div d \in Int
  BY DivMod
<1>2. PICK q \in Int : q = n \div d
  BY <1>1
<1>3. q >= 0
  <2>1. ASSUME q <= -1 PROVE FALSE
    <3>1. d * q <= -d
      BY <2>1
    <3> QED BY <3>1, <1>1, <1>2
  <2> QED BY <2>1
<1>4. d * q \in Int
  OBVIOUS
<1> QED BY <1>1, <1>2, <1>3, <1>4

\* An error of at most half of v, taken V times.
LEMMA HalfTimes ==
  ASSUME NEW e \in Int, NEW v \in Nat, NEW V \in Nat, NEW top \in Nat,
         -v <= 2 * e, 2 * e <= v, V <= top
  PROVE  -(v * top) <= 2 * (e * V) /\ 2 * (e * V) <= v * top
<1>1. v * V <= v * top
  OBVIOUS
<1>2. (2 * e) * V <= v * V
  OBVIOUS
<1>3. (-v) * V <= (2 * e) * V
  OBVIOUS
<1>4. (2 * e) * V = 2 * (e * V) /\ (-v) * V = -(v * V)
  OBVIOUS
<1> QED BY <1>1, <1>2, <1>3, <1>4

\* Multiplication and differences.
LEMMA Distributes ==
  \A t, u, w \in Int : t * (u - w) = t * u - t * w /\ (u - w) * t = u * t - w * t
  OBVIOUS

\* After r ticks a missile that covers V of the distance A in each is in the
\* middle of its destination's cell, to less than half a cell.
LEMMA Landing ==
  ASSUME NEW A \in Nat, NEW vel \in Nat \ {0}, NEW mag \in Nat \ {0},
         NEW V \in Nat, NEW r \in Nat, NEW e \in Int, NEW D \in Nat,
         D = A * 65536 * vel, mag * V <= D, D < mag * V + mag,
         vel * r = e + mag, -vel <= 2 * e, 2 * e <= vel,
         256 * A <= mag, 128 * (vel * vel) + mag < 32768 * vel
  PROVE  -32768 < r * V - 65536 * A /\ r * V - 65536 * A < 32768 /\ V <= 256 * vel
<1>1. V <= 256 * vel
  <2> SUFFICES ASSUME V >= 256 * vel + 1 PROVE FALSE
    OBVIOUS
  <2>1. mag * V >= mag * (256 * vel + 1)
    OBVIOUS
  <2>2. mag * (256 * vel + 1) = (256 * vel) * mag + mag
    OBVIOUS
  <2>3. (256 * vel) * mag >= (256 * vel) * (256 * A)
    OBVIOUS
  <2>4. (256 * vel) * (256 * A) = D
    OBVIOUS
  <2>5. mag * V \in Nat /\ (256 * vel) * mag \in Nat
    OBVIOUS
  <2> QED BY <2>1, <2>2, <2>3, <2>4, <2>5
<1>2. -(vel * (256 * vel)) <= 2 * (e * V) /\ 2 * (e * V) <= vel * (256 * vel)
  BY <1>1, HalfTimes
<1>3. vel * (256 * vel) = 2 * (128 * (vel * vel)) /\ vel * vel \in Nat /\ e * V \in Int
  OBVIOUS
<1>4. -(128 * (vel * vel)) <= e * V /\ e * V <= 128 * (vel * vel)
  BY <1>2, <1>3
<1>5. PICK X \in Int : X = r * V - 65536 * A
  OBVIOUS
<1>6. vel * X = e * V + (mag * V - D)
  <2>1. vel * X = vel * (r * V) - vel * (65536 * A)
    <3>1. r * V \in Int /\ 65536 * A \in Int
      OBVIOUS
    <3> QED BY <3>1, <1>5, Distributes
  <2>2. vel * (65536 * A) = D
    OBVIOUS
  <2>3. (vel * r) * V = e * V + mag * V
    OBVIOUS
  <2>4. (vel * r) * V = vel * (r * V)
    OBVIOUS
  <2>5. vel * (r * V) \in Int /\ mag * V \in Int /\ e * V \in Int
    OBVIOUS
  <2> QED BY <2>1, <2>2, <2>3, <2>4, <2>5
<1>7. vel * X < 32768 * vel /\ -(32768 * vel) < vel * X
  <2>1. vel * X \in Int /\ mag * V \in Int
    OBVIOUS
  <2> QED BY <2>1, <1>3, <1>4, <1>6
<1>8. X < 32768
  <2> SUFFICES ASSUME X >= 32768 PROVE FALSE
    OBVIOUS
  <2>1. vel * X >= vel * 32768
    OBVIOUS
  <2> QED BY <2>1, <1>7
<1>9. -32768 < X
  <2> SUFFICES ASSUME X <= -32768 PROVE FALSE
    OBVIOUS
  <2>1. vel * X <= vel * (-32768)
    OBVIOUS
  <2> QED BY <2>1, <1>7
<1> QED BY <1>1, <1>5, <1>8, <1>9

\* The integer square root of n, between l and u.
LEMMA RootExists ==
  ASSUME NEW n \in Nat, NEW l \in Nat, NEW u \in Nat, l * l <= n, n <= u * u
  PROVE  \E r \in l .. u : r * r <= n /\ n < (r + 1) * (r + 1)
<1> DEFINE T == { r \in Nat : n < (r + 1) * (r + 1) }
<1>1. u \in T
  <2>1. (u + 1) * (u + 1) = u * u + 2 * u + 1 /\ u * u \in Nat
    OBVIOUS
  <2> QED BY <2>1
<1>2. T \subseteq Nat /\ T # {}
  BY <1>1
<1>3. PICK r \in T : \A j \in T : r <= j
  <2> HIDE DEF T
  <2> QED BY <1>2, LeastNumber
<1>4. r \in Nat /\ r <= u /\ n < (r + 1) * (r + 1)
  BY <1>1, <1>3
<1>5. r * r <= n
  <2>1. CASE r = 0
    BY <2>1
  <2>2. CASE r # 0
    <3>1. r - 1 \in Nat /\ r - 1 \notin T /\ (r - 1) + 1 = r
      BY <2>2, <1>3, <1>4
    <3>2. ~(n < ((r - 1) + 1) * ((r - 1) + 1))
      BY <3>1
    <3>3. ((r - 1) + 1) * ((r - 1) + 1) = r * r /\ r * r \in Nat
      BY <3>1, <1>4
    <3> QED BY <3>2, <3>3
  <2> QED BY <2>1, <2>2
<1>6. l <= r
  <2> SUFFICES ASSUME r + 1 <= l PROVE FALSE
    BY <1>4
  <2>1. (r + 1) * (r + 1) <= (r + 1) * l
    BY <1>4
  <2>2. (r + 1) * l <= l * l
    BY <1>4
  <2>3. (r + 1) * (r + 1) \in Nat /\ (r + 1) * l \in Nat /\ l * l \in Nat
    BY <1>4
  <2> QED BY <2>1, <2>2, <2>3, <1>4
<1> QED BY <1>4, <1>5, <1>6

\* mag is between 256 times the larger distance and 256 times their sum.
LEMMA MagnitudeBounds ==
  ASSUME NEW a \in Int, NEW b \in Int
  PROVE  /\ Magnitude(a, b) \in Nat
         /\ 256 * Abs(a) <= Magnitude(a, b)
         /\ 256 * Abs(b) <= Magnitude(a, b)
         /\ Magnitude(a, b) <= 256 * (Abs(a) + Abs(b))
<1>1. PICK p \in Nat : p = Abs(a)
  BY DEF Abs
<1>2. PICK q \in Nat : q = Abs(b)
  BY DEF Abs
<1>3. a * a = p * p /\ b * b = q * q
  BY <1>1, <1>2 DEF Abs
<1>4. PICK g \in Nat : g = IF p > q THEN p ELSE q
  OBVIOUS
<1>5. PICK n \in Nat : n = (p * p + q * q) * 65536
  <2>1. p * p \in Nat /\ q * q \in Nat
    OBVIOUS
  <2> QED BY <2>1
<1>6. (256 * g) * (256 * g) <= n
  <2>1. (256 * g) * (256 * g) = (g * g) * 65536 /\ g * g \in Nat
    OBVIOUS
  <2>2. p * p \in Nat /\ q * q \in Nat /\ g * g <= p * p + q * q
    BY <1>4
  <2> QED BY <2>1, <2>2, <1>5
<1>7. n <= (256 * (p + q)) * (256 * (p + q))
  <2>1. (256 * (p + q)) * (256 * (p + q)) = ((p + q) * (p + q)) * 65536
    OBVIOUS
  <2>2. (p + q) * (p + q) = p * p + q * q + 2 * (p * q)
    OBVIOUS
  <2>3. p * p \in Nat /\ q * q \in Nat /\ p * q \in Nat
    OBVIOUS
  <2> QED BY <2>1, <2>2, <2>3, <1>5
<1>8. \E r \in 256 * g .. 256 * (p + q) : r * r <= n /\ n < (r + 1) * (r + 1)
  <2>1. 256 * g \in Nat /\ 256 * (p + q) \in Nat
    OBVIOUS
  <2> QED BY <2>1, <1>6, <1>7, RootExists
<1>9. Magnitude(a, b)
        = CHOOSE r \in 256 * g .. 256 * (p + q) : r * r <= n /\ n < (r + 1) * (r + 1)
  <2>1. (a * a + b * b) * 2^16 = n
    <3>1. 2^16 = 65536
      OBVIOUS
    <3> QED BY <3>1, <1>3, <1>5
  <2> QED BY <2>1, <1>1, <1>2, <1>4 DEF Magnitude, One
<1>10. Magnitude(a, b) \in 256 * g .. 256 * (p + q)
  BY <1>8, <1>9
<1> QED BY <1>1, <1>2, <1>4, <1>10

\* r ticks at speed vel cover the distance mag up to the error e.
Covers(vel, mag, r, e) == vel * r = e + mag /\ -vel <= 2 * e /\ 2 * e <= vel

\* The speed is low enough for the distance.
Slow(vel, mag) == 128 * (vel * vel) + mag < 32768 * vel

\* After r ticks at v the distance a has been covered, to half a cell.
Lands(r, v, a) == -32768 < r * v - 65536 * a /\ r * v - 65536 * a < 32768

\* The number of ticks: the distance over the speed, rounded.
LEMMA Ticks ==
  ASSUME NEW vel \in Nat \ {0}, NEW mag \in Nat
  PROVE  \E r \in Nat : \E e \in Int : Covers(vel, mag, r, e)
<1>1. PICK t \in Nat : t = 2 * mag + vel
  OBVIOUS
<1>2. PICK d \in Nat \ {0} : d = 2 * vel
  OBVIOUS
<1>3. PICK r \in Nat : d * r <= t /\ t < d * r + d
  BY DivBounds
<1>4. PICK p \in Nat : p = vel * r
  OBVIOUS
<1>5. d * r = 2 * p
  BY <1>2, <1>4
<1>6. PICK e \in Int : e = p - mag
  OBVIOUS
<1>7. p = e + mag /\ -vel <= 2 * e /\ 2 * e <= vel
  BY <1>1, <1>2, <1>3, <1>5, <1>6
<1> QED BY <1>4, <1>7 DEF Covers

\* The velocity in one coordinate, for a distance a of either sign.
LEMMA Velocity ==
  ASSUME NEW a \in Int, NEW vel \in Nat \ {0}, NEW mag \in Nat \ {0},
         NEW r \in Nat, NEW e \in Int, Covers(vel, mag, r, e),
         256 * Abs(a) <= mag, Slow(vel, mag),
         NEW v, v = Quotient(a * One * vel, mag)
  PROVE  v \in Int /\ Abs(v) <= 256 * vel /\ Lands(r, v, a)
<1>1. PICK A \in Nat : A = Abs(a)
  BY DEF Abs
<1>2. PICK D \in Nat : D = A * 65536 * vel
  OBVIOUS
<1>3. PICK V : V = D \div mag
  OBVIOUS
<1>4. V \in Nat /\ mag * V <= D /\ D < mag * V + mag
  BY <1>3, DivBounds
<1>5. -32768 < r * V - 65536 * A /\ r * V - 65536 * A < 32768 /\ V <= 256 * vel
  BY <1>1, <1>2, <1>4, Landing DEF Covers, Slow
<1>6. One = 65536
  BY DEF One
<1>7. CASE a >= 0
  <2>1. A = a /\ a * One * vel = D
    BY <1>1, <1>2, <1>6, <1>7 DEF Abs
  <2>2. v = V
    BY <2>1, <1>3 DEF Quotient
  <2>3. Abs(v) = V
    BY <2>2, <1>4 DEF Abs
  <2> QED BY <2>1, <2>2, <2>3, <1>4, <1>5 DEF Lands
<1>8. CASE a < 0
  <2>1. A = -a
    BY <1>1, <1>8 DEF Abs
  <2>2. PICK F \in Int : F = a * One * vel
    BY <1>6
  <2>3. -F = D
    BY <2>1, <2>2, <1>2, <1>6
  <2>4. D > 0
    <3>1. A >= 1 /\ vel >= 1
      BY <2>1, <1>8
    <3> QED BY <3>1, <1>2
  <2>5. v = -V
    BY <2>2, <2>3, <2>4, <1>3 DEF Quotient
  <2>6. Abs(v) = V /\ v \in Int
    BY <2>5, <1>4 DEF Abs
  <2>7. r * v = -(r * V) /\ r * V \in Int
    BY <2>5, <1>4
  <2>8. -32768 < r * v - 65536 * a /\ r * v - 65536 * a < 32768
    BY <2>1, <2>7, <1>5
  <2> QED BY <2>6, <2>8, <1>5 DEF Lands
<1> QED BY <1>7, <1>8

\* A missile on its way: it is on the screen, moves by less than a cell in a
\* tick, and some number of ticks takes it into the cell it is aimed at.
Missiles == [x : Int, y : Int, dest_x : 0 .. 79, dest_y : 0 .. 24, vx : Int, vy : Int]

Cell(a) == a * 65536 .. a * 65536 + 65535

\* A coordinate after r ticks.
After(x, r, v) == x + r * v

UpTo(n) == 0 .. n * 65536 + 65535

Small(v) == Abs(v) < 65536

OnWay(k) ==
  /\ k \in Missiles
  /\ Small(k.vx) /\ Small(k.vy)
  /\ k.x \in UpTo(79) /\ k.y \in UpTo(24)
  /\ \E r \in Nat : /\ After(k.x, r, k.vx) \in Cell(k.dest_x)
                    /\ After(k.y, r, k.vy) \in Cell(k.dest_y)

\* The two velocities of a flight over the distance (a, b).
LEMMA Flights ==
  ASSUME NEW a \in Int, NEW b \in Int,
         Abs(a) \in 0 .. 79, Abs(b) \in 0 .. 24, a # 0 \/ b # 0,
         NEW vel \in Nat \ {0}, vel <= 200, Slow(vel, 26368),
         NEW mag, mag = Magnitude(a, b),
         NEW vx, vx = Quotient(a * One * vel, mag),
         NEW vy, vy = Quotient(b * One * vel, mag)
  PROVE  /\ vx \in Int /\ vy \in Int
         /\ Small(vx) /\ Small(vy)
         /\ \E r \in Nat : Lands(r, vx, a) /\ Lands(r, vy, b)
<1>1. /\ mag \in Nat /\ 256 * Abs(a) <= mag
      /\ 256 * Abs(b) <= mag /\ mag <= 256 * (Abs(a) + Abs(b))
  BY MagnitudeBounds
<1>2. mag <= 26368
  BY <1>1
<1>3. mag # 0
  BY <1>1 DEF Abs
<1>4. Slow(vel, mag)
  <2>1. vel * vel \in Nat
    OBVIOUS
  <2> QED BY <2>1, <1>1, <1>2 DEF Slow
<1>5. PICK r \in Nat : \E e \in Int : Covers(vel, mag, r, e)
  BY <1>1, Ticks
<1>6. PICK e \in Int : Covers(vel, mag, r, e)
  BY <1>5
<1>7. vx \in Int /\ Abs(vx) <= 256 * vel /\ Lands(r, vx, a)
  BY <1>1, <1>3, <1>4, <1>6, Velocity
<1>8. vy \in Int /\ Abs(vy) <= 256 * vel /\ Lands(r, vy, b)
  BY <1>1, <1>3, <1>4, <1>6, Velocity
<1>9. Small(vx) /\ Small(vy)
  <2>1. Abs(vx) \in Int /\ Abs(vy) \in Int
    BY <1>7, <1>8 DEF Abs
  <2> QED BY <2>1, <1>7, <1>8 DEF Small
<1> QED BY <1>7, <1>8, <1>9

\* A coordinate that starts in the middle of cell s, of n, and lands in
\* cell d.
Starts(n, s, d, a, v, r, x) ==
  /\ n \in Nat /\ s \in 0 .. n /\ d \in 0 .. n
  /\ a = d - s /\ v \in Int /\ r \in Nat /\ Lands(r, v, a)
  /\ x = Centre(s)

LEMMA FromCentre ==
  ASSUME NEW n, NEW s, NEW d, NEW a, NEW v, NEW r, NEW x,
         Starts(n, s, d, a, v, r, x)
  PROVE  x \in Int /\ x \in UpTo(n) /\ After(x, r, v) \in Cell(d)
<1>1. /\ n \in Nat /\ s \in 0 .. n /\ d \in 0 .. n
      /\ a = d - s /\ v \in Int /\ r \in Nat
      /\ x = s * 65536 + 32768
  BY DEF Centre, One, Half, Starts
<1>2. PICK p \in Int : p = r * v
  BY <1>1
<1>3. -32768 < p - 65536 * (d - s) /\ p - 65536 * (d - s) < 32768
  BY <1>1, <1>2 DEF Lands, Starts
<1>4. (s * 65536 + 32768) + p \in Cell(d)
  BY <1>1, <1>3 DEF Cell
<1>5. s * 65536 + 32768 \in UpTo(n) /\ s * 65536 + 32768 \in Int
  BY <1>1 DEF UpTo
<1> QED BY <1>1, <1>2, <1>4, <1>5 DEF After

\* make_missile puts a missile on its way, at every speed the code uses.
LEMMA MissileOnWay ==
  ASSUME NEW sx \in 0 .. 79, NEW sy \in 0 .. 24,
         NEW dx \in 0 .. 79, NEW dy \in 0 .. 24, ~(sx = dx /\ sy = dy),
         NEW vel \in (10 .. 14) \cup {200}
  PROVE  OnWay(NewMissile(sx, sy, dx, dy, vel))
<1>1. PICK a \in Int : a = dx - sx
  OBVIOUS
<1>2. PICK b \in Int : b = dy - sy
  OBVIOUS
<1>3. /\ a # 0 \/ b # 0
      /\ Abs(a) \in 0 .. 79 /\ Abs(b) \in 0 .. 24
  BY <1>1, <1>2 DEF Abs
<1>4. vel \in Nat \ {0} /\ vel <= 200 /\ Slow(vel, 26368)
  <2>1. vel = 200 \/ vel = 10 \/ vel = 11 \/ vel = 12 \/ vel = 13 \/ vel = 14
    OBVIOUS
  <2> QED BY <2>1 DEF Slow
<1>5. PICK mag : mag = Magnitude(a, b)
  OBVIOUS
<1>6. PICK vx : vx = Quotient(a * One * vel, mag)
  OBVIOUS
<1>7. PICK vy : vy = Quotient(b * One * vel, mag)
  OBVIOUS
<1>8. /\ vx \in Int /\ vy \in Int
      /\ Small(vx) /\ Small(vy)
      /\ \E r \in Nat : Lands(r, vx, a) /\ Lands(r, vy, b)
  BY <1>3, <1>4, <1>5, <1>6, <1>7, Flights
<1>9. PICK r \in Nat : Lands(r, vx, a) /\ Lands(r, vy, b)
  BY <1>8
<1>10. PICK x : x = Centre(sx)
  OBVIOUS
<1>11. PICK y : y = Centre(sy)
  OBVIOUS
<1>12. PICK k : k = NewMissile(sx, sy, dx, dy, vel)
  OBVIOUS
<1>13. k = [x |-> x, y |-> y, dest_x |-> dx, dest_y |-> dy, vx |-> vx, vy |-> vy]
  BY <1>1, <1>2, <1>5, <1>6, <1>7, <1>10, <1>11, <1>12 DEF NewMissile
<1>14. x \in Int /\ x \in UpTo(79) /\ After(x, r, vx) \in Cell(dx)
  <2>1. PICK n \in Nat : n = 79
    OBVIOUS
  <2>2. sx \in 0 .. n /\ dx \in 0 .. n
    BY <2>1
  <2>3. x \in Int /\ x \in UpTo(n) /\ After(x, r, vx) \in Cell(dx)
    <3>1. vx \in Int /\ Lands(r, vx, a)
      BY <1>8, <1>9
    <3>2. Starts(n, sx, dx, a, vx, r, x)
      BY <2>2, <3>1, <1>1, <1>10 DEF Starts
    <3> QED BY <3>2, FromCentre
  <2> QED BY <2>1, <2>3, Zenon
<1>15. y \in Int /\ y \in UpTo(24) /\ After(y, r, vy) \in Cell(dy)
  <2>1. PICK n \in Nat : n = 24
    OBVIOUS
  <2>2. sy \in 0 .. n /\ dy \in 0 .. n
    BY <2>1
  <2>3. y \in Int /\ y \in UpTo(n) /\ After(y, r, vy) \in Cell(dy)
    <3>1. vy \in Int /\ Lands(r, vy, b)
      BY <1>8, <1>9
    <3>2. Starts(n, sy, dy, b, vy, r, y)
      BY <2>2, <3>1, <1>2, <1>11 DEF Starts
    <3> QED BY <3>2, FromCentre
  <2> QED BY <2>1, <2>3, Zenon
<1>16. /\ k.x = x /\ k.y = y /\ k.dest_x = dx /\ k.dest_y = dy
       /\ k.vx = vx /\ k.vy = vy
  BY <1>13
<1>17. k \in Missiles
  BY <1>8, <1>13, <1>14, <1>15 DEF Missiles
<1>18. OnWay(k)
  BY <1>8, <1>14, <1>15, <1>16, <1>17, Zenon DEF OnWay
<1> QED BY <1>12, <1>18, Zenon

-----------------------------------------------------------------------------
(* The invariant of the crosshairs and of the flight. *)

Aimed ==
  /\ chx \in 0 .. 79 /\ chy \in 0 .. 24
  /\ crosshairs_x = chx /\ crosshairs_y = chy
  /\ phase \in {"aim", "fly", "exploded", "removed", "trap"}

FlightInv ==
  /\ Aimed
  /\ flying \in Missiles /\ Small(flying.vx) /\ Small(flying.vy)
  /\ phase = "fly" => OnWay(flying)

\* The half word that stands for -1.
LEMMA MinusOne ==
  ASSUME NEW u \in Int, NEW w \in Int, 0 <= w, w <= 65535, -1 = 65536 * u + w
  PROVE  w = 65535
  OBVIOUS

\* One move of both crosshairs, by at most one in one coordinate.
LEMMA MoveAgrees ==
  ASSUME Aimed, NEW d \in Moves, update_crosshairs(d)
  PROVE  Aimed'
<1>1. /\ d \in { <<-1, 0>>, <<1, 0>>, <<0, -1>>, <<0, 1>> }
      /\ chx' = Clamp(chx + d[1], 79)
      /\ chy' = Clamp(chy + d[2], 24)
      /\ MOVEXHAIRS(Packed(d[1], d[2]))
      /\ phase' = phase
  BY DEF update_crosshairs, Moves, Width, Height
<1>2. PICK p \in {-1, 0, 1} : p = d[1]
  BY <1>1
<1>3. PICK q \in {-1, 0, 1} : q = d[2]
  BY <1>1
<1>4. p = 0 \/ q = 0
  BY <1>1, <1>2, <1>3
<1>5. ASSUME NEW t \in {-1, 0, 1} PROVE Signed(t % One) = t
  <2>1. 0 % 65536 = 0 /\ 1 % 65536 = 1
    OBVIOUS
  <2>2. (-1) % 65536 = 65535
    <3>1. PICK c \in Int : c = -1
      OBVIOUS
    <3>2. PICK k \in Nat \ {0} : k = 65536
      OBVIOUS
    <3>3. c = k * (c \div k) + (c % k) /\ c % k \in 0 .. k - 1 /\ c \div k \in Int
      BY DivMod
    <3>4. PICK u \in Int : u = c \div k
      BY <3>3
    <3>5. PICK w : w = c % k
      OBVIOUS
    <3>6. c = k * u + w /\ w \in 0 .. k - 1
      BY <3>3, <3>4, <3>5
    <3>7. w = 65535
      <4>1. -1 = 65536 * u + w /\ w \in Int /\ 0 <= w /\ w <= 65535
        BY <3>1, <3>2, <3>6
      <4> QED BY <4>1, MinusOne
    <3> QED BY <3>1, <3>2, <3>5, <3>7
  <2>3. One = 65536 /\ Half = 32768
    BY DEF One, Half
  <2> QED BY <1>5, <2>1, <2>2, <2>3 DEF Signed
<1>6. /\ crosshairs_x' = Limited(crosshairs_x + p, crosshairs_y + q)[1]
      /\ crosshairs_y' = Limited(crosshairs_x + p, crosshairs_y + q)[2]
  BY <1>1, <1>2, <1>3, <1>5 DEF MOVEXHAIRS, Packed
<1>7. /\ crosshairs_x' = Clamp(chx + p, 79)
      /\ crosshairs_y' = Clamp(chy + q, 24)
  <2>1. chx \in 0 .. 79 /\ chy \in 0 .. 24 /\ crosshairs_x = chx /\ crosshairs_y = chy
    BY DEF Aimed
  <2>2. CASE chx + p \notin 0 .. 79
    <3>1. q = 0 /\ Clamp(chy + q, 24) = chy + q
      BY <2>1, <2>2, <1>4 DEF Clamp
    <3> QED BY <2>1, <2>2, <3>1, <1>6 DEF Limited, Width, Height
  <2>3. CASE chx + p \in 0 .. 79
    <3>1. Clamp(chx + p, 79) = chx + p
      BY <2>1, <2>3 DEF Clamp
    <3> QED BY <2>1, <2>3, <3>1, <1>6 DEF Limited, Width, Height
  <2> QED BY <2>2, <2>3
<1>8. Clamp(chx + p, 79) \in 0 .. 79 /\ Clamp(chy + q, 24) \in 0 .. 24
  BY DEF Aimed, Clamp
<1> QED BY <1>1, <1>2, <1>3, <1>7, <1>8 DEF Aimed

\* One coordinate of a tick: a position that reaches cell d after r ticks,
\* r > 0, is still on the screen after one, and reaches it after r - 1.
LEMMA TickCoordinate ==
  ASSUME NEW n \in Nat, NEW x \in UpTo(n), NEW v \in Int, NEW d \in 0 .. n,
         NEW r \in Nat, r # 0, After(x, r, v) \in Cell(d)
  PROVE  x + v \in UpTo(n) /\ After(x + v, r - 1, v) \in Cell(d)
<1>1. PICK p \in Int : p = (r - 1) * v
  OBVIOUS
<1>2. r * v = p + v
  BY <1>1
<1>3. x \in Int /\ 0 <= x /\ x <= n * 65536 + 65535
  BY DEF UpTo
<1>4. d * 65536 <= x + (p + v) /\ x + (p + v) <= d * 65536 + 65535
  BY <1>2 DEF Cell, After
<1>5. 0 <= d * 65536 /\ d * 65536 <= n * 65536
  OBVIOUS
<1>6. v >= 0 => p >= 0
  BY <1>1
<1>7. v <= 0 => p <= 0
  BY <1>1
<1>8. 0 <= x + v /\ x + v <= n * 65536 + 65535
  BY <1>3, <1>4, <1>5, <1>6, <1>7
<1>9. (x + v) + p \in Cell(d)
  BY <1>3, <1>4 DEF Cell
<1>10. x + v \in UpTo(n)
  BY <1>3, <1>8 DEF UpTo
<1> QED BY <1>1, <1>9, <1>10 DEF After

\* The cell a coordinate is in.
LEMMA InCell ==
  ASSUME NEW p \in Int, NEW d \in Int, p \in Cell(d)
  PROVE  p \div 65536 = d
<1>1. d * 65536 <= p /\ p <= d * 65536 + 65535
  BY DEF Cell
<1> QED BY <1>1

\* A coordinate on the screen is in one of its cells.
LEMMA InRange ==
  ASSUME NEW n \in Nat, NEW p \in UpTo(n)
  PROVE  p \div 65536 \in 0 .. n
<1>1. p \in Int /\ 0 <= p /\ p <= n * 65536 + 65535
  BY DEF UpTo
<1> QED BY <1>1

\* The place of a missile between two flights, and the initial state.
LEMMA NoMissileOK ==
  /\ NoMissile \in Missiles
  /\ Small(NoMissile.vx) /\ Small(NoMissile.vy)
  BY DEF NoMissile, Missiles, Small, Abs

LEMMA FlightStart == FlightInit => FlightInv
  BY NoMissileOK DEF FlightInit, FlightInv, Aimed

\* A missile that moved is a missile.
LEMMA MovedOK ==
  ASSUME NEW k \in Missiles, NEW u \in Int, NEW w \in Int
  PROVE  [k EXCEPT !.x = u, !.y = w] \in Missiles
  BY DEF Missiles

\* One tick of update_missiles.
LEMMA FlyOK ==
  ASSUME FlightInv, Fly
  PROVE  FlightInv'
<1>1. /\ phase = "fly" /\ OnWay(flying) /\ flying \in Missiles
      /\ UNCHANGED <<chx, chy, crosshairs_x, crosshairs_y>>
  BY DEF FlightInv, Fly, processXhairs, kernelXhairs
<1>2. CASE phase' # "fly" /\ flying' = flying
  <2>1. phase' \in {"exploded", "removed"}
    BY <1>1, <1>2 DEF Fly
  <2> QED BY <2>1, <1>1, <1>2 DEF FlightInv, Aimed
<1>3. CASE /\ phase' = phase /\ ~OffScreen /\ ~Arrived
           /\ flying' = [flying EXCEPT !.x = @ + flying.vx, !.y = @ + flying.vy]
  <2>1. PICK r \in Nat : /\ After(flying.x, r, flying.vx) \in Cell(flying.dest_x)
                         /\ After(flying.y, r, flying.vy) \in Cell(flying.dest_y)
    BY <1>1 DEF OnWay
  <2>2. /\ flying.x \in UpTo(79) /\ flying.y \in UpTo(24)
        /\ flying.x \in Int /\ flying.y \in Int /\ flying.vx \in Int /\ flying.vy \in Int
        /\ flying.dest_x \in 0 .. 79 /\ flying.dest_y \in 0 .. 24
        /\ Small(flying.vx) /\ Small(flying.vy)
    BY <1>1 DEF OnWay, Missiles
  <2>3. r # 0
    <3> SUFFICES ASSUME r = 0 PROVE Arrived
      BY <1>3
    <3>1. After(flying.x, r, flying.vx) = flying.x /\ After(flying.y, r, flying.vy) = flying.y
      BY <2>2 DEF After
    <3>2. ASSUME NEW p \in Int, NEW d \in Int, p \in Cell(d) PROVE p \div One = d
      BY <3>2, InCell DEF One
    <3> QED BY <2>1, <2>2, <3>1, <3>2 DEF Arrived, Col, Row
  <2>4. /\ flying.x + flying.vx \in UpTo(79)
        /\ After(flying.x + flying.vx, r - 1, flying.vx) \in Cell(flying.dest_x)
    BY <2>1, <2>2, <2>3, TickCoordinate
  <2>5. /\ flying.y + flying.vy \in UpTo(24)
        /\ After(flying.y + flying.vy, r - 1, flying.vy) \in Cell(flying.dest_y)
    BY <2>1, <2>2, <2>3, TickCoordinate
  <2>6. PICK k : k = flying'
    OBVIOUS
  <2>7. /\ k.x = flying.x + flying.vx /\ k.y = flying.y + flying.vy
        /\ k.vx = flying.vx /\ k.vy = flying.vy
        /\ k.dest_x = flying.dest_x /\ k.dest_y = flying.dest_y
    BY <1>1, <1>3, <2>6 DEF Missiles
  <2>8. k \in Missiles
    <3>1. flying.x + flying.vx \in Int /\ flying.y + flying.vy \in Int
      BY <2>2
    <3> QED BY <3>1, <1>1, <1>3, <2>6, MovedOK
  <2>9. r - 1 \in Nat
    BY <2>3
  <2>10. OnWay(k)
    BY <2>2, <2>4, <2>5, <2>7, <2>8, <2>9, Zenon DEF OnWay
  <2> QED BY <1>1, <1>3, <2>2, <2>6, <2>7, <2>8, <2>10 DEF FlightInv, Aimed
<1> QED
  <2>1. \/ phase' = "removed" /\ flying' = flying
        \/ phase' = "exploded" /\ flying' = flying
        \/ /\ phase' = phase /\ ~OffScreen /\ ~Arrived
           /\ flying' = [flying EXCEPT !.x = @ + flying.vx, !.y = @ + flying.vy]
    BY DEF Fly
  <2> QED BY <2>1, <1>2, <1>3

\* The arguments the code calls make_missile with.
Aim(sx, sy, dx, dy, vel) ==
  /\ sx \in 0 .. 79 /\ sy \in 0 .. 24 /\ dx \in 0 .. 79 /\ dy \in 0 .. 24
  /\ vel \in (10 .. 14) \cup {200}

\* make_missile, for an aim the code can take.
LEMMA MakeOK ==
  ASSUME FlightInv, NEW sx, NEW sy, NEW dx, NEW dy, NEW vel,
         Aim(sx, sy, dx, dy, vel), make_missile(sx, sy, dx, dy, vel)
  PROVE  FlightInv'
<1>1. UNCHANGED <<chx, chy, crosshairs_x, crosshairs_y>>
  BY DEF make_missile, processXhairs, kernelXhairs
<1>2. CASE sx = dx /\ sy = dy
  <2>1. phase' = "trap" /\ flying' = flying
    BY <1>2 DEF make_missile
  <2> QED BY <2>1, <1>1 DEF FlightInv, Aimed
<1>3. CASE ~(sx = dx /\ sy = dy)
  <2>1. phase' = "fly" /\ flying' = NewMissile(sx, sy, dx, dy, vel)
    <3>1. <<sx, sy>> # <<dx, dy>>
      BY <1>3
    <3> QED BY <3>1, Zenon DEF make_missile
  <2>2. OnWay(flying')
    BY <2>1, <1>3, MissileOnWay DEF Aim
  <2> QED BY <2>1, <2>2, <1>1 DEF FlightInv, Aimed, OnWay
<1> QED BY <1>2, <1>3

\* One step of the process, the player or the clock.
LEMMA FlightStep ==
  ASSUME FlightInv, [FlightNext]_flightVars
  PROVE  FlightInv'
<1>1. ASSUME NEW d \in Moves, update_crosshairs(d) PROVE FlightInv'
  <2>1. phase' = phase /\ flying' = flying
    BY <1>1 DEF update_crosshairs
  <2>2. Aimed'
    BY <1>1, MoveAgrees DEF FlightInv
  <2> QED BY <2>1, <2>2 DEF FlightInv
<1>2. ASSUME FireShot PROVE FlightInv'
  <2>1. chx \in 0 .. 79 /\ chy \in 0 .. 24
    BY DEF FlightInv, Aimed
  <2>2. Aim(79, 24, chx, chy, 200)
    BY <2>1 DEF Aim
  <2>3. make_missile(79, 24, chx, chy, 200)
    BY <1>2 DEF FireShot
  <2> QED BY <2>2, <2>3, MakeOK
<1>3. ASSUME NEW column \in Columns, NEW target \in 0 .. 2, NEW vel \in Speeds,
             LaunchEnemy(column, target, vel)
      PROVE  FlightInv'
  <2>1. PICK d \in 0 .. 79 : d = 20 * (target + 1)
    OBVIOUS
  <2>2. make_missile(column, 0, d, 24, vel)
    BY <1>3, <2>1 DEF LaunchEnemy
  <2>3. Aim(column, 0, d, 24, vel)
    BY FlightAssumption DEF Aim
  <2> QED BY <2>2, <2>3, MakeOK
<1>4. ASSUME ExplosionOver PROVE FlightInv'
  <2>1. phase' = "aim" /\ flying' = NoMissile
        /\ UNCHANGED <<chx, chy, crosshairs_x, crosshairs_y>>
    BY <1>4 DEF ExplosionOver, processXhairs, kernelXhairs
  <2> QED BY <2>1, NoMissileOK DEF FlightInv, Aimed
<1>5. CASE UNCHANGED flightVars
  BY <1>5 DEF flightVars, processXhairs, kernelXhairs, FlightInv, Aimed
<1> QED BY <1>1, <1>2, <1>3, <1>4, <1>5, FlyOK DEF FlightNext

\* Neither firing nor flying touches the crosshairs.
LEMMA AimedStep == Aimed /\ [FlightNext]_flightVars => Aimed'
<1> SUFFICES ASSUME Aimed, [FlightNext]_flightVars PROVE Aimed'
  OBVIOUS
<1>1. ASSUME UNCHANGED <<processXhairs, kernelXhairs>>,
             phase' \in {"aim", "fly", "exploded", "removed", "trap"}
      PROVE  Aimed'
  BY <1>1 DEF Aimed, processXhairs, kernelXhairs
<1>2. ASSUME NEW sx, NEW sy, NEW dx, NEW dy, NEW vel,
             make_missile(sx, sy, dx, dy, vel)
      PROVE  Aimed'
  <2>1. phase' = "trap" \/ phase' = "fly"
    BY <1>2, Zenon DEF make_missile
  <2>2. UNCHANGED <<processXhairs, kernelXhairs>>
    BY <1>2 DEF make_missile
  <2> QED BY <2>1, <2>2, <1>1
<1>3. ASSUME FireShot PROVE Aimed'
  BY <1>2, <1>3 DEF FireShot
<1>4. ASSUME NEW column \in Columns, NEW target \in 0 .. 2, NEW vel \in Speeds,
             LaunchEnemy(column, target, vel)
      PROVE  Aimed'
  BY <1>2, <1>4 DEF LaunchEnemy
<1>5. ASSUME Fly PROVE Aimed'
  <2>1. phase' = "removed" \/ phase' = "exploded" \/ phase' = phase
    BY <1>5 DEF Fly
  <2>2. UNCHANGED <<processXhairs, kernelXhairs>>
    BY <1>5 DEF Fly
  <2> QED BY <2>1, <2>2, <1>1 DEF Aimed
<1>6. ASSUME ExplosionOver PROVE Aimed'
  BY <1>1, <1>6 DEF ExplosionOver
<1>7. CASE UNCHANGED flightVars
  BY <1>1, <1>7 DEF flightVars, Aimed
<1> QED BY <1>3, <1>4, <1>5, <1>6, <1>7, MoveAgrees DEF FlightNext

\* The player sees the crosshairs the process fires at, after any sequence of
\* moves: the two copies, limited by different code, never differ.
THEOREM CrosshairsStayEqual == FlightSpec => []CrosshairsAgree
<1>1. Aimed => CrosshairsAgree
  BY DEF Aimed, CrosshairsAgree, processXhairs, kernelXhairs
<1>2. FlightInit => Aimed
  BY FlightStart DEF FlightInv
<1> QED BY <1>1, <1>2, AimedStep, PTL DEF FlightSpec

\* A missile is on the text screen at every tick of its flight, from any
\* column to any cell, at every speed the code uses: mp1_poke never writes
\* outside of video memory, and the test for missiles off the screen is not
\* what keeps it inside.
THEOREM MissilesOnScreen == FlightSpec => []OnScreen
<1>1. FlightInv => OnScreen
  <2> SUFFICES ASSUME FlightInv PROVE OnScreen
    OBVIOUS
  <2>1. FlightTypeOK
    <3>1. /\ flying.x \in Int /\ flying.y \in Int
          /\ flying.vx \in Int /\ flying.vy \in Int
          /\ Small(flying.vx) /\ Small(flying.vy)
      BY DEF FlightInv, Missiles
    <3>2. ASSUME NEW v \in Int, Small(v) PROVE Abs(v) \in 0 .. One - 1
      BY <3>2 DEF Small, Abs, One
    <3>3. Abs(flying.vx) \in 0 .. One - 1 /\ Abs(flying.vy) \in 0 .. One - 1
      BY <3>1, <3>2
    <3>4. Aimed /\ Width - 1 = 79 /\ Height - 1 = 24
      BY DEF FlightInv, Width, Height
    <3>5. /\ chx \in 0 .. Width - 1 /\ crosshairs_x \in 0 .. Width - 1
          /\ chy \in 0 .. Height - 1 /\ crosshairs_y \in 0 .. Height - 1
          /\ phase \in {"aim", "fly", "exploded", "removed", "trap"}
      BY <3>4 DEF Aimed
    <3> QED BY <3>1, <3>3, <3>5 DEF FlightTypeOK
  <2>2. ASSUME phase = "fly" PROVE Col \in 0 .. 79 /\ Row \in 0 .. 24
    <3>1. flying.x \in UpTo(79) /\ flying.y \in UpTo(24)
      BY <2>2 DEF FlightInv, OnWay
    <3>2. PICK n \in Nat : n = 79
      OBVIOUS
    <3>3. PICK k \in Nat : k = 24
      OBVIOUS
    <3>4. flying.x \div 65536 \in 0 .. n /\ flying.y \div 65536 \in 0 .. k
      BY <3>1, <3>2, <3>3, InRange
    <3> QED BY <3>2, <3>3, <3>4 DEF Col, Row, One
  <2> QED BY <2>1, <2>2 DEF OnScreen, Width, Height
<1>2. FlightInv /\ [FlightNext]_flightVars => FlightInv'
  BY FlightStep
<1> QED BY <1>1, <1>2, FlightStart, PTL DEF FlightSpec
=============================================================================
