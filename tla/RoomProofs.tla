----------------------------- MODULE RoomProofs -----------------------------
(***************************************************************************)
(* Theorems about Rank, for every leaf span, epoch and room size, and      *)
(* about Room, for every set of devices and every bound.                   *)
(***************************************************************************)
EXTENDS Room, SequenceTheorems, FiniteSetTheorems, WellFoundedInduction, TLAPS

(***************************************************************************)
(* Rank.                                                                   *)
(***************************************************************************)

\* The rotation is a position round the table.
LEMMA RotatedType ==
  ASSUME NEW leaf \in Nat, NEW epoch \in Nat, NEW size \in Nat \ {0}
  PROVE  Rotated(leaf, epoch, size) \in 0 .. size - 1
<1> DEFINE a == (leaf % size) + size - (epoch % size)
<1>1. leaf % size \in 0 .. size - 1 /\ epoch % size \in 0 .. size - 1
  OBVIOUS
<1>2. a \in Nat
  BY <1>1
<1> HIDE DEF a
<1>3. a % size \in 0 .. size - 1
  BY <1>2
<1> QED BY <1>3 DEF Rotated, a

\* One number stands for one pair: the halves of two equal numbers are equal.
LEMMA HalvesAreUnique ==
  ASSUME NEW r \in Nat, NEW s \in Nat, NEW l \in Leaf, NEW m \in Leaf,
         r * LeafSpan + l <= s * LeafSpan + m
  PROVE  r < s \/ (r = s /\ l <= m)
<1> USE LeafSpanAssumption DEF Leaf
<1>1. CASE r = s
  BY <1>1
<1>2. CASE r > s
  <2>1. PICK d \in Nat : r = s + 1 + d
    <3>1. r - s - 1 \in Nat /\ r = s + 1 + (r - s - 1)
      BY <1>2
    <3> QED BY <3>1
  <2>2. r * LeafSpan = s * LeafSpan + LeafSpan + d * LeafSpan
    BY <2>1
  <2>3. d * LeafSpan \in Nat /\ s * LeafSpan \in Nat
    OBVIOUS
  <2>4. r * LeafSpan + l > s * LeafSpan + m
    BY <2>2, <2>3
  <2> QED BY <2>3, <2>4
<1>3. CASE r < s
  BY <1>3
<1> QED BY <1>1, <1>2, <1>3

\* The order is total: two members never tie, whatever the epoch and however
\* many blanks the tree has (mod.rs 787-804).
THEOREM NoTies ==
  ASSUME NEW l \in Leaf, NEW m \in Leaf, NEW epoch \in Nat,
         NEW size \in Nat \ {0},
         Rank(l, epoch, size) = Rank(m, epoch, size)
  PROVE  l = m
<1> DEFINE r == Rotated(l, epoch, size)
           s == Rotated(m, epoch, size)
<1>1. r \in Nat /\ s \in Nat
  BY RotatedType, LeafSpanAssumption DEF Leaf
<1>2. r * LeafSpan + l = s * LeafSpan + m
  BY DEF Rank
<1> HIDE DEF r, s
<1>3. r * LeafSpan + l \in Int /\ s * LeafSpan + m \in Int
  BY <1>1, LeafSpanAssumption DEF Leaf
<1>4. r < s \/ (r = s /\ l <= m)
  BY <1>1, <1>2, <1>3, HalvesAreUnique
<1>5. s < r \/ (s = r /\ m <= l)
  BY <1>1, <1>2, <1>3, HalvesAreUnique
<1> QED BY <1>1, <1>4, <1>5 DEF Leaf

\* Of two members who raced exactly one yields.
THEOREM ExactlyOneYields ==
  ASSUME NEW l \in Leaf, NEW m \in Leaf, l # m, NEW epoch \in Nat,
         NEW size \in Nat \ {0}
  PROVE  Beats(l, m, epoch, size) # Beats(m, l, epoch, size)
<1>0. l \in Nat /\ m \in Nat
  BY LeafSpanAssumption DEF Leaf
<1>1. Rotated(l, epoch, size) \in Nat /\ Rotated(m, epoch, size) \in Nat
  <2>1. Rotated(l, epoch, size) \in 0 .. size - 1
    BY <1>0, RotatedType
  <2>2. Rotated(m, epoch, size) \in 0 .. size - 1
    BY <1>0, RotatedType
  <2> QED BY <2>1, <2>2
<1>2. Rank(l, epoch, size) \in Int /\ Rank(m, epoch, size) \in Int
  BY <1>1, LeafSpanAssumption DEF Rank, Leaf
<1>3. Rank(l, epoch, size) # Rank(m, epoch, size)
  BY NoTies
<1> QED BY <1>2, <1>3 DEF Beats

\* A rank is its rotation in the high half and its leaf in the low half, and
\* fits 64 bits as long as no room has more members than there are leaves.
THEOREM RankFits ==
  ASSUME NEW l \in Leaf, NEW epoch \in Nat, NEW size \in 1 .. LeafSpan
  PROVE  Rank(l, epoch, size) \in 0 .. Highest
<1> DEFINE r == Rotated(l, epoch, size)
<1>1. r \in 0 .. LeafSpan - 1
  BY RotatedType, LeafSpanAssumption DEF Leaf
<1> HIDE DEF r
<1>2. PICK d \in Nat : LeafSpan = r + 1 + d
  <2>1. LeafSpan - r - 1 \in Nat /\ LeafSpan = r + 1 + (LeafSpan - r - 1)
    BY <1>1, LeafSpanAssumption
  <2> QED BY <2>1
<1>3. LeafSpan * LeafSpan = (r + 1 + d) * LeafSpan
  BY <1>2
<1>4. (r + 1 + d) * LeafSpan = r * LeafSpan + LeafSpan + d * LeafSpan
  BY <1>1, <1>2, LeafSpanAssumption
<1>5. r * LeafSpan \in Nat /\ d * LeafSpan \in Nat
  BY <1>1, <1>2, LeafSpanAssumption
<1>6. r * LeafSpan + l \in 0 .. LeafSpan * LeafSpan - 1
  BY <1>3, <1>4, <1>5, LeafSpanAssumption DEF Leaf
<1>7. Rank(l, epoch, size) = r * LeafSpan + l
  BY LeafSpanAssumption DEF Rank, r
<1> QED BY <1>6, <1>7 DEF Highest

\* In a tree without blanks the member whose leaf is the epoch modulo the size
\* leads everybody, so every member's turn comes (mod.rs 778-783).
THEOREM TurnComes ==
  ASSUME NEW size \in 1 .. LeafSpan, NEW epoch \in Nat,
         NEW m \in 0 .. size - 1, m # epoch % size
  PROVE  Beats(epoch % size, m, epoch, size)
<1> DEFINE l == epoch % size
<1>1. size \in Nat \ {0} /\ l \in 0 .. size - 1
  BY LeafSpanAssumption
<1> HIDE DEF l
<1>2. l % size = l /\ m % size = m
  BY <1>1
<1>3. Rotated(l, epoch, size) = 0
  <2>1. (l % size) + size - (epoch % size) = size
    BY <1>1, <1>2 DEF l
  <2>2. size % size = 0
    BY <1>1
  <2> QED BY <2>1, <2>2 DEF Rotated
<1>4. Rotated(m, epoch, size) \in 1 .. size - 1
  <2>1. (m % size) + size - (epoch % size) = m + size - l
    BY <1>2 DEF l
  <2>2. CASE m > l
    <3>1. m - l \in 1 .. size - 1
      BY <1>1, <2>2
    <3>2. (m + size - l) % size = m - l
      BY <1>1, <3>1
    <3> QED BY <2>1, <3>1, <3>2 DEF Rotated
  <2>3. CASE m < l
    <3>1. m + size - l \in 1 .. size - 1
      BY <1>1, <2>3
    <3>2. (m + size - l) % size = m + size - l
      BY <1>1, <3>1
    <3> QED BY <2>1, <3>1, <3>2 DEF Rotated
  <2> QED BY <1>1, <2>2, <2>3 DEF l
<1>5. Rank(l, epoch, size) = l
  BY <1>1, <1>3, LeafSpanAssumption DEF Rank
<1>6. PICK d \in Nat : Rotated(m, epoch, size) = 1 + d
  <2>1. Rotated(m, epoch, size) - 1 \in Nat
    BY <1>1, <1>4
  <2> QED BY <1>1, <1>4, <2>1
<1>7. Rank(m, epoch, size) = LeafSpan + d * LeafSpan + m
  BY <1>1, <1>6, LeafSpanAssumption DEF Rank
<1>8. d * LeafSpan \in Nat
  BY <1>6, LeafSpanAssumption
<1>9. Rank(l, epoch, size) < Rank(m, epoch, size)
  BY <1>1, <1>5, <1>7, <1>8, LeafSpanAssumption
<1> QED BY <1>9 DEF Beats, l

(***************************************************************************)
(* Trees.                                                                  *)
(***************************************************************************)

\* What membership in Trees says.
LEMMA TreeFacts ==
  ASSUME NEW tree \in Trees
  PROVE  /\ DOMAIN tree \subseteq Leaf
         /\ tree \in [DOMAIN tree -> Devices]
         /\ Range(tree) \subseteq Devices
<1>1. PICK L \in SUBSET Leaf : tree \in [L -> Devices]
  BY DEF Trees
<1> QED BY <1>1 DEF Range

\* A function from leaves to devices is a tree.
LEMMA TreeIntro ==
  ASSUME NEW L \in SUBSET Leaf, NEW tree \in [L -> Devices]
  PROVE  tree \in Trees
BY DEF Trees

\* Blanking leaves leaves a tree, seats nobody twice, and costs only those
\* who sat there their seats.
LEMMA UnseatSound ==
  ASSUME NEW tree \in Trees, IsInjective(tree), NEW leaves
  PROVE  /\ Unseat(tree, leaves) \in Trees
         /\ IsInjective(Unseat(tree, leaves))
         /\ Range(Unseat(tree, leaves)) \subseteq Range(tree)
         /\ \A l \in DOMAIN tree \ leaves : tree[l] \in Range(Unseat(tree, leaves))
         /\ \A l \in DOMAIN tree \cap leaves : tree[l] \notin Range(Unseat(tree, leaves))
<1> DEFINE rest == Unseat(tree, leaves)
           L == DOMAIN tree \ leaves
<1>1. rest \in [L -> Devices] /\ \A l \in L : rest[l] = tree[l]
  BY TreeFacts DEF Unseat
<1>2. rest \in Trees
  BY <1>1, TreeFacts, TreeIntro
<1>3. DOMAIN rest = L
  BY <1>1
<1>4. IsInjective(rest)
  BY <1>1, <1>3 DEF IsInjective
<1>5. Range(rest) = {tree[l] : l \in L}
  BY <1>1, <1>3 DEF Range
<1>6. \A l \in DOMAIN tree \cap leaves : tree[l] \notin Range(rest)
  BY <1>5 DEF IsInjective
<1> QED BY <1>2, <1>4, <1>5, <1>6 DEF Range

\* Seating newcomers seats each of them once and moves nobody.
LEMMA SeatingsSound ==
  ASSUME NEW tree \in Trees, IsInjective(tree),
         NEW newcomers \in SUBSET Devices, newcomers \cap Range(tree) = {},
         NEW seated \in Seatings(tree, newcomers)
  PROVE  /\ seated \in Trees
         /\ IsInjective(seated)
         /\ Range(tree) \subseteq Range(seated)
         /\ newcomers \subseteq Range(seated)
<1>0. PICK leaves \in LowestBlanks(tree, Cardinality(newcomers)) :
        \E seat \in Bijection(leaves, newcomers) :
          seated = [l \in DOMAIN tree \cup leaves |->
                      IF l \in leaves THEN seat[l] ELSE tree[l]]
  BY DEF Seatings
<1>1. PICK seat \in Bijection(leaves, newcomers) :
        seated = [l \in DOMAIN tree \cup leaves |->
                    IF l \in leaves THEN seat[l] ELSE tree[l]]
  BY <1>0
<1>2. leaves \in SUBSET Leaf /\ leaves \cap DOMAIN tree = {}
  BY DEF LowestBlanks, Blank
<1>3. /\ seat \in [leaves -> newcomers]
      /\ IsInjective(seat)
      /\ \A d \in newcomers : \E l \in leaves : seat[l] = d
  BY DEF Bijection, Injection, Surjection
<1>4. DOMAIN seat = leaves
  BY <1>3
<1>5. seated \in [DOMAIN tree \cup leaves -> Devices]
  BY <1>1, <1>3, TreeFacts
<1>6. seated \in Trees
  BY <1>2, <1>5, TreeFacts, TreeIntro
<1>7. \A l \in DOMAIN tree : seated[l] = tree[l]
  BY <1>1, <1>2
<1>8. \A l \in leaves : seated[l] = seat[l]
  BY <1>1
<1>9. DOMAIN seated = DOMAIN tree \cup leaves
  BY <1>1
<1>10. \A l \in DOMAIN tree : \A m \in leaves : tree[l] # seat[m]
  BY <1>3 DEF Range
<1>11. IsInjective(seated)
  BY <1>3, <1>4, <1>7, <1>8, <1>9, <1>10 DEF IsInjective
<1>12. Range(tree) \subseteq Range(seated)
  BY <1>7, <1>9 DEF Range
<1>13. newcomers \subseteq Range(seated)
  BY <1>3, <1>8, <1>9 DEF Range
<1> QED BY <1>6, <1>11, <1>12, <1>13

(***************************************************************************)
(* Stores.  What one device may hold of a room whose states are rows: its  *)
(* own packages, only states it sits in, and of the earlier states an      *)
(* unbroken line back from the one it is at.                               *)
(***************************************************************************)
SoundIn(rows, d, s) ==
  /\ s \in Store
  /\ \A p \in s.packages : p[1] = d
  /\ s.at # NoRoom =>
       /\ \A g \in Retained(s) : g \in 1 .. Len(rows) /\ d \in Range(rows[g].tree)
       /\ \A i \in 1 .. Len(s.past) :
            s.past[i] = rows[IF i = 1 THEN s.at ELSE s.past[i - 1]].parent

Grows(rows, more) ==
  /\ Len(rows) =< Len(more)
  /\ \A g \in 1 .. Len(rows) : more[g] = rows[g]

\* A function on the first n numbers is a sequence.
LEMMA SequenceIntro ==
  ASSUME NEW S, NEW n \in Nat, NEW f \in [1 .. n -> S]
  PROVE  f \in Seq(S) /\ Len(f) = n
<1>1. f \in Seq(S)
  BY SeqDef
<1> QED BY <1>1, LenProperties

\* Holding no room is sound, whatever the room.
LEMMA LeaveSound ==
  ASSUME NEW rows, NEW d, NEW s, s.packages \in SUBSET Package,
         \A p \in s.packages : p[1] = d
  PROVE  SoundIn(rows, d, Leave(s))
<1>1. Leave(s) \in Store
  BY EmptySeq DEF StartAt, Leave, Store, NoRoom
<1> QED BY <1>1 DEF SoundIn, Leave, StartAt

LEMMA EmptyStoreSound ==
  ASSUME NEW rows, NEW d
  PROVE  SoundIn(rows, d, EmptyStore)
BY LeaveSound DEF EmptyStore, Leave

\* So is holding the one state a device came in at.
LEMMA StartAtSound ==
  ASSUME NEW rows, NEW d, NEW s, SoundIn(rows, d, s), Len(rows) \in Nat,
         NEW g \in 1 .. Len(rows), d \in Range(rows[g].tree)
  PROVE  SoundIn(rows, d, StartAt(s, g))
<1>1. StartAt(s, g) \in Store
  BY EmptySeq DEF StartAt, Store, SoundIn
<1>2. Retained(StartAt(s, g)) = {g}
  BY EmptySeq DEF StartAt, Retained, Range
<1>3. Len(StartAt(s, g).past) = 0
  BY EmptySeq DEF StartAt
<1>4. StartAt(s, g).packages = s.packages
  BY DEF StartAt
<1> QED BY <1>1, <1>2, <1>3, <1>4 DEF SoundIn

\* What is sound stays so as the room grows.
LEMMA GrowSound ==
  ASSUME NEW rows, NEW more, Len(rows) \in Nat, Len(more) \in Nat, Grows(rows, more),
         NEW d, NEW s, SoundIn(rows, d, s)
  PROVE  SoundIn(more, d, s)
<1> SUFFICES ASSUME s.at # NoRoom
    PROVE /\ \A g \in Retained(s) : g \in 1 .. Len(more) /\ d \in Range(more[g].tree)
          /\ \A i \in 1 .. Len(s.past) :
               s.past[i] = more[IF i = 1 THEN s.at ELSE s.past[i - 1]].parent
  BY DEF SoundIn
<1>1. ASSUME NEW g \in Retained(s)
      PROVE  g \in 1 .. Len(more) /\ d \in Range(more[g].tree)
  <2>1. g \in 1 .. Len(rows) /\ d \in Range(rows[g].tree)
    BY DEF SoundIn
  <2>2. g \in 1 .. Len(more) /\ more[g] = rows[g]
    BY <2>1 DEF Grows
  <2> QED BY <2>1, <2>2
<1>2. s.past \in Seq(Nat)
  BY DEF SoundIn, Store
<1>3. ASSUME NEW i \in 1 .. Len(s.past)
      PROVE  s.past[i] = more[IF i = 1 THEN s.at ELSE s.past[i - 1]].parent
  <2> DEFINE g == IF i = 1 THEN s.at ELSE s.past[i - 1]
  <2>1. g \in Retained(s)
    BY <1>2 DEF Retained, Range
  <2>2. g \in 1 .. Len(rows)
    BY <2>1 DEF SoundIn
  <2> QED BY <2>2 DEF SoundIn, Grows
<1> QED BY <1>1, <1>3

\* Merging a commit made at the state held keeps a store sound.
LEMMA AdvanceSound ==
  ASSUME NEW rows, NEW d, NEW s, SoundIn(rows, d, s), s.at # NoRoom, Len(rows) \in Nat,
         NEW g \in 1 .. Len(rows), rows[g].parent = s.at, d \in Range(rows[g].tree)
  PROVE  SoundIn(rows, d, Advance(s, g))
<1> DEFINE kept == IF Len(s.past) < MaxPast THEN Len(s.past) + 1 ELSE MaxPast
           past == [i \in 1 .. kept |-> IF i = 1 THEN s.at ELSE s.past[i - 1]]
           t == Advance(s, g)
<1>1. s \in Store /\ s.past \in Seq(Nat) /\ s.at \in Nat /\ MaxPast \in Nat
  BY RoomAssumption DEF SoundIn, Store
<1>2. kept \in Nat /\ kept =< Len(s.past) + 1
  BY <1>1
<1>3. ASSUME NEW i \in 1 .. kept
      PROVE  past[i] \in Retained(s) \cap Nat
  <2>1. past[i] = IF i = 1 THEN s.at ELSE s.past[i - 1]
    OBVIOUS
  <2>2. i # 1 => i - 1 \in 1 .. Len(s.past)
    BY <1>1, <1>2
  <2> HIDE DEF past, kept
  <2>3. i # 1 => s.past[i - 1] \in Range(s.past) \cap Nat
    <3>1. \A j \in 1 .. Len(s.past) : s.past[j] \in Nat
      BY <1>1, ElementOfSeq
    <3>2. \A j \in 1 .. Len(s.past) : s.past[j] \in Range(s.past)
      BY <1>1 DEF Range
    <3> QED BY <2>2, <3>1, <3>2
  <2> QED BY <2>1, <2>3, <1>1 DEF Retained
<1>3a. \A j \in 1 .. kept : past[j] = IF j = 1 THEN s.at ELSE s.past[j - 1]
  OBVIOUS
<1>4. past \in Seq(Nat) /\ Len(past) = kept
  <2>1. past \in [1 .. kept -> Nat]
    BY <1>3
  <2> HIDE DEF past, kept
  <2> QED BY <2>1, <1>2, SequenceIntro
<1>5. t = [at |-> g, past |-> past, entry |-> s.entry, sent |-> 0,
           seen |-> {x \in s.seen : x[1] \in Range(past)}, packages |-> s.packages]
  BY DEF Advance
<1>6. t \in Store
  BY <1>1, <1>4, <1>5 DEF Store
<1>7. Range(past) \subseteq Retained(s)
  BY <1>3 DEF Range
<1>8. \A h \in Retained(t) : h \in 1 .. Len(rows) /\ d \in Range(rows[h].tree)
  BY <1>5, <1>7 DEF Retained, SoundIn
<1>9. ASSUME NEW i \in 1 .. Len(t.past)
      PROVE  t.past[i] = rows[IF i = 1 THEN t.at ELSE t.past[i - 1]].parent
  <2>1. t.past = past /\ t.at = g
    BY <1>5
  <2>2. i \in 1 .. kept
    BY <1>4, <2>1
  <2>3. past[i] = IF i = 1 THEN s.at ELSE s.past[i - 1]
    BY <2>2
  <2>4. CASE i = 1
    BY <2>1, <2>3, <2>4
  <2>5. CASE i = 2
    <3> HIDE DEF past, kept
    <3>1. past[1] = s.at /\ past[2] = s.past[1] /\ 1 \in 1 .. Len(s.past)
      BY <1>1, <1>2, <2>2, <2>5, <1>3a
    <3>2. s.past[1] = rows[s.at].parent
      BY <3>1 DEF SoundIn
    <3> QED BY <2>1, <2>5, <3>1, <3>2
  <2>6. CASE i > 2
    <3> HIDE DEF past, kept
    <3>0. i - 1 \in 1 .. Len(s.past) /\ i - 1 \in 1 .. kept /\ i - 1 # 1 /\ i # 1
      BY <1>1, <1>2, <2>2, <2>6
    <3>1. /\ i - 1 \in 1 .. Len(s.past) /\ i - 1 \in 1 .. kept /\ i - 1 # 1
          /\ past[i] = s.past[i - 1] /\ past[i - 1] = s.past[(i - 1) - 1]
      BY <3>0, <2>2, <1>3a
    <3>2. s.past[i - 1] = rows[s.past[(i - 1) - 1]].parent
      BY <3>1 DEF SoundIn
    <3> HIDE DEF t
    <3> QED BY <2>1, <2>6, <3>1, <3>2
  <2> QED BY <2>2, <2>4, <2>5, <2>6
<1>10. t.packages = s.packages /\ t.at = g
  BY <1>5
<1> QED BY <1>6, <1>8, <1>9, <1>10 DEF SoundIn

LEMMA MergeSound ==
  ASSUME NEW d, NEW s, SoundIn(states, d, s), s.at # NoRoom, Len(states) \in Nat,
         NEW g \in StateId, Parent(g) = s.at
  PROVE  SoundIn(states, d, Merge(s, g, d))
<1>1. g \in 1 .. Len(states) /\ states[g].parent = s.at
  BY DEF Parent, StateId
<1>2. CASE d \in Members(g)
  BY <1>1, <1>2, AdvanceSound DEF Merge, Members, Tree
<1>3. CASE d \notin Members(g)
  <2>1. s.packages \in SUBSET Package /\ \A p \in s.packages : p[1] = d
    BY DEF SoundIn, Store
  <2> QED BY <1>3, <2>1, LeaveSound DEF Merge
<1> QED BY <1>2, <1>3

(***************************************************************************)
(* The inductive invariant.  That everybody holds only states it sits in   *)
(* cannot be shown by itself: a Welcome seats its reader because packages  *)
(* are held by their owner and the people a commit adds sit in its tree.   *)
(***************************************************************************)
RowSound(row) ==
  /\ IsInjective(row.tree)
  /\ \A p \in row.added : p[1] \in Range(row.tree)

\* Every state but the first is one epoch on from the one it was made from.
FollowsItsParent(g) ==
  Parent(g) # NoRoom => Parent(g) \in StateId /\ Epoch(g) = Epoch(Parent(g)) + 1

RowsSound == \A g \in StateId : RowSound(states[g]) /\ FollowsItsParent(g)
StoresSound == \A d \in Devices : \A s \in Stores(d) : SoundIn(states, d, s)
TextsSound == \A t \in TextId : texts[t].group \in StateId

IInv == TypeOK /\ RowsSound /\ StoresSound /\ TextsSound /\ OnlyTheSeatedRead

\* The part of TypeOK about what is neither a store nor a state.
LogsTyped ==
  /\ published \in [Devices -> 0 .. MaxPackages]
  /\ texts \in Seq([group : Nat, leaf : Leaf, gen : Nat])
  /\ infos \subseteq [of : StateId, by : Devices]
  /\ backup \in [Devices -> SUBSET Devices]
  /\ reports \subseteq Devices \X TextId \X Verdicts
  /\ opened \subseteq Package \X StateId
  /\ yields \subseteq StateId \X StateId
  /\ restarts \in 0 .. MaxRestarts

LEMMA Lengths ==
  ASSUME TypeOK
  PROVE  Len(states) \in Nat /\ Len(texts) \in Nat
BY LenProperties DEF TypeOK

LEMMA GrowsReflexive ==
  ASSUME NEW rows, Len(rows) \in Nat
  PROVE  Grows(rows, rows)
BY DEF Grows

\* What a step that makes no commit, says nothing and reads nothing leaves.
LEMMA RowsStay ==
  ASSUME IInv, states' = states
  PROVE  RowsSound'
BY DEF IInv, RowsSound, FollowsItsParent, StateId, Parent, Epoch

LEMMA StoresStay ==
  ASSUME IInv, UNCHANGED <<states, session, disk, before>>
  PROVE  StoresSound'
BY DEF IInv, StoresSound, Stores

LEMMA TextsStay ==
  ASSUME IInv, UNCHANGED <<states, texts, reports>>
  PROVE  TextsSound' /\ OnlyTheSeatedRead'
BY DEF IInv, TextsSound, OnlyTheSeatedRead, StateId, TextId, Members, Tree

\* One device's session and the two blobs it keeps, as a step leaves them.
LEMMA StoresStep ==
  ASSUME IInv, Len(states') \in Nat, Grows(states, states'),
         NEW d \in Devices, NEW s, SoundIn(states', d, s),
         session' = [session EXCEPT ![d] = s],
         disk' = disk,
         before' = before \/ before' = [before EXCEPT ![d] = session[d]]
  PROVE  /\ StoresSound'
         /\ session' \in [Devices -> Store]
         /\ disk' \in [Devices -> Store]
         /\ before' \in [Devices -> Store]
<1>1. Len(states) \in Nat
  BY Lengths DEF IInv
<1>2. /\ session \in [Devices -> Store]
      /\ disk \in [Devices -> Store]
      /\ before \in [Devices -> Store]
  BY DEF IInv, TypeOK
<1>3. \A e \in Devices : /\ SoundIn(states', e, session[e])
                         /\ SoundIn(states', e, disk[e])
                         /\ SoundIn(states', e, before[e])
  BY <1>1, GrowSound DEF IInv, StoresSound, Stores
<1>4. s \in Store
  BY DEF SoundIn
<1>5. /\ session' \in [Devices -> Store]
      /\ disk' \in [Devices -> Store]
      /\ before' \in [Devices -> Store]
  BY <1>2, <1>4
<1>6. \A e \in Devices : /\ SoundIn(states', e, session'[e])
                         /\ SoundIn(states', e, disk'[e])
                         /\ SoundIn(states', e, before'[e])
  BY <1>2, <1>3
<1>7. StoresSound'
  BY <1>6 DEF StoresSound, Stores
<1> QED BY <1>5, <1>7

\* What has been said and handed out stays in order as the room grows.
LEMMA LogsStep ==
  ASSUME IInv, Len(states') \in Nat, Grows(states, states'),
         UNCHANGED <<published, texts, infos, backup, reports, opened, yields, restarts>>
  PROVE  LogsTyped' /\ TextsSound' /\ OnlyTheSeatedRead'
<1>1. StateId \subseteq StateId' /\ TextId' = TextId
  BY Lengths DEF IInv, StateId, TextId, Grows
<1>2. LogsTyped
  BY DEF IInv, TypeOK, LogsTyped
<1>3. LogsTyped'
  BY <1>1, <1>2 DEF LogsTyped
<1>4. TextsSound'
  BY <1>1 DEF IInv, TextsSound
<1>5. \A g \in StateId : Members(g)' = Members(g)
  BY DEF Grows, StateId, Members, Tree
<1>6. \A r \in reports : texts[r[2]].group \in StateId
  BY <1>2 DEF IInv, LogsTyped, TextsSound
<1>7. OnlyTheSeatedRead'
  BY <1>5, <1>6 DEF IInv, OnlyTheSeatedRead
<1> QED BY <1>3, <1>4, <1>7

\* A step that changes one session and nothing the room has said.
LEMMA SessionStep ==
  ASSUME IInv, NEW d \in Devices, NEW s, SoundIn(states, d, s),
         session' = [session EXCEPT ![d] = s],
         UNCHANGED <<states, disk, before>>
  PROVE  RowsSound' /\ StoresSound' /\ (LogsTyped' => TypeOK')
<1>1. Len(states) \in Nat /\ Len(states') \in Nat /\ Grows(states, states')
  BY Lengths, GrowsReflexive DEF IInv
<1>2. SoundIn(states', d, s)
  OBVIOUS
<1>3. /\ StoresSound'
      /\ session' \in [Devices -> Store]
      /\ disk' \in [Devices -> Store]
      /\ before' \in [Devices -> Store]
  BY <1>1, <1>2, StoresStep
<1>4. RowsSound'
  BY RowsStay
<1> QED BY <1>3, <1>4 DEF IInv, TypeOK, LogsTyped

(***************************************************************************)
(* Commits.                                                                *)
(***************************************************************************)
LEMMA MakeStateStep ==
  ASSUME IInv, NEW d \in Devices, NEW parent \in Nat,
         parent = NoRoom \/ parent \in StateId,
         NEW external \in BOOLEAN, NEW tree \in Trees, IsInjective(tree),
         NEW added \in SUBSET Package, \A p \in added : p[1] \in Range(tree),
         NEW removed \in SUBSET Devices,
         MakeState(d, parent, external, tree, added, removed)
  PROVE  /\ states' \in Seq(Row) /\ Len(states') \in Nat /\ Grows(states, states')
         /\ NewId \in 1 .. Len(states')
         /\ states'[NewId].tree = tree /\ states'[NewId].parent = parent
         /\ RowsSound'
<1> DEFINE row == [parent |-> parent, from |-> d, external |-> external,
                   tree |-> tree,
                   epoch |-> IF parent = NoRoom THEN 0 ELSE Epoch(parent) + 1,
                   added |-> added, removed |-> removed]
<1>1. states \in Seq(Row) /\ Len(states) \in Nat
  BY Lengths DEF IInv, TypeOK
<1>2. row \in Row
  <2>1. (IF parent = NoRoom THEN 0 ELSE Epoch(parent) + 1) \in Nat
    <3>1. ASSUME parent \in StateId PROVE states[parent] \in Row
      BY <1>1, <3>1, ElementOfSeq DEF StateId
    <3> QED BY <3>1 DEF Row, Epoch
  <2> QED BY <2>1 DEF Row
<1>3. states' = Append(states, row)
  BY DEF MakeState
<1> HIDE DEF row
<1>4. /\ states' \in Seq(Row) /\ Len(states') = Len(states) + 1
      /\ \A g \in 1 .. Len(states) : states'[g] = states[g]
      /\ states'[Len(states) + 1] = row
  BY <1>1, <1>2, <1>3, AppendProperties
<1>5. Grows(states, states')
  BY <1>1, <1>4 DEF Grows
<1>6. row.tree = tree /\ row.parent = parent /\ row.added = added
  BY DEF row
<1>7. RowSound(row)
  BY <1>6 DEF RowSound
<1>8. RowsSound'
  <2>0. PICK n \in Nat : n = Len(states) + 1
    BY <1>1
  <2>1. StateId' = StateId \cup {n} /\ n \notin StateId /\ states'[n] = row
    BY <1>1, <1>4, <2>0 DEF StateId
  <2>2. ASSUME NEW g \in StateId PROVE RowSound(states'[g]) /\ FollowsItsParent(g)'
    <3>1. g \in StateId' /\ states'[g] = states[g]
      BY <1>4, <2>1 DEF StateId
    <3>2. RowSound(states[g]) /\ FollowsItsParent(g)
      BY DEF IInv, RowsSound
    <3>3. \A h \in StateId : states'[h] = states[h] /\ h \in StateId'
      BY <1>4, <2>1 DEF StateId
    <3> QED BY <3>1, <3>2, <3>3 DEF FollowsItsParent, Parent, Epoch
  <2>3. RowSound(states'[n])
    BY <1>7, <2>1
  <2>4. FollowsItsParent(n)'
    <3> SUFFICES ASSUME parent # NoRoom
        PROVE parent \in StateId' /\ states'[n].epoch = states'[parent].epoch + 1
      BY <1>6, <2>1 DEF FollowsItsParent, Parent, Epoch
    <3>1. row.epoch = states[parent].epoch + 1
      BY DEF row, Epoch
    <3>2. parent \in StateId' /\ states'[parent] = states[parent]
      BY <1>4, <2>1 DEF StateId
    <3> QED BY <2>1, <3>1, <3>2
  <2> QED BY <2>1, <2>2, <2>3, <2>4 DEF RowsSound
<1> QED BY <1>1, <1>4, <1>5, <1>6, <1>8 DEF NewId

LEMMA CommitAsMemberStep ==
  ASSUME IInv, NEW d \in Devices, InRoom(d),
         NEW tree \in Trees, IsInjective(tree), d \in Range(tree),
         NEW added \in SUBSET Package, \A p \in added : p[1] \in Range(tree),
         NEW removed \in SUBSET Devices,
         CommitAsMember(d, tree, added, removed)
  PROVE  IInv'
<1>1. /\ session[d].at \in StateId /\ session[d].at \in Nat
      /\ SoundIn(states, d, session[d])
  <2>1. SoundIn(states, d, session[d])
    BY DEF IInv, StoresSound, Stores
  <2>2. session[d].at # NoRoom /\ session[d].at \in Retained(session[d])
    BY DEF InRoom, Retained
  <2> QED BY <2>1, <2>2 DEF SoundIn, StateId
<1>2. /\ MakeState(d, session[d].at, FALSE, tree, added, removed)
      /\ before' = [before EXCEPT ![d] = session[d]]
      /\ session' = [session EXCEPT ![d] = Advance(session[d], NewId)]
      /\ disk' = disk
      /\ UNCHANGED <<published, texts, infos, backup, reports, opened, yields, restarts>>
  BY DEF CommitAsMember, blobs, logs
<1>3. /\ states' \in Seq(Row) /\ Len(states') \in Nat /\ Grows(states, states')
      /\ NewId \in 1 .. Len(states')
      /\ states'[NewId].tree = tree /\ states'[NewId].parent = session[d].at
      /\ RowsSound'
  BY <1>1, <1>2, MakeStateStep
<1>4. SoundIn(states', d, Advance(session[d], NewId))
  <2>1. SoundIn(states', d, session[d])
    BY <1>1, <1>3, GrowSound, Lengths DEF IInv
  <2> QED BY <2>1, <1>3, AdvanceSound DEF InRoom
<1>5. /\ StoresSound'
      /\ session' \in [Devices -> Store]
      /\ disk' \in [Devices -> Store]
      /\ before' \in [Devices -> Store]
  BY <1>2, <1>3, <1>4, StoresStep
<1>6. LogsTyped' /\ TextsSound' /\ OnlyTheSeatedRead'
  BY <1>2, <1>3, LogsStep
<1> QED BY <1>3, <1>5, <1>6 DEF IInv, TypeOK, LogsTyped

\* The tree at the state a device holds, and its seat there.
LEMMA SeatFacts ==
  ASSUME IInv, NEW g \in StateId
  PROVE  Tree(g) \in Trees /\ IsInjective(Tree(g)) /\ Members(g) \subseteq Devices
<1>1. states[g] \in Row
  BY ElementOfSeq DEF IInv, TypeOK, StateId
<1>2. Tree(g) \in Trees
  BY <1>1 DEF Row, Tree
<1>3. IsInjective(Tree(g))
  BY DEF IInv, RowsSound, RowSound, Tree
<1> QED BY <1>2, <1>3, TreeFacts DEF Members

LEMMA HolderFacts ==
  ASSUME IInv, NEW d \in Devices, NEW s \in Stores(d), s.at # NoRoom
  PROVE  s.at \in StateId /\ d \in Members(s.at) /\ SoundIn(states, d, s)
BY DEF IInv, StoresSound, SoundIn, Retained, StateId, Members, Tree

LEMMA AddMembersStep ==
  ASSUME IInv, NEW d \in Devices, NEW packages \in Additions,
         AddMembers(d, packages)
  PROVE  IInv'
<1> DEFINE tree == Tree(session[d].at)
           newcomers == {p[1] : p \in packages}
<1>1. PICK seated \in Seatings(tree, newcomers) : CommitAsMember(d, seated, packages, {})
  BY DEF AddMembers
<1>2. InRoom(d) /\ newcomers \cap Range(tree) = {}
  BY DEF AddMembers
<1>3. /\ session[d].at \in StateId /\ d \in Range(tree)
      /\ tree \in Trees /\ IsInjective(tree)
  BY <1>2, HolderFacts, SeatFacts DEF InRoom, Stores, Members
<1>4. packages \in SUBSET Package
  BY DEF Additions
<1>5. newcomers \in SUBSET Devices
  BY <1>4 DEF Package
<1>6. /\ seated \in Trees /\ IsInjective(seated)
      /\ Range(tree) \subseteq Range(seated) /\ newcomers \subseteq Range(seated)
  BY <1>2, <1>3, <1>5, SeatingsSound
<1>7. \A p \in packages : p[1] \in Range(seated)
  BY <1>6
<1> QED BY <1>1, <1>2, <1>3, <1>4, <1>6, <1>7, CommitAsMemberStep

LEMMA RemoveMemberStep ==
  ASSUME IInv, NEW d \in Devices, NEW identity, RemoveMember(d, identity)
  PROVE  IInv'
<1> DEFINE tree == Tree(session[d].at)
<1>1. InRoom(d)
  BY DEF RemoveMember
<1>2. PICK leaf \in DOMAIN tree :
        /\ tree[leaf] # d
        /\ CommitAsMember(d, Unseat(tree, {leaf}), {}, {tree[leaf]})
  BY DEF RemoveMember
<1>3. /\ session[d].at \in StateId /\ d \in Range(tree)
      /\ tree \in Trees /\ IsInjective(tree)
  BY <1>1, HolderFacts, SeatFacts DEF InRoom, Stores, Members
<1>4. Unseat(tree, {leaf}) \in Trees /\ IsInjective(Unseat(tree, {leaf}))
  BY <1>3, UnseatSound
<1>5. d \in Range(Unseat(tree, {leaf}))
  <2>1. PICK l \in DOMAIN tree : tree[l] = d
    BY <1>3 DEF Range
  <2>2. l \in DOMAIN tree \ {leaf}
    BY <1>2, <2>1
  <2> QED BY <1>3, <2>1, <2>2, UnseatSound
<1>6. {tree[leaf]} \in SUBSET Devices
  BY <1>3, TreeFacts
<1> QED BY <1>1, <1>2, <1>4, <1>5, <1>6, CommitAsMemberStep

\* The two ways into a state that is made by coming in.
LEMMA ComeInStep ==
  ASSUME IInv, NEW d \in Devices, NEW parent \in Nat,
         parent = NoRoom \/ parent \in StateId,
         NEW external \in BOOLEAN, NEW tree \in Trees, IsInjective(tree),
         d \in Range(tree),
         MakeState(d, parent, external, tree, {}, {}),
         session' = [session EXCEPT ![d] = StartAt(session[d], NewId)],
         UNCHANGED <<disk, before, blobs, logs>>
  PROVE  IInv'
<1>1. /\ states' \in Seq(Row) /\ Len(states') \in Nat /\ Grows(states, states')
      /\ NewId \in 1 .. Len(states') /\ states'[NewId].tree = tree
      /\ RowsSound'
  <2> DEFINE none == {}
  <2>1. /\ none \in SUBSET Package /\ none \in SUBSET Devices
        /\ \A p \in none : p[1] \in Range(tree)
    OBVIOUS
  <2>2. MakeState(d, parent, external, tree, none, none)
    OBVIOUS
  <2> HIDE DEF none
  <2> QED BY <2>1, <2>2, MakeStateStep
<1>2. SoundIn(states, d, session[d])
  BY DEF IInv, StoresSound, Stores
<1>3. SoundIn(states', d, StartAt(session[d], NewId))
  <2>1. SoundIn(states', d, session[d])
    BY <1>1, <1>2, GrowSound, Lengths DEF IInv
  <2> QED BY <2>1, <1>1, StartAtSound
<1>4. /\ StoresSound'
      /\ session' \in [Devices -> Store]
      /\ disk' \in [Devices -> Store]
      /\ before' \in [Devices -> Store]
  BY <1>1, <1>3, StoresStep
<1>5. LogsTyped' /\ TextsSound' /\ OnlyTheSeatedRead'
  BY <1>1, LogsStep DEF blobs, logs
<1> QED BY <1>1, <1>4, <1>5 DEF IInv, TypeOK, LogsTyped

LEMMA CreateRoomStep ==
  ASSUME IInv, NEW d \in Devices, CreateRoom(d)
  PROVE  IInv'
<1> DEFINE tree == [l \in {0} |-> d]
<1>1. {0} \in SUBSET Leaf /\ tree \in [{0} -> Devices]
  BY LeafSpanAssumption DEF Leaf
<1>2. tree \in Trees
  BY <1>1, TreeIntro
<1>3. IsInjective(tree) /\ d \in Range(tree)
  BY DEF IsInjective, Range
<1> QED BY <1>2, <1>3, ComeInStep DEF CreateRoom, NoRoom

LEMMA JoinExternallyStep ==
  ASSUME IInv, NEW d \in Devices, NEW info \in infos, JoinExternally(d, info)
  PROVE  IInv'
<1> DEFINE tree == Tree(info.of)
           own == {l \in DOMAIN tree : tree[l] = d}
           rest == Unseat(tree, own)
<1>1. info.of \in StateId
  BY DEF IInv, TypeOK
<1>2. tree \in Trees /\ IsInjective(tree)
  BY <1>1, SeatFacts
<1>3. rest \in Trees /\ IsInjective(rest) /\ {d} \cap Range(rest) = {}
  <2>1. rest \in Trees /\ IsInjective(rest)
    BY <1>2, UnseatSound
  <2>2. d \notin Range(rest)
    BY DEF Unseat, Range
  <2> QED BY <2>1, <2>2
<1>4. PICK seated \in Seatings(rest, {d}) : MakeState(d, info.of, TRUE, seated, {}, {})
  BY DEF JoinExternally
<1>5. seated \in Trees /\ IsInjective(seated) /\ d \in Range(seated)
  BY <1>3, SeatingsSound
<1>6. /\ session' = [session EXCEPT ![d] = StartAt(session[d], NewId)]
      /\ UNCHANGED <<disk, before, blobs, logs>>
  BY DEF JoinExternally
<1>7. info.of \in Nat /\ TRUE \in BOOLEAN
  BY <1>1 DEF StateId
<1> HIDE DEF rest, own, tree
<1> QED BY <1>1, <1>4, <1>5, <1>6, <1>7, ComeInStep

(***************************************************************************)
(* Packages, Welcomes and other people's commits.                          *)
(***************************************************************************)
LEMMA KeyPackageStep ==
  ASSUME IInv, NEW d \in Devices, KeyPackage(d)
  PROVE  IInv'
<1> DEFINE s == [session[d] EXCEPT !.packages = @ \cup {<<d, published[d] + 1>>}]
<1>1. session[d] \in Store /\ SoundIn(states, d, session[d])
  BY DEF IInv, TypeOK, StoresSound, Stores
<1>2. <<d, published[d] + 1>> \in Package
  BY RoomAssumption DEF KeyPackage, Package, IInv, TypeOK
<1>3. s.packages = session[d].packages \cup {<<d, published[d] + 1>>}
  BY <1>1 DEF Store
<1>4. s.at = session[d].at /\ s.past = session[d].past
  BY <1>1 DEF Store
<1>5. s \in Store
  BY <1>1, <1>2 DEF Store
<1>6. SoundIn(states, d, s)
  BY <1>1, <1>3, <1>4, <1>5 DEF SoundIn, Retained
<1>7. /\ session' = [session EXCEPT ![d] = s]
      /\ UNCHANGED <<states, disk, before>>
  BY DEF KeyPackage
<1>8. RowsSound' /\ StoresSound' /\ (LogsTyped' => TypeOK')
  BY <1>6, <1>7, SessionStep
<1>9. published' \in [Devices -> 0 .. MaxPackages]
  BY RoomAssumption DEF KeyPackage, IInv, TypeOK
<1>10. LogsTyped'
  BY <1>9 DEF KeyPackage, logs, IInv, TypeOK, LogsTyped, StateId, TextId
<1>11. TextsSound' /\ OnlyTheSeatedRead'
  BY TextsStay DEF KeyPackage, logs
<1> QED BY <1>8, <1>10, <1>11 DEF IInv

LEMMA JoinStep ==
  ASSUME IInv, NEW d \in Devices, NEW g \in StateId, Join(d, g)
  PROVE  IInv'
<1>1. PICK p \in states[g].added :
        /\ p \in session[d].packages
        /\ session' = [session EXCEPT ![d] =
                         StartAt([session[d] EXCEPT !.packages = @ \ {p}], g)]
        /\ opened' = opened \cup {<<p, g>>}
  BY DEF Join
<1> DEFINE spent == [session[d] EXCEPT !.packages = @ \ {p}]
<1>2. /\ session[d] \in Store /\ SoundIn(states, d, session[d])
      /\ Len(states) \in Nat
  BY Lengths DEF IInv, TypeOK, StoresSound, Stores
<1>3. p[1] = d /\ p \in Package
  BY <1>1, <1>2 DEF SoundIn, Store
<1>4. g \in 1 .. Len(states) /\ d \in Range(states[g].tree)
  BY <1>1, <1>3 DEF IInv, RowsSound, RowSound, StateId
<1>5. /\ spent \in Store /\ spent.packages \subseteq session[d].packages
      /\ spent.at = session[d].at /\ spent.past = session[d].past
  BY <1>2 DEF Store
<1>6. SoundIn(states, d, spent)
  BY <1>2, <1>5 DEF SoundIn, Retained
<1>7. session' = [session EXCEPT ![d] = StartAt(spent, g)]
  BY <1>1
<1> HIDE DEF spent
<1>8. SoundIn(states, d, StartAt(spent, g))
  BY <1>2, <1>4, <1>6, StartAtSound
<1>9. RowsSound' /\ StoresSound' /\ (LogsTyped' => TypeOK')
  BY <1>7, <1>8, SessionStep DEF Join
<1>10. opened' \subseteq Package \X StateId
  BY <1>1, <1>3 DEF IInv, TypeOK
<1>11. LogsTyped'
  BY <1>10 DEF Join, blobs, IInv, TypeOK, LogsTyped, StateId, TextId
<1>12. TextsSound' /\ OnlyTheSeatedRead'
  BY TextsStay DEF Join, blobs
<1> QED BY <1>9, <1>11, <1>12 DEF IInv

LEMMA ReceiveCommitStep ==
  ASSUME IInv, NEW d \in Devices, NEW g \in StateId, ReceiveCommit(d, g)
  PROVE  IInv'
<1>1. SoundIn(states, d, session[d]) /\ session[d].at # NoRoom /\ Parent(g) = session[d].at
  BY DEF IInv, StoresSound, Stores, ReceiveCommit, InRoom
<1>2. SoundIn(states, d, Merge(session[d], g, d))
  BY <1>1, MergeSound, Lengths DEF IInv
<1>3. RowsSound' /\ StoresSound' /\ (LogsTyped' => TypeOK')
  BY <1>2, SessionStep DEF ReceiveCommit
<1>4. LogsTyped'
  BY DEF ReceiveCommit, blobs, logs, IInv, TypeOK, LogsTyped, StateId, TextId
<1>5. TextsSound' /\ OnlyTheSeatedRead'
  BY TextsStay DEF ReceiveCommit, blobs, logs
<1> QED BY <1>3, <1>4, <1>5 DEF IInv

LEMMA TieBreakStep ==
  ASSUME IInv, NEW d \in Devices, NEW g \in StateId, TieBreak(d, g)
  PROVE  IInv'
<1>1. /\ InRoom(d) /\ before[d].at # NoRoom /\ Parent(g) = before[d].at
      /\ yields' = yields \cup {<<session[d].at, g>>}
      /\ session' = [session EXCEPT ![d] = Merge(before[d], g, d)]
      /\ UNCHANGED <<states, disk, before, blobs, reports, opened, restarts>>
  BY DEF TieBreak, Yields
<1>2. SoundIn(states, d, before[d])
  BY DEF IInv, StoresSound, Stores
<1>3. SoundIn(states, d, Merge(before[d], g, d))
  BY <1>1, <1>2, MergeSound, Lengths DEF IInv
<1>4. RowsSound' /\ StoresSound' /\ (LogsTyped' => TypeOK')
  BY <1>1, <1>3, SessionStep
<1>5. session[d].at \in StateId
  BY <1>1, HolderFacts DEF InRoom, Stores
<1>6. yields' \subseteq StateId \X StateId
  BY <1>1, <1>5 DEF IInv, TypeOK
<1>7. LogsTyped'
  BY <1>1, <1>6 DEF blobs, IInv, TypeOK, LogsTyped, StateId, TextId
<1>8. TextsSound' /\ OnlyTheSeatedRead'
  BY <1>1, TextsStay DEF blobs
<1> QED BY <1>4, <1>7, <1>8 DEF IInv

(***************************************************************************)
(* Messages.                                                               *)
(***************************************************************************)
LEMMA SendStep ==
  ASSUME IInv, NEW d \in Devices, Send(d)
  PROVE  IInv'
<1> DEFINE s == [session[d] EXCEPT !.sent = @ + 1]
           g == session[d].at
           text == [group |-> g, gen |-> session[d].sent, leaf |-> LeafOf(g, d)]
<1>1. /\ session[d] \in Store /\ SoundIn(states, d, session[d])
      /\ g \in StateId /\ d \in Members(g)
  BY HolderFacts DEF IInv, TypeOK, Send, InRoom, Stores
<1>2. s \in Store /\ s.packages = session[d].packages /\ s.at = g /\ s.past = session[d].past
  <2>1. session[d].sent + 1 \in Nat
    BY <1>1 DEF Store
  <2> QED BY <1>1, <2>1 DEF Store
<1>3. SoundIn(states, d, s)
  BY <1>1, <1>2 DEF SoundIn, Retained
<1>4. /\ session' = [session EXCEPT ![d] = s]
      /\ texts' = Append(texts, text)
      /\ UNCHANGED <<states, disk, before, published, infos, backup,
                     reports, opened, yields, restarts>>
  BY DEF Send, logs
<1>5. RowsSound' /\ StoresSound' /\ (LogsTyped' => TypeOK')
  BY <1>3, <1>4, SessionStep
<1>6. LeafOf(g, d) \in Leaf
  <2>1. \E l \in DOMAIN Tree(g) : Tree(g)[l] = d
    BY <1>1 DEF Members, Range
  <2>2. LeafOf(g, d) \in DOMAIN Tree(g)
    BY <2>1 DEF LeafOf
  <2> QED BY <1>1, <2>2, SeatFacts, TreeFacts
<1>7. text \in [group : Nat, leaf : Leaf, gen : Nat]
  BY <1>1, <1>6 DEF Store
<1>8. texts \in Seq([group : Nat, leaf : Leaf, gen : Nat]) /\ Len(texts) \in Nat
  BY Lengths DEF IInv, TypeOK
<1>9. text.group = g
  OBVIOUS
<1> HIDE DEF text
<1>10. /\ texts' \in Seq([group : Nat, leaf : Leaf, gen : Nat])
       /\ Len(texts') = Len(texts) + 1
       /\ \A t \in TextId : texts'[t] = texts[t]
       /\ texts'[Len(texts) + 1] = text
  BY <1>4, <1>7, <1>8, AppendProperties DEF TextId
<1>11. TextId \subseteq TextId' /\ TextId' = TextId \cup {Len(texts) + 1}
  BY <1>8, <1>10 DEF TextId
<1>12. LogsTyped'
  BY <1>4, <1>10, <1>11 DEF IInv, TypeOK, LogsTyped, StateId
<1>13. TextsSound'
  BY <1>1, <1>4, <1>9, <1>10, <1>11 DEF IInv, TextsSound, StateId
<1>14. \A r \in reports : r[2] \in TextId
  BY DEF IInv, TypeOK
<1>15. OnlyTheSeatedRead'
  BY <1>4, <1>10, <1>14 DEF IInv, OnlyTheSeatedRead, Members, Tree
<1> QED BY <1>5, <1>12, <1>13, <1>15 DEF IInv

LEMMA ReceiveTextStep ==
  ASSUME IInv, NEW d \in Devices, NEW t \in TextId, ReceiveText(d, t)
  PROVE  IInv'
<1> DEFINE verdict == Verdict(session[d], t)
           g == texts[t].group
           u == [session[d] EXCEPT !.seen = @ \cup {Key(t)}]
           s == IF verdict = "read" THEN u ELSE session[d]
<1>1. /\ InRoom(d)
      /\ reports' = reports \cup {<<d, t, verdict>>}
      /\ session' = IF verdict = "read"
                    THEN [session EXCEPT ![d] = u] ELSE session
      /\ UNCHANGED <<states, disk, before, blobs, opened, yields, restarts>>
  BY DEF ReceiveText
<1>2. /\ session[d] \in Store /\ SoundIn(states, d, session[d])
      /\ session \in [Devices -> Store]
  BY DEF IInv, TypeOK, StoresSound, Stores
<1>3. Key(t) \in Nat \X Leaf \X Nat
  <2>1. texts[t] \in [group : Nat, leaf : Leaf, gen : Nat]
    BY ElementOfSeq DEF IInv, TypeOK, TextId
  <2> QED BY <2>1 DEF Key
<1>4. u \in Store /\ u.packages = session[d].packages /\ u.at = session[d].at
      /\ u.past = session[d].past
  BY <1>2, <1>3 DEF Store
<1>5. SoundIn(states, d, u)
  BY <1>2, <1>4 DEF SoundIn, Retained
<1>6. SoundIn(states, d, s)
  BY <1>2, <1>5
<1>7. session' = [session EXCEPT ![d] = s]
  BY <1>1, <1>2
<1>8. RowsSound' /\ StoresSound' /\ (LogsTyped' => TypeOK')
  BY <1>1, <1>6, <1>7, SessionStep
<1>9. verdict \in Verdicts
  BY DEF Verdict, Verdicts
<1>10. verdict = "read" => g \in Retained(session[d])
  BY DEF Verdict
<1>11. verdict = "read" => d \in Members(g)
  BY <1>1, <1>2, <1>10 DEF SoundIn, InRoom, Members, Tree
<1> HIDE DEF verdict
<1>12. LogsTyped'
  <2>1. TextId' = TextId /\ StateId' = StateId
    BY <1>1 DEF blobs, TextId, StateId
  <2>2. reports' \subseteq Devices \X TextId \X Verdicts
    BY <1>1, <1>9 DEF IInv, TypeOK
  <2> QED BY <1>1, <2>1, <2>2 DEF blobs, IInv, TypeOK, LogsTyped
<1>13. TextsSound'
  BY <1>1 DEF blobs, IInv, TextsSound, StateId, TextId
<1>14. OnlyTheSeatedRead'
  BY <1>1, <1>11 DEF blobs, IInv, OnlyTheSeatedRead, Members, Tree
<1> QED BY <1>8, <1>12, <1>13, <1>14 DEF IInv

(***************************************************************************)
(* Healing and storage.                                                    *)
(***************************************************************************)
LEMMA RoomInfoStep ==
  ASSUME IInv, NEW d \in Devices, RoomInfo(d)
  PROVE  IInv'
<1>1. session[d].at \in StateId
  BY HolderFacts DEF RoomInfo, InRoom, Stores
<1>2. infos' \subseteq [of : StateId, by : Devices]
  BY <1>1 DEF RoomInfo, IInv, TypeOK
<1>3. RowsSound' /\ StoresSound' /\ TextsSound' /\ OnlyTheSeatedRead'
  BY RowsStay, StoresStay, TextsStay DEF RoomInfo, logs
<1>4. TypeOK'
  BY <1>2 DEF RoomInfo, logs, IInv, TypeOK, StateId, TextId
<1> QED BY <1>3, <1>4 DEF IInv

LEMMA BackupStep ==
  ASSUME IInv, NEW d \in Devices, Backup(d)
  PROVE  IInv'
<1>1. Members(session[d].at) \in SUBSET Devices
  BY HolderFacts, SeatFacts DEF Backup, InRoom, Stores
<1>2. backup' \in [Devices -> SUBSET Devices]
  BY <1>1 DEF Backup, IInv, TypeOK
<1>3. RowsSound' /\ StoresSound' /\ TextsSound' /\ OnlyTheSeatedRead'
  BY RowsStay, StoresStay, TextsStay DEF Backup, logs
<1>4. TypeOK'
  BY <1>2 DEF Backup, logs, IInv, TypeOK, StateId, TextId
<1> QED BY <1>3, <1>4 DEF IInv

LEMMA ExportStep ==
  ASSUME IInv, NEW d \in Devices, Export(d)
  PROVE  IInv'
<1>1. /\ disk' = [disk EXCEPT ![d] = session[d]]
      /\ UNCHANGED <<states, session, before, blobs, logs>>
  BY DEF Export
<1>2. disk' \in [Devices -> Store]
  BY <1>1 DEF IInv, TypeOK
<1>3. \A e \in Devices : SoundIn(states, e, disk'[e])
  BY <1>1 DEF IInv, TypeOK, StoresSound, Stores
<1>4. StoresSound'
  BY <1>1, <1>3 DEF IInv, StoresSound, Stores
<1>5. RowsSound' /\ TextsSound' /\ OnlyTheSeatedRead'
  BY <1>1, RowsStay, TextsStay DEF blobs, logs
<1>6. TypeOK'
  BY <1>1, <1>2 DEF blobs, logs, IInv, TypeOK, StateId, TextId
<1> QED BY <1>4, <1>5, <1>6 DEF IInv

LEMMA RestoreStep ==
  ASSUME IInv, NEW d \in Devices, Restore(d)
  PROVE  IInv'
<1>1. /\ restarts < MaxRestarts /\ restarts' = restarts + 1
      /\ session' = [session EXCEPT ![d] = disk[d]]
      /\ UNCHANGED <<states, disk, before, blobs, reports, opened, yields>>
  BY DEF Restore
<1>2. SoundIn(states, d, disk[d])
  BY DEF IInv, StoresSound, Stores
<1>3. RowsSound' /\ StoresSound' /\ (LogsTyped' => TypeOK')
  BY <1>1, <1>2, SessionStep
<1>4. restarts' \in 0 .. MaxRestarts
  BY <1>1, RoomAssumption DEF IInv, TypeOK
<1>5. LogsTyped'
  BY <1>1, <1>4 DEF blobs, IInv, TypeOK, LogsTyped, StateId, TextId
<1>6. TextsSound' /\ OnlyTheSeatedRead'
  BY <1>1, TextsStay DEF blobs
<1> QED BY <1>3, <1>5, <1>6 DEF IInv

LEMMA NewFromSeedStep ==
  ASSUME IInv, NEW d \in Devices, NewFromSeed(d)
  PROVE  IInv'
<1>1. /\ restarts < MaxRestarts /\ restarts' = restarts + 1
      /\ session' = [session EXCEPT ![d] = EmptyStore]
      /\ disk' = [disk EXCEPT ![d] = EmptyStore]
      /\ before' = [before EXCEPT ![d] = EmptyStore]
      /\ UNCHANGED <<states, blobs, reports, opened, yields>>
  BY DEF NewFromSeed
<1>2. \A e \in Devices : SoundIn(states, e, EmptyStore)
  BY EmptyStoreSound
<1>3. /\ session' \in [Devices -> Store]
      /\ disk' \in [Devices -> Store]
      /\ before' \in [Devices -> Store]
  BY <1>1, <1>2 DEF IInv, TypeOK, SoundIn
<1>4. \A e \in Devices : /\ SoundIn(states, e, session'[e])
                         /\ SoundIn(states, e, disk'[e])
                         /\ SoundIn(states, e, before'[e])
  BY <1>1, <1>2 DEF IInv, TypeOK, StoresSound, Stores
<1>5. StoresSound'
  BY <1>1, <1>4 DEF StoresSound, Stores
<1>6. restarts' \in 0 .. MaxRestarts
  BY <1>1, RoomAssumption DEF IInv, TypeOK
<1>7. RowsSound' /\ TextsSound' /\ OnlyTheSeatedRead'
  BY <1>1, RowsStay, TextsStay DEF blobs
<1>8. TypeOK'
  BY <1>1, <1>3, <1>6 DEF blobs, IInv, TypeOK, StateId, TextId
<1> QED BY <1>5, <1>7, <1>8 DEF IInv

(***************************************************************************)
(* The theorems.                                                           *)
(***************************************************************************)
LEMMA InitStep == Init => IInv
<1> SUFFICES ASSUME Init PROVE IInv
  OBVIOUS
<1>1. \A d \in Devices : SoundIn(states, d, EmptyStore)
  BY EmptyStoreSound
<1>2. \A d \in Devices : EmptyStore \in Store
  BY <1>1 DEF SoundIn
<1>3. /\ session \in [Devices -> Store]
      /\ disk \in [Devices -> Store]
      /\ before \in [Devices -> Store]
  BY <1>2 DEF Init
<1>4. states = <<>> /\ texts = <<>> /\ Len(states) = 0 /\ Len(texts) = 0
  BY EmptySeq DEF Init
<1>5. TypeOK
  BY <1>3, <1>4, EmptySeq, RoomAssumption DEF Init, TypeOK
<1>6. RowsSound /\ TextsSound /\ OnlyTheSeatedRead
  BY <1>4 DEF Init, RowsSound, TextsSound, OnlyTheSeatedRead, StateId, TextId
<1>7. StoresSound
  BY <1>1 DEF Init, StoresSound, Stores
<1> QED BY <1>5, <1>6, <1>7 DEF IInv

LEMMA NextStep == IInv /\ [Next]_vars => IInv'
<1> SUFFICES ASSUME IInv, [Next]_vars PROVE IInv'
  OBVIOUS
<1>1. CASE UNCHANGED vars
  <2>1. RowsSound' /\ StoresSound' /\ TextsSound' /\ OnlyTheSeatedRead'
    BY <1>1, RowsStay, StoresStay, TextsStay DEF vars
  <2> QED BY <1>1, <2>1 DEF vars, IInv, TypeOK, StateId, TextId
<1>2. CASE Next
  <2>1. PICK d \in Devices :
          \/ CreateRoom(d)
          \/ KeyPackage(d)
          \/ \E packages \in Additions : AddMembers(d, packages)
          \/ \E identity \in Range(Identity) : RemoveMember(d, identity)
          \/ Send(d)
          \/ \E t \in TextId : ReceiveText(d, t)
          \/ \E g \in StateId : Join(d, g) \/ ReceiveCommit(d, g) \/ TieBreak(d, g)
          \/ RoomInfo(d)
          \/ \E info \in infos : Rejoin(d, info) \/ RejoinFromBackup(d, info)
          \/ Backup(d) \/ Export(d) \/ Restore(d) \/ NewFromSeed(d)
    BY <1>2 DEF Next
  <2>2. CASE CreateRoom(d)
    BY <2>2, CreateRoomStep
  <2>3. CASE KeyPackage(d)
    BY <2>3, KeyPackageStep
  <2>4. CASE \E packages \in Additions : AddMembers(d, packages)
    BY <2>4, AddMembersStep
  <2>5. CASE \E identity \in Range(Identity) : RemoveMember(d, identity)
    BY <2>5, RemoveMemberStep
  <2>6. CASE Send(d)
    BY <2>6, SendStep
  <2>7. CASE \E t \in TextId : ReceiveText(d, t)
    BY <2>7, ReceiveTextStep
  <2>8. CASE \E g \in StateId : Join(d, g) \/ ReceiveCommit(d, g) \/ TieBreak(d, g)
    BY <2>8, JoinStep, ReceiveCommitStep, TieBreakStep
  <2>9. CASE RoomInfo(d)
    BY <2>9, RoomInfoStep
  <2>10. CASE \E info \in infos : Rejoin(d, info) \/ RejoinFromBackup(d, info)
    BY <2>10, JoinExternallyStep DEF Rejoin, RejoinFromBackup
  <2>11. CASE Backup(d) \/ Export(d) \/ Restore(d) \/ NewFromSeed(d)
    BY <2>11, BackupStep, ExportStep, RestoreStep, NewFromSeedStep
  <2> QED BY <2>1, <2>2, <2>3, <2>4, <2>5, <2>6, <2>7, <2>8, <2>9, <2>10, <2>11
<1> QED BY <1>1, <1>2

THEOREM Inductive == Spec => []IInv
BY InitStep, NextStep, PTL DEF Spec

\* Every variable has its type, for any number of devices, states and texts.
THEOREM TypeCorrect == Spec => []TypeOK
<1>1. IInv => TypeOK
  BY DEF IInv
<1> QED BY <1>1, Inductive, PTL

\* No state of the room ever seats one signature key twice, whatever forks,
\* evictions, welcomes and rejoins made it (mod.rs 842-844).
THEOREM NobodyIsSeatedTwice == Spec => []OneSeat
<1>1. IInv => OneSeat
  BY DEF IInv, RowsSound, RowSound, OneSeat, Tree
<1> QED BY <1>1, Inductive, PTL

\* Whoever holds a state, in memory or in a blob, sits in it (mod.rs 593-609).
THEOREM HoldersAreSeated == Spec => []HoldsOnlyWhereSeated
<1>1. IInv => HoldsOnlyWhereSeated
  BY DEF IInv, StoresSound, SoundIn, HoldsOnlyWhereSeated, Members, Tree
<1> QED BY <1>1, Inductive, PTL

\* The retained states are an unbroken line back from the one held, through
\* lost races, crashes and rejoins (mod.rs 57-69).
THEOREM RetainedIsAncestry == Spec => []PastIsAncestry
<1>1. IInv => PastIsAncestry
  BY DEF IInv, StoresSound, SoundIn, PastIsAncestry, Parent
<1> QED BY <1>1, Inductive, PTL

\* A text is only ever read by somebody who sat where it was sent (mod.rs
\* 551-617).
THEOREM OnlyMembersRead == Spec => []OnlyTheSeatedRead
<1>1. IInv => OnlyTheSeatedRead
  BY DEF IInv
<1> QED BY <1>1, Inductive, PTL

(***************************************************************************)
(* Epochs.                                                                 *)
(***************************************************************************)

LEMMA EpochType ==
  ASSUME IInv, NEW g \in StateId
  PROVE  Epoch(g) \in Nat
<1>1. states[g] \in Row
  BY ElementOfSeq DEF IInv, TypeOK, StateId
<1> QED BY <1>1 DEF Row, Epoch

\* A commit merged at the state it was made from leads one epoch on.
LEMMA MergeGoesOn ==
  ASSUME IInv, NEW s, s.at \in StateId, NEW g \in StateId, Parent(g) = s.at,
         NEW d, Merge(s, g, d).at # NoRoom
  PROVE  Merge(s, g, d).at = g /\ Epoch(g) = Epoch(s.at) + 1
<1>1. s.at # NoRoom
  BY DEF StateId, NoRoom
<1>2. Epoch(g) = Epoch(s.at) + 1
  BY <1>1 DEF IInv, RowsSound, FollowsItsParent
<1>3. Merge(s, g, d).at = g
  BY DEF Merge, Advance, Leave, StartAt
<1> QED BY <1>2, <1>3

\* A device that makes a state from one at least as far on as its own, and
\* holds the new state, has moved on.
LEMMA MakingGoesOn ==
  ASSUME IInv, NEW d \in Devices, NEW e \in Devices, NEW parent \in StateId,
         Epoch(parent) >= Epoch(session[e].at), session[e].at \in StateId,
         NEW external, NEW tree, NEW added, NEW removed,
         MakeState(d, parent, external, tree, added, removed),
         session'[e].at = NewId
  PROVE  ~(Epoch(session[e].at)' < Epoch(session[e].at))
<1>1. states \in Seq(Row) /\ Len(states) \in Nat
  BY Lengths DEF IInv, TypeOK
<1>2. parent # NoRoom
  BY DEF StateId, NoRoom
<1>3. states'[NewId].epoch = Epoch(parent) + 1
  <2> DEFINE row == [parent |-> parent, from |-> d, external |-> external,
                     tree |-> tree,
                     epoch |-> IF parent = NoRoom THEN 0 ELSE Epoch(parent) + 1,
                     added |-> added, removed |-> removed]
  <2>1. states' = Append(states, row)
    BY DEF MakeState
  <2>2. row.epoch = Epoch(parent) + 1
    BY <1>2
  <2> HIDE DEF row
  <2> QED BY <1>1, <2>1, <2>2 DEF NewId
<1>4. Epoch(parent) \in Nat /\ Epoch(session[e].at) \in Nat
  <2>1. states[parent] \in Row /\ states[session[e].at] \in Row
    BY <1>1, ElementOfSeq DEF StateId
  <2> QED BY <2>1 DEF Row, Epoch
<1> QED BY <1>3, <1>4 DEF Epoch

LEMMA MakeStateGrows ==
  ASSUME IInv, NEW d, NEW parent, NEW external, NEW tree, NEW added, NEW removed,
         MakeState(d, parent, external, tree, added, removed)
  PROVE  Grows(states, states')
<1>1. states \in Seq(Row) /\ Len(states) \in Nat
  BY Lengths DEF IInv, TypeOK
<1> DEFINE row == [parent |-> parent, from |-> d, external |-> external, tree |-> tree,
                   epoch |-> IF parent = NoRoom THEN 0 ELSE Epoch(parent) + 1,
                   added |-> added, removed |-> removed]
<1>2. states' = Append(states, row)
  BY DEF MakeState
<1> HIDE DEF row
<1> QED BY <1>1, <1>2 DEF Grows

\* Who stays at a state stays at its epoch.
LEMMA StayingStays ==
  ASSUME IInv, NEW e \in Devices, session[e].at \in StateId,
         session'[e].at = session[e].at, Grows(states, states')
  PROVE  ~(Epoch(session[e].at)' < Epoch(session[e].at))
<1>1. states[session[e].at] \in Row
  BY ElementOfSeq DEF IInv, TypeOK, StateId
<1>2. Epoch(session[e].at)' = Epoch(session[e].at)
  BY DEF Grows, StateId, Epoch
<1>3. Epoch(session[e].at) \in Nat
  BY <1>1 DEF Row, Epoch
<1> QED BY <1>2, <1>3

\* A step of d takes another device nowhere.
LEMMA OthersStay ==
  ASSUME IInv, NEW d \in Devices, NEW e \in Devices \ {d}, InRoom(e), NEW s,
         session' = [session EXCEPT ![d] = s], Grows(states, states')
  PROVE  ~(Epoch(session[e].at)' < Epoch(session[e].at))
<1>1. session[e].at \in StateId
  BY HolderFacts DEF InRoom, Stores
<1>2. session'[e] = session[e]
  BY DEF IInv, TypeOK
<1> QED BY <1>1, <1>2, StayingStays

\* What a step may only do to e by a Welcome or a restart.
GoesBack(e) == InRoom(e) /\ InRoom(e)' /\ Epoch(session[e].at)' < Epoch(session[e].at)

LEMMA CommitGoesOn ==
  ASSUME IInv, NEW d \in Devices, NEW e \in Devices, InRoom(d), GoesBack(e),
         NEW tree, NEW added, NEW removed, CommitAsMember(d, tree, added, removed)
  PROVE  FALSE
<1>1. /\ MakeState(d, session[d].at, FALSE, tree, added, removed)
      /\ session' = [session EXCEPT ![d] = Advance(session[d], NewId)]
  BY DEF CommitAsMember
<1>2. session[d].at \in StateId
  BY HolderFacts DEF InRoom, Stores
<1>3. CASE e = d
  <2>1. session'[e].at = NewId
    BY <1>1, <1>3 DEF IInv, TypeOK, Advance
  <2>2. Epoch(session[d].at) \in Nat
    BY <1>2, EpochType
  <2>3. Epoch(session[d].at) >= Epoch(session[d].at)
    BY <2>2
  <2> QED BY <1>1, <1>2, <1>3, <2>1, <2>3, MakingGoesOn DEF GoesBack
<1>4. CASE e # d
  BY <1>1, <1>4, MakeStateGrows, OthersStay DEF GoesBack
<1> QED BY <1>3, <1>4

LEMMA RejoinGoesOn ==
  ASSUME IInv, NEW d \in Devices, NEW e \in Devices, GoesBack(e), NEW info \in infos,
         JoinExternally(d, info),
         InRoom(d) => Epoch(info.of) >= Epoch(session[d].at)
  PROVE  FALSE
<1>1. PICK tree : MakeState(d, info.of, TRUE, tree, {}, {})
  BY DEF JoinExternally
<1>2. session' = [session EXCEPT ![d] = StartAt(session[d], NewId)]
  BY DEF JoinExternally
<1>3. info.of \in StateId
  BY DEF IInv, TypeOK
<1>4. CASE e = d
  <2>1. session[e].at \in StateId
    BY HolderFacts DEF GoesBack, InRoom, Stores
  <2>2. session'[e].at = NewId
    BY <1>2, <1>4 DEF IInv, TypeOK, StartAt
  <2> QED BY <1>1, <1>3, <1>4, <2>1, <2>2, MakingGoesOn DEF GoesBack
<1>5. CASE e # d
  BY <1>1, <1>2, <1>5, MakeStateGrows, OthersStay DEF GoesBack
<1> QED BY <1>4, <1>5

LEMMA MergingGoesOn ==
  ASSUME IInv, NEW d \in Devices, NEW e \in Devices, GoesBack(e), NEW g \in StateId,
         ReceiveCommit(d, g) \/ TieBreak(d, g)
  PROVE  FALSE
<1>1. states' = states /\ Grows(states, states')
  BY GrowsReflexive, Lengths DEF ReceiveCommit, TieBreak, IInv
<1>2. PICK s \in {session[d], before[d]} :
        /\ session' = [session EXCEPT ![d] = Merge(s, g, d)]
        /\ s.at # NoRoom /\ Parent(g) = s.at
        /\ s.at = session[d].at \/ Parent(session[d].at) = s.at
  BY DEF ReceiveCommit, TieBreak, Yields, InRoom
<1>3. CASE e = d
  <2>1. session[d].at \in StateId /\ s.at \in StateId
    BY <1>2, <1>3, HolderFacts DEF GoesBack, InRoom, Stores
  <2>2. session'[d] = Merge(s, g, d)
    BY <1>2 DEF IInv, TypeOK
  <2>3. session'[d].at # NoRoom
    BY <1>3 DEF GoesBack, InRoom
  <2>4. session'[d].at = g /\ Epoch(g) = Epoch(s.at) + 1
    BY <1>2, <2>1, <2>2, <2>3, MergeGoesOn
  <2>5. Epoch(session[d].at) = Epoch(s.at) \/ Epoch(session[d].at) = Epoch(s.at) + 1
    BY <1>2, <2>1 DEF IInv, RowsSound, FollowsItsParent
  <2>6. Epoch(s.at) \in Nat
    BY <2>1, EpochType
  <2>7. Epoch(session[d].at)' = Epoch(g)
    BY <1>1, <2>4 DEF Epoch
  <2> QED BY <1>3, <2>4, <2>5, <2>6, <2>7 DEF GoesBack
<1>4. CASE e # d
  BY <1>1, <1>2, <1>4, OthersStay DEF GoesBack
<1> QED BY <1>3, <1>4

LEMMA OtherStepsStay ==
  ASSUME IInv, NEW d \in Devices, NEW e \in Devices, GoesBack(e),
         \/ KeyPackage(d) \/ Send(d) \/ RoomInfo(d) \/ Backup(d) \/ Export(d)
         \/ \E t \in TextId : ReceiveText(d, t)
  PROVE  FALSE
<1>1. states' = states /\ Grows(states, states')
  BY GrowsReflexive, Lengths
  DEF KeyPackage, Send, RoomInfo, Backup, Export, ReceiveText, IInv
<1>2. session[e].at \in StateId
  BY HolderFacts DEF GoesBack, InRoom, Stores
<1>3. session[e] \in Store /\ session \in [Devices -> Store]
  BY DEF IInv, TypeOK
<1>4. session'[e].at = session[e].at
  <2>1. CASE KeyPackage(d)
    BY <1>3, <2>1 DEF KeyPackage, Store
  <2>2. CASE Send(d)
    BY <1>3, <2>2 DEF Send, Store
  <2>3. CASE \E t \in TextId : ReceiveText(d, t)
    BY <1>3, <2>3 DEF ReceiveText, Store
  <2>4. CASE RoomInfo(d) \/ Backup(d) \/ Export(d)
    BY <2>4 DEF RoomInfo, Backup, Export
  <2> QED BY <2>1, <2>2, <2>3, <2>4
<1> QED BY <1>1, <1>2, <1>4, StayingStays DEF GoesBack

LEMMA JoinIsAWelcome ==
  ASSUME IInv, NEW d \in Devices, NEW e \in Devices, GoesBack(e),
         NEW g \in StateId, Join(d, g)
  PROVE  \E x \in opened' : x[1][1] = e /\ x[2] = session'[e].at
<1>1. PICK p \in states[g].added :
        /\ p \in session[d].packages
        /\ session' = [session EXCEPT ![d] =
                         StartAt([session[d] EXCEPT !.packages = @ \ {p}], g)]
        /\ opened' = opened \cup {<<p, g>>}
        /\ states' = states
  BY DEF Join
<1>2. CASE e = d
  <2>1. p[1] = d
    BY <1>1 DEF IInv, StoresSound, Stores, SoundIn
  <2>2. session'[e].at = g
    BY <1>1, <1>2 DEF IInv, TypeOK, StartAt
  <2>3. <<p, g>> \in opened'
    BY <1>1
  <2> QED BY <1>2, <2>1, <2>2, <2>3
<1>3. CASE e # d
  BY <1>1, <1>3, GrowsReflexive, Lengths, OthersStay DEF GoesBack, IInv
<1> QED BY <1>2, <1>3

LEMMA NextGoesOn ==
  ASSUME IInv, Next, NEW e \in Devices, GoesBack(e)
  PROVE  \/ \E x \in opened' : x[1][1] = e /\ x[2] = session'[e].at
         \/ restarts' # restarts
<1>1. PICK d \in Devices :
        \/ CreateRoom(d)
        \/ KeyPackage(d)
        \/ \E packages \in Additions : AddMembers(d, packages)
        \/ \E identity \in Range(Identity) : RemoveMember(d, identity)
        \/ Send(d)
        \/ \E t \in TextId : ReceiveText(d, t)
        \/ \E g \in StateId : Join(d, g) \/ ReceiveCommit(d, g) \/ TieBreak(d, g)
        \/ RoomInfo(d)
        \/ \E info \in infos : Rejoin(d, info) \/ RejoinFromBackup(d, info)
        \/ Backup(d) \/ Export(d) \/ Restore(d) \/ NewFromSeed(d)
  BY DEF Next
<1>2. CASE CreateRoom(d)
  <2>1. session[e].at \in StateId
    BY HolderFacts DEF GoesBack, InRoom, Stores
  <2>2. StateId = {}
    BY <1>2, EmptySeq DEF CreateRoom, StateId
  <2> QED BY <2>1, <2>2
<1>3. CASE \E packages \in Additions : AddMembers(d, packages)
  BY <1>3, CommitGoesOn DEF AddMembers
<1>4. CASE \E identity \in Range(Identity) : RemoveMember(d, identity)
  BY <1>4, CommitGoesOn DEF RemoveMember
<1>5. CASE \/ KeyPackage(d) \/ Send(d) \/ RoomInfo(d) \/ Backup(d) \/ Export(d)
           \/ \E t \in TextId : ReceiveText(d, t)
  BY <1>5, OtherStepsStay
<1>6. CASE \E g \in StateId : Join(d, g) \/ ReceiveCommit(d, g) \/ TieBreak(d, g)
  BY <1>6, JoinIsAWelcome, MergingGoesOn
<1>7. CASE \E info \in infos : Rejoin(d, info) \/ RejoinFromBackup(d, info)
  BY <1>7, RejoinGoesOn DEF Rejoin, RejoinFromBackup
<1>8. CASE Restore(d) \/ NewFromSeed(d)
  BY <1>8 DEF Restore, NewFromSeed, IInv, TypeOK
<1> QED BY <1>1, <1>2, <1>3, <1>4, <1>5, <1>6, <1>7, <1>8

\* A device's epoch goes back only by a Welcome or a restart: whatever forks,
\* races and rejoins there are, among any number of devices (mod.rs 890-928).
THEOREM NobodyGoesBack == Spec => NoWayBackButAWelcome
<1> DEFINE GoesOn ==
      \A d \in Devices :
        (InRoom(d) /\ InRoom(d)' /\ Epoch(session[d].at)' < Epoch(session[d].at))
          => \/ \E x \in opened' : x[1][1] = d /\ x[2] = session'[d].at
             \/ restarts' # restarts
<1>1. IInv /\ [Next]_vars => [GoesOn]_vars
  BY NextGoesOn DEF GoesBack
<1>2. Spec => [][GoesOn]_vars
  <2> HIDE DEF GoesOn
  <2> QED BY <1>1, Inductive, PTL DEF Spec
<1> QED BY <1>2 DEF NoWayBackButAWelcome

(***************************************************************************)
(* Commits, once more: who makes them, and whom they add.                  *)
(***************************************************************************)

\* Whom a commit made at parent may add: nobody who sits there, and each with
\* one package.
AddsNewcomers(parent, added) ==
  \A p \in added : /\ parent # NoRoom /\ p[1] \notin Members(parent)
                   /\ \A q \in added : p[1] = q[1] => p = q

\* A committer sits in the state it makes, and in the one it makes it from if
\* it commits as a member; it does not add itself.
CommitSound(g) ==
  LET row == states[g]
  IN  /\ row.parent < g
      /\ row.from \in Members(g)
      /\ ~row.external /\ row.parent # NoRoom => row.from \in Members(row.parent)
      /\ \A p \in row.added : p[1] # row.from
      /\ AddsNewcomers(row.parent, row.added)

CommitsSound == \A g \in StateId : CommitSound(g)

LEMMA NextKeepsRows ==
  ASSUME IInv, [Next]_vars
  PROVE  Grows(states, states')
<1>1. CASE states' = states
  BY <1>1, GrowsReflexive, Lengths DEF IInv
<1>2. ASSUME NEW d, NEW parent, NEW external, NEW tree, NEW added, NEW removed,
             MakeState(d, parent, external, tree, added, removed)
      PROVE  Grows(states, states')
  BY <1>2, MakeStateGrows
<1> QED BY <1>1, <1>2
     DEF Next, vars, CreateRoom, KeyPackage, AddMembers, RemoveMember, CommitAsMember, Send,
         ReceiveText, Join, ReceiveCommit, TieBreak, RoomInfo, Rejoin, RejoinFromBackup,
         JoinExternally, Backup, Export, Restore, NewFromSeed

LEMMA MakeStateSound ==
  ASSUME IInv, IInv', CommitsSound, NEW d \in Devices, session'[d].at = NewId,
         NEW parent, parent = NoRoom \/ parent \in StateId,
         NEW external, ~external /\ parent # NoRoom => d \in Members(parent),
         NEW tree, NEW added, \A p \in added : p[1] # d, AddsNewcomers(parent, added),
         NEW removed, MakeState(d, parent, external, tree, added, removed)
  PROVE  CommitsSound'
<1> DEFINE row == [parent |-> parent, from |-> d, external |-> external, tree |-> tree,
                   epoch |-> IF parent = NoRoom THEN 0 ELSE Epoch(parent) + 1,
                   added |-> added, removed |-> removed]
<1>1. states \in Seq(Row) /\ Len(states) \in Nat
  BY Lengths DEF IInv, TypeOK
<1>2. states' = Append(states, row)
  BY DEF MakeState
<1>3. /\ row.parent = parent /\ row.from = d /\ row.external = external
      /\ row.added = added
  OBVIOUS
<1> HIDE DEF row
<1>4. PICK n \in Nat : n = NewId /\ n = Len(states) + 1
  BY <1>1 DEF NewId
<1>5. /\ StateId' = StateId \cup {n} /\ states'[n] = row
      /\ \A g \in StateId : states'[g] = states[g]
  BY <1>1, <1>2, <1>4 DEF StateId
<1>6. d \in Members(n)'
  <2>1. SoundIn(states', d, session'[d]) /\ n \in Retained(session'[d]) /\ n # NoRoom
    BY <1>1, <1>4 DEF IInv, StoresSound, Stores, Retained, NoRoom
  <2> QED BY <1>4, <2>1 DEF SoundIn, Members, Tree
<1>7. CommitSound(n)'
  <2>1. ~external /\ parent # NoRoom => d \in Members(parent)'
    BY <1>5 DEF Members, Tree
  <2>2. AddsNewcomers(parent, added)'
    BY <1>5 DEF AddsNewcomers, Members, Tree
  <2>3. parent < n
    BY <1>1, <1>4 DEF StateId, NoRoom
  <2> QED BY <1>3, <1>5, <1>6, <2>1, <2>2, <2>3 DEF CommitSound
<1>8. ASSUME NEW g \in StateId PROVE CommitSound(g)'
  <2>1. CommitSound(g) /\ (Parent(g) # NoRoom => Parent(g) \in StateId)
    BY DEF CommitsSound, IInv, RowsSound, FollowsItsParent
  <2>2. AddsNewcomers(Parent(g), states[g].added)'
    BY <1>5, <2>1 DEF CommitSound, AddsNewcomers, Members, Tree, Parent
  <2> QED BY <1>5, <2>1, <2>2 DEF CommitSound, Members, Tree, Parent
<1> QED BY <1>5, <1>7, <1>8 DEF CommitsSound

LEMMA CommitsStaySound ==
  ASSUME IInv, IInv', CommitsSound, [Next]_vars
  PROVE  CommitsSound'
<1>1. CASE states' = states
  BY <1>1 DEF CommitsSound, CommitSound, AddsNewcomers, StateId, Members, Tree
<1>2. ASSUME NEW d \in Devices, InRoom(d), NEW tree, NEW added, NEW removed,
             \A p \in added : p[1] # d, AddsNewcomers(session[d].at, added),
             CommitAsMember(d, tree, added, removed)
      PROVE  CommitsSound'
  <2>1. session[d].at \in StateId /\ d \in Members(session[d].at)
    BY <1>2, HolderFacts DEF InRoom, Stores
  <2>2. session'[d].at = NewId
    BY <1>2 DEF CommitAsMember, Advance, IInv, TypeOK
  <2>3. MakeState(d, session[d].at, FALSE, tree, added, removed)
    BY <1>2 DEF CommitAsMember
  <2> QED BY <1>2, <2>1, <2>2, <2>3, MakeStateSound
<1>3. ASSUME NEW d \in Devices, NEW packages \in Additions, AddMembers(d, packages)
      PROVE  CommitsSound'
  <2>1. InRoom(d) /\ \A p \in packages : p[1] \notin Members(session[d].at)
    BY <1>3 DEF AddMembers, Members
  <2>2. \A p \in packages : p[1] # d
    BY <2>1, HolderFacts DEF InRoom, Stores
  <2>3. AddsNewcomers(session[d].at, packages)
    BY <1>3, <2>1 DEF AddMembers, AddsNewcomers, InRoom
  <2> QED BY <1>2, <1>3, <2>1, <2>2, <2>3 DEF AddMembers
<1>4. ASSUME NEW d \in Devices, NEW identity, RemoveMember(d, identity)
      PROVE  CommitsSound'
  <2> DEFINE none == {}
  <2>1. (\A p \in none : p[1] # d) /\ AddsNewcomers(session[d].at, none)
    BY DEF AddsNewcomers
  <2>2. InRoom(d) /\ \E tree, removed : CommitAsMember(d, tree, none, removed)
    BY <1>4 DEF RemoveMember
  <2> HIDE DEF none
  <2> QED BY <1>2, <2>1, <2>2
<1>5. ASSUME NEW d \in Devices, NEW parent, parent = NoRoom \/ parent \in StateId,
             NEW external, external \/ parent = NoRoom, NEW tree,
             MakeState(d, parent, external, tree, {}, {}),
             session' = [session EXCEPT ![d] = StartAt(session[d], NewId)]
      PROVE  CommitsSound'
  <2> DEFINE none == {}
  <2>1. session'[d].at = NewId
    BY <1>5 DEF StartAt, IInv, TypeOK
  <2>2. (\A p \in none : p[1] # d) /\ MakeState(d, parent, external, tree, none, none)
    BY <1>5
  <2>3. AddsNewcomers(parent, none)
    BY DEF AddsNewcomers
  <2> HIDE DEF none
  <2> QED BY <1>5, <2>1, <2>2, <2>3, MakeStateSound
<1>6. ASSUME NEW d \in Devices, CreateRoom(d) PROVE CommitsSound'
  BY <1>5, <1>6 DEF CreateRoom
<1>7. ASSUME NEW d \in Devices, NEW info \in infos, JoinExternally(d, info)
      PROVE  CommitsSound'
  <2>1. info.of \in StateId
    BY DEF IInv, TypeOK
  <2>2. \E tree : MakeState(d, info.of, TRUE, tree, {}, {})
    BY <1>7 DEF JoinExternally
  <2> QED BY <1>5, <1>7, <2>1, <2>2 DEF JoinExternally
<1> QED BY <1>1, <1>3, <1>4, <1>6, <1>7
     DEF Next, vars, KeyPackage, Send, ReceiveText, Join, ReceiveCommit, TieBreak, RoomInfo,
         Rejoin, RejoinFromBackup, Backup, Export, Restore, NewFromSeed

LEMMA Commits == Spec => [](IInv /\ CommitsSound)
<1>1. Init => IInv /\ CommitsSound
  <2>1. Init => CommitsSound
    BY EmptySeq DEF Init, CommitsSound, StateId
  <2> QED BY <2>1, InitStep
<1>2. IInv /\ CommitsSound /\ [Next]_vars => IInv' /\ CommitsSound'
  BY NextStep, CommitsStaySound
<1> QED BY <1>1, <1>2, PTL DEF Spec

(***************************************************************************)
(* Races.                                                                  *)
(***************************************************************************)
LEMMA SizeOfTree ==
  ASSUME IInv, NEW g \in StateId, Members(g) # {}
  PROVE  DOMAIN Tree(g) \subseteq Leaf /\ Cardinality(DOMAIN Tree(g)) \in Nat \ {0}
<1>1. DOMAIN Tree(g) \subseteq Leaf /\ DOMAIN Tree(g) # {}
  BY SeatFacts, TreeFacts DEF Members, Range
<1>2. IsFiniteSet(DOMAIN Tree(g))
  <2>1. 0 \in Int /\ LeafSpan - 1 \in Int
    BY LeafSpanAssumption
  <2>2. IsFiniteSet(Leaf)
    BY <2>1, FS_Interval DEF Leaf
  <2> QED BY <1>1, <2>2, FS_Subset
<1> QED BY <1>1, <1>2, FS_CardinalityType, FS_EmptySet

LEMMA RankType ==
  ASSUME NEW leaf \in Leaf, NEW epoch \in Nat, NEW size \in Nat \ {0}
  PROVE  Rank(leaf, epoch, size) \in Nat
<1>1. Rotated(leaf, epoch, size) \in Nat /\ leaf \in Nat /\ LeafSpan \in Nat
  BY RotatedType, LeafSpanAssumption DEF Leaf
<1>2. Rank(leaf, epoch, size) = Rotated(leaf, epoch, size) * LeafSpan + leaf
  BY DEF Rank
<1> HIDE DEF Rank
<1> QED BY <1>1, <1>2

LEMMA LeastThere ==
  ASSUME NEW S, S # {}, NEW cost, \A x \in S : cost[x] \in Nat
  PROVE  \E x \in S : \A y \in S : cost[x] =< cost[y]
<1> DEFINE C == {cost[x] : x \in S}
<1>1. C \subseteq Nat /\ C # {}
  OBVIOUS
<1>2. PICK c \in C : \A e \in C : ~(<<e, c>> \in OpToRel(<, Nat))
  <2> DEFINE R == OpToRel(<, Nat)
  <2>1. IsWellFoundedOn(R, Nat)
    BY NatLessThanWellFounded
  <2> HIDE DEF R, C
  <2>2. \E c \in C : \A e \in C : ~(<<e, c>> \in R)
    BY <1>1, <2>1, WFMin
  <2> QED BY <2>2 DEF R
<1>3. \A e \in C : c =< e
  <2> SUFFICES ASSUME NEW e \in C, e < c PROVE FALSE
    BY <1>1
  <2> DEFINE ec == <<e, c>>
  <2>1. ec \in Nat \X Nat /\ ec[1] = e /\ ec[2] = c
    BY <1>1
  <2> HIDE DEF ec
  <2>2. ec \in OpToRel(<, Nat)
    BY <2>1 DEF OpToRel
  <2> QED BY <1>2, <2>2 DEF ec
<1> QED BY <1>2, <1>3

LEMMA MembersThere ==
  ASSUME CommitsSound, NEW g \in StateId
  PROVE  Members(g) # {}
BY DEF CommitsSound, CommitSound

\* OneWinner, in every tree of any room: of two members who committed at one
\* state exactly one yields, and one member yields to nobody (mod.rs 787-804).
THEOREM RacesHaveOneWinner == Spec => []OneWinner
<1>1. ASSUME IInv, CommitsSound, NEW g \in StateId
      PROVE  LET leaves == DOMAIN Tree(g)
                 Wins(l, m) == Beats(l, m, Epoch(g), Cardinality(leaves))
             IN  /\ \A l, m \in leaves : l # m => (Wins(l, m) # Wins(m, l))
                 /\ \E l \in leaves : Leads(l, leaves, Epoch(g))
  <2> DEFINE leaves == DOMAIN Tree(g)
             size == Cardinality(leaves)
             rank == [l \in leaves |-> Rank(l, Epoch(g), size)]
  <2>1. leaves \subseteq Leaf /\ size \in Nat \ {0} /\ Epoch(g) \in Nat
    BY <1>1, MembersThere, SizeOfTree, EpochType
  <2>2. leaves # {}
    BY <1>1, MembersThere DEF Members, Range
  <2> HIDE DEF leaves, size
  <2>3. \A l, m \in leaves : l # m => (Beats(l, m, Epoch(g), size) # Beats(m, l, Epoch(g), size))
    BY <2>1, ExactlyOneYields
  <2>4. \A l \in leaves : rank[l] \in Nat
    BY <2>1, RankType
  <2>5. PICK l \in leaves : \A m \in leaves : rank[l] =< rank[m]
    <3> HIDE DEF rank
    <3> QED BY <2>2, <2>4, LeastThere
  <2>6. ASSUME NEW m \in leaves \ {l} PROVE Beats(l, m, Epoch(g), size)
    <3>1. rank[l] # rank[m]
      BY <2>1, NoTies
    <3>2. rank[l] < rank[m]
      <4> HIDE DEF rank
      <4> QED BY <2>4, <2>5, <3>1
    <3> QED BY <3>2 DEF Beats
  <2>7. Leads(l, leaves, Epoch(g))
    BY <2>6 DEF Leads, size
  <2> QED BY <2>3, <2>7 DEF leaves, size
<1>2. IInv /\ CommitsSound => OneWinner
  BY <1>1 DEF OneWinner
<1> QED BY <1>2, Commits, PTL

\* A remainder is the only one.
LEMMA OnlyRemainder ==
  ASSUME NEW s \in Nat \ {0}, NEW q \in Nat, NEW l \in 0 .. s - 1
  PROVE  (q * s + l) % s = l
<1> DEFINE n == q * s + l
           a == n \div s
           r == n % s
<1>1. n \in Nat
  OBVIOUS
<1>2. a \in Nat /\ r \in 0 .. s - 1 /\ n = a * s + r
  BY <1>1
<1>3. q * s + l = a * s + r
  BY <1>2
<1> HIDE DEF n, a, r
<1>4. CASE a = q
  <2>1. q * s \in Nat
    OBVIOUS
  <2> QED BY <1>2, <1>3, <1>4, <2>1 DEF n, r
<1>5. ASSUME NEW b \in Nat, NEW c \in Nat, b > c PROVE b * s >= c * s + s
  <2>1. PICK d \in Nat : b = c + 1 + d
    <3>1. b - c - 1 \in Nat /\ b = c + 1 + (b - c - 1)
      BY <1>5
    <3> QED BY <3>1
  <2>2. b * s = c * s + s + d * s /\ d * s \in Nat /\ c * s \in Nat
    BY <2>1
  <2> QED BY <2>2
<1>6. q * s \in Nat /\ a * s \in Nat
  BY <1>2
<1>7. ~(a > q) /\ ~(q > a)
  BY <1>2, <1>3, <1>5, <1>6
<1> QED BY <1>2, <1>4, <1>7

\* TurnsComeRound, in rooms of any size: without blanks, each member leads in
\* one of the next size epochs (mod.rs 778-783).
THEOREM EverybodyHasATurn == Spec => []TurnsComeRound
<1>1. ASSUME NEW size \in Nat \ {0}, NEW epoch \in Nat, NEW l \in 0 .. size - 1
      PROVE  \E n \in 0 .. size - 1 : (epoch + n) % size = l
  <2> DEFINE q == epoch \div size
             r == epoch % size
  <2>1. q \in Nat /\ r \in 0 .. size - 1 /\ epoch = q * size + r
    OBVIOUS
  <2> HIDE DEF q, r
  <2>2. CASE l >= r
    <3>1. l - r \in 0 .. size - 1 /\ q * size \in Nat
      BY <2>1, <2>2
    <3>2. epoch + (l - r) = q * size + l
      BY <2>1, <3>1
    <3>3. (epoch + (l - r)) % size = l
      BY <2>1, <3>2, OnlyRemainder
    <3> QED BY <3>1, <3>3
  <2>3. CASE l < r
    <3>1. l + size - r \in 0 .. size - 1 /\ q * size \in Nat /\ q + 1 \in Nat
      BY <2>1, <2>3
    <3>2. epoch + (l + size - r) = (q + 1) * size + l
      <4>1. (q + 1) * size = q * size + size
        BY <2>1
      <4> QED BY <2>1, <3>1, <4>1
    <3>3. (epoch + (l + size - r)) % size = l
      BY <3>1, <3>2, OnlyRemainder
    <3> QED BY <3>1, <3>3
  <2> QED BY <2>1, <2>2, <2>3
<1>2. ASSUME IInv, CommitsSound, NEW g \in StateId
      PROVE  LET leaves == DOMAIN Tree(g)
                 size == Cardinality(leaves)
             IN  leaves = 0 .. size - 1 =>
                   \A l \in leaves : \E n \in 0 .. size - 1 : Leads(l, leaves, Epoch(g) + n)
  <2> DEFINE leaves == DOMAIN Tree(g)
             size == Cardinality(leaves)
  <2>1. leaves \subseteq Leaf /\ size \in Nat \ {0} /\ Epoch(g) \in Nat
    BY <1>2, MembersThere, SizeOfTree, EpochType
  <2> HIDE DEF leaves
  <2> SUFFICES ASSUME leaves = 0 .. size - 1, NEW l \in leaves
      PROVE  \E n \in 0 .. size - 1 : Leads(l, leaves, Epoch(g) + n)
    BY DEF leaves
  <2> HIDE DEF size
  <2>2. PICK n \in 0 .. size - 1 : (Epoch(g) + n) % size = l
    BY <1>1, <2>1
  <2>3. size \in 1 .. LeafSpan /\ Epoch(g) + n \in Nat
    <3>1. size - 1 \in Leaf
      BY <2>1
    <3> QED BY <2>1, <3>1, LeafSpanAssumption DEF Leaf
  <2>4. ASSUME NEW m \in leaves \ {l} PROVE Beats(l, m, Epoch(g) + n, size)
    BY <2>2, <2>3, TurnComes
  <2>5. Leads(l, leaves, Epoch(g) + n)
    BY <2>4 DEF Leads, size
  <2> QED BY <2>5
<1>3. IInv /\ CommitsSound => TurnsComeRound
  BY <1>2 DEF TurnsComeRound
<1> QED BY <1>3, Commits, PTL

(***************************************************************************)
(* Branches given up.  Whoever gives one up goes to one whose committer    *)
(* ranks lower at the state both were made from, so there is no way round. *)
(***************************************************************************)
Cost(g) == RankAt(Parent(g), LeafOf(Parent(g), states[g].from))

YieldSound(x) ==
  /\ x[1] \in StateId /\ Parent(x[1]) \in StateId /\ Cost(x[1]) \in Nat
  /\ x[2] \in StateId /\ Parent(x[2]) \in StateId /\ Cost(x[2]) \in Nat
  /\ Cost(x[2]) < Cost(x[1])

YieldsSound == \A x \in yields : YieldSound(x)

LEMMA CostType ==
  ASSUME IInv, CommitsSound, NEW g \in StateId, Parent(g) \in StateId, ~states[g].external
  PROVE  Cost(g) \in Nat
<1> DEFINE p == Parent(g)
           leaf == LeafOf(p, states[g].from)
<1>1. states[g].from \in Members(p)
  BY DEF CommitsSound, CommitSound, Parent, StateId, NoRoom
<1>2. leaf \in DOMAIN Tree(p)
  BY <1>1 DEF LeafOf, Members, Range
<1>3. DOMAIN Tree(p) \subseteq Leaf /\ Cardinality(DOMAIN Tree(p)) \in Nat \ {0}
  BY <1>1, SizeOfTree
<1>4. Epoch(p) \in Nat
  BY EpochType
<1> HIDE DEF p, leaf
<1>5. RankAt(p, leaf) \in Nat
  BY <1>2, <1>3, <1>4, RankType DEF RankAt
<1> QED BY <1>5 DEF Cost, p, leaf

LEMMA YieldsStaySound ==
  ASSUME IInv, CommitsSound, YieldsSound, [Next]_vars
  PROVE  YieldsSound'
<1>1. ASSUME NEW x, YieldSound(x) PROVE YieldSound(x)'
  <2>1. Len(states) \in Nat /\ Len(states') \in Nat
    <3>1. IInv'
      BY NextStep
    <3> QED BY <3>1, Lengths DEF IInv, TypeOK
  <2>2. StateId \subseteq StateId' /\ \A g \in StateId : states'[g] = states[g]
    BY <2>1, NextKeepsRows DEF Grows, StateId
  <2>3. ASSUME NEW g \in StateId, Parent(g) \in StateId
        PROVE  Parent(g)' = Parent(g) /\ Cost(g)' = Cost(g)
    BY <2>2, <2>3 DEF Cost, RankAt, LeafOf, Parent, Epoch, Tree
  <2> QED BY <1>1, <2>2, <2>3 DEF YieldSound
<1>2. CASE yields' = yields
  BY <1>1, <1>2 DEF YieldsSound
<1>3. ASSUME NEW d \in Devices, NEW g \in StateId, TieBreak(d, g)
      PROVE  YieldsSound'
  <2> DEFINE mine == session[d].at
             was == before[d].at
  <2>1. /\ InRoom(d) /\ was # NoRoom
        /\ Parent(mine) = was /\ states[mine].from = d /\ ~states[mine].external
        /\ Parent(g) = was /\ ~states[g].external
        /\ RankAt(was, LeafOf(was, states[g].from)) < RankAt(was, LeafOf(was, d))
        /\ yields' = yields \cup {<<mine, g>>}
    BY <1>3 DEF TieBreak, Yields
  <2>2. mine \in StateId /\ was \in StateId
    BY <2>1, HolderFacts DEF InRoom, Stores
  <2>3. Cost(mine) \in Nat /\ Cost(g) \in Nat
    BY <2>1, <2>2, CostType
  <2>4. Cost(g) < Cost(mine)
    BY <2>1 DEF Cost
  <2> HIDE DEF mine, was
  <2> DEFINE x == <<mine, g>>
  <2>5. x[1] = mine /\ x[2] = g
    OBVIOUS
  <2> HIDE DEF x
  <2>6. YieldSound(x)
    BY <2>1, <2>2, <2>3, <2>4, <2>5 DEF YieldSound
  <2> QED BY <1>1, <2>1, <2>6 DEF YieldsSound, x
<1> QED BY <1>2, <1>3
     DEF Next, vars, blobs, logs, CreateRoom, KeyPackage, AddMembers, RemoveMember,
         CommitAsMember, Send, ReceiveText, Join, ReceiveCommit, RoomInfo, Rejoin,
         RejoinFromBackup, JoinExternally, Backup, Export, Restore, NewFromSeed

\* NobodyTradesPlaces, among any number of devices and commits: branches are
\* not given up in a circle (mod.rs 787-792).
THEOREM NoCircleOfYields == Spec => []NobodyTradesPlaces
<1>1. ASSUME YieldsSound, NEW C \in SUBSET StateId, C # {},
             \A x \in C : \E y \in C : <<x, y>> \in yields
      PROVE  FALSE
  <2> DEFINE cost == [x \in C |-> Cost(x)]
  <2>1. ASSUME NEW x \in C, NEW y \in C, <<x, y>> \in yields
        PROVE  cost[x] \in Nat /\ cost[y] \in Nat /\ cost[y] < cost[x]
    BY <2>1, <1>1 DEF YieldsSound, YieldSound
  <2> HIDE DEF cost
  <2>2. \A x \in C : cost[x] \in Nat
    BY <1>1, <2>1
  <2>3. PICK x \in C : \A y \in C : cost[x] =< cost[y]
    BY <1>1, <2>2, LeastThere
  <2>4. PICK y \in C : <<x, y>> \in yields
    BY <1>1
  <2> QED BY <2>1, <2>3, <2>4
<1>2. YieldsSound => NobodyTradesPlaces
  <2> SUFFICES ASSUME YieldsSound, NEW C \in SUBSET StateId, C # {}
               PROVE  \E x \in C : \A y \in C : <<x, y>> \notin yields
    BY DEF NobodyTradesPlaces
  <2> QED BY <1>1
<1>3. Init => YieldsSound
  BY DEF Init, YieldsSound
<1>4. IInv /\ CommitsSound /\ YieldsSound /\ [Next]_vars => YieldsSound'
  BY YieldsStaySound
<1> QED BY <1>2, <1>3, <1>4, Commits, PTL DEF Spec

(***************************************************************************)
(* Key packages.  A store whose packages were all handed out and never     *)
(* opened a Welcome is unspent.  What is held always is; the blob from     *)
(* before a commit is as long as that commit can still be given up.        *)
(***************************************************************************)
HandedOut(d, s) == \A p \in s.packages : p[2] =< published[d]

Unspent(d, s) == HandedOut(d, s) /\ \A p \in s.packages : \A x \in opened : x[1] # p

HoldsItsCommit(d) ==
  InRoom(d) /\ states[session[d].at].from = d /\ ~states[session[d].at].external

DeviceUnspent(d) ==
  /\ Unspent(d, session[d])
  /\ HandedOut(d, before[d])
  /\ HoldsItsCommit(d) => Unspent(d, before[d])

KeysSound ==
  /\ \A x \in opened : x[1][2] =< published[x[1][1]]
  /\ \A d \in Devices : DeviceUnspent(d)
  /\ PackageOpensOnce

\* A step that hands out and spends nothing, as far as devices are left alone.
LEMMA OthersStayUnspent ==
  ASSUME IInv, [Next]_vars, UNCHANGED <<published, opened>>, NEW e \in Devices,
         session'[e] = session[e], before'[e] = before[e], DeviceUnspent(e)
  PROVE  DeviceUnspent(e)'
<1>1. HoldsItsCommit(e)' => HoldsItsCommit(e)
  <2> SUFFICES ASSUME HoldsItsCommit(e)' PROVE HoldsItsCommit(e)
    OBVIOUS
  <2>1. session[e].at # NoRoom
    BY DEF HoldsItsCommit, InRoom
  <2>2. session[e].at \in StateId
    BY <2>1, HolderFacts DEF Stores
  <2>3. states'[session[e].at] = states[session[e].at]
    BY <2>2, NextKeepsRows DEF Grows, StateId
  <2> QED BY <2>1, <2>3 DEF HoldsItsCommit, InRoom
<1> QED BY <1>1 DEF DeviceUnspent, Unspent, HandedOut

\* A step of one device that hands out and spends nothing.
LEMMA KeysStay ==
  ASSUME IInv, [Next]_vars, KeysSound, UNCHANGED <<published, opened>>,
         NEW d \in Devices, DeviceUnspent(d)',
         \A e \in Devices \ {d} : session'[e] = session[e] /\ before'[e] = before[e]
  PROVE  KeysSound'
<1>1. \A e \in Devices \ {d} : DeviceUnspent(e)'
  BY OthersStayUnspent DEF KeysSound
<1> QED BY <1>1 DEF KeysSound, PackageOpensOnce

\* The session alone moves, with the packages it has, and not to a commit of
\* its own that it could give up.
LEMMA MovesOn ==
  ASSUME IInv, [Next]_vars, KeysSound, UNCHANGED <<published, opened, before>>,
         NEW d \in Devices, NEW s, session' = [session EXCEPT ![d] = s],
         s.packages = session[d].packages,
         HoldsItsCommit(d)' => HoldsItsCommit(d)
  PROVE  KeysSound'
<1>1. session'[d] = s /\ \A e \in Devices \ {d} : session'[e] = session[e]
  BY DEF IInv, TypeOK
<1>2. DeviceUnspent(d)
  BY DEF KeysSound
<1>3. DeviceUnspent(d)'
  BY <1>1, <1>2 DEF DeviceUnspent, Unspent, HandedOut
<1> QED BY <1>1, <1>3, KeysStay

LEMMA MovesKeepPackages ==
  ASSUME NEW s, NEW g, NEW d
  PROVE  /\ Advance(s, g).packages = s.packages
         /\ StartAt(s, g).packages = s.packages
         /\ Merge(s, g, d).packages = s.packages
         /\ Advance(s, g).at = g /\ StartAt(s, g).at = g
         /\ Merge(s, g, d).at = g \/ Merge(s, g, d).at = NoRoom
BY DEF Advance, StartAt, Merge, Leave

LEMMA CommitKeepsKeys ==
  ASSUME IInv, [Next]_vars, KeysSound, NEW d \in Devices, NEW tree, NEW added, NEW removed,
         CommitAsMember(d, tree, added, removed)
  PROVE  KeysSound'
<1>1. /\ session' = [session EXCEPT ![d] = Advance(session[d], NewId)]
      /\ before' = [before EXCEPT ![d] = session[d]]
      /\ UNCHANGED <<published, opened>>
  BY DEF CommitAsMember, blobs, logs
<1>2. /\ session'[d].packages = session[d].packages
      /\ before'[d] = session[d]
      /\ \A e \in Devices \ {d} : session'[e] = session[e] /\ before'[e] = before[e]
  BY <1>1, MovesKeepPackages DEF IInv, TypeOK
<1>3. Unspent(d, session[d])
  BY DEF KeysSound, DeviceUnspent
<1>4. DeviceUnspent(d)'
  BY <1>1, <1>2, <1>3 DEF DeviceUnspent, Unspent, HandedOut
<1> QED BY <1>1, <1>2, <1>4, KeysStay

LEMMA CreateRoomKeepsKeys ==
  ASSUME IInv, [Next]_vars, KeysSound, NEW d \in Devices, CreateRoom(d)
  PROVE  KeysSound'
<1>1. /\ states = <<>>
      /\ session' = [session EXCEPT ![d] = StartAt(session[d], NewId)]
      /\ UNCHANGED <<before, published, opened>>
  BY DEF CreateRoom, blobs, logs
<1>2. opened = {}
  BY <1>1, EmptySeq DEF IInv, TypeOK, StateId
<1>3. /\ session'[d].packages = session[d].packages
      /\ \A e \in Devices \ {d} : session'[e] = session[e] /\ before'[e] = before[e]
  BY <1>1, MovesKeepPackages DEF IInv, TypeOK
<1>4. DeviceUnspent(d)
  BY DEF KeysSound
<1>5. DeviceUnspent(d)'
  BY <1>1, <1>2, <1>3, <1>4 DEF DeviceUnspent, Unspent, HandedOut
<1> QED BY <1>1, <1>3, <1>5, KeysStay

LEMMA RejoinKeepsKeys ==
  ASSUME IInv, [Next]_vars, KeysSound, NEW d \in Devices, NEW info, JoinExternally(d, info)
  PROVE  KeysSound'
<1>1. /\ session' = [session EXCEPT ![d] = StartAt(session[d], NewId)]
      /\ UNCHANGED <<before, published, opened>>
  BY DEF JoinExternally, blobs, logs
<1>2. states'[NewId].external = TRUE
  <2>1. PICK tree : MakeState(d, info.of, TRUE, tree, {}, {})
    BY DEF JoinExternally
  <2> DEFINE row == [parent |-> info.of, from |-> d, external |-> TRUE, tree |-> tree,
                     epoch |-> IF info.of = NoRoom THEN 0 ELSE Epoch(info.of) + 1,
                     added |-> {}, removed |-> {}]
  <2>2. states' = Append(states, row) /\ row.external = TRUE
    BY <2>1 DEF MakeState
  <2>3. states \in Seq(Row) /\ Len(states) \in Nat
    BY Lengths DEF IInv, TypeOK
  <2> HIDE DEF row
  <2> QED BY <2>2, <2>3 DEF NewId
<1>3. session'[d].at = NewId
  <2>1. session \in [Devices -> Store] /\ StartAt(session[d], NewId).at = NewId
    BY MovesKeepPackages DEF IInv, TypeOK
  <2> QED BY <1>1, <2>1
<1>4. ~HoldsItsCommit(d)'
  BY <1>2, <1>3 DEF HoldsItsCommit
<1> QED BY <1>1, <1>4, MovesKeepPackages, MovesOn

LEMMA ReceivingKeepsKeys ==
  ASSUME IInv, [Next]_vars, KeysSound, NEW d \in Devices, NEW g \in StateId,
         ReceiveCommit(d, g)
  PROVE  KeysSound'
<1>1. /\ session' = [session EXCEPT ![d] = Merge(session[d], g, d)]
      /\ states[g].from # d
      /\ UNCHANGED <<states, before, published, opened>>
  BY DEF ReceiveCommit, blobs, logs
<1>2. session'[d].at = g \/ session'[d].at = NoRoom
  BY <1>1, MovesKeepPackages DEF IInv, TypeOK
<1>3. ~HoldsItsCommit(d)'
  BY <1>1, <1>2 DEF HoldsItsCommit, InRoom
<1>4. Merge(session[d], g, d).packages = session[d].packages
  BY MovesKeepPackages
<1> QED BY <1>1, <1>3, <1>4, MovesOn

\* The blob that a lost race goes back to has spent nothing since.
LEMMA TieBreakKeepsKeys ==
  ASSUME IInv, [Next]_vars, KeysSound, NEW d \in Devices, NEW g \in StateId,
         TieBreak(d, g)
  PROVE  KeysSound'
<1>1. /\ session' = [session EXCEPT ![d] = Merge(before[d], g, d)]
      /\ states[g].from # d /\ HoldsItsCommit(d)
      /\ UNCHANGED <<states, before, published, opened>>
  BY DEF TieBreak, Yields, HoldsItsCommit, blobs
<1>2. /\ session'[d] = Merge(before[d], g, d)
      /\ \A e \in Devices \ {d} : session'[e] = session[e] /\ before'[e] = before[e]
  BY <1>1 DEF IInv, TypeOK
<1>3. ~HoldsItsCommit(d)'
  <2>1. session'[d].at = g \/ session'[d].at = NoRoom
    BY <1>2, MovesKeepPackages
  <2> QED BY <1>1, <2>1 DEF HoldsItsCommit, InRoom
<1>4. Unspent(d, before[d])
  BY <1>1 DEF KeysSound, DeviceUnspent
<1>5. session'[d].packages = before[d].packages
  BY <1>2, MovesKeepPackages
<1>6. DeviceUnspent(d)'
  BY <1>1, <1>3, <1>4, <1>5 DEF DeviceUnspent, Unspent, HandedOut
<1> QED BY <1>1, <1>2, <1>6, KeysStay

LEMMA KeyPackageKeepsKeys ==
  ASSUME IInv, [Next]_vars, KeysSound, NEW d \in Devices, KeyPackage(d)
  PROVE  KeysSound'
<1> DEFINE n == published[d] + 1
<1>1. /\ session' = [session EXCEPT ![d].packages = session[d].packages \cup {<<d, n>>}]
      /\ published' = [published EXCEPT ![d] = n]
      /\ UNCHANGED <<states, before, opened>>
  BY DEF KeyPackage, logs
<1>2. \A e \in Devices : published[e] \in Nat /\ published'[e] \in Nat /\ published[e] =< published'[e]
  BY <1>1, RoomAssumption DEF IInv, TypeOK
<1>3. /\ session'[d].packages = session[d].packages \cup {<<d, n>>}
      /\ session'[d].at = session[d].at
      /\ published'[d] = n
      /\ \A e \in Devices \ {d} : session'[e] = session[e]
  BY <1>1 DEF IInv, TypeOK, Store
<1>4. opened \subseteq Package \X StateId
  BY DEF IInv, TypeOK
<1>5. \A x \in opened : x[1][1] \in Devices /\ x[1][2] \in Nat
  BY <1>4, RoomAssumption DEF Package
<1>6. \A x \in opened : x[1][2] =< published'[x[1][1]]
  BY <1>2, <1>5 DEF KeysSound
<1>7. \A x \in opened : x[1] # <<d, n>>
  <2>1. n > published[d] /\ n \in Nat
    BY <1>2
  <2> HIDE DEF n
  <2>2. SUFFICES ASSUME NEW x \in opened, x[1] = <<d, n>> PROVE FALSE
    OBVIOUS
  <2>3. n =< published[d]
    BY <2>2 DEF KeysSound
  <2> QED BY <1>2, <2>1, <2>3
<1> HIDE DEF n
<1>8. ASSUME NEW e \in Devices, NEW s \in Store, HandedOut(e, s) PROVE HandedOut(e, s)'
  <2>1. \A p \in s.packages : p[2] \in Nat
    BY RoomAssumption DEF Store, Package
  <2> QED BY <1>2, <1>8, <2>1 DEF HandedOut
<1>9. \A e \in Devices : session[e] \in Store /\ before[e] \in Store /\ DeviceUnspent(e)
  BY DEF IInv, TypeOK, KeysSound
<1>10. ASSUME NEW e \in Devices PROVE DeviceUnspent(e)'
  <2>1. HandedOut(e, session[e])'
    <3>1. CASE e = d
      <4>1. n = published'[d] /\ n \in Nat
        BY <1>2, <1>3
      <4>2. \A p \in session[d].packages : p[2] =< published'[d]
        BY <1>8, <1>9 DEF DeviceUnspent, Unspent, HandedOut
      <4> QED BY <1>3, <3>1, <4>1, <4>2 DEF HandedOut
    <3>2. CASE e # d
      BY <1>3, <1>8, <1>9, <3>2 DEF DeviceUnspent, Unspent, HandedOut
    <3> QED BY <3>1, <3>2
  <2>2. Unspent(e, session[e])'
    BY <1>1, <1>3, <1>7, <1>9, <2>1 DEF DeviceUnspent, Unspent
  <2>3. HandedOut(e, before[e])'
    BY <1>1, <1>8, <1>9 DEF DeviceUnspent, HandedOut
  <2>4. HoldsItsCommit(e)' => HoldsItsCommit(e)
    <3>1. session'[e].at = session[e].at
      BY <1>3
    <3> QED BY <1>1, <3>1 DEF HoldsItsCommit, InRoom
  <2>5. HoldsItsCommit(e)' => Unspent(e, before[e])'
    BY <1>1, <1>9, <2>3, <2>4 DEF DeviceUnspent, Unspent
  <2> QED BY <2>2, <2>3, <2>5 DEF DeviceUnspent
<1> QED BY <1>1, <1>6, <1>10 DEF KeysSound, PackageOpensOnce

\* A Welcome spends a package that nothing was opened with, and what a lost
\* race could bring back is none of the commits it leads to.
LEMMA JoinKeepsKeys ==
  ASSUME IInv, CommitsSound, [Next]_vars, KeysSound, NEW d \in Devices,
         NEW g \in StateId, Join(d, g)
  PROVE  KeysSound'
<1>1. PICK p \in states[g].added :
        /\ p \in session[d].packages
        /\ session' = [session EXCEPT ![d] =
                         StartAt([session[d] EXCEPT !.packages = @ \ {p}], g)]
        /\ opened' = opened \cup {<<p, g>>}
  BY DEF Join
<1>2. UNCHANGED <<states, before, published>>
  BY DEF Join, blobs
<1>3. /\ session[d] \in Store /\ SoundIn(states, d, session[d])
      /\ \A e \in Devices : SoundIn(states, e, session[e]) /\ SoundIn(states, e, before[e])
  BY DEF IInv, TypeOK, StoresSound, Stores
<1>4. p[1] = d /\ p[2] =< published[d]
  BY <1>1, <1>3 DEF SoundIn, KeysSound, DeviceUnspent, Unspent, HandedOut
<1>5. /\ session'[d].packages = session[d].packages \ {p} /\ session'[d].at = g
      /\ \A e \in Devices \ {d} : session'[e] = session[e]
  <2> DEFINE spent == [session[d] EXCEPT !.packages = @ \ {p}]
  <2>1. spent.packages = session[d].packages \ {p}
    BY <1>3 DEF Store
  <2>2. session' = [session EXCEPT ![d] = StartAt(spent, g)]
    BY <1>1
  <2> HIDE DEF spent
  <2> DEFINE start == StartAt(spent, g)
  <2>3. start.packages = session[d].packages \ {p} /\ start.at = g
    BY <2>1, MovesKeepPackages
  <2> HIDE DEF start
  <2>4. session' = [session EXCEPT ![d] = start] /\ session \in [Devices -> Store]
    BY <2>2 DEF start, IInv, TypeOK
  <2> QED BY <2>3, <2>4
<1> DEFINE y == <<p, g>>
<1>6. y[1] = p /\ opened' = opened \cup {y}
  BY <1>1
<1> HIDE DEF y
<1>7. \A x \in opened : x[1] # p
  BY <1>1 DEF KeysSound, DeviceUnspent, Unspent
<1>8. ~HoldsItsCommit(d)'
  BY <1>2, <1>4, <1>5 DEF HoldsItsCommit, CommitsSound, CommitSound
<1>9. ASSUME NEW e \in Devices PROVE DeviceUnspent(e)'
  <2>1. DeviceUnspent(e)
    BY DEF KeysSound
  <2>2. CASE e = d
    BY <1>2, <1>5, <1>6, <1>8, <2>1, <2>2 DEF DeviceUnspent, Unspent, HandedOut
  <2>3. CASE e # d
    <3>1. \A q \in session[e].packages \cup before[e].packages : q # p
      BY <1>3, <1>4, <2>3 DEF SoundIn
    <3>2. HoldsItsCommit(e)' => HoldsItsCommit(e)
      BY <1>2, <1>5, <2>3 DEF HoldsItsCommit, InRoom
    <3>3. Unspent(e, session[e])' /\ HandedOut(e, before[e])'
      BY <1>2, <1>5, <1>6, <2>1, <2>3, <3>1 DEF DeviceUnspent, Unspent, HandedOut
    <3>4. HoldsItsCommit(e)' => Unspent(e, before[e])'
      BY <1>2, <1>6, <2>1, <3>1, <3>2 DEF DeviceUnspent, Unspent, HandedOut
    <3> QED BY <3>3, <3>4 DEF DeviceUnspent
  <2> QED BY <2>2, <2>3
<1>10. \A x \in opened' : x[1][2] =< published'[x[1][1]]
  BY <1>2, <1>4, <1>6 DEF KeysSound
<1>11. PackageOpensOnce'
  BY <1>6, <1>7 DEF KeysSound, PackageOpensOnce
<1> QED BY <1>9, <1>10, <1>11 DEF KeysSound

\* What is left touches neither packages nor where anybody is.
LEMMA QuietKeepsKeys ==
  ASSUME IInv, [Next]_vars, KeysSound, UNCHANGED <<states, before, published, opened>>,
         \/ session' = session
         \/ \E d \in Devices : \E s :
              /\ session' = [session EXCEPT ![d] = s]
              /\ s.packages = session[d].packages /\ s.at = session[d].at
  PROVE  KeysSound'
<1>1. CASE session' = session
  BY <1>1 DEF KeysSound, DeviceUnspent, Unspent, HandedOut, HoldsItsCommit, InRoom,
              PackageOpensOnce
<1>2. ASSUME NEW d \in Devices, NEW s, session' = [session EXCEPT ![d] = s],
             s.packages = session[d].packages, s.at = session[d].at
      PROVE  KeysSound'
  <2>1. session'[d].at = session[d].at
    BY <1>2 DEF IInv, TypeOK
  <2>2. HoldsItsCommit(d)' => HoldsItsCommit(d)
    BY <2>1 DEF HoldsItsCommit, InRoom
  <2> QED BY <1>2, <2>2, MovesOn
<1> QED BY <1>1, <1>2

LEMMA TextsKeepKeys ==
  ASSUME IInv, [Next]_vars, KeysSound, NEW d \in Devices,
         Send(d) \/ \E t \in TextId : ReceiveText(d, t)
  PROVE  KeysSound'
<1>1. session[d] \in Store
  BY DEF IInv, TypeOK
<1>2. CASE Send(d)
  <2> DEFINE s == [session[d] EXCEPT !.sent = @ + 1]
  <2>1. session' = [session EXCEPT ![d] = s] /\ UNCHANGED <<states, before, published, opened>>
    BY <1>2 DEF Send, logs
  <2>2. s.packages = session[d].packages /\ s.at = session[d].at
    BY <1>1 DEF Store
  <2> HIDE DEF s
  <2> QED BY <2>1, <2>2, QuietKeepsKeys
<1>3. ASSUME NEW t \in TextId, ReceiveText(d, t) PROVE KeysSound'
  <2> DEFINE s == [session[d] EXCEPT !.seen = @ \cup {Key(t)}]
  <2>1. /\ session' = session \/ session' = [session EXCEPT ![d] = s]
        /\ UNCHANGED <<states, before, published, opened>>
    BY <1>3 DEF ReceiveText, blobs
  <2>2. s.packages = session[d].packages /\ s.at = session[d].at
    BY <1>1 DEF Store
  <2> HIDE DEF s
  <2> QED BY <2>1, <2>2, QuietKeepsKeys
<1> QED BY <1>2, <1>3

\* As long as nothing is put back that was written down earlier.
LEMMA KeysStaySound ==
  ASSUME IInv, CommitsSound, [Next]_vars, restarts = 0 => KeysSound
  PROVE  restarts' = 0 => KeysSound'
<1> SUFFICES ASSUME restarts' = 0 PROVE KeysSound'
  OBVIOUS
<1>1. restarts \in Nat
  BY RoomAssumption DEF IInv, TypeOK
<1>2. ASSUME NEW d \in Devices, Restore(d) \/ NewFromSeed(d) PROVE FALSE
  BY <1>1, <1>2 DEF Restore, NewFromSeed
<1>3. restarts = 0
  BY <1>2 DEF Next, vars, logs, CreateRoom, KeyPackage, AddMembers, RemoveMember,
       CommitAsMember, Send, ReceiveText, Join, ReceiveCommit, TieBreak, RoomInfo, Rejoin,
       RejoinFromBackup, JoinExternally, Backup, Export
<1>4. KeysSound
  BY <1>3
<1>5. ASSUME NEW d \in Devices, NEW packages, AddMembers(d, packages) PROVE KeysSound'
  BY <1>4, <1>5, CommitKeepsKeys DEF AddMembers
<1>6. ASSUME NEW d \in Devices, NEW identity, RemoveMember(d, identity) PROVE KeysSound'
  BY <1>4, <1>6, CommitKeepsKeys DEF RemoveMember
<1>7. ASSUME NEW d \in Devices, NEW info, Rejoin(d, info) \/ RejoinFromBackup(d, info)
      PROVE  KeysSound'
  BY <1>4, <1>7, RejoinKeepsKeys DEF Rejoin, RejoinFromBackup
<1>8. ASSUME NEW d \in Devices, RoomInfo(d) \/ Backup(d) \/ Export(d) PROVE KeysSound'
  BY <1>4, <1>8, QuietKeepsKeys DEF RoomInfo, Backup, Export, blobs, logs
<1>9. CASE UNCHANGED vars
  BY <1>4, <1>9, QuietKeepsKeys DEF vars
<1> QED BY <1>2, <1>4, <1>5, <1>6, <1>7, <1>8, <1>9, CreateRoomKeepsKeys,
           KeyPackageKeepsKeys, TextsKeepKeys, JoinKeepsKeys, ReceivingKeepsKeys,
           TieBreakKeepsKeys DEF Next

\* PackageOpensOnce, as long as no device is put back to an earlier blob, which
\* has the init key again: joining spends it, and no lost race brings it back
\* (mod.rs 484-537, 1257-1264).
THEOREM PackagesAreSpent == Spec => [](restarts = 0 => PackageOpensOnce)
<1>1. Init => KeysSound
  <2> SUFFICES ASSUME Init PROVE KeysSound
    OBVIOUS
  <2>1. \A d \in Devices : session[d].packages = {} /\ before[d].packages = {}
    BY DEF Init, EmptyStore, StartAt
  <2> QED BY <2>1 DEF Init, KeysSound, DeviceUnspent, Unspent, HandedOut, PackageOpensOnce
<1>2. IInv /\ CommitsSound /\ (restarts = 0 => KeysSound) /\ [Next]_vars
        => (restarts = 0 => KeysSound)'
  BY KeysStaySound
<1>3. (restarts = 0 => KeysSound) => (restarts = 0 => PackageOpensOnce)
  BY DEF KeysSound
<1> QED BY <1>1, <1>2, <1>3, Commits, PTL DEF Spec

(***************************************************************************)
(* First copies.  A text that opens has not been opened before: no two     *)
(* texts have one key, because a device whose sending ratchet is anew at a *)
(* state has not sent there yet.  A state is entered once, by making it or *)
(* with a package; from there a device is led on by others' commits, and   *)
(* along each way it goes there is a set of states that lets nobody in     *)
(* again.                                                                  *)
(***************************************************************************)
Entered(d, x) == states[x].from = d \/ \E p \in states[x].added : p[1] = d

\* Nothing d has yet will bring it into these states from outside them.
Barred(d, line) ==
  /\ line \subseteq StateId
  /\ \A x \in line :
       /\ \A p \in states[x].added : p[1] = d => \E y \in opened : y[1] = p
       /\ Entered(d, x) \/ Parent(x) \in line

\* The states d has come through to g since it last entered one.
Road(d, line, g) ==
  g \in line /\ Barred(d, line) /\ \A x \in line : Epoch(x) =< Epoch(g)

MayYield(d) ==
  HoldsItsCommit(d) /\ before[d].at # NoRoom /\ Parent(session[d].at) = before[d].at

\* d is in none of these states, and giving up its commit leads into none.
Elsewhere(d, line) ==
  /\ session[d].at \notin line
  /\ MayYield(d) => \A x \in line : Parent(x) = before[d].at => Entered(d, x)

Gone(d, g) == \E line \in SUBSET StateId : g \in line /\ Barred(d, line) /\ Elsewhere(d, line)

TextFresh(d, t) ==
  \/ texts[t].group = session[d].at /\ texts[t].gen < session[d].sent
  \/ Gone(d, texts[t].group)

Fresh(d) ==
  /\ InRoom(d) => \E line \in SUBSET StateId : Road(d, line, session[d].at)
  /\ MayYield(d) => \E line \in SUBSET StateId : Road(d, line, before[d].at)
  /\ \A t \in TextId : Sender(t) = d => TextFresh(d, t)

\* What every step leaves: rows, texts, what was opened and what was read.
LEMMA StepKeeps ==
  ASSUME IInv, IInv', [Next]_vars
  PROVE  /\ Len(states) \in Nat /\ Len(states') \in Nat
         /\ StateId \subseteq StateId' /\ \A g \in StateId : states'[g] = states[g]
         /\ TextId \subseteq TextId' /\ \A t \in TextId : texts'[t] = texts[t]
         /\ opened \subseteq opened' /\ reports \subseteq reports'
<1>1. Len(states) \in Nat /\ Len(states') \in Nat /\ Len(texts) \in Nat
  BY Lengths, LenProperties DEF IInv, TypeOK
<1>2. StateId \subseteq StateId' /\ \A g \in StateId : states'[g] = states[g]
  BY <1>1, NextKeepsRows DEF Grows, StateId
<1>3. opened \subseteq opened' /\ reports \subseteq reports'
  BY DEF Next, vars, blobs, logs, CreateRoom, KeyPackage, AddMembers, RemoveMember,
         CommitAsMember, Send, ReceiveText, Join, ReceiveCommit, TieBreak, RoomInfo, Rejoin,
         RejoinFromBackup, JoinExternally, Backup, Export, Restore, NewFromSeed
<1>4. texts' = texts \/ \E x : texts' = Append(texts, x)
  <2>1. CASE \E d \in Devices : Send(d)
    BY <2>1 DEF Send
  <2>2. CASE ~\E d \in Devices : Send(d)
    <3>1. UNCHANGED texts
      BY <2>2 DEF Next, vars, blobs, logs, CreateRoom, KeyPackage, AddMembers, RemoveMember,
           CommitAsMember, ReceiveText, Join, ReceiveCommit, TieBreak, RoomInfo, Rejoin,
           RejoinFromBackup, JoinExternally, Backup, Export, Restore, NewFromSeed
    <3> QED BY <3>1
  <2> QED BY <2>1, <2>2
<1>5. TextId \subseteq TextId' /\ \A t \in TextId : texts'[t] = texts[t]
  <2>1. CASE texts' = texts
    BY <2>1 DEF TextId
  <2>2. ASSUME NEW x, texts' = Append(texts, x)
        PROVE  TextId \subseteq TextId' /\ \A t \in TextId : texts'[t] = texts[t]
    <3>1. PICK T : texts \in Seq(T)
      BY DEF IInv, TypeOK
    <3>2. texts \in Seq(T \cup {x}) /\ x \in T \cup {x}
      BY <3>1
    <3> QED BY <1>1, <2>2, <3>2, AppendProperties DEF TextId
  <2> QED BY <1>4, <2>1, <2>2
<1> QED BY <1>1, <1>2, <1>3, <1>5

\* Ways once barred stay so, and so do roads.
LEMMA BarredStays ==
  ASSUME IInv, IInv', [Next]_vars, NEW d, NEW line, Barred(d, line)
  PROVE  /\ Barred(d, line)'
         /\ \A x \in line : /\ Entered(d, x)' = Entered(d, x)
                            /\ Parent(x)' = Parent(x) /\ Epoch(x)' = Epoch(x)
<1>1. line \subseteq StateId /\ line \subseteq StateId'
  BY StepKeeps DEF Barred
<1>2. \A x \in line : states'[x] = states[x]
  BY <1>1, StepKeeps
<1>3. \A x \in line : /\ Entered(d, x)' = Entered(d, x)
                      /\ Parent(x)' = Parent(x) /\ Epoch(x)' = Epoch(x)
  BY <1>2 DEF Entered, Parent, Epoch
<1>4. Barred(d, line)'
  BY <1>1, <1>2, <1>3, StepKeeps DEF Barred
<1> QED BY <1>3, <1>4

LEMMA RoadStays ==
  ASSUME IInv, IInv', [Next]_vars, NEW d, NEW line, NEW g, Road(d, line, g)
  PROVE  Road(d, line, g)'
BY BarredStays DEF Road

\* Who stays where it is may yield as before.
LEMMA MayYieldStays ==
  ASSUME IInv, IInv', [Next]_vars, NEW e \in Devices,
         session'[e].at = session[e].at, before'[e].at = before[e].at
  PROVE  MayYield(e)' = MayYield(e)
<1>1. CASE session[e].at = NoRoom
  BY <1>1 DEF MayYield, HoldsItsCommit, InRoom
<1>2. CASE session[e].at # NoRoom
  <2>1. session[e].at \in StateId
    BY <1>2, HolderFacts DEF Stores
  <2>2. states'[session[e].at] = states[session[e].at]
    BY <2>1, StepKeeps
  <2> QED BY <2>2 DEF MayYield, HoldsItsCommit, InRoom, Parent
<1> QED BY <1>1, <1>2

\* The sender of a text stays its sender.
LEMMA SenderStays ==
  ASSUME IInv, IInv', [Next]_vars, NEW t \in TextId
  PROVE  /\ Sender(t)' = Sender(t) /\ Key(t)' = Key(t) /\ texts'[t] = texts[t]
         /\ texts[t].group \in StateId
<1>1. texts[t].group \in StateId /\ texts'[t] = texts[t]
  BY StepKeeps DEF IInv, TextsSound
<1>2. states'[texts[t].group] = states[texts[t].group]
  BY <1>1, StepKeeps
<1> QED BY <1>1, <1>2 DEF Sender, Key, Tree

\* Who stays where it is, and at most sends there, stays fresh.
LEMMA StaysFresh ==
  ASSUME IInv, IInv', [Next]_vars, NEW e \in Devices,
         session'[e].at = session[e].at, session[e].sent =< session'[e].sent,
         before'[e].at = before[e].at,
         \A t \in TextId' : Sender(t)' = e =>
           \/ t \in TextId
           \/ texts'[t].group = session'[e].at /\ texts'[t].gen < session'[e].sent,
         Fresh(e)
  PROVE  Fresh(e)'
<1>1. MayYield(e)' = MayYield(e) /\ InRoom(e)' = InRoom(e)
  BY MayYieldStays DEF InRoom
<1>2. (InRoom(e) => \E line \in SUBSET StateId : Road(e, line, session[e].at))'
  <2> SUFFICES ASSUME InRoom(e)
               PROVE  (\E line \in SUBSET StateId : Road(e, line, session[e].at))'
    BY <1>1
  <2>1. PICK line \in SUBSET StateId : Road(e, line, session[e].at)
    BY DEF Fresh
  <2>2. PICK g : g = session[e].at /\ g = session'[e].at
    OBVIOUS
  <2>3. Road(e, line, g)' /\ line \in SUBSET StateId'
    BY <2>1, <2>2, RoadStays, StepKeeps
  <2> QED BY <2>2, <2>3
<1>3. (MayYield(e) => \E line \in SUBSET StateId : Road(e, line, before[e].at))'
  <2> SUFFICES ASSUME MayYield(e)
               PROVE  (\E line \in SUBSET StateId : Road(e, line, before[e].at))'
    BY <1>1
  <2>1. PICK line \in SUBSET StateId : Road(e, line, before[e].at)
    BY DEF Fresh
  <2>2. PICK g : g = before[e].at /\ g = before'[e].at
    OBVIOUS
  <2>3. Road(e, line, g)' /\ line \in SUBSET StateId'
    BY <2>1, <2>2, RoadStays, StepKeeps
  <2> QED BY <2>2, <2>3
<1>4. ASSUME NEW t \in TextId, Sender(t)' = e PROVE TextFresh(e, t)'
  <2>1. TextFresh(e, t) /\ texts'[t] = texts[t]
    BY <1>4, SenderStays DEF Fresh
  <2>2. CASE texts[t].group = session[e].at /\ texts[t].gen < session[e].sent
    <3>1. texts[t] \in [group : Nat, leaf : Leaf, gen : Nat]
      BY ElementOfSeq DEF IInv, TypeOK, TextId
    <3>2. session[e] \in Store /\ session'[e] \in Store
      BY DEF IInv, TypeOK
    <3>3. texts[t].gen \in Nat /\ session[e].sent \in Nat /\ session'[e].sent \in Nat
      BY <3>1, <3>2 DEF Store
    <3> QED BY <2>1, <2>2, <3>3 DEF TextFresh
  <2>3. CASE Gone(e, texts[t].group)
    <3>1. PICK line \in SUBSET StateId :
            texts[t].group \in line /\ Barred(e, line) /\ Elsewhere(e, line)
      BY <2>3 DEF Gone
    <3>2. Barred(e, line)' /\ line \in SUBSET StateId'
      BY <3>1, BarredStays, StepKeeps
    <3>3. Elsewhere(e, line)'
      BY <1>1, <3>1, BarredStays DEF Elsewhere
    <3> QED BY <2>1, <3>1, <3>2, <3>3 DEF TextFresh, Gone
  <2> QED BY <2>1, <2>2, <2>3 DEF TextFresh
<1>5. \A t \in TextId' : Sender(t)' = e => TextFresh(e, t)'
  BY <1>4 DEF TextFresh
<1> QED BY <1>2, <1>3, <1>5 DEF Fresh

\* Who goes elsewhere stays fresh if it comes in by a road and what it leaves
\* lies behind it.
LEMMA MovesFresh ==
  ASSUME IInv, IInv', [Next]_vars, NEW d \in Devices, texts' = texts, Fresh(d),
         (InRoom(d) => \E line \in SUBSET StateId : Road(d, line, session[d].at))',
         (MayYield(d) => \E line \in SUBSET StateId : Road(d, line, before[d].at))',
         \A line \in SUBSET StateId :
           Barred(d, line) /\ Elsewhere(d, line) => Elsewhere(d, line)',
         InRoom(d) => \E line \in SUBSET StateId :
           session[d].at \in line /\ Barred(d, line) /\ Elsewhere(d, line)'
  PROVE  Fresh(d)'
<1>1. ASSUME NEW line \in SUBSET StateId, NEW g \in line, Barred(d, line), Elsewhere(d, line)'
      PROVE  Gone(d, g)'
  BY <1>1, BarredStays, StepKeeps DEF Gone
<1>2. ASSUME NEW t \in TextId, Sender(t) = d PROVE Gone(d, texts[t].group)'
  <2>1. TextFresh(d, t) /\ texts[t].group \in StateId /\ texts'[t] = texts[t]
    BY <1>2, SenderStays DEF Fresh
  <2>2. PICK h : h = texts[t].group /\ h = texts'[t].group
    BY <2>1
  <2>3. CASE h = session[d].at
    <3>1. InRoom(d)
      BY <2>1, <2>2, <2>3 DEF InRoom, StateId, NoRoom
    <3>2. PICK line \in SUBSET StateId :
            session[d].at \in line /\ Barred(d, line) /\ Elsewhere(d, line)'
      BY <3>1
    <3> QED BY <1>1, <2>2, <2>3, <3>2
  <2>4. CASE Gone(d, h)
    <3>1. PICK line \in SUBSET StateId : h \in line /\ Barred(d, line) /\ Elsewhere(d, line)
      BY <2>4 DEF Gone
    <3>2. Elsewhere(d, line)'
      BY <3>1
    <3> QED BY <1>1, <2>2, <3>1, <3>2
  <2> QED BY <2>1, <2>2, <2>3, <2>4 DEF TextFresh
<1>3. TextId' = TextId
  BY DEF TextId
<1>4. \A t \in TextId' : Sender(t)' = d => TextFresh(d, t)'
  BY <1>2, <1>3, SenderStays DEF TextFresh
<1> QED BY <1>4 DEF Fresh


\* Whoever makes a state has come in there, and nothing brings it in again.
LEMMA MakerComesIn ==
  ASSUME IInv', CommitsSound', NEW d \in Devices, NEW n \in StateId', states'[n].from = d
  PROVE  Road(d, {n}, n)' /\ {n} \in SUBSET StateId'
<1>1. Epoch(n)' \in Nat
  <2>1. states'[n] \in Row
    BY ElementOfSeq DEF IInv, TypeOK, StateId
  <2> QED BY <2>1 DEF Row, Epoch
<1>2. \A p \in states'[n].added : p[1] # d
  BY DEF CommitsSound, CommitSound
<1> QED BY <1>1, <1>2 DEF Road, Barred, Entered

\* The row a commit adds, and that nobody has been there.
LEMMA MadeRow ==
  ASSUME IInv, NEW d, NEW parent, NEW external, NEW tree, NEW added, NEW removed,
         MakeState(d, parent, external, tree, added, removed)
  PROVE  /\ NewId \in Nat \ {0} /\ NewId \notin StateId /\ NewId \in StateId'
         /\ states'[NewId].from = d /\ states'[NewId].parent = parent
         /\ states'[NewId].external = external
         /\ states'[NewId].epoch = IF parent = NoRoom THEN 0 ELSE Epoch(parent) + 1
<1>1. states \in Seq(Row) /\ Len(states) \in Nat
  BY Lengths DEF IInv, TypeOK
<1> DEFINE row == [parent |-> parent, from |-> d, external |-> external, tree |-> tree,
                   epoch |-> IF parent = NoRoom THEN 0 ELSE Epoch(parent) + 1,
                   added |-> added, removed |-> removed]
<1>2. states' = Append(states, row)
  BY DEF MakeState
<1>3. /\ row.parent = parent /\ row.from = d /\ row.external = external
      /\ row.epoch = IF parent = NoRoom THEN 0 ELSE Epoch(parent) + 1
  OBVIOUS
<1> HIDE DEF row
<1> QED BY <1>1, <1>2, <1>3 DEF NewId, StateId

\* A state on a road is not a child of the one it leads to.
LEMMA RoadEnds ==
  ASSUME IInv, NEW d, NEW g \in StateId, NEW line \in SUBSET StateId, Road(d, line, g),
         NEW x \in StateId, Parent(x) = g
  PROVE  x \notin line
<1>1. g # NoRoom
  BY DEF StateId, NoRoom
<1>2. Epoch(x) = Epoch(g) + 1
  BY <1>1 DEF IInv, RowsSound, FollowsItsParent
<1> QED BY <1>2, EpochType DEF Road

\* Nobody but its maker and those it adds enters a state.
LEMMA MembersAreLed ==
  ASSUME IInv, CommitsSound, NEW d \in Devices, NEW g \in StateId, states[g].from # d,
         d \in Members(Parent(g))
  PROVE  ~Entered(d, g) /\ \A p \in states[g].added : p[1] # d
BY DEF CommitsSound, CommitSound, AddsNewcomers, Entered, Parent

LEMMA CommitKeepsFresh ==
  ASSUME IInv, IInv', CommitsSound', [Next]_vars, NEW d \in Devices, InRoom(d), Fresh(d),
         NEW tree, NEW added, NEW removed, CommitAsMember(d, tree, added, removed)
  PROVE  Fresh(d)'
<1>1. /\ session' = [session EXCEPT ![d] = Advance(session[d], NewId)]
      /\ before' = [before EXCEPT ![d] = session[d]]
      /\ UNCHANGED <<texts, opened>>
      /\ MakeState(d, session[d].at, FALSE, tree, added, removed)
  BY DEF CommitAsMember, blobs, logs
<1>2. PICK n : n = NewId
  OBVIOUS
<1>3. n \notin StateId /\ n \in StateId' /\ states'[n].from = d
  BY <1>1, <1>2, MadeRow
<1>4. session'[d].at = n /\ before'[d] = session[d] /\ session[d].at \in StateId
  <2>1. session \in [Devices -> Store] /\ before \in [Devices -> Store]
    BY DEF IInv, TypeOK
  <2>2. Advance(session[d], NewId).at = NewId
    BY MovesKeepPackages
  <2>3. session'[d].at = n /\ before'[d] = session[d]
    BY <1>1, <1>2, <2>1, <2>2
  <2>4. session[d].at \in StateId
    BY HolderFacts DEF InRoom, Stores
  <2> QED BY <2>3, <2>4
<1>5. PICK here : here = session[d].at /\ here = before'[d].at
  BY <1>4
<1>6. PICK road \in SUBSET StateId : Road(d, road, here)
  BY <1>5 DEF Fresh
<1>7. (InRoom(d) => \E line \in SUBSET StateId : Road(d, line, session[d].at))'
  BY <1>3, <1>4, MakerComesIn
<1>8. (MayYield(d) => \E line \in SUBSET StateId : Road(d, line, before[d].at))'
  <2>1. Road(d, road, here)' /\ road \in SUBSET StateId'
    BY <1>6, RoadStays, StepKeeps
  <2> QED BY <1>5, <2>1
<1>9. ASSUME NEW line \in SUBSET StateId, Barred(d, line),
             \A x \in line : Parent(x) = here => Entered(d, x)
      PROVE  Elsewhere(d, line)'
  <2>1. \A x \in line : Parent(x)' = here => Entered(d, x)'
    BY <1>9, BarredStays
  <2> QED BY <1>3, <1>4, <1>5, <2>1 DEF Elsewhere
<1>10. ASSUME NEW line \in SUBSET StateId, Barred(d, line), Elsewhere(d, line)
       PROVE  Elsewhere(d, line)'
  BY <1>5, <1>9, <1>10 DEF Barred, Elsewhere
<1>11. Elsewhere(d, road)'
  BY <1>4, <1>5, <1>6, <1>9, RoadEnds DEF Road
<1>12. session[d].at \in road /\ Barred(d, road)
  BY <1>5, <1>6 DEF Road
<1> QED BY <1>1, <1>7, <1>8, <1>10, <1>11, <1>12, MovesFresh

\* Creating the room, and coming in externally: a state of one's own that
\* cannot be given up.
LEMMA ComingInKeepsFresh ==
  ASSUME IInv, IInv', CommitsSound', [Next]_vars, NEW d \in Devices, Fresh(d),
         NEW parent, NEW external, external = TRUE \/ parent = NoRoom, NEW tree,
         MakeState(d, parent, external, tree, {}, {}),
         session' = [session EXCEPT ![d] = StartAt(session[d], NewId)],
         UNCHANGED <<before, texts>>
  PROVE  Fresh(d)'
<1>1. PICK n : n = NewId
  OBVIOUS
<1>2. /\ n \notin StateId /\ n \in StateId' /\ states'[n].from = d
      /\ states'[n].external = external /\ states'[n].parent = parent
  <2> DEFINE none == {}
  <2>1. MakeState(d, parent, external, tree, none, none)
    OBVIOUS
  <2> HIDE DEF none
  <2> QED BY <1>1, <2>1, MadeRow
<1>3. session'[d].at = n
  BY <1>1, MovesKeepPackages DEF IInv, TypeOK
<1>4. ~MayYield(d)'
  BY <1>2, <1>3 DEF MayYield, HoldsItsCommit, Parent
<1>5. (InRoom(d) => \E line \in SUBSET StateId : Road(d, line, session[d].at))'
  BY <1>2, <1>3, MakerComesIn
<1>6. \A line \in SUBSET StateId : Elsewhere(d, line)'
  BY <1>2, <1>3, <1>4 DEF Elsewhere
<1>7. InRoom(d) => \E line \in SUBSET StateId : session[d].at \in line /\ Barred(d, line)
  BY DEF Fresh, Road
<1> QED BY <1>4, <1>5, <1>6, <1>7, MovesFresh

LEMMA JoinKeepsFresh ==
  ASSUME IInv, IInv', CommitsSound, [Next]_vars, KeysSound, NEW d \in Devices, Fresh(d),
         NEW g \in StateId, Join(d, g)
  PROVE  Fresh(d)'
<1>1. PICK p \in states[g].added :
        /\ p \in session[d].packages
        /\ session' = [session EXCEPT ![d] =
                         StartAt([session[d] EXCEPT !.packages = @ \ {p}], g)]
        /\ opened' = opened \cup {<<p, g>>}
  BY DEF Join
<1>2. UNCHANGED <<states, before, texts>>
  BY DEF Join, blobs
<1>3. p[1] = d /\ \A y \in opened : y[1] # p
  BY <1>1 DEF IInv, StoresSound, Stores, SoundIn, KeysSound, DeviceUnspent, Unspent
<1>4. session'[d].at = g
  <2> DEFINE joined == StartAt([session[d] EXCEPT !.packages = @ \ {p}], g)
  <2>1. joined.at = g
    BY MovesKeepPackages
  <2>2. session \in [Devices -> Store] /\ session' = [session EXCEPT ![d] = joined]
    BY <1>1 DEF IInv, TypeOK
  <2> HIDE DEF joined
  <2> QED BY <2>1, <2>2
<1>5. \A line \in SUBSET StateId : Barred(d, line) => g \notin line
  BY <1>3 DEF Barred
<1>6. states[g].from # d /\ \A q \in states[g].added : q[1] = d => q = p
  BY <1>3 DEF CommitsSound, CommitSound, AddsNewcomers
<1>7. ~MayYield(d)'
  BY <1>2, <1>4, <1>6 DEF MayYield, HoldsItsCommit
<1>8. Road(d, {g}, g)' /\ {g} \in SUBSET StateId'
  <2>1. \E y \in opened' : y[1] = p
    <3> DEFINE y == <<p, g>>
    <3>1. y[1] = p /\ y \in opened'
      BY <1>1
    <3> HIDE DEF y
    <3> QED BY <3>1
  <2>2. Entered(d, g)'
    BY <1>2, <1>3 DEF Entered
  <2>3. \A q \in states'[g].added : q[1] = d => \E y \in opened' : y[1] = q
    BY <1>2, <1>6, <2>1
  <2>4. {g} \in SUBSET StateId'
    BY <1>2 DEF StateId
  <2>5. Barred(d, {g})'
    BY <2>2, <2>3, <2>4 DEF Barred
  <2>6. Epoch(g)' \in Nat
    BY <1>2, EpochType DEF Epoch
  <2> QED BY <2>4, <2>5, <2>6 DEF Road
<1>9. (InRoom(d) => \E line \in SUBSET StateId : Road(d, line, session[d].at))'
  BY <1>4, <1>8
<1>10. \A line \in SUBSET StateId : Barred(d, line) => Elsewhere(d, line)'
  BY <1>4, <1>5, <1>7 DEF Elsewhere
<1>11. InRoom(d) => \E line \in SUBSET StateId : session[d].at \in line /\ Barred(d, line)
  BY DEF Fresh, Road
<1> QED BY <1>2, <1>7, <1>9, <1>10, <1>11, MovesFresh

\* Another's commit leads on from the state it was made at, whether that is
\* held or is gone back to.
LEMMA LedOn ==
  ASSUME IInv, IInv', CommitsSound, [Next]_vars, UNCHANGED <<states, before, texts>>,
         NEW d \in Devices, InRoom(d), Fresh(d), NEW g \in StateId, states[g].from # d,
         NEW was \in StateId, Parent(g) = was, d \in Members(was),
         \E line \in SUBSET StateId : Road(d, line, was),
         session'[d].at = g \/ session'[d].at = NoRoom,
         \A line \in SUBSET StateId : Barred(d, line) /\ Elsewhere(d, line) => g \notin line,
         \E line \in SUBSET StateId : session[d].at \in line /\ Barred(d, line) /\ g \notin line
  PROVE  Fresh(d)'
<1>1. PICK road \in SUBSET StateId : Road(d, road, was)
  OBVIOUS
<1>2. ~Entered(d, g) /\ \A p \in states[g].added : p[1] # d
  BY MembersAreLed
<1>3. ~MayYield(d)'
  BY DEF MayYield, HoldsItsCommit, InRoom
<1>4. Road(d, road \cup {g}, g)
  <2>1. Epoch(g) = Epoch(was) + 1
    BY DEF IInv, RowsSound, FollowsItsParent, StateId, NoRoom
  <2>2. \A x \in road : Epoch(x) \in Nat /\ Epoch(x) =< Epoch(was)
    BY <1>1, EpochType DEF Road
  <2>3. \A x \in road \cup {g} : Epoch(x) =< Epoch(g)
    BY <2>1, <2>2, EpochType
  <2>4. Barred(d, road \cup {g})
    BY <1>1, <1>2 DEF Road, Barred
  <2> QED BY <2>3, <2>4 DEF Road
<1>5. (InRoom(d) => \E line \in SUBSET StateId : Road(d, line, session[d].at))'
  <2>1. Road(d, road \cup {g}, g)' /\ road \cup {g} \in SUBSET StateId'
    BY <1>4, RoadStays, StepKeeps
  <2> QED BY <2>1 DEF InRoom
<1>6. \A line \in SUBSET StateId : g \notin line => Elsewhere(d, line)'
  BY <1>3 DEF Elsewhere, StateId, NoRoom
<1> QED BY <1>3, <1>5, <1>6, MovesFresh

LEMMA ReceivingKeepsFresh ==
  ASSUME IInv, IInv', CommitsSound, [Next]_vars, NEW d \in Devices, Fresh(d),
         NEW g \in StateId, ReceiveCommit(d, g)
  PROVE  Fresh(d)'
<1>1. /\ session' = [session EXCEPT ![d] = Merge(session[d], g, d)]
      /\ InRoom(d) /\ states[g].from # d /\ Parent(g) = session[d].at
      /\ UNCHANGED <<states, before, texts>>
  BY DEF ReceiveCommit, blobs
<1>2. session'[d].at = g \/ session'[d].at = NoRoom
  BY <1>1, MovesKeepPackages DEF IInv, TypeOK
<1>3. session[d].at \in StateId /\ d \in Members(session[d].at)
  BY <1>1, HolderFacts DEF InRoom, Stores
<1>4. PICK road \in SUBSET StateId : Road(d, road, session[d].at)
  BY <1>1 DEF Fresh
<1>5. \A line \in SUBSET StateId : Barred(d, line) /\ Elsewhere(d, line) => g \notin line
  BY <1>1, <1>3, MembersAreLed DEF Barred, Elsewhere
<1>6. session[d].at \in road /\ Barred(d, road) /\ g \notin road
  BY <1>1, <1>3, <1>4, RoadEnds DEF Road
<1> QED BY <1>1, <1>2, <1>3, <1>4, <1>5, <1>6, LedOn

LEMMA TieBreakKeepsFresh ==
  ASSUME IInv, IInv', CommitsSound, [Next]_vars, NEW d \in Devices, Fresh(d),
         NEW g \in StateId, TieBreak(d, g)
  PROVE  Fresh(d)'
<1>1. /\ session' = [session EXCEPT ![d] = Merge(before[d], g, d)]
      /\ InRoom(d) /\ states[g].from # d /\ Parent(g) = before[d].at
      /\ before[d].at # NoRoom
      /\ states[session[d].at].from = d
      /\ UNCHANGED <<states, before, texts>>
  BY DEF TieBreak, Yields, blobs
<1>2. MayYield(d)
  BY DEF TieBreak, Yields, MayYield, HoldsItsCommit
<1>3. session'[d].at = g \/ session'[d].at = NoRoom
  BY <1>1, MovesKeepPackages DEF IInv, TypeOK
<1>4. before[d].at \in StateId /\ d \in Members(before[d].at) /\ session[d].at \in StateId
  BY <1>1, HolderFacts DEF InRoom, Stores
<1>5. PICK road \in SUBSET StateId : Road(d, road, before[d].at)
  BY <1>2 DEF Fresh
<1>6. \A line \in SUBSET StateId : Barred(d, line) /\ Elsewhere(d, line) => g \notin line
  BY <1>1, <1>2, <1>4, MembersAreLed DEF Elsewhere
<1>7. Barred(d, {session[d].at}) /\ g \notin {session[d].at}
  BY <1>1, <1>4 DEF Barred, Entered, CommitsSound, CommitSound
<1> QED BY <1>1, <1>3, <1>4, <1>5, <1>6, <1>7, LedOn


(***************************************************************************)
(* No two texts have one key, and what a store has seen has been read.     *)
(***************************************************************************)
KeysDiffer == \A t, u \in TextId : Key(t) = Key(u) => t = u

Read(d, x) == \E t \in TextId : Key(t) = x /\ <<d, t, "read">> \in reports

\* What a store keeps of the past: each state one epoch before the next, and
\* all of them back to the one it came in at as long as there is room.
LineIn(rows, s) ==
  s.at # NoRoom =>
    /\ Len(s.past) =< MaxPast
    /\ \A i \in 1 .. Len(s.past) : rows[s.past[i]].epoch = rows[s.at].epoch - i
    /\ Len(s.past) < MaxPast =>
         s.entry = IF s.past = <<>> THEN s.at ELSE s.past[Len(s.past)]

Remembers(d, s) == LineIn(states, s) /\ \A x \in s.seen : Read(d, x)

CopiesSound ==
  /\ KeysDiffer
  /\ \A d \in Devices : Fresh(d) /\ Remembers(d, session[d]) /\ Remembers(d, before[d])

LEMMA ReadStays ==
  ASSUME IInv, IInv', [Next]_vars, NEW d, NEW x, Read(d, x)
  PROVE  Read(d, x)'
BY SenderStays, StepKeeps DEF Read

LEMMA LineGrows ==
  ASSUME NEW rows, NEW more, Grows(rows, more), NEW d, NEW s, SoundIn(rows, d, s),
         LineIn(rows, s)
  PROVE  LineIn(more, s)
<1> SUFFICES ASSUME s.at # NoRoom
    PROVE  \A i \in 1 .. Len(s.past) : more[s.past[i]].epoch = more[s.at].epoch - i
  BY DEF LineIn
<1>1. s.past \in Seq(Nat)
  BY DEF SoundIn, Store
<1>2. \A i \in 1 .. Len(s.past) : s.past[i] \in Retained(s)
  BY <1>1 DEF Retained, Range
<1>3. \A g \in Retained(s) : more[g] = rows[g]
  BY DEF SoundIn, Grows
<1>4. s.at \in Retained(s)
  BY DEF Retained
<1> QED BY <1>2, <1>3, <1>4 DEF LineIn

LEMMA LineStarts ==
  ASSUME NEW rows, NEW s, NEW g
  PROVE  LineIn(rows, StartAt(s, g)) /\ LineIn(rows, Leave(s))
         /\ StartAt(s, g).seen = {} /\ Leave(s).seen = {}
<1>1. Len(<<>>) = 0 /\ MaxPast \in Nat
  BY RoomAssumption, EmptySeq
<1> QED BY <1>1 DEF LineIn, StartAt, Leave, NoRoom

\* Merging a commit makes the line one longer, or drops its farthest end.
LEMMA LineAdvances ==
  ASSUME NEW rows, NEW s \in Store, LineIn(rows, s), s.at # NoRoom,
         NEW g, rows[s.at].epoch \in Nat, rows[g].epoch = rows[s.at].epoch + 1
  PROVE  LineIn(rows, Advance(s, g)) /\ Advance(s, g).seen \subseteq s.seen
<1> DEFINE kept == IF Len(s.past) < MaxPast THEN Len(s.past) + 1 ELSE MaxPast
           past == [i \in 1 .. kept |-> IF i = 1 THEN s.at ELSE s.past[i - 1]]
           t == Advance(s, g)
<1>1. s.past \in Seq(Nat) /\ Len(s.past) \in Nat /\ MaxPast \in Nat /\ s.at \in Nat
  BY RoomAssumption DEF Store
<1>2. kept \in Nat /\ kept =< Len(s.past) + 1 /\ kept =< MaxPast
  BY <1>1
<1>3. /\ t.at = g /\ t.past = past /\ t.entry = s.entry
      /\ t.seen \subseteq s.seen
  BY DEF Advance
<1>4. \A i \in 1 .. kept : past[i] = IF i = 1 THEN s.at ELSE s.past[i - 1]
  OBVIOUS
<1>5. Len(past) = kept
  <2>1. past \in [1 .. kept -> Nat]
    <3>1. ASSUME NEW i \in 1 .. kept PROVE (IF i = 1 THEN s.at ELSE s.past[i - 1]) \in Nat
      <4>1. i # 1 => i - 1 \in 1 .. Len(s.past)
        BY <1>1, <1>2
      <4> QED BY <1>1, <4>1, ElementOfSeq
    <3> QED BY <3>1
  <2> HIDE DEF past, kept
  <2> QED BY <1>2, <2>1, SequenceIntro
<1> HIDE DEF past, kept, t
<1>6. ASSUME NEW i \in 1 .. kept
      PROVE  rows[past[i]].epoch = rows[g].epoch - i
  <2>1. CASE i = 1
    BY <1>4, <2>1
  <2>2. CASE i # 1
    <3>1. i - 1 \in 1 .. Len(s.past) /\ past[i] = s.past[i - 1]
      BY <1>1, <1>2, <1>4, <2>2
    <3>2. rows[s.past[i - 1]].epoch = rows[s.at].epoch - (i - 1)
      BY <3>1 DEF LineIn
    <3> QED BY <1>2, <3>1, <3>2
  <2> QED BY <2>1, <2>2
<1>7. ASSUME kept < MaxPast
      PROVE  past # <<>> /\ s.entry = past[kept]
  <2>1. kept = Len(s.past) + 1 /\ Len(s.past) < MaxPast
    BY <1>1, <1>7 DEF kept
  <2>2. past # <<>>
    BY <1>1, <1>5, <2>1, EmptySeq
  <2>3. s.entry = IF s.past = <<>> THEN s.at ELSE s.past[Len(s.past)]
    BY <2>1 DEF LineIn
  <2>4. CASE s.past = <<>>
    <3>1. kept = 1
      BY <2>1, <2>4, EmptySeq
    <3> QED BY <1>4, <2>2, <2>3, <2>4, <3>1
  <2>5. CASE s.past # <<>>
    <3>1. Len(s.past) # 0
      BY <1>1, <2>5, EmptySeq
    <3>2. kept # 1 /\ kept \in 1 .. kept /\ kept - 1 = Len(s.past)
      BY <1>1, <2>1, <3>1
    <3> QED BY <1>4, <2>2, <2>3, <2>5, <3>2
  <2> QED BY <2>4, <2>5
<1>8. LineIn(rows, t)
  BY <1>2, <1>3, <1>5, <1>6, <1>7 DEF LineIn
<1> QED BY <1>3, <1>8 DEF t

LEMMA LineMerges ==
  ASSUME IInv, NEW d, NEW s \in Store, s.at \in StateId, LineIn(states, s),
         NEW g \in StateId, Parent(g) = s.at
  PROVE  LineIn(states, Merge(s, g, d)) /\ Merge(s, g, d).seen \subseteq s.seen
<1>1. s.at # NoRoom /\ states[s.at].epoch \in Nat
  BY EpochType DEF StateId, NoRoom, Epoch
<1>2. states[g].epoch = states[s.at].epoch + 1
  BY <1>1 DEF IInv, RowsSound, FollowsItsParent, Epoch
<1> QED BY <1>1, <1>2, LineAdvances, LineStarts DEF Merge

\* Of the devices, at most d is given another store.
LEMMA RememberingStep ==
  ASSUME IInv, IInv', [Next]_vars, CopiesSound, NEW d \in Devices, NEW s,
         session' = [session EXCEPT ![d] = s],
         before' = before \/ before' = [before EXCEPT ![d] = session[d]],
         LineIn(states', s), \A x \in s.seen : Read(d, x)'
  PROVE  \A e \in Devices : Remembers(e, session[e])' /\ Remembers(e, before[e])'
<1>1. ASSUME NEW e \in Devices
      PROVE  /\ LineIn(states', session[e]) /\ LineIn(states', before[e])
             /\ \A x \in session[e].seen \cup before[e].seen : Read(e, x)'
  <2>1. Remembers(e, session[e]) /\ Remembers(e, before[e])
    BY DEF CopiesSound
  <2>2. SoundIn(states, e, session[e]) /\ SoundIn(states, e, before[e])
    BY DEF IInv, StoresSound, Stores
  <2>3. LineIn(states', session[e]) /\ LineIn(states', before[e])
    BY <2>1, <2>2, LineGrows, NextKeepsRows DEF Remembers
  <2> QED BY <2>1, <2>3, ReadStays DEF Remembers
<1>2. /\ session'[d] = s /\ \A e \in Devices \ {d} : session'[e] = session[e]
      /\ \A e \in Devices : before'[e] = before[e] \/ (e = d /\ before'[e] = session[d])
  BY DEF IInv, TypeOK
<1> QED BY <1>1, <1>2 DEF Remembers


\* A new text's key is new: its sender has sent here since it came, or has not
\* been here.
LEMMA KeysStayDifferent ==
  ASSUME IInv, IInv', [Next]_vars, CopiesSound
  PROVE  KeysDiffer'
<1>1. CASE texts' = texts
  <2>1. TextId' = TextId /\ \A t \in TextId : Key(t)' = Key(t)
    BY <1>1, SenderStays DEF TextId
  <2> QED BY <2>1 DEF CopiesSound, KeysDiffer
<1>2. ASSUME NEW d \in Devices, Send(d) PROVE KeysDiffer'
  <2> DEFINE g == session[d].at
             text == [group |-> g, gen |-> session[d].sent, leaf |-> LeafOf(g, d)]
  <2>1. texts' = Append(texts, text) /\ InRoom(d) /\ states' = states
    BY <1>2 DEF Send
  <2>2. text.group = g /\ text.gen = session[d].sent /\ text.leaf = LeafOf(g, d)
    OBVIOUS
  <2> HIDE DEF text
  <2>3. PICK n : n = Len(texts) + 1
    OBVIOUS
  <2>4. TextId' = TextId \cup {n} /\ texts'[n] = text
    <3>1. PICK T : texts \in Seq(T)
      BY DEF IInv, TypeOK
    <3>2. texts \in Seq(T \cup {text}) /\ text \in T \cup {text}
      BY <3>1
    <3>3. Len(texts) \in Nat /\ Len(texts') = Len(texts) + 1 /\ texts'[n] = text
      BY <2>1, <2>3, <3>2, AppendProperties, LenProperties
    <3> QED BY <2>3, <3>3 DEF TextId
  <2>5. Key(n)' = <<g, LeafOf(g, d), session[d].sent>>
    BY <2>2, <2>4 DEF Key
  <2>6. ASSUME NEW t \in TextId, Key(t) = <<g, LeafOf(g, d), session[d].sent>>
        PROVE  FALSE
    <3>1. texts[t].group = g /\ texts[t].leaf = LeafOf(g, d) /\ texts[t].gen = session[d].sent
      BY <2>6 DEF Key
    <3>2. Tree(g)[LeafOf(g, d)] = d
      <4>1. d \in Members(g)
        BY <2>1, HolderFacts DEF InRoom, Stores
      <4> QED BY <4>1 DEF LeafOf, Members, Range
    <3>3. TextFresh(d, t)
      BY <3>1, <3>2 DEF CopiesSound, Fresh, Sender
    <3>4. session[d].sent \in Nat
      BY DEF IInv, TypeOK, Store
    <3> HIDE DEF g
    <3>5. ~Gone(d, g)
      BY DEF Gone, Elsewhere, g
    <3> QED BY <3>1, <3>3, <3>4, <3>5 DEF TextFresh
  <2> HIDE DEF g
  <2>7. \A t \in TextId : Key(t)' = Key(t)
    BY SenderStays
  <2> QED BY <2>4, <2>5, <2>6, <2>7 DEF CopiesSound, KeysDiffer
<1> QED BY <1>1, <1>2
     DEF Next, vars, blobs, logs, CreateRoom, KeyPackage, AddMembers, RemoveMember,
         CommitAsMember, ReceiveText, Join, ReceiveCommit, TieBreak, RoomInfo, Rejoin,
         RejoinFromBackup, JoinExternally, Backup, Export, Restore, NewFromSeed

\* d goes elsewhere.
LEMMA CopiesMove ==
  ASSUME IInv, IInv', [Next]_vars, CopiesSound, NEW d \in Devices, NEW s,
         session' = [session EXCEPT ![d] = s],
         before' = before \/ before' = [before EXCEPT ![d] = session[d]],
         texts' = texts, Fresh(d)', LineIn(states', s),
         s.seen \subseteq session[d].seen \cup before[d].seen
  PROVE  CopiesSound'
<1>1. \A x \in s.seen : Read(d, x)'
  BY ReadStays DEF CopiesSound, Remembers
<1>2. \A e \in Devices : Remembers(e, session[e])' /\ Remembers(e, before[e])'
  BY <1>1, RememberingStep
<1>3. ASSUME NEW e \in Devices \ {d} PROVE Fresh(e)'
  <2>1. session'[e] = session[e] /\ before'[e] = before[e] /\ TextId' = TextId
    BY DEF IInv, TypeOK, TextId
  <2>2. session[e].sent \in Nat
    BY DEF IInv, TypeOK, Store
  <2> QED BY <2>1, <2>2, StaysFresh DEF CopiesSound
<1> QED BY <1>2, <1>3, KeysStayDifferent DEF CopiesSound

\* d stays where it is, and sends or reads at most.
LEMMA CopiesInPlace ==
  ASSUME IInv, IInv', [Next]_vars, CopiesSound, NEW d \in Devices, NEW s,
         session' = [session EXCEPT ![d] = s], before' = before, states' = states,
         s.at = session[d].at, s.past = session[d].past, s.entry = session[d].entry,
         session[d].sent =< s.sent,
         \A x \in s.seen : x \in session[d].seen \/ Read(d, x)',
         \A t \in TextId' : \/ t \in TextId
                            \/ /\ Sender(t)' = d
                               /\ texts'[t].group = s.at /\ texts'[t].gen < s.sent
  PROVE  CopiesSound'
<1>1. \A x \in s.seen : Read(d, x)'
  BY ReadStays DEF CopiesSound, Remembers
<1>2. LineIn(states', s)
  BY DEF CopiesSound, Remembers, LineIn
<1>3. \A e \in Devices : Remembers(e, session[e])' /\ Remembers(e, before[e])'
  BY <1>1, <1>2, RememberingStep
<1>4. ASSUME NEW e \in Devices PROVE Fresh(e)'
  <2>1. session'[d] = s /\ (e # d => session'[e] = session[e])
    BY DEF IInv, TypeOK
  <2>2. session[e].sent \in Nat
    BY DEF IInv, TypeOK, Store
  <2>3. session'[e].at = session[e].at /\ session[e].sent =< session'[e].sent
    BY <2>1, <2>2
  <2>4. \A t \in TextId' : Sender(t)' = e =>
           \/ t \in TextId
           \/ texts'[t].group = session'[e].at /\ texts'[t].gen < session'[e].sent
    BY <2>1
  <2> QED BY <2>3, <2>4, StaysFresh DEF CopiesSound
<1> QED BY <1>3, <1>4, KeysStayDifferent DEF CopiesSound

LEMMA CommitKeepsCopies ==
  ASSUME IInv, IInv', CommitsSound', [Next]_vars, CopiesSound, NEW d \in Devices, InRoom(d),
         NEW tree, NEW added, NEW removed, CommitAsMember(d, tree, added, removed)
  PROVE  CopiesSound'
<1>1. /\ session' = [session EXCEPT ![d] = Advance(session[d], NewId)]
      /\ before' = [before EXCEPT ![d] = session[d]]
      /\ texts' = texts
      /\ MakeState(d, session[d].at, FALSE, tree, added, removed)
  BY DEF CommitAsMember, blobs
<1>2. Fresh(d)'
  BY CommitKeepsFresh DEF CopiesSound
<1>3. session[d].at \in StateId /\ session[d].at # NoRoom /\ session[d] \in Store
  BY HolderFacts DEF InRoom, Stores, IInv, TypeOK
<1>4. LineIn(states', session[d])
  BY LineGrows, NextKeepsRows DEF IInv, StoresSound, Stores, CopiesSound, Remembers
<1>5. states'[NewId].epoch = Epoch(session[d].at) + 1
  BY <1>1, <1>3, MadeRow
<1>6. states'[session[d].at].epoch = Epoch(session[d].at) /\ Epoch(session[d].at) \in Nat
  BY <1>3, StepKeeps, EpochType DEF Epoch
<1>7. /\ LineIn(states', Advance(session[d], NewId))
      /\ Advance(session[d], NewId).seen \subseteq session[d].seen
  BY <1>3, <1>4, <1>5, <1>6, LineAdvances
<1> QED BY <1>1, <1>2, <1>7, CopiesMove

LEMMA ComingInKeepsCopies ==
  ASSUME IInv, IInv', CommitsSound', [Next]_vars, CopiesSound, NEW d \in Devices,
         CreateRoom(d) \/ \E info : JoinExternally(d, info)
  PROVE  CopiesSound'
<1>1. /\ session' = [session EXCEPT ![d] = StartAt(session[d], NewId)]
      /\ UNCHANGED <<before, texts>>
  BY DEF CreateRoom, JoinExternally, blobs
<1>2. PICK parent, external, tree :
        (external = TRUE \/ parent = NoRoom) /\ MakeState(d, parent, external, tree, {}, {})
  BY DEF CreateRoom, JoinExternally
<1>3. Fresh(d)'
  BY <1>1, <1>2, ComingInKeepsFresh DEF CopiesSound
<1>4. LineIn(states', StartAt(session[d], NewId)) /\ StartAt(session[d], NewId).seen = {}
  BY LineStarts
<1> QED BY <1>1, <1>3, <1>4, CopiesMove

LEMMA JoinKeepsCopies ==
  ASSUME IInv, IInv', CommitsSound, [Next]_vars, KeysSound, CopiesSound, NEW d \in Devices,
         NEW g \in StateId, Join(d, g)
  PROVE  CopiesSound'
<1>1. Fresh(d)'
  BY JoinKeepsFresh DEF CopiesSound
<1>2. PICK spent : session' = [session EXCEPT ![d] = StartAt(spent, g)]
  BY DEF Join
<1>3. UNCHANGED <<before, texts>>
  BY DEF Join, blobs
<1>4. LineIn(states', StartAt(spent, g)) /\ StartAt(spent, g).seen = {}
  BY LineStarts
<1> QED BY <1>1, <1>2, <1>3, <1>4, CopiesMove

LEMMA LeadingKeepsCopies ==
  ASSUME IInv, IInv', CommitsSound, [Next]_vars, CopiesSound, NEW d \in Devices,
         NEW g \in StateId, ReceiveCommit(d, g) \/ TieBreak(d, g)
  PROVE  CopiesSound'
<1>1. PICK s \in {session[d], before[d]} :
        /\ session' = [session EXCEPT ![d] = Merge(s, g, d)]
        /\ s.at # NoRoom /\ Parent(g) = s.at
        /\ UNCHANGED <<states, before, texts>>
  BY DEF ReceiveCommit, InRoom, TieBreak, Yields, blobs
<1>2. Fresh(d)'
  BY ReceivingKeepsFresh, TieBreakKeepsFresh DEF CopiesSound
<1>3. s \in Store /\ s.at \in StateId /\ LineIn(states, s)
  BY <1>1, HolderFacts DEF Stores, IInv, TypeOK, CopiesSound, Remembers
<1>4. LineIn(states, Merge(s, g, d)) /\ Merge(s, g, d).seen \subseteq s.seen
  BY <1>1, <1>3, LineMerges
<1> QED BY <1>1, <1>2, <1>4, CopiesMove

LEMMA KeyPackageKeepsCopies ==
  ASSUME IInv, IInv', [Next]_vars, CopiesSound, NEW d \in Devices, KeyPackage(d)
  PROVE  CopiesSound'
<1> DEFINE s == [session[d] EXCEPT !.packages = @ \cup {<<d, published[d] + 1>>}]
<1>1. session' = [session EXCEPT ![d] = s] /\ UNCHANGED <<states, before, texts>>
  BY DEF KeyPackage
<1>2. session[d] \in Store
  BY DEF IInv, TypeOK
<1>3. /\ s.at = session[d].at /\ s.past = session[d].past /\ s.entry = session[d].entry
      /\ s.sent = session[d].sent /\ s.sent \in Nat /\ s.seen = session[d].seen
  BY <1>2 DEF Store
<1> HIDE DEF s
<1>4. TextId' = TextId
  BY <1>1 DEF TextId
<1>5. /\ session[d].sent =< s.sent
      /\ \A x \in s.seen : x \in session[d].seen \/ Read(d, x)'
  BY <1>3
<1> QED BY <1>1, <1>3, <1>4, <1>5, CopiesInPlace

LEMMA SendKeepsCopies ==
  ASSUME IInv, IInv', [Next]_vars, CopiesSound, NEW d \in Devices, Send(d)
  PROVE  CopiesSound'
<1> DEFINE s == [session[d] EXCEPT !.sent = @ + 1]
           g == session[d].at
           text == [group |-> g, gen |-> session[d].sent, leaf |-> LeafOf(g, d)]
<1>1. /\ session' = [session EXCEPT ![d] = s] /\ UNCHANGED <<states, before>>
      /\ texts' = Append(texts, text) /\ InRoom(d)
  BY DEF Send
<1>2. session[d] \in Store
  BY DEF IInv, TypeOK
<1>3. /\ s.at = g /\ s.past = session[d].past /\ s.entry = session[d].entry
      /\ s.sent = session[d].sent + 1 /\ session[d].sent \in Nat /\ s.seen = session[d].seen
  BY <1>2 DEF Store
<1>4. text.group = g /\ text.gen = session[d].sent /\ text.leaf = LeafOf(g, d)
  OBVIOUS
<1> HIDE DEF s, text
<1>5. ASSUME NEW t \in TextId', t \notin TextId PROVE texts'[t] = text
  <2>1. PICK T : texts \in Seq(T)
    BY DEF IInv, TypeOK
  <2>2. texts \in Seq(T \cup {text}) /\ text \in T \cup {text}
    BY <2>1
  <2>3. Len(texts) \in Nat /\ Len(texts') = Len(texts) + 1 /\ texts'[Len(texts) + 1] = text
    BY <1>1, <2>2, AppendProperties, LenProperties
  <2> QED BY <1>5, <2>3 DEF TextId
<1>6. Tree(g)[LeafOf(g, d)] = d
  <2>1. d \in Members(g)
    BY <1>1, HolderFacts DEF InRoom, Stores
  <2> QED BY <2>1 DEF LeafOf, Members, Range
<1>7. \A t \in TextId' : \/ t \in TextId
                         \/ /\ Sender(t)' = d
                            /\ texts'[t].group = s.at /\ texts'[t].gen < s.sent
  <2>1. \A h, l : Tree(h)'[l] = Tree(h)[l]
    BY <1>1 DEF Tree
  <2>2. ASSUME NEW t \in TextId', t \notin TextId
        PROVE  Sender(t)' = d /\ texts'[t].group = s.at /\ texts'[t].gen < s.sent
    <3>1. Sender(t)' = Tree(texts'[t].group)[texts'[t].leaf]
      BY <2>1, <1>1 DEF Sender, Tree
    <3> QED BY <1>3, <1>4, <1>5, <1>6, <2>2, <3>1
  <2> QED BY <2>2
<1>8. /\ session[d].sent =< s.sent
      /\ \A x \in s.seen : x \in session[d].seen \/ Read(d, x)'
  BY <1>3
<1> QED BY <1>1, <1>3, <1>7, <1>8, CopiesInPlace

LEMMA ReceiveTextKeepsCopies ==
  ASSUME IInv, IInv', [Next]_vars, CopiesSound, NEW d \in Devices, NEW t \in TextId,
         ReceiveText(d, t)
  PROVE  CopiesSound'
<1> DEFINE verdict == Verdict(session[d], t)
           u == [session[d] EXCEPT !.seen = @ \cup {Key(t)}]
           s == IF verdict = "read" THEN u ELSE session[d]
<1>1. /\ reports' = reports \cup {<<d, t, verdict>>}
      /\ session' = IF verdict = "read" THEN [session EXCEPT ![d] = u] ELSE session
      /\ UNCHANGED <<states, before, texts>>
  BY DEF ReceiveText, blobs
<1>2. session[d] \in Store
  BY DEF IInv, TypeOK
<1>3. /\ u.at = session[d].at /\ u.past = session[d].past /\ u.entry = session[d].entry
      /\ u.sent = session[d].sent /\ u.sent \in Nat
      /\ u.seen = session[d].seen \cup {Key(t)}
  BY <1>2 DEF Store
<1> HIDE DEF verdict, u
<1>4. session' = [session EXCEPT ![d] = s]
  BY <1>1 DEF IInv, TypeOK
<1>5. TextId' = TextId
  BY <1>1 DEF TextId
<1>6. \A x \in s.seen : x \in session[d].seen \/ Read(d, x)'
  <2>1. CASE verdict = "read"
    <3>1. PICK k : k = Key(t) /\ Key(t)' = k
      BY SenderStays
    <3>2. Read(d, k)'
      BY <1>1, <1>5, <2>1, <3>1 DEF Read
    <3> QED BY <1>3, <2>1, <3>1, <3>2
  <2>2. CASE verdict # "read"
    BY <2>2
  <2> QED BY <2>1, <2>2
<1>7. /\ s.at = session[d].at /\ s.past = session[d].past /\ s.entry = session[d].entry
      /\ session[d].sent =< s.sent
  BY <1>2, <1>3 DEF Store
<1> HIDE DEF s
<1> QED BY <1>1, <1>4, <1>5, <1>6, <1>7, CopiesInPlace

\* What changes no session and says nothing.
LEMMA QuietKeepsCopies ==
  ASSUME IInv, IInv', [Next]_vars, CopiesSound, UNCHANGED <<states, session, before, texts>>
  PROVE  CopiesSound'
<1>1. ASSUME NEW d \in Devices PROVE CopiesSound'
  <2>1. PICK s : s = session[d]
    OBVIOUS
  <2>2. session' = [session EXCEPT ![d] = s] /\ s.sent \in Nat
    BY <2>1 DEF IInv, TypeOK, Store
  <2>3. TextId' = TextId
    BY DEF TextId
  <2>4. /\ session[d].sent =< s.sent
        /\ \A x \in s.seen : x \in session[d].seen \/ Read(d, x)'
    BY <2>1, <2>2
  <2> QED BY <2>1, <2>2, <2>3, <2>4, CopiesInPlace
<1>2. CASE Devices = {}
  BY <1>2, KeysStayDifferent DEF CopiesSound
<1> QED BY <1>1, <1>2

\* As long as nothing is put back that was written down earlier.
LEMMA CopiesStaySound ==
  ASSUME IInv, IInv', CommitsSound, CommitsSound', [Next]_vars,
         restarts = 0 => KeysSound /\ CopiesSound
  PROVE  restarts' = 0 => CopiesSound'
<1> SUFFICES ASSUME restarts' = 0 PROVE CopiesSound'
  OBVIOUS
<1>1. restarts \in Nat
  BY RoomAssumption DEF IInv, TypeOK
<1>2. ASSUME NEW d \in Devices, Restore(d) \/ NewFromSeed(d) PROVE FALSE
  BY <1>1, <1>2 DEF Restore, NewFromSeed
<1>3. restarts = 0
  BY <1>2 DEF Next, vars, logs, CreateRoom, KeyPackage, AddMembers, RemoveMember,
       CommitAsMember, Send, ReceiveText, Join, ReceiveCommit, TieBreak, RoomInfo, Rejoin,
       RejoinFromBackup, JoinExternally, Backup, Export
<1>4. KeysSound /\ CopiesSound
  BY <1>3
<1>5. ASSUME NEW d \in Devices, NEW packages, AddMembers(d, packages) PROVE CopiesSound'
  BY <1>4, <1>5, CommitKeepsCopies DEF AddMembers
<1>6. ASSUME NEW d \in Devices, NEW identity, RemoveMember(d, identity) PROVE CopiesSound'
  BY <1>4, <1>6, CommitKeepsCopies DEF RemoveMember
<1>7. ASSUME NEW d \in Devices, NEW info, Rejoin(d, info) \/ RejoinFromBackup(d, info)
      PROVE  CopiesSound'
  BY <1>4, <1>7, ComingInKeepsCopies DEF Rejoin, RejoinFromBackup
<1>8. ASSUME NEW d \in Devices, CreateRoom(d) PROVE CopiesSound'
  BY <1>4, <1>8, ComingInKeepsCopies
<1>9. ASSUME NEW d \in Devices, RoomInfo(d) \/ Backup(d) \/ Export(d) PROVE CopiesSound'
  BY <1>4, <1>9, QuietKeepsCopies DEF RoomInfo, Backup, Export, blobs, logs
<1>10. CASE UNCHANGED vars
  BY <1>4, <1>10, QuietKeepsCopies DEF vars
<1> QED BY <1>2, <1>4, <1>5, <1>6, <1>7, <1>8, <1>9, <1>10, KeyPackageKeepsCopies,
           SendKeepsCopies, ReceiveTextKeepsCopies, JoinKeepsCopies, LeadingKeepsCopies
        DEF Next


\* A state the device has been through since it came in, no more than MaxPast
\* commits ago, is one whose secrets it retains.
LEMMA WalkedIsRetained ==
  ASSUME IInv, CommitsSound, NEW d \in Devices, NEW s \in Stores(d), s.at # NoRoom,
         LineIn(states, s), NEW g \in Ancestry(s.at), g >= s.entry,
         Epoch(s.at) - Epoch(g) =< MaxPast
  PROVE  g \in Retained(s)
<1> DEFINE Far(x) == Epoch(s.at) - Epoch(x) > MaxPast
           line == {x \in StateId : x \in Retained(s) \/ x < s.entry \/ Far(x)}
<1>1. /\ s \in Store /\ s.past \in Seq(Nat) /\ Len(s.past) \in Nat /\ MaxPast \in Nat
      /\ s.entry \in Nat
  <2>1. s \in Store
    BY HolderFacts DEF SoundIn
  <2> QED BY <2>1, RoomAssumption, LenProperties DEF Store
<1>2. s.at \in line
  BY HolderFacts DEF Retained
<1>3. \A x \in StateId : Epoch(x) \in Nat
  BY EpochType
<1>4. s.at \in StateId
  BY <1>2
<1>5. ASSUME NEW x \in line, Parent(x) # NoRoom
      PROVE  Parent(x) \in line
  <2>1. /\ Parent(x) \in StateId /\ Parent(x) < x /\ x \in Nat
        /\ Epoch(x) = Epoch(Parent(x)) + 1
    BY <1>5 DEF IInv, RowsSound, FollowsItsParent, CommitsSound, CommitSound, Parent, StateId
  <2>2. /\ Parent(x) \in Nat /\ Epoch(x) \in Nat /\ Epoch(Parent(x)) \in Nat
        /\ Epoch(s.at) \in Nat
    BY <1>3, <1>4, <2>1 DEF StateId
  <2>3. CASE x < s.entry
    BY <1>1, <2>1, <2>2, <2>3
  <2>4. CASE Far(x)
    <3>1. Far(Parent(x))
      BY <1>1, <2>1, <2>2, <2>4
    <3> QED BY <2>1, <3>1
  <2>5. CASE x = s.at
    <3>1. CASE Len(s.past) = 0
      <4>1. CASE MaxPast = 0
        <5>1. Far(Parent(x))
          BY <2>1, <2>2, <2>5, <4>1
        <5> QED BY <2>1, <5>1
      <4>2. CASE MaxPast # 0
        <5>1. s.past = <<>> /\ Len(s.past) < MaxPast
          BY <1>1, <3>1, <4>2, EmptySeq
        <5>2. s.entry = x
          BY <2>5, <5>1 DEF LineIn
        <5> QED BY <2>1, <5>2
      <4> QED BY <4>1, <4>2
    <3>2. CASE Len(s.past) # 0
      <4>1. 1 \in 1 .. Len(s.past)
        BY <1>1, <3>2
      <4>2. s.past[1] = Parent(x)
        BY <2>5, <4>1, HolderFacts DEF SoundIn, Parent
      <4>3. Parent(x) \in Retained(s)
        BY <1>1, <4>1, <4>2 DEF Retained, Range
      <4> QED BY <2>1, <4>3
    <3> QED BY <3>1, <3>2
  <2>6. CASE x \in Range(s.past)
    <3>1. PICK i \in 1 .. Len(s.past) : s.past[i] = x
      BY <1>1, <2>6 DEF Range
    <3>2. CASE i < Len(s.past)
      <4>1. PICK j \in 1 .. Len(s.past) : j = i + 1 /\ j # 1 /\ j - 1 = i
        BY <1>1, <3>1, <3>2
      <4>2. s.past[j] = states[IF j = 1 THEN s.at ELSE s.past[j - 1]].parent
        BY HolderFacts DEF SoundIn
      <4>3. s.past[j] = Parent(x)
        BY <3>1, <4>1, <4>2 DEF Parent
      <4>4. Parent(x) \in Retained(s)
        BY <1>1, <4>3 DEF Retained, Range
      <4> QED BY <2>1, <4>4
    <3>3. CASE i = Len(s.past) /\ Len(s.past) < MaxPast
      <4>1. s.past # <<>>
        BY <1>1, <3>1, <3>3, EmptySeq
      <4>2. s.entry = x
        BY <3>1, <3>3, <4>1 DEF LineIn
      <4> QED BY <2>1, <4>2
    <3>4. CASE i = Len(s.past) /\ Len(s.past) = MaxPast
      <4>1. Epoch(x) = Epoch(s.at) - MaxPast
        BY <3>1, <3>4 DEF LineIn, Epoch
      <4>2. Far(Parent(x))
        BY <1>1, <2>1, <2>2, <4>1
      <4> QED BY <2>1, <4>2
    <3> QED BY <1>1, <3>1, <3>2, <3>3, <3>4 DEF LineIn
  <2> QED BY <2>3, <2>4, <2>5, <2>6 DEF Retained
<1>6. g \in line
  <2>1. line \in SUBSET StateId
    OBVIOUS
  <2>2. s.at \in line /\ \A x \in line : Parent(x) \in line \cup {NoRoom}
    BY <1>2, <1>5
  <2> HIDE DEF line
  <2> QED BY <2>1, <2>2 DEF Ancestry
<1> QED BY <1>1, <1>3, <1>4, <1>6 DEF StateId

\* FirstCopyOpens, which excludes devices put back to an earlier blob, where a
\* sender uses a key twice: whatever the interleaving of commits, lost races,
\* evictions and rejoins, a text that merely crossed them opens the first time
\* it arrives (mod.rs 57-69, 106-127, 370-379).
THEOREM FirstCopiesOpen == Spec => []FirstCopyOpens
<1>1. Init => KeysSound /\ CopiesSound
  <2> SUFFICES ASSUME Init PROVE KeysSound /\ CopiesSound
    OBVIOUS
  <2>1. \A d \in Devices : session[d].packages = {} /\ before[d].packages = {}
    BY DEF Init, EmptyStore, StartAt
  <2>2. KeysSound
    BY <2>1 DEF Init, KeysSound, DeviceUnspent, Unspent, HandedOut, PackageOpensOnce
  <2>3. TextId = {}
    BY EmptySeq DEF Init, TextId
  <2>4. \A d \in Devices : session[d] = EmptyStore /\ before[d] = EmptyStore
    BY DEF Init
  <2>5. LineIn(states, EmptyStore) /\ EmptyStore.seen = {} /\ EmptyStore.at = NoRoom
    BY LineStarts DEF EmptyStore, StartAt, LineIn
  <2>6. \A d \in Devices : Fresh(d)
    BY <2>3, <2>4, <2>5 DEF Fresh, MayYield, HoldsItsCommit, InRoom
  <2> QED BY <2>2, <2>3, <2>4, <2>5, <2>6 DEF CopiesSound, KeysDiffer, Remembers
<1>2. IInv /\ IInv' /\ CommitsSound /\ CommitsSound' /\ [Next]_vars
        /\ (restarts = 0 => KeysSound /\ CopiesSound)
          => (restarts = 0 => KeysSound /\ CopiesSound)'
  BY KeysStaySound, CopiesStaySound
<1>3. IInv /\ CommitsSound /\ (restarts = 0 => KeysSound /\ CopiesSound)
        => FirstCopyOpens
  <2> SUFFICES ASSUME IInv, CommitsSound, restarts = 0, CopiesSound PROVE FirstCopyOpens
    BY DEF FirstCopyOpens
  <2> SUFFICES ASSUME NEW d \in Devices, NEW t \in TextId,
                      InRoom(d), texts[t].group \in Ancestry(session[d].at),
                      texts[t].group >= session[d].entry,
                      Epoch(session[d].at) - Epoch(texts[t].group) =< MaxPast,
                      ~TooOld(session[d], t)
               PROVE  Verdict(session[d], t) = "read" \/ <<d, t, "read">> \in reports
    BY DEF FirstCopyOpens
  <2>1. texts[t].group \in Retained(session[d])
    BY WalkedIsRetained DEF InRoom, Stores, CopiesSound, Remembers
  <2>2. CASE Key(t) \notin session[d].seen
    BY <2>1, <2>2 DEF Verdict
  <2>3. CASE Key(t) \in session[d].seen
    <3>1. PICK u \in TextId : Key(u) = Key(t) /\ <<d, u, "read">> \in reports
      BY <2>3 DEF CopiesSound, Remembers, Read
    <3>2. u = t
      BY <3>1 DEF CopiesSound, KeysDiffer
    <3> QED BY <3>1, <3>2
  <2> QED BY <2>2, <2>3
<1> QED BY <1>1, <1>2, <1>3, Commits, PTL DEF Spec
=============================================================================
