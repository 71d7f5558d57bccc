----------------------------- MODULE VaultProofs -----------------------------
(***************************************************************************)
(* A vault opens whole or not at all, for every length of chunk, tag and   *)
(* contents, any number of vaults and any download.                        *)
(***************************************************************************)
EXTENDS Vault, SequenceTheorems, TLAPS

Unit == [seal : Nat, at : Nat]

TypeOK ==
  /\ seals \in Seq([seed : Seeds, size : Sizes])
  /\ download \in Seq(Unit)
  /\ \A i \in 1 .. Len(download) : download[i] = Magic \/ download[i].seal \in 1 .. Len(seals)
  /\ at \in Nat \ {0}

(***************************************************************************)
(* Chunks and pieces.                                                      *)
(***************************************************************************)
\* Division that rounds up.
LEMMA RoundedUp ==
  ASSUME NEW len \in Nat, NEW s \in Nat \ {0}
  PROVE  LET c == (len + s - 1) \div s
         IN  c \in Nat /\ len =< c * s /\ c * s < len + s
<1> DEFINE n == len + s - 1
           c == n \div s
           r == n % s
<1>1. n \in Nat
  OBVIOUS
<1>2. c \in Nat /\ r \in 0 .. s - 1 /\ n = c * s + r
  BY <1>1
<1>3. c * s \in Nat
  BY <1>2
<1> HIDE DEF c, r
<1>4. len =< c * s /\ c * s < len + s
  BY <1>2, <1>3
<1> QED BY <1>2, <1>4 DEF c

\* The product with the length of a sealed chunk, in its two parts.
LEMMA Times ==
  ASSUME NEW c \in Nat
  PROVE  /\ c * SealedChunk = c * ChunkLen + c * TagLen
         /\ c * ChunkLen \in Nat /\ c * TagLen \in Nat
         /\ (c + 1) * ChunkLen = c * ChunkLen + ChunkLen
         /\ (c + 1) * TagLen = c * TagLen + TagLen
BY VaultAssumption DEF SealedChunk

\* What is sealed in c chunks fills all but the last of them.
LEMMA FilesChunks ==
  ASSUME NEW size \in Nat
  PROVE  LET c == ChunksOf(size)
         IN  /\ c \in Nat \ {0} /\ BodyLen(size) \in Nat
             /\ (c - 1) * SealedChunk < BodyLen(size)
             /\ BodyLen(size) =< c * SealedChunk
<1> DEFINE c == ChunksOf(size)
<1>1. c \in Nat \ {0} /\ size =< c * ChunkLen /\ (c - 1) * ChunkLen =< size
  <2>1. CASE size = 0
    BY <2>1, VaultAssumption DEF ChunksOf
  <2>2. CASE size # 0
    <3>1. c \in Nat /\ size =< c * ChunkLen /\ c * ChunkLen < size + ChunkLen
      BY <2>2, VaultAssumption, RoundedUp DEF ChunksOf
    <3> HIDE DEF c
    <3>2. c # 0
      BY <2>2, <3>1, VaultAssumption
    <3>3. (c - 1) * ChunkLen = c * ChunkLen - ChunkLen
      BY <3>1, <3>2, VaultAssumption
    <3> QED BY <3>1, <3>2, <3>3, VaultAssumption
  <2> QED BY <2>1, <2>2
<1>2. BodyLen(size) = size + c * TagLen
  BY DEF BodyLen
<1> HIDE DEF c
<1> DEFINE b == c - 1
<1>3. b \in Nat /\ c = b + 1
  BY <1>1
<1> HIDE DEF b
<1>4. /\ b * SealedChunk = b * ChunkLen + b * TagLen
      /\ b * ChunkLen \in Nat /\ b * TagLen \in Nat
      /\ c * SealedChunk = c * ChunkLen + c * TagLen
      /\ c * TagLen = b * TagLen + TagLen /\ c * TagLen \in Nat /\ c * ChunkLen \in Nat
  BY <1>1, <1>3, Times
<1>5. c - 1 = b
  BY <1>3
<1>6. BodyLen(size) \in Nat /\ b * SealedChunk < BodyLen(size) /\ BodyLen(size) =< c * SealedChunk
  BY <1>1, <1>2, <1>4, <1>5, VaultAssumption
<1> QED BY <1>1, <1>5, <1>6 DEF c

LEMMA PieceIsOfUnits ==
  ASSUME NEW body \in Seq(Unit), NEW i \in Nat
  PROVE  Piece(body, i) \in Seq(Unit)
<1> DEFINE from == i * SealedChunk + 1
           upto == IF Len(body) < (i + 1) * SealedChunk THEN Len(body) ELSE (i + 1) * SealedChunk
<1>1. SealedChunk \in Nat \ {0} /\ Len(body) \in Nat
  BY VaultAssumption, LenProperties DEF SealedChunk
<1>2. from \in Nat \ {0} /\ upto \in Nat /\ upto =< Len(body)
  <2>1. i * SealedChunk \in Nat /\ (i + 1) * SealedChunk \in Nat
    BY <1>1
  <2> QED BY <1>1, <2>1
<1>3. Piece(body, i) = SubSeq(body, from, upto)
  BY DEF Piece
<1> HIDE DEF from, upto
<1>4. \A k \in from .. upto : body[k] \in Unit
  BY <1>1, <1>2, ElementOfSeq
<1> QED BY <1>2, <1>3, <1>4, SubSeqProperties

\* A piece that begins within the body.
LEMMA PieceParts ==
  ASSUME NEW body \in Seq(Unit), NEW i \in Nat, i * SealedChunk < Len(body)
  PROVE  LET from == i * SealedChunk
             upto == IF Len(body) < from + SealedChunk THEN Len(body) ELSE from + SealedChunk
         IN  /\ Len(Piece(body, i)) = upto - from
             /\ \A k \in 1 .. upto - from : Piece(body, i)[k] = body[from + k]
<1> DEFINE from == i * SealedChunk
           upto == IF Len(body) < from + SealedChunk THEN Len(body) ELSE from + SealedChunk
<1>1. from \in Nat /\ SealedChunk \in Nat \ {0} /\ (i + 1) * SealedChunk = from + SealedChunk
  BY VaultAssumption DEF SealedChunk
<1>2. Len(body) \in Nat
  BY LenProperties
<1>3. Piece(body, i) = SubSeq(body, from + 1, upto)
  BY <1>1 DEF Piece
<1>4. from < Len(body)
  OBVIOUS
<1> HIDE DEF from
<1>5. upto \in Nat /\ from + 1 =< upto /\ upto =< Len(body)
  BY <1>1, <1>2, <1>4
<1> HIDE DEF upto
<1>6. \A k \in from + 1 .. upto : body[k] \in Unit
  BY <1>1, <1>2, <1>5, ElementOfSeq
<1>7. /\ Len(SubSeq(body, from + 1, upto)) = upto - (from + 1) + 1
      /\ \A k \in 1 .. upto - (from + 1) + 1 :
           SubSeq(body, from + 1, upto)[k] = body[from + 1 + k - 1]
  <2> DEFINE first == from + 1
             part == SubSeq(body, first, upto)
  <2>1. first \in Int /\ upto \in Int /\ first =< upto /\ \A k \in first .. upto : body[k] \in Unit
    BY <1>1, <1>5, <1>6
  <2> HIDE DEF first
  <2>2. /\ Len(part) = IF first =< upto THEN upto - first + 1 ELSE 0
        /\ \A k \in 1 .. upto - first + 1 : part[k] = body[first + k - 1]
    BY <2>1, SubSeqProperties
  <2> HIDE DEF part
  <2>3. /\ Len(part) = upto - first + 1
        /\ \A k \in 1 .. upto - first + 1 : part[k] = body[first + k - 1]
    BY <2>1, <2>2
  <2> QED BY <2>3 DEF part, first
<1>8. upto - (from + 1) + 1 = upto - from /\ \A k \in 1 .. upto - from : from + 1 + k - 1 = from + k
  BY <1>1, <1>5
<1>9. /\ Len(Piece(body, i)) = upto - from
      /\ \A k \in 1 .. upto - from : Piece(body, i)[k] = body[from + k]
  BY <1>3, <1>7, <1>8
<1> QED BY <1>9 DEF from, upto

\* Every place is in a chunk.
LEMMA Placed ==
  ASSUME NEW c \in Nat, NEW j \in Nat \ {0}, j =< c * SealedChunk
  PROVE  \E i \in 0 .. c - 1, k \in 0 .. SealedChunk - 1 : j = i * SealedChunk + (k + 1)
<1> DEFINE i == (j - 1) \div SealedChunk
           k == (j - 1) % SealedChunk
<1>1. SealedChunk \in Nat \ {0} /\ j - 1 \in Nat
  BY VaultAssumption DEF SealedChunk
<1>2. i \in Nat /\ k \in 0 .. SealedChunk - 1 /\ j - 1 = i * SealedChunk + k
  BY <1>1
<1> HIDE DEF i, k
<1>3. i =< c - 1
  <2> SUFFICES ASSUME i >= c PROVE FALSE
    BY <1>2
  <2>1. PICK d \in Nat : i = c + d
    <3>1. i - c \in Nat /\ i = c + (i - c)
      BY <1>2
    <3> QED BY <3>1
  <2>2. /\ i * SealedChunk = c * SealedChunk + d * SealedChunk
        /\ d * SealedChunk \in Nat /\ c * SealedChunk \in Nat
    BY <1>1, <2>1
  <2> QED BY <1>1, <1>2, <2>2
<1>4. j = i * SealedChunk + (k + 1)
  <2>1. i * SealedChunk \in Nat
    BY <1>1, <1>2
  <2> QED BY <1>2, <2>1
<1> QED BY <1>2, <1>3, <1>4

\* Where the pieces are the same the units are.
LEMMA SameUnits ==
  ASSUME NEW body \in Seq(Unit), NEW other \in Seq(Unit), NEW c \in Nat,
         Len(body) =< c * SealedChunk, Len(body) =< Len(other),
         \A i \in 0 .. c - 1 : Piece(body, i) = Piece(other, i),
         NEW j \in 1 .. Len(body)
  PROVE  body[j] = other[j]
<1>1. SealedChunk \in Nat \ {0} /\ Len(body) \in Nat /\ Len(other) \in Nat
  BY VaultAssumption, LenProperties DEF SealedChunk
<1>2. c * SealedChunk \in Nat
  BY <1>1
<1>3. PICK i \in 0 .. c - 1, k \in 0 .. SealedChunk - 1 : j = i * SealedChunk + (k + 1)
  <2>1. j \in Nat \ {0} /\ j =< c * SealedChunk
    BY <1>1, <1>2
  <2> QED BY <2>1, Placed
<1> DEFINE from == i * SealedChunk
           upto == IF Len(body) < from + SealedChunk THEN Len(body) ELSE from + SealedChunk
           upto2 == IF Len(other) < from + SealedChunk THEN Len(other) ELSE from + SealedChunk
<1>4. i \in Nat /\ from \in Nat /\ from < Len(body) /\ from < Len(other)
  <2>1. i \in Nat /\ from \in Nat
    BY <1>1
  <2> QED BY <1>1, <1>3, <2>1
<1>5. \A m \in 1 .. upto - from : Piece(body, i)[m] = body[from + m]
  BY <1>4, PieceParts
<1>6. \A m \in 1 .. upto2 - from : Piece(other, i)[m] = other[from + m]
  BY <1>4, PieceParts
<1>7. j = from + (k + 1)
  BY <1>3
<1> HIDE DEF from
<1>8. k + 1 \in 1 .. upto - from /\ k + 1 \in 1 .. upto2 - from
  BY <1>1, <1>4, <1>7
<1> HIDE DEF upto, upto2
<1>9. Piece(body, i)[k + 1] = body[from + (k + 1)]
  BY <1>5, <1>8
<1>10. Piece(other, i)[k + 1] = other[from + (k + 1)]
  BY <1>6, <1>8
<1> QED BY <1>7, <1>9, <1>10

\* Two bodies of as many chunks with the same pieces are the same.
LEMMA SamePieces ==
  ASSUME NEW body \in Seq(Unit), NEW other \in Seq(Unit), NEW c \in Nat \ {0},
         (c - 1) * SealedChunk < Len(body), Len(body) =< c * SealedChunk,
         (c - 1) * SealedChunk < Len(other), Len(other) =< c * SealedChunk,
         \A i \in 0 .. c - 1 : Piece(body, i) = Piece(other, i)
  PROVE  body = other
<1> DEFINE b == c - 1
           last == b * SealedChunk
<1>1. b \in Nat /\ c = b + 1
  OBVIOUS
<1>2. /\ SealedChunk \in Nat \ {0} /\ last \in Nat /\ c * SealedChunk = last + SealedChunk
      /\ Len(body) \in Nat /\ Len(other) \in Nat
  <2>1. SealedChunk \in Nat \ {0}
    BY VaultAssumption DEF SealedChunk
  <2> HIDE DEF b
  <2> QED BY <1>1, <2>1, LenProperties
<1>3. Len(body) = Len(other)
  <2>1. last < Len(body) /\ Len(body) =< last + SealedChunk
        /\ last < Len(other) /\ Len(other) =< last + SealedChunk
    BY <1>2
  <2>2. Len(Piece(body, b))
          = (IF Len(body) < last + SealedChunk THEN Len(body) ELSE last + SealedChunk) - last
    BY <1>1, <2>1, PieceParts
  <2>3. Len(Piece(other, b))
          = (IF Len(other) < last + SealedChunk THEN Len(other) ELSE last + SealedChunk) - last
    BY <1>1, <2>1, PieceParts
  <2>4. Piece(body, b) = Piece(other, b)
    BY <1>1
  <2> HIDE DEF last, b
  <2> QED BY <1>2, <2>1, <2>2, <2>3, <2>4
<1>4. ASSUME NEW j \in 1 .. Len(body) PROVE body[j] = other[j]
  <2>1. Len(body) =< Len(other)
    BY <1>2, <1>3
  <2> QED BY <2>1, SameUnits
<1> QED BY <1>3, <1>4, SeqEqual

\* A body that begins another, and is of whole chunks, has its pieces.
LEMMA WholePieces ==
  ASSUME NEW body \in Seq(Unit), NEW other \in Seq(Unit), NEW c \in Nat,
         Len(body) = c * SealedChunk, Len(body) =< Len(other),
         \A j \in 1 .. Len(body) : body[j] = other[j],
         NEW i \in 0 .. c - 1
  PROVE  Piece(body, i) = Piece(other, i)
<1> DEFINE from == i * SealedChunk
           upto == IF Len(body) < from + SealedChunk THEN Len(body) ELSE from + SealedChunk
           upto2 == IF Len(other) < from + SealedChunk THEN Len(other) ELSE from + SealedChunk
<1>1. SealedChunk \in Nat \ {0} /\ Len(body) \in Nat /\ Len(other) \in Nat
  BY VaultAssumption, LenProperties DEF SealedChunk
<1>2. i \in Nat /\ from \in Nat /\ from + SealedChunk =< Len(body)
  <2>1. PICK d \in Nat : c = (i + 1) + d
    <3>1. c - (i + 1) \in Nat /\ c = (i + 1) + (c - (i + 1))
      OBVIOUS
    <3> QED BY <3>1
  <2>2. c * SealedChunk = i * SealedChunk + SealedChunk + d * SealedChunk
        /\ d * SealedChunk \in Nat /\ i * SealedChunk \in Nat
    BY <1>1, <2>1
  <2> QED BY <1>1, <2>2
<1>3. /\ Len(Piece(body, i)) = upto - from
      /\ \A m \in 1 .. upto - from : Piece(body, i)[m] = body[from + m]
  <2>1. from < Len(body)
    BY <1>1, <1>2
  <2> QED BY <1>2, <2>1, PieceParts
<1>4. /\ Len(Piece(other, i)) = upto2 - from
      /\ \A m \in 1 .. upto2 - from : Piece(other, i)[m] = other[from + m]
  <2>1. from < Len(other)
    BY <1>1, <1>2
  <2> QED BY <1>2, <2>1, PieceParts
<1> HIDE DEF from
<1>5. upto - from = SealedChunk /\ upto2 - from = SealedChunk
  BY <1>1, <1>2
<1> HIDE DEF upto, upto2
<1>6. \A m \in 1 .. SealedChunk : Piece(body, i)[m] = Piece(other, i)[m]
  <2> SUFFICES ASSUME NEW m \in 1 .. SealedChunk
               PROVE  Piece(body, i)[m] = Piece(other, i)[m]
    OBVIOUS
  <2>1. from + m \in 1 .. Len(body)
    BY <1>1, <1>2
  <2> QED BY <1>3, <1>4, <1>5, <2>1
<1>7. Piece(body, i) \in Seq(Unit) /\ Piece(other, i) \in Seq(Unit)
  BY <1>2, PieceIsOfUnits
<1> QED BY <1>3, <1>4, <1>5, <1>6, <1>7, SeqEqual

(***************************************************************************)
(* Files.                                                                  *)
(***************************************************************************)
LEMMA SealTypes ==
  ASSUME TypeOK, NEW n \in 1 .. Len(seals)
  PROVE  seals[n].size \in Nat /\ n \in Nat
<1>1. seals \in Seq([seed : Seeds, size : Sizes])
  BY DEF TypeOK
<1>2. seals[n] \in [seed : Seeds, size : Sizes] /\ Len(seals) \in Nat
  BY <1>1, ElementOfSeq, LenProperties
<1>3. Sizes \subseteq Nat
  BY VaultAssumption
<1>4. seals[n].size \in Sizes
  BY <1>2
<1>5. n \in Nat
  BY <1>2
<1>6. seals[n].size \in Nat
  BY <1>3, <1>4, Zenon
<1> QED BY <1>5, <1>6

LEMMA FileParts ==
  ASSUME TypeOK, NEW n \in 1 .. Len(seals)
  PROVE  /\ File(n) \in Seq(Unit) /\ Len(File(n)) = BodyLen(seals[n].size) + 2
         /\ File(n)[1] = Magic
         /\ \A i \in 2 .. BodyLen(seals[n].size) + 2 : File(n)[i] = [seal |-> n, at |-> i - 1]
<1> DEFINE len == BodyLen(seals[n].size) + 2
<1>1. len \in Nat /\ len >= 2 /\ n \in Nat
  <2> DEFINE size == seals[n].size
  <2>1. size \in Nat /\ n \in Nat
    BY SealTypes
  <2> HIDE DEF size
  <2>2. BodyLen(size) \in Nat
    BY <2>1, FilesChunks
  <2> QED BY <2>1, <2>2 DEF size
<1> HIDE DEF len
<1>2. File(n) = [i \in 1 .. len |-> IF i = 1 THEN Magic ELSE [seal |-> n, at |-> i - 1]]
  BY DEF File, len
<1>3. File(n) \in [1 .. len -> Unit]
  <2>1. Magic \in Unit
    BY DEF Magic, Unit
  <2>2. \A i \in 1 .. len : [seal |-> n, at |-> i - 1] \in Unit
    BY <1>1 DEF Unit
  <2> QED BY <1>2, <2>1, <2>2
<1>4. File(n) \in Seq(Unit) /\ Len(File(n)) = len
  BY <1>1, <1>3
<1> QED BY <1>1, <1>2, <1>4 DEF len

LEMMA BodyParts ==
  ASSUME NEW file \in Seq(Unit), Len(file) >= 2
  PROVE  /\ Body(file) \in Seq(Unit) /\ Len(Body(file)) = Len(file) - 2
         /\ \A i \in 1 .. Len(file) - 2 : Body(file)[i] = file[i + 2]
<1>1. Len(file) \in Nat /\ Len(file) >= 2
  BY LenProperties
<1>2. \A i \in 3 .. Len(file) : file[i] \in Unit
  BY <1>1, ElementOfSeq
<1>3. /\ SubSeq(file, 3, Len(file)) \in Seq(Unit)
      /\ Len(SubSeq(file, 3, Len(file))) = IF 3 <= Len(file) THEN Len(file) - 3 + 1 ELSE 0
      /\ \A i \in 1 .. Len(file) - 3 + 1 : SubSeq(file, 3, Len(file))[i] = file[3 + i - 1]
  BY <1>1, <1>2, SubSeqProperties
<1>4. Len(file) - 3 + 1 = Len(file) - 2 /\ \A i \in Nat : 3 + i - 1 = i + 2
  BY <1>1
<1> QED BY <1>1, <1>3, <1>4 DEF Body

LEMMA TypeCorrect == Spec => []TypeOK
<1>1. Init => TypeOK
  <2> SUFFICES ASSUME Init PROVE TypeOK
    OBVIOUS
  <2> QED BY EmptySeq DEF Init, TypeOK
<1>2. ASSUME TypeOK, [Next]_vars PROVE TypeOK'
  <2>1. ASSUME NEW s \in Seeds, NEW size \in Sizes, SealVault(s, size) PROVE TypeOK'
    <3> DEFINE x == [seed |-> s, size |-> size]
    <3>1. x \in [seed : Seeds, size : Sizes] /\ seals' = Append(seals, x)
      BY <2>1 DEF SealVault
    <3> HIDE DEF x
    <3>2. seals' \in Seq([seed : Seeds, size : Sizes]) /\ Len(seals') = Len(seals) + 1
      BY <1>2, <3>1, AppendProperties DEF TypeOK
    <3>3. Len(seals) \in Nat
      BY <1>2, LenProperties DEF TypeOK
    <3> QED BY <1>2, <2>1, <3>2, <3>3 DEF SealVault, TypeOK
  <2>2. CASE Fetch
    <3> DEFINE n == Len(seals)
    <3>1. n \in 1 .. Len(seals)
      BY <1>2, <2>2, EmptySeq, LenProperties DEF TypeOK, Fetch
    <3> HIDE DEF n
    <3>2. at \in 1 .. BodyLen(seals[n].size) + 2
      <4> DEFINE len == BodyLen(seals[n].size)
      <4>1. at <= Len(File(n)) /\ at \in Nat \ {0}
        BY <1>2, <2>2 DEF Fetch, TypeOK, n
      <4>2. Len(File(n)) = len + 2
        BY <1>2, <3>1, FileParts
      <4>3. Len(File(n)) \in Nat
        BY <1>2, <3>1, FileParts, LenProperties
      <4> HIDE DEF len
      <4> QED BY <4>1, <4>2, <4>3 DEF len
    <3>3. File(n)[at] \in Unit /\ (File(n)[at] = Magic \/ File(n)[at].seal = n)
      <4>1. at = 1 \/ at \in 2 .. BodyLen(seals[n].size) + 2
        BY <3>2
      <4>2. File(n)[at] = Magic \/ File(n)[at] = [seal |-> n, at |-> at - 1]
        BY <1>2, <3>1, <4>1, FileParts
      <4>3. n \in Nat /\ at - 1 \in Nat
        BY <1>2, <3>1, SealTypes DEF TypeOK
      <4> QED BY <4>2, <4>3 DEF Unit, Magic
    <3>4. download' = Append(download, File(n)[at]) /\ seals' = seals /\ at' = at + 1
      BY <2>2 DEF Fetch, n
    <3> DEFINE u == File(n)[at]
    <3> HIDE DEF u
    <3>5. /\ download' \in Seq(Unit) /\ Len(download') = Len(download) + 1
          /\ \A i \in 1 .. Len(download) : download'[i] = download[i]
          /\ download'[Len(download) + 1] = u
      BY <1>2, <3>3, <3>4, AppendProperties DEF TypeOK, u
    <3>6. Len(download) \in Nat
      BY <1>2, LenProperties DEF TypeOK
    <3>7. \A i \in 1 .. Len(download') :
            download'[i] = Magic \/ download'[i].seal \in 1 .. Len(seals')
      BY <1>2, <3>1, <3>3, <3>4, <3>5, <3>6 DEF TypeOK, u
    <3> QED BY <1>2, <3>4, <3>5, <3>7 DEF TypeOK
  <2>3. ASSUME NEW n \in 1 .. Len(seals), NEW i \in 1 .. Len(File(n)), Skip(i) PROVE TypeOK'
    <3>1. Len(File(n)) \in Nat
      BY <1>2, FileParts, LenProperties
    <3> QED BY <1>2, <2>3, <3>1 DEF Skip, TypeOK
  <2>4. CASE UNCHANGED vars
    BY <1>2, <2>4 DEF vars, TypeOK
  <2> QED BY <1>2, <2>1, <2>2, <2>3, <2>4 DEF Next
<1> QED BY <1>1, <1>2, PTL DEF Spec

(***************************************************************************)
(* Opening.                                                                *)
(***************************************************************************)
\* The pieces of a body: as many as it begins.
LEMMA PiecesCount ==
  ASSUME NEW body \in Seq(Unit), Pieces(body) # 0
  PROVE  /\ Pieces(body) \in Nat \ {0}
         /\ (Pieces(body) - 1) * SealedChunk < Len(body)
         /\ Len(body) =< Pieces(body) * SealedChunk
<1> DEFINE c == Pieces(body)
<1>1. SealedChunk \in Nat \ {0} /\ Len(body) \in Nat
  BY VaultAssumption, LenProperties DEF SealedChunk
<1>2. c \in Nat /\ Len(body) =< c * SealedChunk /\ c * SealedChunk < Len(body) + SealedChunk
  BY <1>1, RoundedUp DEF Pieces
<1> HIDE DEF c
<1>3. c # 0
  BY DEF c
<1>4. (c - 1) * SealedChunk = c * SealedChunk - SealedChunk /\ c * SealedChunk \in Nat
  BY <1>1, <1>2
<1> QED BY <1>1, <1>2, <1>3, <1>4 DEF c

LEMMA OpenedPieces ==
  ASSUME NEW body, NEW n, OpenBody(body, n) = "opened"
  PROVE  LET count == Pieces(body)
         IN  /\ count # 0
             /\ {i \in 0 .. count - 1 : ~Authentic(Piece(body, i), n, i, i = count - 1)} = {}
<1> DEFINE count == Pieces(body)
           refused == {i \in 0 .. count - 1 : ~Authentic(Piece(body, i), n, i, i = count - 1)}
           isMiddle == Authentic(Piece(body, count - 1), n, count - 1, FALSE)
<1>1. OpenBody(body, n)
        = CASE count = 0 -> "truncated"
            [] count > 0 /\ refused = {} -> "opened"
            [] refused = {count - 1} /\ isMiddle -> "truncated"
            [] OTHER -> "damaged"
  BY DEF OpenBody
<1> HIDE DEF count, refused, isMiddle
<1>2. count # 0 /\ refused = {}
  BY <1>1
<1> QED BY <1>2 DEF count, refused

\* What has been read, if anything, is one unit or more.
LEMMA Read ==
  ASSUME TypeOK, download # << >>
  PROVE  download \in Seq(Unit) /\ Len(download) \in Nat /\ (Len(download) = 1 \/ Len(download) >= 2)
<1>1. download \in Seq(Unit)
  BY DEF TypeOK
<1> DEFINE len == Len(download)
<1>2. len \in Nat /\ len # 0
  BY <1>1, EmptySeq
<1> HIDE DEF len
<1>3. len = 1 \/ len >= 2
  BY <1>2
<1> QED BY <1>1, <1>2, <1>3 DEF len

LEMMA OpenedIsWhole ==
  ASSUME TypeOK, NEW s, OpenVault(download, s) = "opened"
  PROVE  /\ seals[download[2].seal].seed = s
         /\ download = File(download[2].seal)
<1> DEFINE n == download[2].seal
           body == Body(download)
           count == Pieces(body)
           file == File(n)
<1>1. /\ download # << >> /\ download[1] = Magic /\ Len(download) # 1 /\ download[2].at = 1
      /\ seals[n].seed = s /\ OpenBody(body, n) = "opened"
  BY DEF OpenVault
<1>2. download \in Seq(Unit) /\ Len(download) \in Nat /\ Len(download) >= 2
  BY <1>1, Read
<1>3. n \in 1 .. Len(seals) /\ download[2] \in Unit
  <2>1. 2 \in 1 .. Len(download)
    BY <1>2
  <2>2. download[2] \in Unit
    BY <1>2, <2>1, ElementOfSeq
  <2>3. download[2] # Magic
    BY <1>1 DEF Magic
  <2> QED BY <2>1, <2>2, <2>3 DEF TypeOK
<1>4. download[2] = [seal |-> n, at |-> 1]
  BY <1>1, <1>3 DEF Unit
<1>5. body \in Seq(Unit) /\ Len(body) = Len(download) - 2
      /\ \A i \in 1 .. Len(download) - 2 : body[i] = download[i + 2]
  BY <1>2, BodyParts
<1> HIDE DEF n, body
<1>6. /\ file \in Seq(Unit) /\ Len(file) = BodyLen(seals[n].size) + 2 /\ file[1] = Magic
      /\ \A i \in 2 .. BodyLen(seals[n].size) + 2 : file[i] = [seal |-> n, at |-> i - 1]
  BY <1>3, FileParts
<1> DEFINE chunks == ChunksOf(seals[n].size)
           len == BodyLen(seals[n].size)
<1>7. /\ chunks \in Nat \ {0} /\ len \in Nat
      /\ (chunks - 1) * SealedChunk < len /\ len =< chunks * SealedChunk
  BY <1>3, SealTypes, FilesChunks
<1> HIDE DEF file, len
<1>8. Len(file) >= 2 /\ Len(file) = len + 2
  BY <1>6, <1>7 DEF len
<1> DEFINE other == Body(file)
<1>9. other \in Seq(Unit) /\ Len(other) = len
      /\ \A i \in 1 .. Len(file) - 2 : other[i] = file[i + 2]
  <2>1. /\ other \in Seq(Unit) /\ Len(other) = Len(file) - 2
        /\ \A i \in 1 .. Len(file) - 2 : other[i] = file[i + 2]
    BY <1>6, <1>8, BodyParts
  <2> QED BY <1>7, <1>8, <2>1
<1> DEFINE refused == {i \in 0 .. count - 1 : ~Authentic(Piece(body, i), n, i, i = count - 1)}
<1>10. count # 0 /\ refused = {}
  BY <1>1, OpenedPieces
<1>11. /\ count \in Nat \ {0}
       /\ (count - 1) * SealedChunk < Len(body) /\ Len(body) =< count * SealedChunk
  BY <1>5, <1>10, PiecesCount
<1> HIDE DEF count
<1>12. ASSUME NEW i \in 0 .. count - 1
       PROVE  /\ (i = count - 1) = (i = chunks - 1)
              /\ Piece(body, i) = Piece(other, i)
  BY <1>10 DEF Authentic, file
<1>13. count = chunks
  <2>1. count - 1 \in 0 .. count - 1
    BY <1>11
  <2>2. count - 1 = chunks - 1
    BY <1>12, <2>1
  <2> QED BY <1>7, <1>11, <2>2
<1> HIDE DEF other, chunks
<1>14. body = other
  BY <1>5, <1>7, <1>9, <1>11, <1>12, <1>13, SamePieces
<1>15. Len(download) = Len(file)
  BY <1>2, <1>5, <1>7, <1>8, <1>9, <1>14
<1>16. ASSUME NEW i \in 1 .. Len(download) PROVE download[i] = file[i]
  <2>1. CASE i = 1
    BY <1>1, <1>6, <2>1
  <2>2. CASE i = 2
    <3>1. 2 \in 2 .. len + 2 /\ 2 - 1 = 1
      BY <1>7
    <3> QED BY <1>4, <1>6, <2>2, <3>1 DEF len
  <2>3. CASE i # 1 /\ i # 2
    <3>1. i - 2 \in 1 .. Len(download) - 2 /\ (i - 2) + 2 = i
      BY <1>2, <2>3
    <3> QED BY <1>5, <1>9, <1>14, <1>15, <3>1
  <2> QED BY <2>1, <2>2, <2>3
<1>17. download = file
  BY <1>2, <1>6, <1>15, <1>16, SeqEqual
<1> QED BY <1>1, <1>17 DEF n, file

\* WholeOrNothing, for every length of chunk, tag and contents, any number of
\* vaults that replace one another, and any download (open_vault).
THEOREM OpensWholeOrNot == Spec => []WholeOrNothing
<1>1. TypeOK => WholeOrNothing
  BY OpenedIsWhole DEF WholeOrNothing
<1> QED BY <1>1, TypeCorrect, PTL

(***************************************************************************)
(* Going on.                                                               *)
(***************************************************************************)
LEMMA Fewer ==
  ASSUME NEW c \in Nat, NEW d \in Nat, NEW s \in Nat \ {0}, c * s < (d + 1) * s
  PROVE  c =< d
<1> SUFFICES ASSUME c > d PROVE FALSE
  OBVIOUS
<1>1. PICK e \in Nat : c = d + 1 + e
  <2>1. c - (d + 1) \in Nat /\ c = d + 1 + (c - (d + 1))
    OBVIOUS
  <2> QED BY <2>1
<1>2. c * s = (d + 1) * s + e * s /\ e * s \in Nat /\ (d + 1) * s \in Nat
  BY <1>1
<1> QED BY <1>2

LEMMA PiecesOfWhole ==
  ASSUME NEW body \in Seq(Unit), NEW c \in Nat, Len(body) = c * SealedChunk
  PROVE  Pieces(body) = c
<1> DEFINE p == Pieces(body)
<1>1. SealedChunk \in Nat \ {0} /\ Len(body) \in Nat
  BY VaultAssumption, LenProperties DEF SealedChunk
<1>2. p \in Nat /\ c * SealedChunk =< p * SealedChunk /\ p * SealedChunk < c * SealedChunk + SealedChunk
  BY <1>1, RoundedUp DEF Pieces
<1> HIDE DEF p
<1>3. /\ (c + 1) * SealedChunk = c * SealedChunk + SealedChunk
      /\ (p + 1) * SealedChunk = p * SealedChunk + SealedChunk
      /\ p * SealedChunk \in Nat /\ c * SealedChunk \in Nat
  BY <1>1, <1>2
<1>4. p * SealedChunk < (c + 1) * SealedChunk /\ c * SealedChunk < (p + 1) * SealedChunk
  BY <1>1, <1>2, <1>3
<1>5. p =< c
  BY <1>1, <1>2, <1>4, Fewer
<1>6. c =< p
  BY <1>1, <1>2, <1>4, Fewer
<1> QED BY <1>2, <1>5, <1>6 DEF p

\* When the loop says "truncated", in terms of pieces.
LEMMA TruncatedPieces ==
  ASSUME NEW body, NEW n
  PROVE  LET count == Pieces(body)
             refused == {i \in 0 .. count - 1 : ~Authentic(Piece(body, i), n, i, i = count - 1)}
         IN  (OpenBody(body, n) = "truncated")
               <=> \/ count = 0
                   \/ /\ refused = {count - 1} /\ ~(count > 0 /\ refused = {})
                      /\ Authentic(Piece(body, count - 1), n, count - 1, FALSE)
<1> DEFINE count == Pieces(body)
           refused == {i \in 0 .. count - 1 : ~Authentic(Piece(body, i), n, i, i = count - 1)}
           isMiddle == Authentic(Piece(body, count - 1), n, count - 1, FALSE)
<1>1. OpenBody(body, n)
        = CASE count = 0 -> "truncated"
            [] count > 0 /\ refused = {} -> "opened"
            [] refused = {count - 1} /\ isMiddle -> "truncated"
            [] OTHER -> "damaged"
  BY DEF OpenBody
<1> HIDE DEF count, refused, isMiddle
<1>2. (OpenBody(body, n) = "truncated")
        <=> (count = 0 \/ (refused = {count - 1} /\ ~(count > 0 /\ refused = {}) /\ isMiddle))
  BY <1>1
<1> QED BY <1>2 DEF count, refused, isMiddle

\* "Truncated" of a body: it is the beginning of the file's, in whole chunks.
LEMMA TruncatedBody ==
  ASSUME TypeOK, NEW n \in 1 .. Len(seals), NEW body \in Seq(Unit)
  PROVE  LET other == Body(File(n))
         IN  (OpenBody(body, n) = "truncated")
               <=> /\ Len(body) = Pieces(body) * SealedChunk /\ Len(body) < Len(other)
                   /\ \A j \in 1 .. Len(body) : body[j] = other[j]
<1> DEFINE other == Body(File(n))
           count == Pieces(body)
           chunks == ChunksOf(seals[n].size)
           refused == {i \in 0 .. count - 1 : ~Authentic(Piece(body, i), n, i, i = count - 1)}
           isMiddle == Authentic(Piece(body, count - 1), n, count - 1, FALSE)
           whole == /\ Len(body) = count * SealedChunk /\ Len(body) < Len(other)
                    /\ \A j \in 1 .. Len(body) : body[j] = other[j]
<1>1. SealedChunk \in Nat \ {0} /\ Len(body) \in Nat
  BY VaultAssumption, LenProperties DEF SealedChunk
<1>2. /\ chunks \in Nat \ {0} /\ other \in Seq(Unit) /\ Len(other) \in Nat
      /\ (chunks - 1) * SealedChunk < Len(other) /\ Len(other) =< chunks * SealedChunk
  <2> DEFINE size == seals[n].size
  <2>1. size \in Nat
    BY SealTypes
  <2>2. File(n) \in Seq(Unit) /\ Len(File(n)) = BodyLen(size) + 2
    BY FileParts
  <2> HIDE DEF size
  <2>3. /\ ChunksOf(size) \in Nat \ {0} /\ BodyLen(size) \in Nat
        /\ (ChunksOf(size) - 1) * SealedChunk < BodyLen(size)
        /\ BodyLen(size) =< ChunksOf(size) * SealedChunk
    BY <2>1, FilesChunks
  <2>4. Len(File(n)) >= 2
    BY <2>2, <2>3
  <2>5. other \in Seq(Unit) /\ Len(other) = Len(File(n)) - 2
    BY <2>2, <2>4, BodyParts
  <2>6. Len(other) = BodyLen(size)
    BY <2>2, <2>3, <2>5
  <2> HIDE DEF other
  <2> QED BY <2>3, <2>5, <2>6 DEF size
<1>3. /\ \A i : Authentic(Piece(body, i), n, i, i = count - 1)
               <=> /\ i < chunks /\ Piece(body, i) = Piece(other, i)
                   /\ (i = count - 1) <=> (i = chunks - 1)
      /\ \A i : Authentic(Piece(body, i), n, i, FALSE)
               <=> i < chunks /\ i # chunks - 1 /\ Piece(body, i) = Piece(other, i)
  BY DEF Authentic
<1>4. (OpenBody(body, n) = "truncated")
        <=> (count = 0 \/ (refused = {count - 1} /\ ~(count > 0 /\ refused = {}) /\ isMiddle))
  BY TruncatedPieces
<1>5. count \in Nat /\ Len(body) =< count * SealedChunk
      /\ count * SealedChunk < Len(body) + SealedChunk
  BY <1>1, RoundedUp DEF Pieces
<1> HIDE DEF other, chunks, count
<1>6. CASE count = 0
  <2>1. Len(body) = 0 /\ Len(body) = count * SealedChunk
    BY <1>1, <1>5, <1>6
  <2>2. (chunks - 1) * SealedChunk \in Nat
    BY <1>1, <1>2
  <2>3. whole
    BY <1>2, <2>1, <2>2
  <2> QED BY <1>4, <1>6, <2>3 DEF count, other
<1>7. ASSUME count # 0, refused = {count - 1}, isMiddle PROVE whole
  <2>1. ASSUME NEW i \in 0 .. count - 1 PROVE Piece(body, i) = Piece(other, i)
    <3>1. CASE i = count - 1
      BY <1>3, <1>7, <3>1
    <3>2. CASE i # count - 1
      <4>1. Authentic(Piece(body, i), n, i, i = count - 1)
        BY <1>7, <3>2
      <4> QED BY <1>3, <4>1
    <3> QED BY <3>1, <3>2
  <2> DEFINE b == count - 1
             from == b * SealedChunk
  <2>2. b \in Nat /\ b < chunks /\ b # chunks - 1 /\ count = b + 1
    <3>1. count - 1 < chunks /\ count - 1 # chunks - 1
      BY <1>3, <1>7
    <3> QED BY <1>2, <1>5, <1>7, <3>1
  <2>3. b + 1 =< chunks - 1
    BY <1>2, <2>2
  <2> HIDE DEF b
  <2>4. /\ count * SealedChunk = from + SealedChunk /\ from \in Nat
        /\ from + SealedChunk =< (chunks - 1) * SealedChunk
    <3>1. PICK d \in Nat : chunks - 1 = (b + 1) + d
      <4>1. (chunks - 1) - (b + 1) \in Nat /\ chunks - 1 = (b + 1) + ((chunks - 1) - (b + 1))
        BY <1>2, <2>2, <2>3
      <4> QED BY <4>1
    <3>2. /\ (chunks - 1) * SealedChunk = b * SealedChunk + SealedChunk + d * SealedChunk
          /\ d * SealedChunk \in Nat /\ b * SealedChunk \in Nat
      BY <1>1, <2>2, <3>1
    <3>3. count * SealedChunk = b * SealedChunk + SealedChunk
      BY <1>1, <2>2
    <3> QED BY <1>1, <3>2, <3>3
  <2>5. from + SealedChunk < Len(other)
    <3>1. (chunks - 1) * SealedChunk \in Nat
      BY <1>1, <1>2
    <3> QED BY <1>1, <1>2, <2>4, <3>1
  <2>6. from < Len(body) /\ from < Len(other)
    BY <1>1, <1>2, <1>5, <2>4, <2>5
  <2>7. Len(Piece(body, b))
          = (IF Len(body) < from + SealedChunk THEN Len(body) ELSE from + SealedChunk) - from
    BY <2>2, <2>6, PieceParts
  <2>8. Len(Piece(other, b))
          = (IF Len(other) < from + SealedChunk THEN Len(other) ELSE from + SealedChunk) - from
    BY <1>2, <2>2, <2>6, PieceParts
  <2>9. Piece(body, b) = Piece(other, b)
    BY <2>1, <2>2
  <2> HIDE DEF from
  <2>10. Len(body) = count * SealedChunk /\ Len(body) < Len(other)
    BY <1>1, <1>2, <1>5, <2>4, <2>5, <2>7, <2>8, <2>9
  <2>11. \A j \in 1 .. Len(body) : body[j] = other[j]
    <3> SUFFICES ASSUME NEW j \in 1 .. Len(body) PROVE body[j] = other[j]
      OBVIOUS
    <3>1. Len(body) =< count * SealedChunk /\ Len(body) =< Len(other)
      BY <1>1, <1>2, <1>5, <2>10
    <3> QED BY <1>2, <1>5, <2>1, <3>1, SameUnits
  <2> QED BY <2>10, <2>11
<1>8. ASSUME count # 0, whole PROVE refused = {count - 1} /\ isMiddle
  <2>1. Len(body) =< Len(other)
    BY <1>1, <1>2, <1>8
  <2>2. \A i \in 0 .. count - 1 : Piece(body, i) = Piece(other, i)
    BY <1>2, <1>5, <1>8, <2>1, WholePieces
  <2>3. count =< chunks - 1
    <3> DEFINE d == chunks - 1
    <3>1. d \in Nat /\ chunks = d + 1
      BY <1>2
    <3> HIDE DEF d
    <3>2. count * SealedChunk < (d + 1) * SealedChunk
      <4>1. (d + 1) * SealedChunk \in Nat /\ count * SealedChunk \in Nat
        BY <1>1, <1>5, <3>1
      <4> QED BY <1>2, <1>8, <3>1, <4>1
    <3>3. count =< d
      BY <1>1, <1>5, <3>1, <3>2, Fewer
    <3> QED BY <3>3 DEF d
  <2>4. count - 1 \in 0 .. count - 1
    BY <1>5, <1>8
  <2>5. /\ count - 1 < chunks /\ count - 1 # chunks - 1
        /\ \A i \in 0 .. count - 1 : i # count - 1 => i < chunks /\ i # chunks - 1
    BY <1>2, <1>5, <2>3
  <2>6. isMiddle
    BY <1>3, <2>2, <2>4, <2>5
  <2>7. ~Authentic(Piece(body, count - 1), n, count - 1, count - 1 = count - 1)
    BY <1>3, <2>5
  <2>8. ASSUME NEW i \in 0 .. count - 1, i # count - 1
        PROVE  Authentic(Piece(body, i), n, i, i = count - 1)
    BY <1>3, <2>2, <2>5, <2>8
  <2> QED BY <2>4, <2>6, <2>7, <2>8
<1> HIDE DEF refused, isMiddle, whole
<1>9. CASE count # 0
  <2>1. refused = {count - 1} => refused # {}
    OBVIOUS
  <2>2. (OpenBody(body, n) = "truncated") <=> whole
    BY <1>4, <1>7, <1>8, <1>9, <2>1
  <2> QED BY <2>2 DEF whole, count, other
<1> QED BY <1>6, <1>9

\* Whole chunks, by the remainder.
LEMMA Remainder ==
  ASSUME NEW len \in Nat, NEW s \in Nat \ {0}
  PROVE  (len % s = 0) <=> (\E c \in Nat : len = c * s)
<1> DEFINE q == len \div s
           r == len % s
<1>1. q \in Nat /\ r \in 0 .. s - 1 /\ len = q * s + r /\ q * s \in Nat
  <2>1. q \in Nat /\ r \in 0 .. s - 1 /\ len = q * s + r
    OBVIOUS
  <2> HIDE DEF q, r
  <2> QED BY <2>1
<1>2. ASSUME NEW c \in Nat, len = c * s PROVE r = 0
  <2> HIDE DEF q, r
  <2>1. /\ (q + 1) * s = q * s + s /\ (c + 1) * s = c * s + s /\ c * s \in Nat
    BY <1>1
  <2>2. c * s < (q + 1) * s /\ q * s < (c + 1) * s
    BY <1>1, <1>2, <2>1
  <2>3. c =< q /\ q =< c
    BY <1>1, <2>2, Fewer
  <2>4. c = q
    BY <1>1, <2>3
  <2> QED BY <1>1, <1>2, <2>4
<1>3. ASSUME r = 0 PROVE len = q * s
  <2> HIDE DEF q, r
  <2> QED BY <1>1, <1>3
<1> QED BY <1>1, <1>2, <1>3

\* A download that begins as a file does, and its body.
LEMMA Beginning ==
  ASSUME TypeOK, NEW n \in 1 .. Len(seals),
         Len(download) >= 2, download[1] = Magic, download[2] = Header(n)
  PROVE  LET body == Body(download)
             other == Body(File(n))
         IN  /\ body \in Seq(Unit) /\ Len(body) = Len(download) - 2 /\ Len(body) \in Nat
             /\ (Prefix(download, File(n)) /\ download # File(n))
                  <=> Len(body) < Len(other) /\ \A j \in 1 .. Len(body) : body[j] = other[j]
<1> DEFINE file == File(n)
           body == Body(download)
           other == Body(file)
           len == BodyLen(seals[n].size)
<1>1. download \in Seq(Unit) /\ Len(download) \in Nat /\ Len(download) >= 2
  BY LenProperties DEF TypeOK
<1>2. len \in Nat
  <2> DEFINE size == seals[n].size
  <2>1. size \in Nat
    BY SealTypes
  <2> HIDE DEF size
  <2>2. BodyLen(size) \in Nat
    BY <2>1, FilesChunks
  <2> QED BY <2>2 DEF size
<1>3. /\ file \in Seq(Unit) /\ Len(file) = len + 2 /\ file[1] = Magic
      /\ \A i \in 2 .. len + 2 : file[i] = [seal |-> n, at |-> i - 1]
  BY FileParts
<1> HIDE DEF file, len
<1>4. file[1] = download[1] /\ file[2] = download[2]
  <2>1. 2 \in 2 .. len + 2 /\ 2 - 1 = 1
    BY <1>2
  <2> QED BY <1>3, <2>1 DEF Header
<1>5. Len(file) >= 2
  BY <1>2, <1>3
<1>6. /\ body \in Seq(Unit) /\ Len(body) = Len(download) - 2 /\ Len(body) \in Nat
      /\ \A i \in 1 .. Len(download) - 2 : body[i] = download[i + 2]
  <2>1. /\ body \in Seq(Unit) /\ Len(body) = Len(download) - 2
        /\ \A i \in 1 .. Len(download) - 2 : body[i] = download[i + 2]
    BY <1>1, BodyParts
  <2> QED BY <1>1, <2>1
<1>7. /\ Len(other) = len /\ \A i \in 1 .. len : other[i] = file[i + 2]
  <2>1. /\ other \in Seq(Unit) /\ Len(other) = Len(file) - 2
        /\ \A i \in 1 .. Len(file) - 2 : other[i] = file[i + 2]
    BY <1>3, <1>5, BodyParts
  <2> QED BY <1>2, <1>3, <2>1
<1> DEFINE cut == SubSeq(file, 1, Len(download))
<1>8. ASSUME Len(download) =< Len(file)
      PROVE  /\ cut \in Seq(Unit) /\ Len(cut) = Len(download)
             /\ \A i \in 1 .. Len(download) : cut[i] = file[i]
  <2> DEFINE k == Len(download)
  <2>1. k \in Nat \ {0} /\ k =< Len(file) /\ Len(file) \in Nat
    BY <1>1, <1>2, <1>3, <1>8
  <2> HIDE DEF k
  <2>2. \A i \in 1 .. k : file[i] \in Unit
    BY <1>3, <2>1, ElementOfSeq
  <2>3. /\ SubSeq(file, 1, k) \in Seq(Unit)
        /\ Len(SubSeq(file, 1, k)) = IF 1 <= k THEN k - 1 + 1 ELSE 0
        /\ \A i \in 1 .. k - 1 + 1 : SubSeq(file, 1, k)[i] = file[1 + i - 1]
    BY <2>1, <2>2, SubSeqProperties
  <2>4. k - 1 + 1 = k /\ \A i \in 1 .. k : 1 + i - 1 = i
    BY <2>1
  <2> QED BY <2>1, <2>3, <2>4 DEF k
<1> HIDE DEF body, other, cut
<1>9. ASSUME Prefix(download, file), download # file
      PROVE  Len(body) < Len(other) /\ \A j \in 1 .. Len(body) : body[j] = other[j]
  <2>1. Len(download) =< Len(file) /\ download = cut
    BY <1>9 DEF Prefix, cut
  <2>2. \A i \in 1 .. Len(download) : download[i] = file[i]
    BY <1>8, <2>1
  <2>3. Len(download) # Len(file)
    BY <1>1, <1>3, <1>9, <2>2, SeqEqual
  <2>4. Len(body) < Len(other)
    BY <1>1, <1>2, <1>3, <1>6, <1>7, <2>1, <2>3
  <2>5. ASSUME NEW j \in 1 .. Len(body) PROVE body[j] = other[j]
    <3>1. j + 2 \in 1 .. Len(download) /\ j \in 1 .. Len(download) - 2 /\ j \in 1 .. len
      BY <1>1, <1>2, <1>6, <1>7, <2>4
    <3> QED BY <1>6, <1>7, <2>2, <3>1
  <2> QED BY <2>4, <2>5
<1>10. ASSUME Len(body) < Len(other), \A j \in 1 .. Len(body) : body[j] = other[j]
       PROVE  Prefix(download, file) /\ download # file
  <2>1. Len(download) < Len(file)
    BY <1>1, <1>2, <1>3, <1>6, <1>7, <1>10
  <2>2. ASSUME NEW i \in 1 .. Len(download) PROVE download[i] = file[i]
    <3>1. CASE i = 1 \/ i = 2
      BY <1>4, <3>1
    <3>2. CASE i # 1 /\ i # 2
      <4> DEFINE j == i - 2
      <4>1. j \in 1 .. Len(body) /\ j \in 1 .. Len(download) - 2 /\ j \in 1 .. len /\ j + 2 = i
        BY <1>1, <1>2, <1>6, <1>7, <1>10, <3>2
      <4> HIDE DEF j
      <4> QED BY <1>6, <1>7, <1>10, <4>1
    <3> QED BY <3>1, <3>2
  <2>3. Len(download) =< Len(file)
    BY <1>1, <1>2, <1>3, <2>1
  <2>4. download = cut
    BY <1>1, <1>8, <2>2, <2>3, SeqEqual
  <2>5. download # file
    BY <1>1, <1>2, <1>3, <2>1
  <2> QED BY <2>3, <2>4, <2>5 DEF Prefix, cut
<1> QED BY <1>6, <1>9, <1>10 DEF body, other, file

\* A download of the magic alone is the beginning of every file.
LEMMA MagicBegins ==
  ASSUME TypeOK, NEW n \in 1 .. Len(seals), Len(download) = 1, download[1] = Magic
  PROVE  Prefix(download, File(n)) /\ download # File(n)
<1> DEFINE file == File(n)
           len == BodyLen(seals[n].size)
<1>1. download \in Seq(Unit)
  BY DEF TypeOK
<1>2. len \in Nat
  <2> DEFINE size == seals[n].size
  <2>1. size \in Nat
    BY SealTypes
  <2> HIDE DEF size
  <2>2. BodyLen(size) \in Nat
    BY <2>1, FilesChunks
  <2> QED BY <2>2 DEF size
<1>3. file \in Seq(Unit) /\ Len(file) = len + 2 /\ file[1] = Magic
  BY FileParts
<1> HIDE DEF file, len
<1>4. \A k \in 1 .. 1 : file[k] \in Unit
  BY <1>2, <1>3, ElementOfSeq
<1>5. /\ SubSeq(file, 1, 1) \in Seq(Unit) /\ Len(SubSeq(file, 1, 1)) = 1
      /\ SubSeq(file, 1, 1)[1] = Magic
  BY <1>3, <1>4, SubSeqProperties
<1>6. download = SubSeq(file, 1, 1)
  BY <1>1, <1>5, SeqEqual
<1>7. 1 <= Len(file) /\ Len(file) # 1
  BY <1>2, <1>3
<1>8. Prefix(download, file) /\ download # file
  BY <1>6, <1>7 DEF Prefix
<1> QED BY <1>8 DEF file

\* TruncatedMeansGoOn, for every length of chunk, tag and contents: what is
\* said to be truncated is the beginning of one vault, cut in its header or
\* between its chunks (open_vault).
THEOREM TruncatedGoesOn == Spec => []TruncatedMeansGoOn
<1>1. ASSUME TypeOK, NEW n \in 1 .. Len(seals),
             Len(download) >= 2, download[1] = Magic, download[2] = Header(n)
      PROVE  (OpenVault(download, seals[n].seed) = "truncated")
               <=> /\ Prefix(download, File(n)) /\ download # File(n)
                   /\ (Len(download) - 2) % SealedChunk = 0
  <2> DEFINE body == Body(download)
             other == Body(File(n))
             begins == Prefix(download, File(n)) /\ download # File(n)
             same == Len(body) < Len(other) /\ \A j \in 1 .. Len(body) : body[j] = other[j]
  <2>1. download[2].at = 1 /\ download[2].seal = n
    BY <1>1 DEF Header
  <2>2. OpenVault(download, seals[n].seed) = OpenBody(body, n)
    <3>1. download # << >> /\ Len(download) # 1
      BY <1>1
    <3> QED BY <1>1, <2>1, <3>1 DEF OpenVault
  <2>3. /\ body \in Seq(Unit) /\ Len(body) = Len(download) - 2 /\ Len(body) \in Nat
        /\ begins <=> same
    BY <1>1, Beginning
  <2>4. (OpenBody(body, n) = "truncated") <=> (Len(body) = Pieces(body) * SealedChunk /\ same)
    BY <1>1, <2>3, TruncatedBody
  <2> HIDE DEF body, other, begins, same
  <2>5. SealedChunk \in Nat \ {0}
    BY VaultAssumption DEF SealedChunk
  <2>6. (Len(body) = Pieces(body) * SealedChunk) <=> (Len(body) % SealedChunk = 0)
    <3>1. ASSUME Len(body) = Pieces(body) * SealedChunk
          PROVE  \E c \in Nat : Len(body) = c * SealedChunk
      <4>1. Pieces(body) \in Nat
        BY <2>3, <2>5, RoundedUp DEF Pieces
      <4> QED BY <3>1, <4>1
    <3>2. ASSUME NEW c \in Nat, Len(body) = c * SealedChunk
          PROVE  Len(body) = Pieces(body) * SealedChunk
      BY <2>3, <3>2, PiecesOfWhole
    <3> QED BY <2>3, <2>5, <3>1, <3>2, Remainder
  <2> QED BY <2>2, <2>3, <2>4, <2>6 DEF begins
<1>2. ASSUME TypeOK, NEW n \in 1 .. Len(seals), Len(download) = 1, download[1] = Magic
      PROVE  /\ OpenVault(download, seals[n].seed) = "truncated"
             /\ Prefix(download, File(n)) /\ download # File(n)
  <2>1. download # << >>
    BY <1>2
  <2>2. OpenVault(download, seals[n].seed) = "truncated"
    BY <1>2, <2>1 DEF OpenVault
  <2> QED BY <1>2, <2>2, MagicBegins
<1>3. ASSUME TypeOK, download # << >> PROVE Len(download) = 1 \/ Len(download) >= 2
  BY <1>3, Read
<1>4. ASSUME TypeOK, NEW n \in 1 .. Len(seals), download # << >>, download[1] = Magic,
             Len(download) > 1 => download[2] = Header(n)
      PROVE  OpenVault(download, seals[n].seed) = "truncated"
               <=> /\ Prefix(download, File(n)) /\ download # File(n)
                   /\ Len(download) = 1 \/ (Len(download) - 2) % SealedChunk = 0
  <2>1. CASE Len(download) = 1
    BY <1>2, <1>4, <2>1
  <2>2. CASE Len(download) >= 2
    <3>1. Len(download) > 1 /\ Len(download) # 1
      BY <2>2
    <3>2. (OpenVault(download, seals[n].seed) = "truncated")
            <=> /\ Prefix(download, File(n)) /\ download # File(n)
                /\ (Len(download) - 2) % SealedChunk = 0
      BY <1>1, <1>4, <2>2, <3>1
    <3> QED BY <3>1, <3>2
  <2> QED BY <1>3, <1>4, <2>1, <2>2
<1>5. TypeOK => TruncatedMeansGoOn
  BY <1>4 DEF TruncatedMeansGoOn
<1> QED BY <1>5, TypeCorrect, PTL
=============================================================================
