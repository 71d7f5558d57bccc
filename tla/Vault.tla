------------------------------- MODULE Vault --------------------------------
(***************************************************************************)
(* The vault file of src/recovery/vault.rs: a header, and the wallet's     *)
(* contents sealed chunk by chunk.  Here a chunk is ChunkLen units of      *)
(* contents and TagLen of tag; the magic is one unit, the same in every    *)
(* vault, and the header with its length another.  A header that nobody    *)
(* wrote, of another version or malformed in itself, is left out.          *)
(*                                                                         *)
(* Every seal_vault draws a key and a nonce prefix of its own, so a unit   *)
(* of a file is named by the seal it comes from and its place in it, and a *)
(* piece authenticates exactly where it was sealed.                        *)
(*                                                                         *)
(* A vault is rewritten "every time a credential arrives", in a cloud that *)
(* keeps the last one; whoever downloads it may see it change on the way,  *)
(* be cut off anywhere, or continue at a wrong place.                      *)
(***************************************************************************)
EXTENDS Integers, Sequences

CONSTANTS Seeds,
          ChunkLen,    \* CHUNK: 64 KiB
          TagLen,      \* TAG_LEN
          Sizes,       \* of the contents
          MaxSeals,    \* bound: vaults sealed
          MaxSkips     \* bound: times the download continues at a wrong place

ASSUME VaultAssumption ==
  /\ ChunkLen \in Nat \ {0} /\ TagLen \in Nat \ {0}
  /\ Sizes \subseteq Nat
  /\ MaxSeals \in Nat /\ MaxSkips \in Nat

VARIABLES seals,       \* each [seed, size]; the cloud holds the file of the last
          download,    \* what has been read of the vault
          at,          \* where the download goes on
          skips

vars == <<seals, download, at, skips>>

SealedChunk == ChunkLen + TagLen

\* How many chunks the loop of seal_vault writes; an empty vault has one.
ChunksOf(size) == IF size = 0 THEN 1 ELSE (size + ChunkLen - 1) \div ChunkLen

BodyLen(size) == size + ChunksOf(size) * TagLen

\* The file of seal n.
Magic == [seal |-> 0, at |-> 0]
Header(n) == [seal |-> n, at |-> 1]
File(n) ==
  [i \in 1 .. BodyLen(seals[n].size) + 2 |-> IF i = 1 THEN Magic ELSE [seal |-> n, at |-> i - 1]]

Body(file) == SubSeq(file, 3, Len(file))

\* The i-th piece of what is read as body, and how many there are.
Piece(body, i) ==
  SubSeq(body, i * SealedChunk + 1,
         IF Len(body) < (i + 1) * SealedChunk THEN Len(body) ELSE (i + 1) * SealedChunk)
Pieces(body) == (Len(body) + SealedChunk - 1) \div SealedChunk

\* Mutants of Authentic: the nonce has no flag; it has no counter.
AuthenticUnflagged(piece, n, i, last) ==
  i < ChunksOf(seals[n].size) /\ piece = Piece(Body(File(n)), i)
AuthenticUncounted(piece, n, i, last) ==
  \E j \in 0 .. ChunksOf(seals[n].size) - 1 :
    last = (j = ChunksOf(seals[n].size) - 1) /\ piece = Piece(Body(File(n)), j)

\* Does the piece decrypt as chunk i of seal n, and as the last one or not?
\* chunk_nonce holds the counter and the flag; key and AAD are the header's.
Authentic(piece, n, i, last) ==
  /\ i < ChunksOf(seals[n].size)
  /\ last = (i = ChunksOf(seals[n].size) - 1)
  /\ piece = Piece(Body(File(n)), i)

\* Mutant of OpenBody: a last piece that does not open is missing its rest.
OpenBodyHoping(body, n) ==
  LET count == Pieces(body)
      refused == {i \in 0 .. count - 1 : ~Authentic(Piece(body, i), n, i, i = count - 1)}
  IN  IF refused \subseteq {count - 1}
      THEN IF refused = {} /\ count > 0 THEN "opened" ELSE "truncated"
      ELSE "damaged"

\* The loop of open_vault: its verdict on the first piece that does not open.
OpenBody(body, n) ==
  LET count == Pieces(body)
      refused == {i \in 0 .. count - 1 : ~Authentic(Piece(body, i), n, i, i = count - 1)}
      isMiddle == Authentic(Piece(body, count - 1), n, count - 1, FALSE)
  IN  CASE count = 0 -> "truncated"
        [] count > 0 /\ refused = {} -> "opened"
        [] refused = {count - 1} /\ isMiddle -> "truncated"
        [] OTHER -> "damaged"

\* What is no header begins with some length and is, by that, cut short or
\* malformed.
OpenVault(file, seed) ==
  IF file = <<>> \/ file[1] # Magic THEN "not a vault"
  ELSE IF Len(file) = 1 THEN "truncated"
  ELSE IF file[2].at # 1 THEN "truncated or malformed"
  ELSE IF seals[file[2].seal].seed # seed THEN "another key"
  ELSE OpenBody(Body(file), file[2].seal)

Init == seals = <<>> /\ download = <<>> /\ at = 1 /\ skips = 0

SealVault(s, size) ==
  /\ Len(seals) < MaxSeals
  /\ seals' = Append(seals, [seed |-> s, size |-> size])
  /\ UNCHANGED <<download, at, skips>>

Fetch ==
  /\ seals # <<>>
  /\ LET file == File(Len(seals))
     IN  /\ at <= Len(file)
         /\ download' = Append(download, file[at])
  /\ at' = at + 1
  /\ UNCHANGED <<seals, skips>>

Skip(i) ==
  /\ seals # <<>> /\ skips < MaxSkips
  /\ at' = i /\ skips' = skips + 1
  /\ UNCHANGED <<seals, download>>

Next ==
  \/ \E s \in Seeds, size \in Sizes : SealVault(s, size)
  \/ Fetch
  \/ \E n \in 1 .. Len(seals) : \E i \in 1 .. Len(File(n)) : Skip(i)

Spec == Init /\ [][Next]_vars
-----------------------------------------------------------------------------
\* A vault opens whole or not at all: what opens is, to the last unit, one
\* file that was sealed under the seed that opens it, however the download was
\* cut, continued or overtaken by a newer vault (open_vault).
WholeOrNothing ==
  \A s \in Seeds :
    OpenVault(download, s) = "opened" =>
      /\ seals[download[2].seal].seed = s
      /\ download = File(download[2].seal)

Prefix(s, t) == Len(s) <= Len(t) /\ s = SubSeq(t, 1, Len(s))

\* As far as the header arrived, "truncated" is said of a download to retry and
\* of nothing else: what was read is the beginning of one vault, cut in its
\* header or between two of its chunks.
TruncatedMeansGoOn ==
  \A n \in 1 .. Len(seals) :
    download # <<>> /\ download[1] = Magic /\ (Len(download) > 1 => download[2] = Header(n)) =>
      (OpenVault(download, seals[n].seed) = "truncated"
       <=> /\ Prefix(download, File(n)) /\ download # File(n)
           /\ Len(download) = 1 \/ (Len(download) - 2) % SealedChunk = 0)
=============================================================================
