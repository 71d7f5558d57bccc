-------------------------------- MODULE Rank --------------------------------
(***************************************************************************)
(* The order in which the members of a room win a race between commits     *)
(* made at one epoch: Session::rank of src/chat/mod.rs.  Lowest wins.      *)
(***************************************************************************)
EXTENDS Integers, FiniteSets

CONSTANT LeafSpan     \* one more than the largest leaf index: 2^32 in the code

ASSUME LeafSpanAssumption == LeafSpan \in Nat \ {0}

Leaf == 0 .. LeafSpan - 1

\* The 64 bit values; u64::MAX is what a room of nobody ranks everybody at.
Highest == LeafSpan * LeafSpan - 1

\* Mutant of Rotated: the epoch is left out.
RotatedStill(leaf, epoch, size) == leaf % size

\* (leaf % size + size - epoch % size) % size
Rotated(leaf, epoch, size) == ((leaf % size) + size - (epoch % size)) % size

\* Mutant of Rank: the rotation alone.
RankOfRotation(leaf, epoch, size) ==
  IF size = 0 THEN Highest ELSE Rotated(leaf, epoch, size)

\* rotated << 32 | leaf, the two halves of one number.
Rank(leaf, epoch, size) ==
  IF size = 0 THEN Highest
  ELSE Rotated(leaf, epoch, size) * LeafSpan + leaf

\* The commit of leaf l is kept over the commit of leaf m.
Beats(l, m, epoch, size) == Rank(l, epoch, size) < Rank(m, epoch, size)

\* Of the members on these leaves, the one on leaf l wins every race.
Leads(l, leaves, epoch) ==
  \A m \in leaves \ {l} : Beats(l, m, epoch, Cardinality(leaves))
=============================================================================
