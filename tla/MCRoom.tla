------------------------------- MODULE MCRoom -------------------------------
(***************************************************************************)
(* Instances of Room for TLC.                                              *)
(***************************************************************************)
EXTENDS Room, TLC

CONSTANTS a, b, c

MCTwo == {a, b}
MCThree == {a, b, c}

Symmetry == Permutations({a, b})

\* Everybody with an identity of their own.
MCOwnIdentity == [d \in Devices |-> d]

(***************************************************************************)
(* Runs that are about what comes later start where every behaviour with a *)
(* conversation passes: everybody has published, one has created the room  *)
(* and added another, who has joined with its first package, and all have  *)
(* exported.                                                               *)
(***************************************************************************)
Packages(d) == {d} \X (1 .. MaxPackages)

Pair(x, y) ==
  /\ states = <<[parent |-> NoRoom, from |-> x, external |-> FALSE,
                 tree |-> (0 :> x), epoch |-> 0, added |-> {}, removed |-> {}],
                [parent |-> 1, from |-> x, external |-> FALSE,
                 tree |-> (0 :> x @@ 1 :> y), epoch |-> 1,
                 added |-> {<<y, 1>>}, removed |-> {}]>>
  /\ session = [d \in Devices |->
       IF d = x THEN [Advance(StartAt(EmptyStore, 1), 2) EXCEPT !.packages = Packages(x)]
       ELSE IF d = y THEN [StartAt(EmptyStore, 2) EXCEPT !.packages = Packages(y) \ {<<y, 1>>}]
       ELSE [EmptyStore EXCEPT !.packages = Packages(d)]]
  /\ disk = session
  /\ before = [d \in Devices |->
       IF d = x THEN [StartAt(EmptyStore, 1) EXCEPT !.packages = Packages(x)]
       ELSE EmptyStore]
  /\ published = [d \in Devices |-> MaxPackages]
  /\ texts = <<>>
  /\ infos = {}
  /\ backup = [d \in Devices |-> {}]
  /\ reports = {}
  /\ opened = {<<<<y, 1>>, 2>>}
  /\ yields = {}
  /\ restarts = 0

PairInit == Pair(a, b)

(***************************************************************************)
(* One run from both.  AsBegun bounds its steps: from an empty world there *)
(* are two texts and nothing is written down, from the pair one text,      *)
(* crashes and recoveries.                                                 *)
(***************************************************************************)
EitherSpec == (Init \/ Pair(a, b) \/ Pair(b, a)) /\ [][Next]_vars

AsBegun ==
  IF disk = [d \in Devices |-> EmptyStore] THEN UNCHANGED <<disk, backup, restarts>>
  ELSE Len(texts') =< 1

PairSpec == PairInit /\ [][Next]_vars
PairFairSpec == PairSpec /\ Fairness
=============================================================================
