-------------------------------- MODULE Room --------------------------------
(***************************************************************************)
(* One room of src/chat/mod.rs: the Sessions of its members and of those   *)
(* invited to it, and the mediator between them.                           *)
(*                                                                         *)
(* Every commit makes a new state of the room, a row of the table states;  *)
(* its parent is the state it was made from, so two rows with one parent   *)
(* are a fork.  A device holds the room by naming a row.  Rows, texts,     *)
(* room infos and packages are never taken back: the mediator may hand any *)
(* blob over late, again, out of order or not at all.                      *)
(***************************************************************************)
EXTENDS Rank, Sequences, FiniteSets, Functions

CONSTANTS Devices,         \* one per Session, told apart by signature key
          Identity,        \* the DID in each device's credential
          MaxPast,         \* MAX_PAST_EPOCHS
          RatchetWindow,   \* how late a text may be within an epoch
          MaxStates,       \* bound: commits, counting the creation
          MaxTexts,        \* bound: texts sent
          MaxPackages,     \* bound: key packages per device
          MaxNewcomers,    \* bound: people added in one commit
          MaxAnswers,      \* bound: room infos handed out
          MaxRestarts      \* bound: crashes and lost devices

ASSUME RoomAssumption ==
  /\ DOMAIN Identity = Devices
  /\ {MaxPast, RatchetWindow, MaxStates, MaxTexts, MaxPackages,
      MaxNewcomers, MaxAnswers, MaxRestarts} \subseteq Nat

NoRoom == 0               \* what load answers before a room is joined

VARIABLES states,      \* the commits made, each with the state it led to
          session,     \* each device's Session
          disk,        \* the blob of its last export
          before,      \* the blob it exported before its last commit
          published,   \* how many key packages it has handed out
          texts,       \* messages sent
          infos,       \* room infos handed out
          backup,      \* the member keys in its recovery file
          reports,     \* what receive said of each text
          opened,      \* Welcomes opened, each with the package it spent
          yields,      \* commits given up for a rival, with the rival
          restarts     \* crashes and lost devices so far

vars == <<states, session, disk, before, published, texts, infos, backup,
          reports, opened, yields, restarts>>

Package == Devices \X (1 .. MaxPackages)
StateId == 1 .. Len(states)
TextId == 1 .. Len(texts)

Parent(g) == states[g].parent
Epoch(g) == states[g].epoch
Tree(g) == states[g].tree
Members(g) == Range(Tree(g))
InRoom(d) == session[d].at # NoRoom
LeafOf(g, d) == CHOOSE l \in DOMAIN Tree(g) : Tree(g)[l] = d
RankAt(g, leaf) == Rank(leaf, Epoch(g), Cardinality(DOMAIN Tree(g)))

(***************************************************************************)
(* Ratchet trees, as functions from the leaves that are not blank.         *)
(***************************************************************************)
Unseat(tree, leaves) == [l \in DOMAIN tree \ leaves |-> tree[l]]

Blank(tree) == Leaf \ DOMAIN tree

\* The n lowest blank leaves, if there are n.
LowestBlanks(tree, n) ==
  {leaves \in SUBSET Blank(tree) :
     /\ Cardinality(leaves) = n
     /\ \A l \in leaves : \A m \in Blank(tree) \ leaves : l < m}

\* MLS gives the newcomers of a commit the lowest blanks, in the order they
\* were named in.
Seatings(tree, newcomers) ==
  UNION {{[l \in DOMAIN tree \cup leaves |->
             IF l \in leaves THEN seat[l] ELSE tree[l]] :
            seat \in Bijection(leaves, newcomers)} :
           leaves \in LowestBlanks(tree, Cardinality(newcomers))}

(***************************************************************************)
(* What a device's MLS store holds: the state it is at, the earlier ones   *)
(* whose message secrets it retains (nearest first), the state it came in  *)
(* at, how many texts it has sent at this one, the texts it has opened,    *)
(* and the packages whose init key it has.                                 *)
(***************************************************************************)
Retained(s) == {s.at} \cup Range(s.past)

\* The room is held from state g on, and nothing from before it.
StartAt(s, g) == [at |-> g, past |-> <<>>, entry |-> g, sent |-> 0,
                  seen |-> {}, packages |-> s.packages]

Leave(s) == StartAt(s, NoRoom)

EmptyStore == StartAt([packages |-> {}], NoRoom)

\* Mutant of Advance: OpenMLS's default, no past epoch kept.
AdvanceForgetting(s, g) ==
  [s EXCEPT !.at = g, !.past = <<>>, !.sent = 0, !.seen = {}]

\* The state just left is the nearest of the past ones.
Advance(s, g) ==
  LET kept == IF Len(s.past) < MaxPast THEN Len(s.past) + 1 ELSE MaxPast
      past == [i \in 1 .. kept |-> IF i = 1 THEN s.at ELSE s.past[i - 1]]
  IN  [at |-> g, past |-> past, entry |-> s.entry, sent |-> 0,
       seen |-> {x \in s.seen : x[1] \in Range(past)}, packages |-> s.packages]

\* Mutant of Merge: the room is kept after an eviction.
MergeKeeping(s, g, d) == Advance(s, g)

\* merge_staged_commit, and the group deleted if the commit evicted us.
Merge(s, g, d) == IF d \in Members(g) THEN Advance(s, g) ELSE Leave(s)

Trees == UNION {[L -> Devices] : L \in SUBSET Leaf}

Row == [parent : Nat, from : Devices, external : BOOLEAN, tree : Trees,
        epoch : Nat, added : SUBSET Package, removed : SUBSET Devices]

Store == [at : Nat, past : Seq(Nat), entry : Nat, sent : Nat,
          seen : SUBSET (Nat \X Leaf \X Nat), packages : SUBSET Package]

Verdicts == {"read", "replayed", "missed", "split", "late"}

TypeOK ==
  /\ states \in Seq(Row)
  /\ session \in [Devices -> Store]
  /\ disk \in [Devices -> Store]
  /\ before \in [Devices -> Store]
  /\ published \in [Devices -> 0 .. MaxPackages]
  /\ texts \in Seq([group : Nat, leaf : Leaf, gen : Nat])
  /\ infos \subseteq [of : StateId, by : Devices]
  /\ backup \in [Devices -> SUBSET Devices]
  /\ reports \subseteq Devices \X TextId \X Verdicts
  /\ opened \subseteq Package \X StateId
  /\ yields \subseteq StateId \X StateId
  /\ restarts \in 0 .. MaxRestarts

Init ==
  /\ states = <<>>
  /\ session = [d \in Devices |-> EmptyStore]
  /\ disk = session
  /\ before = session
  /\ published = [d \in Devices |-> 0]
  /\ texts = <<>>
  /\ infos = {}
  /\ backup = [d \in Devices |-> {}]
  /\ reports = {}
  /\ opened = {}
  /\ yields = {}
  /\ restarts = 0

logs == <<reports, opened, yields, restarts>>
blobs == <<published, texts, infos, backup>>

(***************************************************************************)
(* Commits.  The committer merges its own commit before anybody has it.    *)
(***************************************************************************)
MakeState(d, parent, external, tree, added, removed) ==
  /\ Len(states) < MaxStates
  /\ states' = Append(states,
       [parent |-> parent, from |-> d, external |-> external, tree |-> tree,
        epoch |-> IF parent = NoRoom THEN 0 ELSE Epoch(parent) + 1,
        added |-> added, removed |-> removed])

NewId == Len(states) + 1

\* A commit of a member; the blob exported first is what a lost race goes back to.
CommitAsMember(d, tree, added, removed) ==
  /\ MakeState(d, session[d].at, FALSE, tree, added, removed)
  /\ before' = [before EXCEPT ![d] = session[d]]
  /\ session' = [session EXCEPT ![d] = Advance(@, NewId)]
  /\ UNCHANGED <<disk, blobs, logs>>

\* create_room: the one room of this model.
CreateRoom(d) ==
  /\ states = <<>>
  /\ MakeState(d, NoRoom, FALSE, [l \in {0} |-> d], {}, {})
  /\ session' = [session EXCEPT ![d] = StartAt(@, NewId)]
  /\ UNCHANGED <<disk, before, blobs, logs>>

\* key_package: the init key is written to the store.
KeyPackage(d) ==
  /\ published[d] < MaxPackages
  /\ published' = [published EXCEPT ![d] = @ + 1]
  /\ session' = [session EXCEPT ![d].packages = @ \cup {<<d, published[d] + 1>>}]
  /\ UNCHANGED <<states, disk, before, texts, infos, backup, logs>>

Published == {p \in Package : p[2] =< published[p[1]]}

\* The packages one commit may add, within the bound.
Additions == {packages \in SUBSET Package : Cardinality(packages) \in 1 .. MaxNewcomers}

\* add_members, and add_member for one package.  MLS refuses a signature key
\* that already has a leaf.
AddMembers(d, packages) ==
  LET tree == Tree(session[d].at)
      newcomers == {p[1] : p \in packages}
  IN  /\ InRoom(d)
      /\ packages \subseteq Published
      /\ \A p, q \in packages : p[1] = q[1] => p = q
      /\ newcomers \cap Range(tree) = {}
      /\ \E seated \in Seatings(tree, newcomers) :
           CommitAsMember(d, seated, packages, {})

\* remove_member: the first leaf with that identity, and not our own.
RemoveMember(d, identity) ==
  /\ InRoom(d)
  /\ LET tree == Tree(session[d].at)
     IN \E leaf \in DOMAIN tree :
          /\ Identity[tree[leaf]] = identity
          /\ \A l \in DOMAIN tree : Identity[tree[l]] = identity => leaf =< l
          /\ tree[leaf] # d
          /\ CommitAsMember(d, Unseat(tree, {leaf}), {}, {tree[leaf]})

\* Mutant of Join: the init key is kept.
JoinKeepingKey(d, g) ==
  /\ \E p \in states[g].added :
       /\ p \in session[d].packages
       /\ session' = [session EXCEPT ![d] = StartAt(@, g)]
       /\ opened' = opened \cup {<<p, g>>}
  /\ UNCHANGED <<states, disk, before, blobs, reports, yields, restarts>>

\* join: a Welcome opens with the init key it was made for, which it spends,
\* and replaces whatever was held of the room.
Join(d, g) ==
  /\ \E p \in states[g].added :
       /\ p \in session[d].packages
       /\ LET spent == [session[d] EXCEPT !.packages = @ \ {p}]
          IN  session' = [session EXCEPT ![d] = StartAt(spent, g)]
       /\ opened' = opened \cup {<<p, g>>}
  /\ UNCHANGED <<states, disk, before, blobs, reports, yields, restarts>>

\* receive, of somebody else's commit.  One made at any other state than ours
\* is Undecryptable and changes nothing.
ReceiveCommit(d, g) ==
  /\ InRoom(d)
  /\ states[g].from # d
  /\ Parent(g) = session[d].at
  /\ session' = [session EXCEPT ![d] = Merge(@, g, d)]
  /\ UNCHANGED <<states, disk, before, blobs, logs>>

(***************************************************************************)
(* Two commits at one epoch.  The committer of one peeks at the other, and *)
(* when it ranks behind goes back to the blob from before its own commit   *)
(* and receives the rival's there.  An external commit cannot be ranked.   *)
(***************************************************************************)

\* Mutant of Yields: the rotation alone is compared, and a tie is given up.
YieldsOnTies(d, g) ==
  LET mine == session[d].at
      was == before[d].at
      Turn(e) == Rotated(LeafOf(was, e), Epoch(was), Cardinality(Members(was)))
  IN  /\ InRoom(d) /\ was # NoRoom
      /\ Parent(mine) = was /\ states[mine].from = d /\ ~states[mine].external
      /\ Parent(g) = was /\ states[g].from # d /\ ~states[g].external
      /\ Turn(states[g].from) =< Turn(d)

\* Mutant of Yields: the rival is looked for at the epoch we have moved to.
YieldsTooLate(d, g) ==
  LET mine == session[d].at
  IN  /\ InRoom(d) /\ states[mine].from = d
      /\ Parent(g) = mine /\ states[g].from # d /\ ~states[g].external
      /\ RankAt(mine, LeafOf(mine, states[g].from)) < RankAt(mine, LeafOf(mine, d))

Yields(d, g) ==
  LET mine == session[d].at
      was == before[d].at
  IN  /\ InRoom(d) /\ was # NoRoom
      /\ Parent(mine) = was /\ states[mine].from = d /\ ~states[mine].external
      /\ Parent(g) = was /\ states[g].from # d /\ ~states[g].external
      /\ RankAt(was, LeafOf(was, states[g].from)) < RankAt(was, LeafOf(was, d))

TieBreak(d, g) ==
  /\ Yields(d, g)
  /\ yields' = yields \cup {<<session[d].at, g>>}
  /\ session' = [session EXCEPT ![d] = Merge(before[d], g, d)]
  /\ UNCHANGED <<states, disk, before, blobs, reports, opened, restarts>>

(***************************************************************************)
(* Messages.                                                               *)
(***************************************************************************)
Send(d) ==
  /\ InRoom(d)
  /\ Len(texts) < MaxTexts
  /\ texts' = Append(texts, [group |-> session[d].at, gen |-> session[d].sent,
                             leaf |-> LeafOf(session[d].at, d)])
  /\ session' = [session EXCEPT ![d].sent = @ + 1]
  /\ UNCHANGED <<states, disk, before, published, infos, backup, logs>>

Sender(t) == Tree(texts[t].group)[texts[t].leaf]
Key(t) == <<texts[t].group, texts[t].leaf, texts[t].gen>>

\* The sender's ratchet in store s is too far past this text to open it.
TooOld(s, t) ==
  \E x \in s.seen : /\ x[1] = texts[t].group /\ x[2] = texts[t].leaf
                    /\ x[3] + 1 > texts[t].gen + RatchetWindow

\* What receive answers for text t to a device whose store is s.  A text of a
\* state whose secrets are held opens once; one from before everything held is
\* taken for a replay, and one of another branch is not.
Verdict(s, t) ==
  LET g == texts[t].group
      theirs == Epoch(g)
      ours == Epoch(s.at)
  IN  IF g \in Retained(s)
      THEN IF Key(t) \in s.seen \/ TooOld(s, t) THEN "replayed" ELSE "read"
      ELSE IF theirs > ours THEN "missed"
      ELSE IF theirs = ours THEN "split"
      ELSE IF \E p \in Range(s.past) : Epoch(p) = theirs THEN "late"
      ELSE "replayed"

ReceiveText(d, t) ==
  /\ InRoom(d)
  /\ Sender(t) # d
  /\ LET verdict == Verdict(session[d], t)
     IN /\ reports' = reports \cup {<<d, t, verdict>>}
        /\ session' = IF verdict = "read"
                      THEN [session EXCEPT ![d].seen = @ \cup {Key(t)}]
                      ELSE session
  /\ UNCHANGED <<states, disk, before, blobs, opened, yields, restarts>>

(***************************************************************************)
(* Healing.                                                                *)
(***************************************************************************)

\* room_info: handed to whoever asked, by anybody in the room.
RoomInfo(d) ==
  /\ InRoom(d)
  /\ Cardinality(infos) < MaxAnswers
  /\ infos' = infos \cup {[of |-> session[d].at, by |-> d]}
  /\ UNCHANGED <<states, session, disk, before, published, texts, backup, logs>>

\* Mutant of JoinExternally: the old leaf stays.
JoinExternallyTwice(d, info) ==
  /\ \E seated \in Seatings(Tree(info.of), {d}) :
       MakeState(d, info.of, TRUE, seated, {}, {})
  /\ session' = [session EXCEPT ![d] = StartAt(@, NewId)]
  /\ UNCHANGED <<disk, before, blobs, logs>>

\* Mutants of JoinExternally: the secrets held before are carried over, or
\* those of the state joined from are taken along.
JoinExternallyFrom(d, info, s) ==
  LET tree == Tree(info.of)
      rest == Unseat(tree, {l \in DOMAIN tree : tree[l] = d})
  IN  /\ \E seated \in Seatings(rest, {d}) :
           MakeState(d, info.of, TRUE, seated, {}, {})
      /\ session' = [session EXCEPT ![d] = Advance(s, NewId)]
      /\ UNCHANGED <<disk, before, blobs, logs>>

JoinExternallyKeeping(d, info) == JoinExternallyFrom(d, info, session[d])
JoinExternallyKnowing(d, info) ==
  JoinExternallyFrom(d, info, StartAt(session[d], info.of))

\* join_externally: our old leaf goes with it, and nothing is kept of what we
\* held before.
JoinExternally(d, info) ==
  LET tree == Tree(info.of)
      rest == Unseat(tree, {l \in DOMAIN tree : tree[l] = d})
  IN  /\ \E seated \in Seatings(rest, {d}) :
           MakeState(d, info.of, TRUE, seated, {}, {})
      /\ session' = [session EXCEPT ![d] = StartAt(@, NewId)]
      /\ UNCHANGED <<disk, before, blobs, logs>>

\* Mutant of Rejoin: a room behind ours is good enough.
RejoinBehind(d, info) ==
  /\ InRoom(d)
  /\ info.by \in Members(session[d].at)
  /\ info.of # session[d].at
  /\ JoinExternally(d, info)

\* rejoin: vouched for by a member of the state we hold, not the state we hold
\* itself, and not behind it.
Rejoin(d, info) ==
  /\ InRoom(d)
  /\ info.by \in Members(session[d].at)
  /\ info.of # session[d].at
  /\ Epoch(info.of) >= Epoch(session[d].at)
  /\ JoinExternally(d, info)

\* rejoin_from_backup: no state at all, and a voucher from the recovery file.
RejoinFromBackup(d, info) ==
  /\ ~InRoom(d)
  /\ info.by \in backup[d]
  /\ JoinExternally(d, info)

\* Mutant of Backup: leaf indices for keys.
BackupOfLeaves(d) ==
  /\ InRoom(d)
  /\ restarts < MaxRestarts
  /\ backup' = [backup EXCEPT ![d] = DOMAIN Tree(session[d].at)]
  /\ UNCHANGED <<states, session, disk, before, published, texts, infos, logs>>

\* member_keys, written to the recovery file.
Backup(d) ==
  /\ InRoom(d)
  /\ restarts < MaxRestarts
  /\ backup' = [backup EXCEPT ![d] = Members(session[d].at)]
  /\ UNCHANGED <<states, session, disk, before, published, texts, infos, logs>>

(***************************************************************************)
(* Storage.  export is the caller's to do; what it has not written down is *)
(* gone after a crash, and everything is after the device is.              *)
(***************************************************************************)
Export(d) ==
  /\ restarts < MaxRestarts
  /\ disk[d] # session[d]
  /\ disk' = [disk EXCEPT ![d] = session[d]]
  /\ UNCHANGED <<states, session, before, blobs, logs>>

Restore(d) ==
  /\ restarts < MaxRestarts
  /\ disk[d] # session[d]
  /\ session' = [session EXCEPT ![d] = disk[d]]
  /\ restarts' = restarts + 1
  /\ UNCHANGED <<states, disk, before, blobs, reports, opened, yields>>

\* new_from_seed on a new phone: the same signature key and nothing else.
NewFromSeed(d) ==
  /\ restarts < MaxRestarts
  /\ InRoom(d)
  /\ session' = [session EXCEPT ![d] = EmptyStore]
  /\ disk' = [disk EXCEPT ![d] = EmptyStore]
  /\ before' = [before EXCEPT ![d] = EmptyStore]
  /\ restarts' = restarts + 1
  /\ UNCHANGED <<states, blobs, reports, opened, yields>>

Next ==
  \E d \in Devices :
    \/ CreateRoom(d)
    \/ KeyPackage(d)
    \/ \E packages \in Additions : AddMembers(d, packages)
    \/ \E identity \in Range(Identity) : RemoveMember(d, identity)
    \/ Send(d)
    \/ \E t \in TextId : ReceiveText(d, t)
    \/ \E g \in StateId : Join(d, g) \/ ReceiveCommit(d, g) \/ TieBreak(d, g)
    \/ RoomInfo(d)
    \/ \E info \in infos : Rejoin(d, info) \/ RejoinFromBackup(d, info)
    \/ Backup(d) \/ Export(d) \/ Restore(d) \/ NewFromSeed(d)

Spec == Init /\ [][Next]_vars

(***************************************************************************)
(* Properties.                                                             *)
(***************************************************************************)
Stores(d) == {session[d], disk[d], before[d]}

\* A signature key has at most one seat in any state of the room, however it
\* came and went: rejoining replaces the old leaf (mod.rs 842-844).
OneSeat == \A g \in StateId : IsInjective(Tree(g))

\* Whatever a device holds of the room, in memory or in a blob, is a state it
\* sits in: a room it was evicted from is dropped, not kept (mod.rs 593-609).
HoldsOnlyWhereSeated ==
  \A d \in Devices : \A s \in Stores(d) :
    s.at # NoRoom => \A g \in Retained(s) : d \in Members(g)

\* The message secrets retained are those of the states just behind the one
\* held, on its own branch, also after a lost race has been taken back.
PastIsAncestry ==
  \A d \in Devices : \A s \in Stores(d) :
    s.at # NoRoom =>
      \A i \in 1 .. Len(s.past) :
        s.past[i] = Parent(IF i = 1 THEN s.at ELSE s.past[i - 1])

\* A text is read only by somebody who sat in the state it was sent in.
OnlyTheSeatedRead ==
  \A r \in reports : r[3] = "read" => r[1] \in Members(texts[r[2]].group)

\* A state, the state it was made from, and so on back to the creation: what is
\* in every set of states that holds g and the parent of each of its members.
Ancestry(g) ==
  {h \in StateId :
     \A line \in SUBSET StateId :
       (g \in line /\ \A x \in line : Parent(x) \in line \cup {NoRoom}) => h \in line}

\* A message that merely crossed a commit is not a replay: as long as nobody
\* has been put back to an earlier blob, a text sent in a state the device has
\* held since it came into the room, no more than MaxPast commits ago, opens
\* unless it has been read or its sender has run ahead of the window (mod.rs
\* 57-69, 106-127, 370-379).
FirstCopyOpens ==
  restarts = 0 =>
    \A d \in Devices, t \in TextId :
      LET s == session[d]
          g == texts[t].group
      IN  (/\ InRoom(d) /\ Sender(t) # d
           /\ g \in Ancestry(s.at) /\ g >= s.entry
           /\ Epoch(s.at) - Epoch(g) =< MaxPast /\ ~TooOld(s, t))
            => Verdict(s, t) = "read" \/ <<d, t, "read">> \in reports

\* A key package opens one room and no more (mod.rs 1257-1264).
PackageOpensOnce ==
  \A x, y \in opened : x[1] = y[1] => x = y

\* "Both sides of a race yield to a lower rank, so a tie is both of them
\* concluding they lost": in every tree the room reaches, of any two members
\* exactly one yields, and one member leads them all (mod.rs 787-804).
OneWinner ==
  \A g \in StateId :
    LET leaves == DOMAIN Tree(g)
        Wins(l, m) == Beats(l, m, Epoch(g), Cardinality(leaves))
    IN  /\ \A l, m \in leaves : l # m => (Wins(l, m) # Wins(m, l))
        /\ \E l \in leaves : Leads(l, leaves, Epoch(g))

\* In a tree without blanks every member leads in one of any size epochs in a
\* row, so nobody holds a veto over the others (mod.rs 778-783).
TurnsComeRound ==
  \A g \in StateId :
    LET leaves == DOMAIN Tree(g)
        size == Cardinality(leaves)
    IN  leaves = 0 .. size - 1 =>
          \A l \in leaves : \E n \in 0 .. size - 1 : Leads(l, leaves, Epoch(g) + n)

\* Nobody trades places: when one branch is given up for another, no chain of
\* other members gives that one up for the first (mod.rs 787-792).
NobodyTradesPlaces ==
  \A C \in (SUBSET StateId) \ {{}} : \E x \in C : \A y \in C : <<x, y>> \notin yields

\* A device's epoch in the room goes back only when a Welcome it was sent
\* arrives late or an older blob is restored; no commit, rejoin or lost race
\* takes it back (mod.rs 890-928).
NoWayBackButAWelcome ==
  [][\A d \in Devices :
       (InRoom(d) /\ InRoom(d)' /\ Epoch(session[d].at)' < Epoch(session[d].at))
         => \/ \E x \in opened' : x[1][1] = d /\ x[2] = session'[d].at
            \/ restarts' # restarts]_vars

(***************************************************************************)
(* A race between two members settles.                                     *)
(***************************************************************************)
Branches(g) == {h \in StateId : Parent(h) = g}

\* d and e each committed at state g, and each is where its own commit led.
Rivals(d, e, g) ==
  \A x \in {d, e} : /\ InRoom(x)
                    /\ Parent(session[x].at) = g /\ states[session[x].at].from = x
                    /\ before[x].at = g /\ session[d].at # session[e].at

\* Two members who made the only two commits of a state end in one state, or
\* one has evicted the other, unless by then a branch has moved on or a third
\* commit has joined the race. Of three commits whoever yields to the middle
\* one stays on it: the rule weighs a commit against one's own only (mod.rs
\* 734-804, test two_commits_at_one_epoch_leave_everybody_in_the_same_room).
RaceSettles ==
  \A d, e \in Devices, g \in 1 .. MaxStates :
    (Rivals(d, e, g) /\ Cardinality(Branches(g)) = 2)
      ~> (\/ ~InRoom(d) \/ ~InRoom(e)
          \/ session[d].at = session[e].at
          \/ \E x \in {d, e} : Parent(session[x].at) # g
          \/ Cardinality(Branches(g)) > 2)

\* Blobs that can be handled are: the mediator keeps handing them over until
\* they are.
Fairness == \A d \in Devices : \A g \in 1 .. MaxStates :
              /\ WF_vars(g \in StateId /\ ReceiveCommit(d, g))
              /\ WF_vars(g \in StateId /\ TieBreak(d, g))
              /\ WF_vars(g \in StateId /\ Join(d, g))

FairSpec == Spec /\ Fairness
=============================================================================
