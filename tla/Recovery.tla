------------------------------ MODULE Recovery ------------------------------
(***************************************************************************)
(* Simple Recovery: the two-of-three split of src/recovery/simple.rs over  *)
(* src/shamir/mod.rs.                                                      *)
(*                                                                         *)
(* Enrolling makes a file for the customer and two pieces for the server.  *)
(* Neither is told what became of the other: a file is kept, copied or     *)
(* lost, an upload fails or is overtaken, and the two pieces are fetched   *)
(* in two calls between which the customer may enrol again.                *)
(***************************************************************************)
EXTENDS Integers, Sequences, FiniteSets

CONSTANTS Seeds, Passphrases,
          CountSpan,        \* 2^8 in the code, where shares are counted in a u8
          MaxEnrolments     \* bound

Junk == "junk"             \* what shares of two splits interpolate to
Failed == "failed"
Stripped == "stripped"     \* the checksum of a share that has none
None == 0

ASSUME RecoveryAssumption ==
  /\ {Junk, Failed, Stripped} \cap Seeds = {}
  /\ CountSpan \in Nat /\ CountSpan > 2 /\ MaxEnrolments \in Nat

VARIABLES enrolments,    \* each [seed, spelt, pass]
          files,         \* the enrolments whose file the customer has
          server,        \* the enrolment whose pieces the server holds
          blob, share    \* those whose pieces it has released

vars == <<enrolments, files, server, blob, share>>

Enrolled == 1 .. Len(enrolments)

\* A phrase is read whatever stands between its words; what comes back from
\* shares is spelt in one way.
Spellings == {"as encoded", "as typed"}
Phrases == [seed : Seeds, spelt : Spellings]
Encoded(seed) == [seed |-> seed, spelt |-> "as encoded"]

(***************************************************************************)
(* shamir.  A share names the split it is of, its place there, and the     *)
(* checksum in its envelope: of the secret, or stripped.                   *)
(***************************************************************************)
Threshold == 2

Share(n, x, check) == [of |-> n, x |-> x, check |-> check, threshold |-> Threshold]

Interpolated(shares) ==
  IF \A i \in DOMAIN shares : shares[i].of = shares[1].of
  THEN enrolments[shares[1].of].seed
  ELSE Junk

\* Mutant of Reconstruct: two copies of a share are two shares.
ReconstructCopies(shares) ==
  LET s == shares[1]
      secret == Interpolated(shares)
  IN  IF /\ \A i \in DOMAIN shares : shares[i].check = s.check
         /\ Len(shares) >= s.threshold
         /\ s.check = Stripped \/ s.check = secret
      THEN secret ELSE Failed

\* Too few is judged twice: on a count of what was given, and by the
\* interpolation on the places that differ.
Reconstruct(shares) ==
  LET s == shares[1]
      secret == Interpolated(shares)
  IN  IF /\ \A i \in DOMAIN shares : /\ shares[i].threshold = s.threshold
                                     /\ shares[i].check = s.check
         /\ Len(shares) % CountSpan >= s.threshold
         /\ Cardinality({shares[i].x : i \in DOMAIN shares}) >= s.threshold
         /\ s.check = Stripped \/ s.check = secret
      THEN secret ELSE Failed

(***************************************************************************)
(* simple.  The file of enrolment n holds its share 1 masked and its share *)
(* 3, the server its share 1 masked and its share 2.                       *)
(***************************************************************************)
StripChecksum(s) == [s EXCEPT !.check = Stripped]

\* Mutant of RestoreChecksum: nothing to check the secret against.
RestoreNoChecksum(s, from) == s

RestoreChecksum(s, from) == [s EXCEPT !.check = from.check]

Split(n, x) == Share(n, x, enrolments[n].seed)
FileShare(n) == Split(n, 3)
ServerShare(n) == StripChecksum(Split(n, 2))

\* unmask: the wrong passphrase gives bytes that are no share at all.
Unmasks(n, pass) == pass = enrolments[n].pass
Unmasked(n) == StripChecksum(Split(n, 1))

WithPassphrase(n, pass) ==
  IF Unmasks(n, pass)
  THEN Reconstruct(<<RestoreChecksum(Unmasked(n), FileShare(n)), FileShare(n)>>)
  ELSE Failed

\* Mutant of WithServerShare: the checksum is stripped from the file's share.
WithServerShareUnchecked(n, m) ==
  Reconstruct(<<ServerShare(m), StripChecksum(FileShare(n))>>)

WithServerShare(n, m) ==
  Reconstruct(<<RestoreChecksum(ServerShare(m), FileShare(n)), FileShare(n)>>)

WithoutFile(k, m, pass) ==
  IF Unmasks(k, pass) THEN Reconstruct(<<Unmasked(k), ServerShare(m)>>) ELSE Failed

\* Mutant of ContentsKey: the passphrase seals the contents too.
ContentsKeyOfPass(phrase) == phrase

\* contents_key is of the text of the phrase, its ends trimmed.
ContentsKey(phrase) == [seed |-> phrase.seed, spelt |-> phrase.spelt]

OpensContents(n, phrase) == ContentsKey(phrase) = ContentsKey(enrolments[n])

Init == enrolments = <<>> /\ files = {} /\ server = None /\ blob = None /\ share = None

Enrol(phrase, pass) ==
  /\ Len(enrolments) < MaxEnrolments
  /\ enrolments' = Append(enrolments, [seed |-> phrase.seed, spelt |-> phrase.spelt, pass |-> pass])
  /\ UNCHANGED <<files, server, blob, share>>

SaveFile(n) == files' = files \cup {n} /\ UNCHANGED <<enrolments, server, blob, share>>
LoseFile(n) == files' = files \ {n} /\ UNCHANGED <<enrolments, server, blob, share>>
Upload(n) == server' = n /\ UNCHANGED <<enrolments, files, blob, share>>

ReleaseBlob ==
  /\ server # None
  /\ blob' = server /\ UNCHANGED <<enrolments, files, server, share>>
ReleaseShare ==
  /\ server # None
  /\ share' = server /\ UNCHANGED <<enrolments, files, server, blob>>

Next ==
  \/ \E phrase \in Phrases, p \in Passphrases : Enrol(phrase, p)
  \/ \E n \in Enrolled : SaveFile(n) \/ Upload(n)
  \/ \E n \in files : LoseFile(n)
  \/ ReleaseBlob \/ ReleaseShare

Spec == Init /\ [][Next]_vars
-----------------------------------------------------------------------------
\* The state keeps to its types: what is kept, held or released was enrolled.
TypeOK ==
  /\ enrolments \in Seq([seed : Seeds, spelt : Spellings, pass : Passphrases])
  /\ files \subseteq Enrolled
  /\ {server, blob, share} \subseteq Enrolled \cup {None}

\* A file gives back its own wallet or nothing, whatever the passphrase and
\* whichever enrolment the share comes from that the server released
\* (recover_with_passphrase, recover_with_server_share): another wallet's
\* share, or one of the same wallet enrolled anew, is told by the checksum.
FileGivesItsSeed ==
  \A n \in files :
    LET its == {enrolments[n].seed, Failed}
    IN  /\ \A p \in Passphrases : WithPassphrase(n, p) \in its
        /\ share # None => WithServerShare(n, share) \in its

\* Any two of the three bring the wallet back, when both are of one enrolment.
AnyTwoBringItBack ==
  \A n \in Enrolled :
    /\ n \in files => WithPassphrase(n, enrolments[n].pass) = enrolments[n].seed
    /\ n \in files /\ share = n => WithServerShare(n, share) = enrolments[n].seed
    /\ blob = n /\ share = n =>
         WithoutFile(blob, share, enrolments[n].pass) = enrolments[n].seed

\* One of the three never does: a share counts once however often it is given,
\* also where the count of the copies has gone round.
OneIsNotEnough ==
  \A n \in Enrolled :
    \A s \in {FileShare(n), ServerShare(n), Unmasked(n)} :
      \A copies \in 1 .. CountSpan + Threshold :
        Reconstruct([i \in 1 .. copies |-> s]) = Failed
=============================================================================
