---------------------------- MODULE Remint_proofs ----------------------------
(***************************************************************************)
(* What the re-mint keeps for every corpus, staging, rule parameters and   *)
(* number of kills: the pre-swap corpus can always be put back, no         *)
(* manifest names another's donor, what the rule writes its readers        *)
(* accept, neither the night nor the check is deceived by ids, and a       *)
(* re-mint that says it is done has done every step.                       *)
(***************************************************************************)
EXTENDS Remint, FiniteSetTheorems, FunctionTheorems, WellFoundedInduction, TLAPS

-----------------------------------------------------------------------------
(* Reading of the rule's document. *)

\* What is drawn was measured and fits.
LEMMA DrawnWithin ==
    ASSUME NEW ids, NEW measuredIds
    PROVE  LET document == Drawn(ids, measuredIds)
           IN  /\ document.measured = ids \cap measuredIds
               /\ document.corpus = ids
               /\ document.refused = ids \ document.measured
               /\ document.excluded \subseteq document.measured
               /\ document.membership \subseteq document.measured \ document.excluded
               /\ DOMAIN document.band = document.measured
<1> DEFINE document == Drawn(ids, measuredIds)
<1> SUFFICES
      /\ document.measured = ids \cap measuredIds
      /\ document.corpus = ids
      /\ document.refused = ids \ document.measured
      /\ document.excluded \subseteq document.measured
      /\ document.membership \subseteq document.measured \ document.excluded
      /\ DOMAIN document.band = document.measured
  OBVIOUS
<1>1. /\ document.measured = ids \cap measuredIds
      /\ document.corpus = ids
      /\ document.refused = ids \ document.measured
      /\ document.excluded = {i \in document.measured : i[2] \notin Fits}
      /\ document.band = [i \in document.measured |-> BandOf(i, document.measured)]
      /\ document.membership =
           UNION {SelectBand({i \in document.measured \ document.excluded : document.band[i] = b})
                  : b \in Bands}
  BY DEF Drawn
<1>2. document.membership \subseteq document.measured \ document.excluded
  BY <1>1 DEF SelectBand
<1> QED
  BY <1>1, <1>2

\* A document the writer does not refuse is one its readers do not refuse.
LEMMA ComposedIsReadable ==
    ASSUME NEW ids, NEW measuredIds, Composable(Drawn(ids, measuredIds))
    PROVE  Readable(Drawn(ids, measuredIds))
<1> DEFINE document == Drawn(ids, measuredIds)
<1>1. /\ document.measured = ids \cap measuredIds
      /\ document.corpus = ids
      /\ document.refused = ids \ document.measured
      /\ document.excluded \subseteq document.measured
      /\ document.membership \subseteq document.measured \ document.excluded
      /\ DOMAIN document.band = document.measured
  BY DrawnWithin
<1>2. document.membership # {} /\ document.membership # document.corpus /\ FloorsMet(document)
  BY DEF Composable
<1> HIDE DEF document
<1>3. Readable(document)
  BY <1>1, <1>2 DEF Readable
<1> QED
  BY <1>3 DEF document

-----------------------------------------------------------------------------
(* The night and the check. *)

\* Ids that differ are commits that differ, where each commit is held once.
LEMMA ApartByCommit ==
    ASSUME NEW ids, NEW trained \in SUBSET ids, NEW held \in SUBSET ids,
           trained \cap held = {}, Once(ids)
    PROVE  CommitsOf(trained) \cap CommitsOf(held) = {}
BY DEF CommitsOf, Once

\* NightDisjoint, whatever the operator is doing while the night runs.
THEOREM NightDisjointHolds == Spec => []NightDisjoint
<1>1. Init => NightDisjoint
  BY DEF Init, NoNight, NightDisjoint, CommitsOf
<1>2. NightDisjoint /\ [Next]_vars => NightDisjoint'
  <2> SUFFICES ASSUME NightDisjoint, [Next]_vars PROVE NightDisjoint'
    OBVIOUS
  <2>1. CASE NightExcludes
    <3>1. CASE UNCHANGED night
      BY <3>1 DEF NightDisjoint, CommitsOf
    <3>2. CASE night' # night
      <4> DEFINE membership == heldout.document.membership
      <4>1. /\ membership \subseteq loaded
            /\ \E trained \in {{}, loaded \ membership} :
                 night' = [over |-> "trained", trained |-> trained, held |-> membership,
                           once |-> Once(loaded)]
        BY <2>1, <3>2 DEF NightExcludes, Resolves
      <4>2. PICK trained \in {{}, loaded \ membership} :
              night' = [over |-> "trained", trained |-> trained, held |-> membership,
                        once |-> Once(loaded)]
        BY <4>1
      <4>3. night'.trained = trained /\ night'.held = membership
        BY <4>2
      <4>4. ASSUME Once(loaded) PROVE CommitsOf(trained) \cap CommitsOf(membership) = {}
        <5>1. trained \in SUBSET loaded /\ membership \in SUBSET loaded
              /\ trained \cap membership = {}
          BY <4>1
        <5> QED
          BY <5>1, <4>4, ApartByCommit
      <4>5. night'.once = Once(loaded)
        BY <4>2
      <4> QED
        BY <4>3, <4>4, <4>5 DEF NightDisjoint, CommitsOf
    <3> QED
      BY <3>1, <3>2
  <2>2. ASSUME ~NightExcludes PROVE UNCHANGED night
    BY <2>2 DEF Next, vars, disk, operator, nightly, SnapshotBegins, SnapshotCopies, SnapshotSeals,
         Verify, SwapBegins, SwapEnters, SwapAdds, SwapAdded, SwapRemoves, SwapLeaves, RewriteBegins,
         RewriteOne, RewriteEnds, Regenerate, RegenerateWrites, ReDeriveStratum, StratumWrites,
         ReDeriveHeldout, HeldoutWrites, Write, Kill, KillWriting, Killed, Restore, NightLoads, Check
  <2> QED
    BY <2>1, <2>2 DEF NightDisjoint, CommitsOf
<1> QED
  BY <1>1, <1>2, PTL DEF Spec

\* LeakIsFound, for every night and every membership written since.
THEOREM LeakIsFoundHolds == Spec => []LeakIsFound
<1>1. Init => LeakIsFound
  BY DEF Init, NoReport, LeakIsFound
<1>2. LeakIsFound /\ [Next]_vars => LeakIsFound'
  <2> SUFFICES ASSUME LeakIsFound, [Next]_vars PROVE LeakIsFound'
    OBVIOUS
  <2>1. CASE Check
    <3> DEFINE membership == heldout.document.membership
    <3>1. report' = [verdict |-> IF Leaked(night.trained, membership) = {} THEN "clean" ELSE "LEAKED",
                     trained |-> night.trained,
                     held    |-> membership]
      BY <2>1 DEF Check
    <3>2. ASSUME Leaked(night.trained, membership) = {}
          PROVE  CommitsOf(night.trained) \cap CommitsOf(membership) = {}
      BY <3>2 DEF Leaked, Identity, CommitsOf
    <3>3. report'.verdict = "clean" => Leaked(night.trained, membership) = {}
      BY <3>1
    <3>4. report'.trained = night.trained /\ report'.held = membership
      BY <3>1
    <3> QED
      BY <3>2, <3>3, <3>4 DEF LeakIsFound, CommitsOf
  <2>2. ASSUME ~Check PROVE UNCHANGED report
    BY <2>2 DEF Next, vars, disk, operator, nightly, SnapshotBegins, SnapshotCopies, SnapshotSeals,
         Verify, SwapBegins, SwapEnters, SwapAdds, SwapAdded, SwapRemoves, SwapLeaves, RewriteBegins,
         RewriteOne, RewriteEnds, Regenerate, RegenerateWrites, ReDeriveStratum, StratumWrites,
         ReDeriveHeldout, HeldoutWrites, Write, Kill, KillWriting, Killed, Restore, NightLoads,
         NightExcludes
  <2> QED
    BY <2>1, <2>2 DEF LeakIsFound, CommitsOf
<1> QED
  BY <1>1, <1>2, PTL DEF Spec

-----------------------------------------------------------------------------
(* The document on disk. *)

\* While the document is about to be written nothing it is drawn from changes.
WritesTheComposed == pc = "heldout" => Composable(Now)

DocumentInv ==
    /\ "state" \in DOMAIN heldout
    /\ WritesTheComposed
    /\ WhatIsComposedIsRead

\* WhatIsComposedIsRead, whatever the stratum measured.
THEOREM WhatIsComposedIsReadHolds == Spec => []WhatIsComposedIsRead
<1>1. Init => DocumentInv
  BY ComposedIsReadable DEF Init, DocumentInv, WritesTheComposed, WhatIsComposedIsRead
<1>2. DocumentInv /\ [Next]_vars => DocumentInv'
  <2> SUFFICES ASSUME DocumentInv, [Next]_vars PROVE DocumentInv'
    OBVIOUS
  <2> USE DEF DocumentInv, WritesTheComposed, WhatIsComposedIsRead
  <2>1. CASE HeldoutWrites
    BY <2>1, ComposedIsReadable DEF HeldoutWrites, Succeed, End, Now
  <2>2. CASE ReDeriveHeldout
    <3>1. UNCHANGED <<corpus, stratum, heldout>>
      BY <2>2 DEF ReDeriveHeldout, Write, disk
    <3>2. pc' = "heldout" => Composable(Now)
      BY <2>2 DEF ReDeriveHeldout, Write, Work, RefuseAtOnce, End
    <3>3. Now' = Now
      BY <3>1 DEF Now, Names
    <3> QED
      BY <3>1, <3>2, <3>3
  <2>3. ASSUME ~HeldoutWrites, ~ReDeriveHeldout, ~KillWriting
        PROVE  heldout' = heldout /\ (pc' = "heldout" => pc = "heldout" /\ UNCHANGED <<corpus, stratum>>)
    BY <2>3 DEF Next, vars, disk, operator, nightly, SnapshotBegins, SnapshotCopies, SnapshotSeals,
         Verify, SwapBegins, SwapEnters, SwapAdds, SwapAdded, SwapRemoves, SwapLeaves, RewriteBegins,
         RewriteOne, RewriteEnds, Regenerate, RegenerateWrites, ReDeriveStratum, StratumWrites,
         Write, Kill, Killed, Restore, NightLoads, NightExcludes, Check,
         End, Refuse, RefuseAtOnce, Succeed, Work, Handled
  <2>4. CASE KillWriting
    <3>1. pc' = "idle"
      BY <2>4 DEF KillWriting, Killed, End
    <3>2. heldout' = heldout \/ heldout' = [heldout EXCEPT !.state = "cut"]
      BY <2>4 DEF KillWriting
    <3>3. CASE heldout' = [heldout EXCEPT !.state = "cut"]
      <4>1. "state" \in DOMAIN heldout' /\ heldout'.state = "cut"
        BY <3>3
      <4> QED
        BY <3>1, <4>1
    <3> QED
      BY <3>1, <3>2, <3>3
  <2>5. ASSUME heldout' = heldout, pc' = "heldout" => pc = "heldout" /\ UNCHANGED <<corpus, stratum>>
        PROVE  DocumentInv'
    BY <2>5 DEF Now, Names
  <2> QED
    BY <2>1, <2>2, <2>3, <2>4, <2>5
<1>3. DocumentInv => WhatIsComposedIsRead
  BY DEF DocumentInv
<1> QED
  BY <1>1, <1>2, <1>3, PTL DEF Spec

-----------------------------------------------------------------------------
(* The corpus and its snapshot. *)

\* Some natural number is the least of any.
LEMMA LeastOf ==
    ASSUME NEW S \in SUBSET Nat, S # {}
    PROVE  \E n \in S : \A m \in S : n <= m
<1>1. PICK n \in S : \A m \in S : ~ (<<m, n>> \in OpToRel(<, Nat))
  BY NatLessThanWellFounded, WFMin
<1>2. \A m \in S : ~ (m < n)
  BY <1>1 DEF OpToRel
<1> QED
  BY <1>2

\* There is a first of any ids.
LEMMA FirstOfIsOne ==
    ASSUME NEW ids \in SUBSET Ids, ids # {}
    PROVE  FirstOf(ids) \in ids
<1>1. R \in Nat /\ C \in Nat
  BY HeldoutAssumption
<1>2. \A i \in ids : i = <<i[1], i[2]>> /\ i[1] \in Nat /\ i[2] \in Nat
  BY <1>1 DEF Ids, Roots, Commits, OldLabel
<1> DEFINE labels == {i[1] : i \in ids}
<1>3. PICK label \in labels : \A l \in labels : label <= l
  <2>1. labels \in SUBSET Nat /\ labels # {}
    BY <1>2
  <2> QED
    BY <2>1, LeastOf
<1> DEFINE commits == {i[2] : i \in {j \in ids : j[1] = label}}
<1>4. PICK commit \in commits : \A c \in commits : commit <= c
  <2>1. commits \in SUBSET Nat /\ commits # {}
    BY <1>2, <1>3
  <2> QED
    BY <2>1, LeastOf
<1>5. PICK first \in ids : first[1] = label /\ first[2] = commit
  BY <1>4
<1>6. ASSUME NEW j \in ids PROVE first = j \/ NameBefore(first, j)
  <2>1. label \in Nat /\ commit \in Nat /\ j[1] \in Nat /\ j[2] \in Nat
    BY <1>2, <1>5
  <2>2. label <= j[1]
    BY <1>3
  <2>3. CASE j[1] = label
    <3>1. commit <= j[2]
      BY <2>3, <1>4
    <3>2. CASE j[2] = commit
      BY <3>2, <2>3, <1>2, <1>5
    <3> QED
      BY <3>1, <3>2, <2>1, <2>3, <1>5 DEF NameBefore
  <2> QED
    BY <2>1, <2>2, <2>3, <1>5 DEF NameBefore
<1> QED
  BY <1>6 DEF FirstOf

Snapshots == [place : {"fresh", "taken"}, copies : [Ids -> Contents],
              document : {"absent", "cut", "whole"}, names : SUBSET Ids]

DiskTypes == staged \in StagedSet /\ corpus \in [Ids -> Contents] /\ snapshot \in Snapshots

\* Before the snapshot is whole nothing but the snapshot has been given to do.
NotYet ==
    snapshot.document # "whole" => corpus = OldBytes /\ reached = 1 /\ pc \in {"idle", "copying"}

\* What was copied so far, into a place that was empty.
Copying ==
    pc = "copying" =>
        /\ snapshot.document = "absent"
        /\ \A id \in OldIds \ todo : snapshot.copies[id] = RealOf[id[2]]

TakenOnce == snapshot.document # "absent" \/ pc = "copying" => snapshot.place = "taken"

Kept ==
    snapshot.document = "whole" =>
        OldIds \subseteq snapshot.names /\ \A id \in OldIds : snapshot.copies[id] = RealOf[id[2]]

CopiesAreHonest ==
    \A id \in Ids : snapshot.copies[id] \in Reals => snapshot.copies[id] = RealOf[id[2]]

Rewriting == pc = "rewriting" => OnePath
Listed == pc \in {"copying", "adding", "removing", "rewriting"} => todo \in SUBSET Ids
Present == pc = "rewriting" => todo \subseteq Names

CorpusInv ==
    /\ DiskTypes /\ NotYet /\ Copying /\ TakenOnce /\ Kept
    /\ CopiesAreHonest /\ OwnDonor /\ Rewriting /\ Listed /\ Present

\* What a real donor is not.
LEMMA RealIsReal ==
    /\ OldIds \subseteq Ids
    /\ "absent" \notin Reals /\ "cut" \notin Reals /\ "staging" \notin Reals
    /\ \A id \in Ids : RealOf[id[2]] \in Reals
    /\ Reals \subseteq Contents /\ {"absent", "cut", "staging"} \subseteq Contents
BY RemintAssumption DEF OldIds, OldId, OldLabel, Ids, Reals, Contents, Manifests

LEMMA OldBytesAreOwn ==
    /\ OldBytes \in [Ids -> Contents]
    /\ \A id \in OldIds : OldBytes[id] = RealOf[id[2]]
    /\ \A id \in Ids : OldBytes[id] \in Reals => OldBytes[id] = RealOf[id[2]]
    /\ {id \in Ids : OldBytes[id] # "absent"} = OldIds
BY RealIsReal DEF OldBytes

LEMMA CorpusInvInit == Init => CorpusInv
<1> SUFFICES ASSUME Init PROVE CorpusInv
  OBVIOUS
<1>1. DiskTypes
  BY OldBytesAreOwn, RealIsReal, RemintAssumption DEF Init, DiskTypes, Snapshots, Absent
<1>2. CopiesAreHonest
  BY RealIsReal DEF Init, CopiesAreHonest, Absent
<1>3. OwnDonor
  BY OldBytesAreOwn DEF Init, OwnDonor
<1> QED
  BY <1>1, <1>2, <1>3 DEF Init, CorpusInv, NotYet, Copying, TakenOnce, Kept, Rewriting, Listed, Present

\* CorpusInv is about these, and not about a night or a document.
LEMMA CorpusInvFrame ==
    ASSUME CorpusInv, UNCHANGED <<staged, corpus, snapshot, reached, pc, todo>>
    PROVE  CorpusInv'
BY DEF CorpusInv, DiskTypes, NotYet, Copying, TakenOnce, Kept, CopiesAreHonest, OwnDonor, Rewriting,
       Listed, Present, OnePath, Names

\* A command that ends leaves the disk for the next.
LEMMA CorpusInvEnds ==
    ASSUME CorpusInv, UNCHANGED <<staged, corpus, snapshot>>, pc' = "idle",
           reached' = reached \/ snapshot.document = "whole"
    PROVE  CorpusInv'
BY DEF CorpusInv, DiskTypes, NotYet, Copying, TakenOnce, Kept, CopiesAreHonest, OwnDonor, Rewriting,
       Listed, Present

\* Only the snapshot can be given before it is whole.
LEMMA GivenLater ==
    ASSUME CorpusInv, NEW command \in {"verify", "swap", "rewrite", "ledger", "stratum", "heldout"},
           Given(command)
    PROVE  snapshot.document = "whole"
BY DEF CorpusInv, NotYet, Given, Step

\* A manifest written or taken away, once the snapshot is whole: what is written is what the
\* task is entitled to.
LEMMA CorpusInvWrites ==
    ASSUME CorpusInv, snapshot.document = "whole",
           NEW id \in Ids, NEW content \in Contents, content \in Reals => content = RealOf[id[2]],
           corpus' = [corpus EXCEPT ![id] = content],
           UNCHANGED <<staged, snapshot>>,
           reached' = reached, pc' # "copying", pc' # "rewriting",
           todo' \in SUBSET Ids
    PROVE  CorpusInv'
<1> USE DEF CorpusInv
<1>1. DiskTypes'
  BY DEF DiskTypes
<1>2. OwnDonor'
  BY DEF OwnDonor, DiskTypes
<1>3. /\ NotYet' /\ Copying' /\ TakenOnce' /\ Kept' /\ CopiesAreHonest'
      /\ Rewriting' /\ Listed' /\ Present'
  BY DEF NotYet, Copying, TakenOnce, Kept, CopiesAreHonest, Rewriting, Listed, Present
<1> QED
  BY <1>1, <1>2, <1>3

\* The snapshot copies what the corpus holds.
LEMMA SnapshotKeeps ==
    ASSUME CorpusInv, SnapshotBegins \/ SnapshotCopies \/ SnapshotSeals
    PROVE  CorpusInv'
<1> USE DEF CorpusInv
<1>1. CASE SnapshotBegins
  <2>1. CASE Fresh
    <3>1. /\ snapshot' = [snapshot EXCEPT !.place = "taken"]
          /\ pc' = "copying" /\ todo' = Names /\ reached' = 1
          /\ UNCHANGED <<staged, corpus>>
      BY <1>1, <2>1 DEF SnapshotBegins, Work, Step
    <3>2. snapshot.document = "absent"
      BY <2>1 DEF TakenOnce, Fresh
    <3>3. /\ snapshot'.document = "absent" /\ snapshot'.copies = snapshot.copies
          /\ snapshot'.place = "taken" /\ snapshot' \in Snapshots
      BY <3>1, <3>2 DEF DiskTypes, Snapshots
    <3>4. Names = OldIds
      BY <3>2, OldBytesAreOwn DEF NotYet, Names
    <3>5. Names \in SUBSET Ids
      BY DEF Names
    <3> QED
      BY <3>1, <3>2, <3>3, <3>4, <3>5
         DEF DiskTypes, NotYet, Copying, TakenOnce, Kept, CopiesAreHonest, OwnDonor, Rewriting, Listed, Present
  <2>2. CASE ~Fresh
    BY <1>1, <2>2, CorpusInvEnds DEF SnapshotBegins, RefuseAtOnce, End
  <2> QED
    BY <2>1, <2>2
<1>2. CASE SnapshotCopies
  <2> DEFINE id == FirstOf(todo)
  <2>1. CASE corpus[id] = "cut"
    BY <1>2, <2>1, CorpusInvEnds DEF SnapshotCopies, Refuse, End
  <2>2. CASE corpus[id] # "cut"
    <3>1. /\ snapshot' = [snapshot EXCEPT !.copies[id] = corpus[id]]
          /\ todo' = todo \ {id}
          /\ UNCHANGED <<staged, corpus, pc, reached>> /\ pc = "copying"
      BY <1>2, <2>2 DEF SnapshotCopies, Handled
    <3>2. id \in todo /\ id \in Ids
      BY <1>2, FirstOfIsOne DEF SnapshotCopies, Listed
    <3>3. snapshot.document = "absent" /\ snapshot.place = "taken" /\ corpus = OldBytes
      BY <3>1 DEF Copying, TakenOnce, NotYet
    <3>4. /\ snapshot'.document = "absent" /\ snapshot'.place = "taken"
          /\ snapshot'.copies = [snapshot.copies EXCEPT ![id] = corpus[id]]
          /\ snapshot' \in Snapshots
      BY <3>1, <3>2, <3>3 DEF DiskTypes, Snapshots
    <3>5. \A i \in Ids : snapshot'.copies[i] = IF i = id THEN corpus[id] ELSE snapshot.copies[i]
      BY <3>2, <3>4 DEF DiskTypes, Snapshots
    <3>6. CopiesAreHonest'
      BY <3>5 DEF CopiesAreHonest, OwnDonor
    <3>7. Copying'
      <4>1. \A i \in OldIds \ todo' : snapshot'.copies[i] = RealOf[i[2]]
        BY <3>1, <3>3, <3>5, OldBytesAreOwn, RealIsReal DEF Copying
      <4> QED
        BY <4>1, <3>4 DEF Copying
    <3> QED
      BY <3>1, <3>3, <3>4, <3>6, <3>7
         DEF DiskTypes, NotYet, TakenOnce, Kept, OwnDonor, Rewriting, Listed, Present
  <2> QED
    BY <2>1, <2>2
<1>3. CASE SnapshotSeals
  <2>1. CASE ledger.state # "whole"
    BY <1>3, <2>1, CorpusInvEnds DEF SnapshotSeals, Refuse, End
  <2>2. CASE ledger.state = "whole"
    <3>1. /\ snapshot' = [snapshot EXCEPT !.document = "whole", !.names = Names]
          /\ pc = "copying" /\ todo = {} /\ pc' = "idle"
          /\ UNCHANGED <<staged, corpus>>
      BY <1>3, <2>2 DEF SnapshotSeals, Succeed, End
    <3>2. snapshot.document = "absent" /\ snapshot.place = "taken" /\ corpus = OldBytes
      BY <3>1 DEF Copying, TakenOnce, NotYet
    <3>3. Names = OldIds /\ Names \in SUBSET Ids
      BY <3>2, OldBytesAreOwn DEF Names
    <3>4. /\ snapshot'.document = "whole" /\ snapshot'.place = "taken"
          /\ snapshot'.copies = snapshot.copies /\ snapshot'.names = OldIds
          /\ snapshot' \in Snapshots
      BY <3>1, <3>2, <3>3 DEF DiskTypes, Snapshots
    <3>5. \A i \in OldIds : snapshot'.copies[i] = RealOf[i[2]]
      BY <3>1, <3>4 DEF Copying
    <3> QED
      BY <3>1, <3>4, <3>5
         DEF DiskTypes, NotYet, Copying, TakenOnce, Kept, CopiesAreHonest, OwnDonor, Rewriting, Listed, Present
  <2> QED
    BY <2>1, <2>2
<1> QED
  BY <1>1, <1>2, <1>3

\* The swap adds the staged manifests, which still read the staging copies, and takes the
\* others away.
LEMMA SwapKeeps ==
    ASSUME CorpusInv,
           SwapBegins \/ SwapEnters \/ SwapAdds \/ SwapAdded \/ SwapRemoves \/ SwapLeaves
    PROVE  CorpusInv'
<1> USE DEF CorpusInv
<1>1. snapshot.document = "whole"
  <2>1. pc \notin {"idle", "copying"} \/ SwapBegins
    BY DEF SwapEnters, SwapAdds, SwapAdded, SwapRemoves, SwapLeaves
  <2>2. CASE SwapBegins
    BY <2>2, GivenLater DEF SwapBegins
  <2> QED
    BY <2>1, <2>2 DEF NotYet
<1>2. CASE SwapBegins \/ SwapEnters \/ SwapAdded \/ SwapLeaves
  <2>1. UNCHANGED <<staged, corpus, snapshot>>
    BY <1>2 DEF SwapBegins, SwapEnters, SwapAdded, SwapLeaves, disk
  <2>2. pc' \notin {"copying", "rewriting"} /\ (pc' \in {"adding", "removing"} => todo' \in SUBSET Ids)
    <3>1. StagedIn(root) \in SUBSET Ids
      BY DEF DiskTypes, StagedIn, StagedSet, NewIds, Ids
    <3>2. {id \in Names : RootOf(id) = root /\ id \notin StagedIn(root)} \in SUBSET Ids
      BY DEF Names
    <3> QED
      BY <1>2, <3>1, <3>2
         DEF SwapBegins, SwapEnters, SwapAdded, SwapLeaves, Work, Refuse, Succeed, End
  <2> QED
    BY <1>1, <2>1, <2>2
       DEF DiskTypes, NotYet, Copying, TakenOnce, Kept, CopiesAreHonest, OwnDonor, Rewriting, Listed, Present
<1>3. CASE SwapAdds
  <2> DEFINE id == FirstOf(todo)
  <2>1. /\ corpus' = [corpus EXCEPT ![id] = "staging"]
        /\ todo' = todo \ {id} /\ todo # {} /\ pc = "adding"
        /\ UNCHANGED <<staged, snapshot, pc, reached>>
    BY <1>3 DEF SwapAdds, Handled
  <2>2. todo \in SUBSET Ids /\ id \in Ids /\ todo' \in SUBSET Ids
    BY <2>1, FirstOfIsOne DEF Listed
  <2> HIDE DEF id
  <2> QED
    BY <1>1, <2>1, <2>2, CorpusInvWrites, RealIsReal
<1>4. CASE SwapRemoves
  <2> DEFINE id == FirstOf(todo)
  <2>1. /\ corpus' = [corpus EXCEPT ![id] = "absent"]
        /\ todo' = todo \ {id} /\ todo # {} /\ pc = "removing"
        /\ UNCHANGED <<staged, snapshot, pc, reached>>
    BY <1>4 DEF SwapRemoves, Handled
  <2>2. todo \in SUBSET Ids /\ id \in Ids /\ todo' \in SUBSET Ids
    BY <2>1, FirstOfIsOne DEF Listed
  <2> HIDE DEF id
  <2> QED
    BY <1>1, <2>1, <2>2, CorpusInvWrites, RealIsReal
<1> QED
  BY <1>2, <1>3, <1>4

\* Where one label is one donor, the label's path is the manifest's own.
LEMMA RewrittenIsOwn ==
    ASSUME OnePath, NEW id \in Names
    PROVE  Rewritten(id) = RealOf[id[2]]
<1>1. RealOf[id[2]] \in PathsOf(staged.donor[id])
  BY DEF PathsOf
<1>2. Rewritten(id) \in PathsOf(staged.donor[id])
  BY <1>1 DEF Rewritten
<1>3. PICK i \in Names : staged.donor[i] = staged.donor[id] /\ Rewritten(id) = RealOf[i[2]]
  BY <1>2 DEF PathsOf
<1> QED
  BY <1>3 DEF OnePath

\* The rewrite gives each manifest its own donor back.
LEMMA RewriteKeeps ==
    ASSUME CorpusInv, RewriteBegins \/ RewriteOne \/ RewriteEnds
    PROVE  CorpusInv'
<1> USE DEF CorpusInv
<1>1. snapshot.document = "whole"
  <2>1. CASE RewriteBegins
    BY <2>1, GivenLater DEF RewriteBegins
  <2> QED
    BY <2>1 DEF RewriteOne, RewriteEnds, NotYet
<1>2. CASE RewriteBegins
  <2>1. UNCHANGED <<staged, corpus, snapshot>>
    BY <1>2 DEF RewriteBegins, disk
  <2>2. \/ pc' = "rewriting" /\ todo' = Names /\ OnePath
        \/ pc' = "idle"
    BY <1>2 DEF RewriteBegins, Work, RefuseAtOnce, End
  <2>3. Names' = Names /\ Names \in SUBSET Ids /\ (OnePath => OnePath')
    BY <2>1 DEF Names, OnePath
  <2> QED
    BY <1>1, <2>1, <2>2, <2>3
       DEF DiskTypes, NotYet, Copying, TakenOnce, Kept, CopiesAreHonest, OwnDonor, Rewriting, Listed, Present
<1>3. CASE RewriteOne
  <2> DEFINE id == FirstOf(todo)
  <2>1. CASE Refuse /\ UNCHANGED corpus
    BY <1>3, <2>1, CorpusInvEnds DEF RewriteOne, Refuse, End
  <2>2. CASE corpus' = [corpus EXCEPT ![id] = Rewritten(id)] /\ Handled(id)
    <3>1. /\ corpus' = [corpus EXCEPT ![id] = Rewritten(id)]
          /\ todo' = todo \ {id} /\ todo # {} /\ pc = "rewriting"
          /\ UNCHANGED <<staged, snapshot, pc, reached>>
      BY <1>3, <2>2 DEF RewriteOne, Handled
    <3>2. todo \in SUBSET Ids /\ todo \subseteq Names /\ OnePath
      BY <3>1 DEF Listed, Present, Rewriting
    <3>3. id \in Names /\ id \in Ids
      BY <3>1, <3>2, FirstOfIsOne
    <3>4. Rewritten(id) = RealOf[id[2]] /\ RealOf[id[2]] \in Reals
      BY <3>2, <3>3, RewrittenIsOwn, RealIsReal
    <3> HIDE DEF id
    <3>5. \A i \in Ids : corpus'[i] = IF i = id THEN RealOf[id[2]] ELSE corpus[i]
      BY <3>1, <3>4 DEF DiskTypes
    <3>6. Names' = Names
      BY <3>3, <3>4, <3>5, RealIsReal DEF Names
    <3>7. OnePath'
      BY <3>1, <3>2, <3>6 DEF OnePath
    <3>8. DiskTypes'
      BY <3>1, <3>4, RealIsReal DEF DiskTypes
    <3>9. OwnDonor'
      BY <3>5 DEF OwnDonor
    <3> QED
      BY <1>1, <3>1, <3>2, <3>6, <3>7, <3>8, <3>9
         DEF NotYet, Copying, TakenOnce, Kept, CopiesAreHonest, Rewriting, Listed, Present
  <2> QED
    BY <1>3, <2>1, <2>2 DEF RewriteOne
<1>4. CASE RewriteEnds
  BY <1>1, <1>4, CorpusInvEnds DEF RewriteEnds, Succeed, End, disk
<1> QED
  BY <1>2, <1>3, <1>4

\* The commands that write a document leave the corpus and the snapshot alone.
LEMMA DocumentsKeep ==
    ASSUME CorpusInv,
           Verify \/ Regenerate \/ RegenerateWrites \/ ReDeriveStratum \/ StratumWrites
             \/ ReDeriveHeldout \/ HeldoutWrites
    PROVE  CorpusInv'
<1> USE DEF CorpusInv
<1>1. CASE Verify
  <2>1. snapshot.document = "whole"
    BY <1>1, GivenLater DEF Verify
  <2> QED
    BY <1>1, <2>1, CorpusInvEnds DEF Verify, End, disk
<1>2. CASE RegenerateWrites \/ StratumWrites \/ HeldoutWrites
  <2>1. snapshot.document = "whole"
    BY <1>2 DEF RegenerateWrites, StratumWrites, HeldoutWrites, NotYet
  <2> QED
    BY <1>2, <2>1, CorpusInvEnds DEF RegenerateWrites, StratumWrites, HeldoutWrites, Succeed, End
<1>3. ASSUME NEW command \in {"ledger", "stratum", "heldout"}, NEW ok, Write(command, ok)
      PROVE  CorpusInv'
  <2>1. snapshot.document = "whole"
    BY <1>3, GivenLater DEF Write
  <2>2. UNCHANGED <<staged, corpus, snapshot>> /\ pc' \in {"idle", command}
    BY <1>3 DEF Write, disk, Work, RefuseAtOnce, End
  <2> QED
    BY <2>1, <2>2
       DEF DiskTypes, NotYet, Copying, TakenOnce, Kept, CopiesAreHonest, OwnDonor, Rewriting, Listed, Present
<1>4. CASE Regenerate \/ ReDeriveStratum \/ ReDeriveHeldout
  BY <1>3, <1>4 DEF Regenerate, ReDeriveStratum, ReDeriveHeldout
<1> QED
  BY <1>1, <1>2, <1>4

\* A kill cuts at most the file that was being written.
LEMMA KillKeeps ==
    ASSUME CorpusInv, Kill \/ KillWriting
    PROVE  CorpusInv'
<1> USE DEF CorpusInv
<1>1. pc' = "idle" /\ todo' = {} /\ reached' = reached /\ staged' = staged
  BY DEF Kill, KillWriting, Killed, End
<1>2. CASE UNCHANGED <<corpus, snapshot>>
  BY <1>1, <1>2, CorpusInvEnds
<1>3. CASE pc = "copying" /\ corpus' = corpus /\ snapshot' = [snapshot EXCEPT !.copies[FirstOf(todo)] = "cut"]
           /\ todo # {}
  <2> DEFINE id == FirstOf(todo)
  <2>1. id \in Ids
    BY <1>3, FirstOfIsOne DEF Listed
  <2>2. snapshot.document = "absent" /\ snapshot.place = "taken" /\ corpus = OldBytes /\ reached = 1
    BY <1>3 DEF Copying, TakenOnce, NotYet
  <2> HIDE DEF id
  <2>3. /\ snapshot'.document = "absent" /\ snapshot'.place = "taken"
        /\ snapshot'.copies = [snapshot.copies EXCEPT ![id] = "cut"] /\ snapshot' \in Snapshots
    BY <1>3, <2>1, <2>2, RealIsReal DEF DiskTypes, Snapshots, id
  <2>4. CopiesAreHonest'
    <3>1. \A i \in Ids : snapshot'.copies[i] = IF i = id THEN "cut" ELSE snapshot.copies[i]
      BY <2>1, <2>3 DEF DiskTypes, Snapshots
    <3> QED
      BY <3>1, RealIsReal DEF CopiesAreHonest
  <2> QED
    BY <1>1, <1>3, <2>2, <2>3, <2>4
       DEF DiskTypes, NotYet, Copying, TakenOnce, Kept, OwnDonor, Rewriting, Listed, Present
<1>4. CASE pc = "copying" /\ corpus' = corpus /\ snapshot' = [snapshot EXCEPT !.document = "cut"]
  <2>1. snapshot.document = "absent" /\ snapshot.place = "taken" /\ corpus = OldBytes /\ reached = 1
    BY <1>4 DEF Copying, TakenOnce, NotYet
  <2>2. /\ snapshot'.document = "cut" /\ snapshot'.place = "taken"
        /\ snapshot'.copies = snapshot.copies /\ snapshot' \in Snapshots
    BY <1>4, <2>1 DEF DiskTypes, Snapshots
  <2> QED
    BY <1>1, <1>4, <2>1, <2>2
       DEF DiskTypes, NotYet, Copying, TakenOnce, Kept, CopiesAreHonest, OwnDonor, Rewriting, Listed, Present
<1>5. CASE /\ pc \in {"adding", "rewriting"} /\ todo # {} /\ snapshot' = snapshot
           /\ corpus' = [corpus EXCEPT ![FirstOf(todo)] = "cut"]
  <2>1. snapshot.document = "whole"
    BY <1>5 DEF NotYet
  <2>2. FirstOf(todo) \in Ids
    BY <1>5, FirstOfIsOne DEF Listed
  <2> QED
    BY <1>1, <1>5, <2>1, <2>2, CorpusInvWrites, RealIsReal
<1> QED
  BY <1>2, <1>3, <1>4, <1>5 DEF Kill, KillWriting, disk

\* What the operator puts back is honest.
LEMMA RestoreKeeps ==
    ASSUME CorpusInv, Restore
    PROVE  CorpusInv'
<1>1. /\ corpus' = snapshot.copies /\ snapshot.document = "whole" /\ pc' = "idle"
      /\ UNCHANGED <<staged, snapshot>>
  BY DEF Restore
<1> QED
  BY <1>1 DEF CorpusInv, DiskTypes, Snapshots, NotYet, Copying, TakenOnce, Kept, CopiesAreHonest, OwnDonor,
       Rewriting, Listed, Present

\* The inductive invariant of the corpus.
LEMMA CorpusInvHolds == Spec => []CorpusInv
<1>1. CorpusInv /\ [Next]_vars => CorpusInv'
  <2> SUFFICES ASSUME CorpusInv, [Next]_vars PROVE CorpusInv'
    OBVIOUS
  <2>1. CASE SnapshotBegins \/ SnapshotCopies \/ SnapshotSeals
    BY <2>1, SnapshotKeeps
  <2>2. CASE SwapBegins \/ SwapEnters \/ SwapAdds \/ SwapAdded \/ SwapRemoves \/ SwapLeaves
    BY <2>2, SwapKeeps
  <2>3. CASE RewriteBegins \/ RewriteOne \/ RewriteEnds
    BY <2>3, RewriteKeeps
  <2>4. CASE Verify \/ Regenerate \/ RegenerateWrites \/ ReDeriveStratum \/ StratumWrites
               \/ ReDeriveHeldout \/ HeldoutWrites
    BY <2>4, DocumentsKeep
  <2>5. CASE Kill \/ KillWriting
    BY <2>5, KillKeeps
  <2>6. CASE Restore
    BY <2>6, RestoreKeeps
  <2>7. CASE NightLoads \/ NightExcludes \/ Check
    BY <2>7, CorpusInvFrame DEF NightLoads, NightExcludes, Check, disk, operator
  <2>8. CASE UNCHANGED vars
    BY <2>8, CorpusInvFrame DEF vars, disk, operator
  <2> QED
    BY <2>1, <2>2, <2>3, <2>4, <2>5, <2>6, <2>7, <2>8 DEF Next
<1> QED
  BY CorpusInvInit, <1>1, PTL DEF Spec

\* Reversible, for every corpus and staging and however often a command is killed.
THEOREM ReversibleHolds == Spec => []Reversible
<1>1. CorpusInv => Reversible
  BY OldBytesAreOwn DEF CorpusInv, NotYet, Kept, Reversible
<1> QED
  BY <1>1, CorpusInvHolds, PTL

\* OwnDonor, whatever labels the staged re-mint carries.
THEOREM OwnDonorHolds == Spec => []OwnDonor
<1>1. CorpusInv => OwnDonor
  BY DEF CorpusInv
<1> QED
  BY <1>1, CorpusInvHolds, PTL

-----------------------------------------------------------------------------
(* The sheet: what each command that succeeded has left for the next. *)

\* Which command is at work, by where the sheet is.
Placed ==
    /\ reached \in 1 .. Finished
    /\ pc = "copying" => reached = Step.snapshot
    /\ pc \in {"entering", "adding", "removing"} => reached = Step.swap
    /\ pc = "rewriting" => reached = Step.rewrite
    /\ pc = "ledger" => reached = Step.ledger
    /\ pc = "stratum" => reached = Step.stratum
    /\ pc = "heldout" => reached = Step.heldout
    /\ root \in Roots
    /\ pc \notin {"entering", "adding", "removing"} => root = 1

\* The snapshot names the old ids and no other.
NamesTheOld == snapshot.document = "whole" => snapshot.names = OldIds

\* What was verified is still so.
Proved == reached >= Step.swap => Provable

\* The roots the swap is done with hold what was staged for them.
SwappedBefore == \A id \in Ids : RootOf(id) < root => (id \in Names <=> id \in staged.names)

\* And the one it is at holds what was staged for it, and what is still to be removed.
Swapping ==
    /\ pc \in {"entering", "adding", "removing"} => SwappedBefore
    /\ pc = "adding" => todo \subseteq StagedIn(root) /\ StagedIn(root) \ todo \subseteq Names
    /\ pc = "removing" => /\ StagedIn(root) \subseteq Names
                          /\ todo = {id \in Names : RootOf(id) = root /\ id \notin StagedIn(root)}

Swapped == reached >= Step.rewrite => Names = staged.names

\* A manifest the rewrite is done with reads its own donor.
OwnDonors(ids) == \A id \in ids : corpus[id] = RealOf[id[2]]
RewritesAll ==
    /\ pc = "rewriting" => OwnDonors(Names \ todo)
    /\ reached >= Step.ledger => OwnDonors(Names)

Pinned == reached >= Step.stratum => ledger.state = "whole" /\ ledger.pins = corpus

Derived == reached = Finished => heldout.state = "whole" /\ heldout.document.corpus = Names

SheetInv ==
    /\ Placed /\ NamesTheOld /\ Proved /\ Swapping /\ Swapped /\ RewritesAll /\ Pinned /\ Derived

LEMMA Steps ==
    /\ Step.snapshot = 1 /\ Step.verify = 2 /\ Step.swap = 3 /\ Step.rewrite = 4
    /\ Step.ledger = 5 /\ Step.stratum = 6 /\ Step.heldout = 7 /\ Finished = 8
    /\ Step["snapshot"] = 1 /\ Step["verify"] = 2 /\ Step["swap"] = 3 /\ Step["rewrite"] = 4
    /\ Step["ledger"] = 5 /\ Step["stratum"] = 6 /\ Step["heldout"] = 7
BY DEF Step, Finished

\* Every id is of a root, and a staged one is of the root it is named by.
LEMMA RootsOfIds ==
    /\ Roots \subseteq Nat /\ 1 \in Roots /\ \A r \in Roots : 1 <= r /\ r <= R
    /\ \A id \in Ids : RootOf(id) \in Roots
    /\ \A id \in NewIds : id \in Ids /\ RootOf(id) = id[1]
<1>1. R \in Nat \ {0} /\ OldRoot \in [Commits -> Roots]
  BY HeldoutAssumption, RemintAssumption
<1> QED
  BY <1>1 DEF Roots, Ids, NewIds, RootOf, OldLabel

\* Where each file is the same, a command that only moves takes nothing back.
LEMMA SheetMoves ==
    ASSUME SheetInv, UNCHANGED <<staged, corpus, snapshot, ledger, heldout>>,
           Placed', reached' <= reached, Swapping', pc' = "rewriting" => OwnDonors(Names \ todo)'
    PROVE  SheetInv'
<1>1. reached \in 1 .. 8 /\ reached' \in 1 .. 8
  BY Steps DEF SheetInv, Placed
<1>2. Names' = Names /\ (Provable' <=> Provable)
  BY DEF Names, Provable
<1>3. NamesTheOld' /\ Proved' /\ Swapped'
  BY <1>1, <1>2, Steps DEF SheetInv, NamesTheOld, Proved, Swapped
<1>4. RewritesAll'
  BY <1>1, <1>2, Steps DEF SheetInv, RewritesAll, OwnDonors
<1>5. Pinned' /\ Derived'
  BY <1>1, <1>2, Steps DEF SheetInv, Pinned, Derived
<1> QED
  BY <1>3, <1>4, <1>5 DEF SheetInv

\* A command that ends without having succeeded.
LEMMA SheetStops ==
    ASSUME SheetInv, UNCHANGED <<staged, corpus, snapshot, ledger, heldout, reached>>,
           pc' = "idle", root' = 1
    PROVE  SheetInv'
<1>1. Placed' /\ Swapping'
  BY RootsOfIds DEF SheetInv, Placed, Swapping
<1> QED
  BY <1>1, SheetMoves, Steps DEF SheetInv, Placed

\* Before the staged re-mint was verified nothing is claimed of it.
LEMMA SheetIsEarly ==
    ASSUME reached' \in 1 .. 2, pc' \in {"idle", "copying"}, pc' = "copying" => reached' = 1,
           root' = 1, NamesTheOld'
    PROVE  SheetInv'
BY Steps, RootsOfIds DEF SheetInv, Placed, Proved, Swapping, Swapped, RewritesAll, Pinned, Derived

LEMMA SheetInvFrame ==
    ASSUME SheetInv, UNCHANGED <<staged, corpus, snapshot, ledger, heldout, reached, pc, root, todo>>
    PROVE  SheetInv'
<1>1. Names' = Names /\ (Provable' <=> Provable) /\ \A r : StagedIn(r)' = StagedIn(r)
  BY DEF Names, Provable, StagedIn
<1>2. Swapping'
  BY <1>1 DEF SheetInv, Swapping, SwappedBefore, StagedIn
<1> QED
  BY <1>1, <1>2 DEF SheetInv, Placed, NamesTheOld, Proved, Swapped, RewritesAll, OwnDonors, Pinned, Derived

LEMMA SheetInvInit == Init => SheetInv
BY Steps, RootsOfIds
   DEF Init, SheetInv, Placed, NamesTheOld, Proved, Swapping, Swapped, RewritesAll, Pinned, Derived

\* The snapshot is sealed over the old corpus.
LEMMA SnapshotKeepsSheet ==
    ASSUME CorpusInv, SheetInv, SnapshotBegins \/ SnapshotCopies \/ SnapshotSeals
    PROVE  SheetInv'
<1>1. CASE SnapshotBegins /\ Fresh
  <2>1. /\ snapshot' = [snapshot EXCEPT !.place = "taken"]
        /\ pc = "idle" /\ pc' = "copying" /\ reached' = 1 /\ root' = root
    BY <1>1, Steps DEF SnapshotBegins, Given, Work
  <2>2. snapshot'.document # "whole"
    BY <1>1, <2>1 DEF Fresh, CorpusInv, TakenOnce, DiskTypes, Snapshots
  <2> QED
    BY <2>1, <2>2, SheetIsEarly DEF SheetInv, Placed, NamesTheOld
<1>2. CASE SnapshotBegins /\ ~Fresh
  BY <1>2, SheetStops DEF SnapshotBegins, RefuseAtOnce, End
<1>3. CASE SnapshotCopies
  <2>1. CASE Refuse /\ UNCHANGED snapshot
    BY <1>3, <2>1, SheetStops DEF SnapshotCopies, Refuse, End
  <2>2. CASE /\ snapshot' = [snapshot EXCEPT !.copies[FirstOf(todo)] = corpus[FirstOf(todo)]]
             /\ Handled(FirstOf(todo))
    <3>1. pc = "copying" /\ UNCHANGED <<pc, reached, root>>
      BY <1>3, <2>2 DEF SnapshotCopies, Handled
    <3>2. snapshot'.document # "whole"
      BY <2>2, <3>1 DEF CorpusInv, Copying, DiskTypes, Snapshots
    <3> QED
      BY <3>1, <3>2, SheetIsEarly, Steps DEF SheetInv, Placed, NamesTheOld
  <2> QED
    BY <1>3, <2>1, <2>2 DEF SnapshotCopies
<1>4. CASE SnapshotSeals
  <2>1. CASE ledger.state # "whole"
    BY <1>4, <2>1, SheetStops DEF SnapshotSeals, Refuse, End
  <2>2. CASE ledger.state = "whole"
    <3>1. /\ snapshot' = [snapshot EXCEPT !.document = "whole", !.names = Names]
          /\ pc = "copying" /\ pc' = "idle" /\ root' = 1 /\ reached' = reached + 1
      BY <1>4, <2>2 DEF SnapshotSeals, Succeed, End
    <3>2. corpus = OldBytes
      BY <3>1 DEF CorpusInv, Copying, NotYet
    <3>3. Names = OldIds
      BY <3>2, OldBytesAreOwn DEF Names
    <3>4. snapshot'.names = OldIds
      BY <3>1, <3>3 DEF CorpusInv, DiskTypes, Snapshots
    <3> QED
      BY <3>1, <3>4, SheetIsEarly, Steps DEF SheetInv, Placed, NamesTheOld
  <2> QED
    BY <2>1, <2>2
<1> QED
  BY <1>1, <1>2, <1>3, <1>4

\* Writing or removing a file of the root at hand disturbs no other root.
LEMMA SwapKeepsSheet ==
    ASSUME CorpusInv, SheetInv,
           SwapBegins \/ SwapEnters \/ SwapAdds \/ SwapAdded \/ SwapRemoves \/ SwapLeaves
    PROVE  SheetInv'
<1>1. /\ staged.names \subseteq NewIds /\ Names \subseteq Ids /\ DOMAIN corpus = Ids
      /\ pc \in {"adding", "removing"} => todo \in SUBSET Ids
  BY DEF CorpusInv, DiskTypes, StagedSet, Names, Listed
<1>2. \A id \in StagedIn(root) : id \in Ids /\ RootOf(id) = root /\ id \in staged.names
  BY <1>1, RootsOfIds DEF StagedIn
<1>3. reached \in 1 .. 8 /\ root \in Nat /\ root \in Roots
  BY RootsOfIds, Steps DEF SheetInv, Placed
<1>4. CASE SwapBegins
  <2>1. /\ pc = "idle" /\ reached >= 3 /\ pc' = "entering" /\ reached' = 3 /\ root' = root
        /\ UNCHANGED <<staged, corpus, snapshot, ledger, heldout>>
    BY <1>4, <1>3, Steps DEF SwapBegins, Given, Work, disk
  <2>2. root = 1
    BY <2>1 DEF SheetInv, Placed
  <2>3. Placed'
    BY <2>1, <2>2, RootsOfIds, Steps DEF Placed
  <2>4. \A id \in Ids : ~(RootOf(id) < root')
    <3>1. \A r \in Roots : ~(r < 1)
      BY RootsOfIds
    <3> QED
      BY <2>1, <2>2, <3>1, RootsOfIds
  <2> QED
    BY <1>3, <2>1, <2>3, <2>4, SheetMoves DEF Swapping, SwappedBefore
<1>5. CASE SwapEnters
  <2>1. CASE Refuse
    BY <1>5, <2>1, SheetStops DEF SwapEnters, Refuse, End, disk
  <2>2. CASE pc' = "adding" /\ todo' = StagedIn(root) /\ UNCHANGED <<reached, root>>
    <3>1. /\ pc = "entering" /\ UNCHANGED <<staged, corpus, snapshot, ledger, heldout>>
      BY <1>5 DEF SwapEnters, disk
    <3>2. Placed'
      BY <2>2, <3>1 DEF SheetInv, Placed
    <3>3. Swapping'
      BY <2>2, <3>1 DEF SheetInv, Swapping, SwappedBefore, StagedIn, Names
    <3> QED
      BY <1>3, <2>2, <3>1, <3>2, <3>3, SheetMoves
  <2> QED
    BY <1>5, <2>1, <2>2 DEF SwapEnters
<1>6. ASSUME NEW id \in todo, pc \in {"adding", "removing"},
             NEW content, corpus' = [corpus EXCEPT ![id] = content],
             todo' = todo \ {id}, RootOf(id) = root,
             pc = "adding" => content # "absent" /\ todo \subseteq StagedIn(root),
             pc = "removing" => content = "absent" /\ id \notin StagedIn(root),
             UNCHANGED <<staged, snapshot, ledger, heldout, reached, pc, root>>
      PROVE  SheetInv'
  <2>1. id \in Ids /\ reached = 3
    BY <1>1, <1>6, Steps DEF SheetInv, Placed
  <2>2. Names' = IF content = "absent" THEN Names \ {id} ELSE Names \cup {id}
    <3>1. \A i \in Ids : corpus'[i] = IF i = id THEN content ELSE corpus[i]
      BY <1>1, <1>6
    <3> QED
      BY <2>1, <3>1 DEF Names
  <2>3. SwappedBefore'
    <3>1. SwappedBefore
      BY <1>6 DEF SheetInv, Swapping
    <3>2. ~(RootOf(id) < root)
      BY <1>3, <1>6
    <3>3. SUFFICES ASSUME NEW i \in Ids, RootOf(i) < root PROVE i \in Names' <=> i \in staged.names
      BY <1>6 DEF SwappedBefore
    <3> QED
      BY <2>2, <3>1, <3>2, <3>3 DEF SwappedBefore
  <2>4. StagedIn(root)' = StagedIn(root)
    BY <1>6 DEF StagedIn
  <2>5. CASE pc = "adding"
    <3>1. todo' \subseteq StagedIn(root) /\ StagedIn(root) \ todo' \subseteq Names'
      BY <1>6, <2>2, <2>5 DEF SheetInv, Swapping
    <3>2. Swapping'
      BY <1>6, <2>3, <2>4, <2>5, <3>1 DEF Swapping
    <3> QED
      BY <1>6, <2>1, <3>2, Steps
         DEF SheetInv, Placed, NamesTheOld, Proved, Provable, Swapped, RewritesAll, Pinned, Derived
  <2>6. CASE pc = "removing"
    <3>1. StagedIn(root) \subseteq Names'
      BY <1>6, <2>2, <2>6 DEF SheetInv, Swapping
    <3>2. todo' = {i \in Names' : RootOf(i) = root /\ i \notin StagedIn(root)}
      BY <1>6, <2>2, <2>6 DEF SheetInv, Swapping
    <3>3. Swapping'
      BY <1>6, <2>3, <2>4, <2>6, <3>1, <3>2 DEF Swapping
    <3> QED
      BY <1>6, <2>1, <3>3, Steps
         DEF SheetInv, Placed, NamesTheOld, Proved, Provable, Swapped, RewritesAll, Pinned, Derived
  <2> QED
    BY <1>6, <2>5, <2>6
<1>7. CASE SwapAdds
  <2> DEFINE id == FirstOf(todo)
  <2>1. /\ corpus' = [corpus EXCEPT ![id] = "staging"] /\ todo' = todo \ {id}
        /\ pc = "adding" /\ todo # {}
        /\ UNCHANGED <<staged, snapshot, ledger, heldout, reached, pc, root>>
    BY <1>7 DEF SwapAdds, Handled
  <2>2. id \in todo
    BY <1>1, <2>1, FirstOfIsOne
  <2>3. todo \subseteq StagedIn(root)
    BY <2>1 DEF SheetInv, Swapping
  <2> HIDE DEF id
  <2> QED
    BY <1>2, <1>6, <2>1, <2>2, <2>3
<1>8. CASE SwapRemoves
  <2> DEFINE id == FirstOf(todo)
  <2>1. /\ corpus' = [corpus EXCEPT ![id] = "absent"] /\ todo' = todo \ {id}
        /\ pc = "removing" /\ todo # {}
        /\ UNCHANGED <<staged, snapshot, ledger, heldout, reached, pc, root>>
    BY <1>8 DEF SwapRemoves, Handled
  <2>2. id \in todo
    BY <1>1, <2>1, FirstOfIsOne
  <2>3. RootOf(id) = root /\ id \notin StagedIn(root)
    BY <2>1, <2>2 DEF SheetInv, Swapping
  <2> HIDE DEF id
  <2> QED
    BY <1>6, <2>1, <2>2, <2>3
<1>9. CASE SwapAdded
  <2>1. /\ pc = "adding" /\ todo = {} /\ pc' = "removing"
        /\ todo' = {id \in Names : RootOf(id) = root /\ id \notin StagedIn(root)}
        /\ UNCHANGED <<staged, corpus, snapshot, ledger, heldout, reached, root>>
    BY <1>9 DEF SwapAdded, disk
  <2>2. Placed'
    BY <2>1 DEF SheetInv, Placed
  <2>3. StagedIn(root) \subseteq Names /\ SwappedBefore
    BY <2>1 DEF SheetInv, Swapping
  <2>4. Swapping'
    BY <2>1, <2>3 DEF Swapping, SwappedBefore, StagedIn, Names
  <2> QED
    BY <1>3, <2>1, <2>2, <2>4, SheetMoves
<1>10. CASE SwapLeaves
  <2>1. /\ pc = "removing" /\ todo = {} /\ reached = 3
        /\ UNCHANGED <<staged, corpus, snapshot, ledger, heldout>>
    BY <1>10, Steps DEF SwapLeaves, disk, SheetInv, Placed
  <2>2. ASSUME NEW id \in Ids, RootOf(id) < root + 1 PROVE id \in Names <=> id \in staged.names
    <3>1. RootOf(id) \in Nat
      BY RootsOfIds
    <3>2. CASE RootOf(id) = root
      <4>1. StagedIn(root) \subseteq Names /\ (id \in Names => id \in StagedIn(root))
        BY <2>1, <3>2 DEF SheetInv, Swapping
      <4>2. id \in staged.names => id \in StagedIn(root)
        BY <1>1, <3>2, RootsOfIds DEF StagedIn
      <4> QED
        BY <1>2, <4>1, <4>2
    <3>3. CASE RootOf(id) < root
      BY <2>1, <3>3 DEF SheetInv, Swapping, SwappedBefore
    <3> QED
      BY <1>3, <2>2, <3>1, <3>2, <3>3
  <2>3. CASE MoreRoots
    <3>1. pc' = "entering" /\ root' = root + 1 /\ UNCHANGED <<reached, todo>>
      BY <1>10, <2>3 DEF SwapLeaves
    <3>2. root' \in Roots
      BY <1>3, <2>3, <3>1, HeldoutAssumption DEF MoreRoots, Roots
    <3>3. Placed'
      BY <2>1, <3>1, <3>2, Steps DEF Placed
    <3>4. Swapping'
      BY <2>1, <2>2, <3>1 DEF Swapping, SwappedBefore, Names
    <3> QED
      BY <1>3, <2>1, <3>1, <3>3, <3>4, SheetMoves
  <2>4. CASE ~MoreRoots
    <3>1. pc' = "idle" /\ root' = 1 /\ reached' = 4
      BY <1>10, <2>1, <2>4 DEF SwapLeaves, Succeed, End
    <3>2. root = R
      BY <1>3, <2>4, RootsOfIds, HeldoutAssumption DEF MoreRoots
    <3>3. \A id \in Ids : RootOf(id) < root + 1
      <4>1. \A r \in Roots : r < root + 1
        BY <1>3, <3>2, RootsOfIds
      <4> QED
        BY <4>1, RootsOfIds
    <3>4. Names = staged.names
      <4>1. staged.names \subseteq Ids
        BY <1>1, RootsOfIds
      <4> QED
        BY <1>1, <2>2, <3>3, <4>1
    <3>5. Names' = Names /\ Provable' /\ Swapped'
      BY <2>1, <3>4, Steps DEF Names, SheetInv, Proved, Provable, Swapped
    <3> QED
      BY <2>1, <3>1, <3>5, Steps, RootsOfIds
         DEF SheetInv, Placed, NamesTheOld, Proved, Swapping, RewritesAll, Pinned, Derived
  <2> QED
    BY <2>3, <2>4
<1> QED
  BY <1>4, <1>5, <1>7, <1>8, <1>9, <1>10

\* The rewrite gives the names it found their own donors, one by one.
LEMMA RewriteKeepsSheet ==
    ASSUME CorpusInv, SheetInv, RewriteBegins \/ RewriteOne \/ RewriteEnds
    PROVE  SheetInv'
<1>1. reached \in 1 .. 8
  BY Steps DEF SheetInv, Placed
<1>2. CASE RewriteBegins
  <2>1. UNCHANGED <<staged, corpus, snapshot, ledger, heldout>> /\ pc = "idle" /\ reached >= 4
    BY <1>2, Steps DEF RewriteBegins, Given, disk
  <2>2. CASE RefuseAtOnce
    BY <2>1, <2>2, SheetStops DEF RefuseAtOnce, End
  <2>3. CASE Work("rewrite", "rewriting", Names)
    <3>1. pc' = "rewriting" /\ reached' = 4 /\ todo' = Names /\ root' = root
      BY <2>3, Steps DEF Work
    <3>2. Placed' /\ Swapping'
      BY <2>1, <3>1, Steps DEF SheetInv, Placed, Swapping
    <3>3. OwnDonors(Names \ todo)'
      BY <2>1, <3>1 DEF OwnDonors, Names
    <3> QED
      BY <1>1, <2>1, <3>1, <3>2, <3>3, SheetMoves
  <2> QED
    BY <1>2, <2>2, <2>3 DEF RewriteBegins
<1>3. CASE RewriteOne
  <2> DEFINE id == FirstOf(todo)
  <2>1. CASE Refuse /\ UNCHANGED corpus
    BY <1>3, <2>1, SheetStops DEF RewriteOne, Refuse, End
  <2>2. CASE corpus' = [corpus EXCEPT ![id] = Rewritten(id)] /\ Handled(id)
    <3>1. /\ corpus' = [corpus EXCEPT ![id] = Rewritten(id)]
          /\ todo' = todo \ {id} /\ todo # {} /\ pc = "rewriting"
          /\ UNCHANGED <<staged, snapshot, ledger, heldout, pc, reached, root>>
      BY <1>3, <2>2 DEF RewriteOne, Handled
    <3>2. todo \in SUBSET Ids /\ todo \subseteq Names /\ OnePath /\ DOMAIN corpus = Ids
      BY <3>1 DEF CorpusInv, DiskTypes, Listed, Present, Rewriting
    <3>3. id \in Names /\ id \in Ids
      BY <3>1, <3>2, FirstOfIsOne
    <3>4. Rewritten(id) = RealOf[id[2]] /\ RealOf[id[2]] \in Reals
      BY <3>2, <3>3, RewrittenIsOwn, RealIsReal
    <3> HIDE DEF id
    <3>5. \A i \in Ids : corpus'[i] = IF i = id THEN RealOf[id[2]] ELSE corpus[i]
      BY <3>1, <3>2, <3>4
    <3>6. Names' = Names
      BY <3>3, <3>4, <3>5, RealIsReal DEF Names
    <3>7. OwnDonors(Names \ todo)
      BY <3>1 DEF SheetInv, RewritesAll
    <3>8. OwnDonors(Names \ todo)'
      BY <3>1, <3>5, <3>6, <3>7 DEF OwnDonors, Names
    <3>9. reached = 4
      BY <3>1, Steps DEF SheetInv, Placed
    <3>10. Placed' /\ NamesTheOld' /\ Proved' /\ Swapping' /\ Swapped'
      BY <3>1, <3>6, <3>9, Steps
         DEF SheetInv, Placed, NamesTheOld, Proved, Provable, Swapping, Swapped
    <3> QED
      BY <3>1, <3>8, <3>9, <3>10, Steps DEF SheetInv, RewritesAll, Pinned, Derived
  <2> QED
    BY <1>3, <2>1, <2>2 DEF RewriteOne
<1>4. CASE RewriteEnds
  <2>1. /\ pc = "rewriting" /\ todo = {} /\ pc' = "idle" /\ root' = 1 /\ reached' = reached + 1
        /\ UNCHANGED <<staged, corpus, snapshot, ledger, heldout>>
    BY <1>4 DEF RewriteEnds, Succeed, End, disk
  <2>2. reached = 4 /\ reached' = 5
    BY <2>1, Steps DEF SheetInv, Placed
  <2>3. OwnDonors(Names) /\ Names = staged.names /\ Provable
    BY <2>1, <2>2, Steps DEF SheetInv, RewritesAll, OwnDonors, Swapped, Proved
  <2>4. Names' = Names /\ OwnDonors(Names)' /\ Provable'
    BY <2>1, <2>3 DEF Names, OwnDonors, Provable
  <2> QED
    BY <2>1, <2>2, <2>3, <2>4, Steps, RootsOfIds
       DEF SheetInv, Placed, NamesTheOld, Proved, Swapping, Swapped, RewritesAll, Pinned, Derived
<1> QED
  BY <1>2, <1>3, <1>4

\* The last three commands write of the corpus what it then is.
LEMMA DocumentsKeepSheet ==
    ASSUME CorpusInv, SheetInv,
           Verify \/ Regenerate \/ RegenerateWrites \/ ReDeriveStratum \/ StratumWrites
             \/ ReDeriveHeldout \/ HeldoutWrites
    PROVE  SheetInv'
<1>1. reached \in 1 .. 8
  BY Steps DEF SheetInv, Placed
<1>2. CASE Verify
  <2>1. /\ pc = "idle" /\ pc' = "idle" /\ root' = 1
        /\ UNCHANGED <<staged, corpus, snapshot, ledger, heldout>>
        /\ reached' = reached \/ (Provable /\ reached = 2 /\ reached' = 3)
    BY <1>1, <1>2, Steps DEF Verify, Given, End, disk
  <2>2. CASE reached' = reached
    BY <2>1, <2>2, SheetStops
  <2>3. CASE Provable /\ reached = 2 /\ reached' = 3
    <3>1. Provable'
      BY <2>1, <2>3 DEF Provable
    <3> QED
      BY <2>1, <2>3, <3>1, Steps, RootsOfIds
         DEF SheetInv, Placed, NamesTheOld, Proved, Swapping, Swapped, RewritesAll, Pinned, Derived
  <2> QED
    BY <2>1, <2>2, <2>3
<1>3. ASSUME NEW command \in {"ledger", "stratum", "heldout"}, NEW ok, Write(command, ok)
      PROVE  SheetInv'
  <2>1. /\ UNCHANGED <<staged, corpus, snapshot, ledger, heldout>> /\ pc = "idle"
        /\ Step[command] <= reached
    BY <1>3 DEF Write, Given, disk
  <2>2. CASE RefuseAtOnce
    BY <2>1, <2>2, SheetStops DEF RefuseAtOnce, End
  <2>3. CASE Work(command, command, {})
    <3>1. pc' = command /\ reached' = Step[command] /\ root' = root
      BY <2>3 DEF Work
    <3>2. Placed' /\ Swapping'
      BY <1>3, <2>1, <3>1, Steps DEF SheetInv, Placed, Swapping
    <3> QED
      BY <1>1, <1>3, <2>1, <3>1, <3>2, SheetMoves
  <2> QED
    BY <1>3, <2>2, <2>3 DEF Write
<1>4. CASE Regenerate \/ ReDeriveStratum \/ ReDeriveHeldout
  BY <1>3, <1>4 DEF Regenerate, ReDeriveStratum, ReDeriveHeldout
<1>5. CASE RegenerateWrites \/ StratumWrites \/ HeldoutWrites
  <2>1. /\ UNCHANGED <<staged, corpus, snapshot>> /\ pc' = "idle" /\ root' = 1
        /\ reached' = reached + 1 /\ reached' \in 6 .. 8
        /\ RegenerateWrites => reached' = 6
        /\ StratumWrites => reached' = 7
    BY <1>5, Steps DEF RegenerateWrites, StratumWrites, HeldoutWrites, Succeed, End, SheetInv, Placed
  <2>2. Names' = Names /\ Provable' /\ OwnDonors(Names)' /\ Names' = staged'.names
    <3>1. Provable /\ OwnDonors(Names) /\ Names = staged.names
      BY <2>1, <1>1, Steps DEF SheetInv, Proved, RewritesAll, Swapped
    <3> QED
      BY <2>1, <3>1 DEF Names, Provable, OwnDonors
  <2>3. Placed' /\ NamesTheOld' /\ Proved' /\ Swapping' /\ Swapped' /\ RewritesAll'
    BY <2>1, <2>2, Steps, RootsOfIds
       DEF SheetInv, Placed, NamesTheOld, Proved, Swapping, Swapped, RewritesAll
  <2>4. CASE RegenerateWrites
    <3>1. ledger'.state = "whole" /\ ledger'.pins = corpus'
      BY <2>4 DEF RegenerateWrites
    <3> QED
      BY <2>1, <2>3, <2>4, <3>1, Steps DEF SheetInv, Pinned, Derived
  <2>5. CASE StratumWrites
    <3>1. ledger' = ledger
      BY <2>5 DEF StratumWrites
    <3> QED
      BY <1>1, <2>1, <2>3, <2>5, <3>1, Steps DEF SheetInv, Pinned, Derived
  <2>6. CASE HeldoutWrites
    <3>1. ledger' = ledger /\ heldout'.state = "whole" /\ heldout'.document = Now /\ reached = 7
      BY <2>6, Steps DEF HeldoutWrites, SheetInv, Placed
    <3>2. Now.corpus = Names
      BY DrawnWithin DEF Now
    <3>3. Pinned'
      BY <2>1, <3>1, Steps DEF SheetInv, Pinned
    <3>4. Derived'
      BY <2>2, <3>1, <3>2 DEF Derived
    <3> QED
      BY <2>3, <3>3, <3>4 DEF SheetInv
  <2> QED
    BY <1>5, <2>4, <2>5, <2>6
<1> QED
  BY <1>2, <1>4, <1>5

\* A command that was killed has to be given again.
LEMMA KillKeepsSheet ==
    ASSUME CorpusInv, SheetInv, Kill \/ KillWriting
    PROVE  SheetInv'
<1>1. pc' = "idle" /\ root' = 1 /\ UNCHANGED <<staged, reached>> /\ reached \in 1 .. 8
  BY Steps DEF Kill, KillWriting, Killed, End, SheetInv, Placed
<1>2. CASE UNCHANGED <<corpus, snapshot, ledger, heldout>>
  BY <1>1, <1>2, SheetStops
<1>3. CASE pc = "copying" /\ UNCHANGED <<corpus, ledger, heldout>>
           /\ \/ snapshot' = [snapshot EXCEPT !.copies[FirstOf(todo)] = "cut"]
              \/ snapshot' = [snapshot EXCEPT !.document = "cut"]
  <2>1. snapshot'.document # "whole"
    BY <1>3 DEF CorpusInv, Copying, DiskTypes, Snapshots
  <2> QED
    BY <1>1, <1>3, <2>1, SheetIsEarly, Steps DEF SheetInv, Placed, NamesTheOld
<1>4. CASE /\ pc \in {"adding", "rewriting"} /\ todo # {} /\ UNCHANGED <<snapshot, ledger, heldout>>
           /\ corpus' = [corpus EXCEPT ![FirstOf(todo)] = "cut"]
  <2>1. reached \in 3 .. 4 /\ (pc = "adding" => reached = 3)
    BY <1>4, Steps DEF SheetInv, Placed
  <2>2. pc = "rewriting" => Names' = Names
    <3>1. pc = "rewriting" => FirstOf(todo) \in Names
      BY <1>4, FirstOfIsOne DEF CorpusInv, Listed, Present
    <3> QED
      BY <1>4, <3>1 DEF Names, CorpusInv, DiskTypes
  <2>3. Swapped'
    BY <1>1, <1>4, <2>1, <2>2, Steps DEF SheetInv, Swapped
  <2> QED
    BY <1>1, <1>4, <2>1, <2>3, Steps, RootsOfIds
       DEF SheetInv, Placed, NamesTheOld, Proved, Provable, Swapping, RewritesAll, Pinned, Derived
<1>5. CASE pc \in {"ledger", "heldout"} /\ UNCHANGED <<corpus, snapshot>>
           /\ (pc = "heldout" => ledger' = ledger)
  <2>1. reached = IF pc = "ledger" THEN 5 ELSE 7
    BY <1>5, Steps DEF SheetInv, Placed
  <2>2. Names' = Names /\ (OwnDonors(Names) => OwnDonors(Names)')
    BY <1>5 DEF Names, OwnDonors
  <2> QED
    BY <1>1, <1>5, <2>1, <2>2, Steps, RootsOfIds
       DEF SheetInv, Placed, NamesTheOld, Proved, Provable, Swapping, Swapped, RewritesAll, Pinned, Derived
<1> QED
  BY <1>2, <1>3, <1>4, <1>5 DEF Kill, KillWriting, disk

LEMMA SheetInvHolds == Spec => []SheetInv
<1>1. CorpusInv /\ SheetInv /\ [Next]_vars => SheetInv'
  <2> SUFFICES ASSUME CorpusInv, SheetInv, [Next]_vars PROVE SheetInv'
    OBVIOUS
  <2>1. CASE SnapshotBegins \/ SnapshotCopies \/ SnapshotSeals
    BY <2>1, SnapshotKeepsSheet
  <2>2. CASE SwapBegins \/ SwapEnters \/ SwapAdds \/ SwapAdded \/ SwapRemoves \/ SwapLeaves
    BY <2>2, SwapKeepsSheet
  <2>3. CASE RewriteBegins \/ RewriteOne \/ RewriteEnds
    BY <2>3, RewriteKeepsSheet
  <2>4. CASE Verify \/ Regenerate \/ RegenerateWrites \/ ReDeriveStratum \/ StratumWrites
               \/ ReDeriveHeldout \/ HeldoutWrites
    BY <2>4, DocumentsKeepSheet
  <2>5. CASE Kill \/ KillWriting
    BY <2>5, KillKeepsSheet
  <2>6. CASE Restore
    <3>1. /\ pc = "idle" /\ reached' = 2 /\ UNCHANGED <<snapshot, pc, root>>
      BY <2>6, Steps DEF Restore
    <3> QED
      BY <3>1, SheetIsEarly DEF SheetInv, Placed, NamesTheOld
  <2>7. CASE NightLoads \/ NightExcludes \/ Check
    BY <2>7, SheetInvFrame DEF NightLoads, NightExcludes, Check, disk, operator
  <2>8. CASE UNCHANGED vars
    BY <2>8, SheetInvFrame DEF vars, disk, operator
  <2> QED
    BY <2>1, <2>2, <2>3, <2>4, <2>5, <2>6, <2>7, <2>8 DEF Next
<1> QED
  BY SheetInvInit, CorpusInvHolds, <1>1, PTL DEF Spec

\* As many ids as commits, of the same commits: each commit once.
LEMMA ProvableIsOnce ==
    ASSUME Provable, snapshot.names = OldIds, staged \in StagedSet
    PROVE  Once(staged.names) /\ CommitsOf(staged.names) = Minted
<1> DEFINE names == staged.names
<1>1. names \subseteq NewIds /\ Cardinality(names) = Cardinality(OldIds)
      /\ CommitsOf(names) = CommitsOf(OldIds)
  BY DEF Provable, StagedSet
<1>2. CommitsOf(OldIds) = Minted
  <2>1. \A c \in Minted : OldId(c) \in OldIds /\ OldId(c)[2] = c
    BY DEF OldIds, OldId
  <2>2. \A id \in OldIds : id[2] \in Minted
    BY DEF OldIds, OldId
  <2> QED
    BY <2>1, <2>2 DEF CommitsOf
<1>3. IsFiniteSet(Commits) /\ IsFiniteSet(Roots) /\ IsFiniteSet(Minted)
  <2>1. R \in Int /\ C \in Int /\ 1 \in Int /\ Minted \subseteq Commits
    BY HeldoutAssumption, RemintAssumption
  <2>2. IsFiniteSet(Commits) /\ IsFiniteSet(Roots)
    BY <2>1, FS_Interval DEF Commits, Roots
  <2> QED
    BY <2>1, <2>2, FS_Subset
<1>4. IsFiniteSet(names)
  BY <1>1, <1>3, FS_Product, FS_Subset DEF NewIds
<1>5. Cardinality(OldIds) = Cardinality(Minted)
  <2> DEFINE f == [c \in Minted |-> OldId(c)]
  <2>1. f \in [Minted -> OldIds]
    BY DEF OldIds
  <2>2. \A c \in Minted : f[c] = OldId(c) /\ OldId(c)[2] = c
    BY DEF OldId
  <2>3. \A id \in OldIds : \E c \in Minted : f[c] = id
    BY <2>2 DEF OldIds
  <2> HIDE DEF f
  <2>4. \A c, d \in Minted : f[c] = f[d] => c = d
    BY <2>2
  <2>5. f \in Bijection(Minted, OldIds)
    BY <2>1, <2>3, <2>4 DEF Bijection, Injection, Surjection, IsInjective
  <2> QED
    BY <1>3, <2>5, FS_Bijection DEF ExistsBijection
<1>6. Cardinality(names) = Cardinality(Minted)
  BY <1>1, <1>5
<1> DEFINE g == [id \in names |-> id[2]]
<1>7. g \in Surjection(names, Minted)
  BY <1>1, <1>2 DEF Surjection, CommitsOf
<1>8. g \in Injection(names, Minted)
  BY <1>4, <1>6, <1>7, FS_SurjSameCardinalityImpliesInj
<1>9. \A i, j \in names : i[2] = j[2] => i = j
  BY <1>8 DEF Injection, IsInjective
<1> QED
  BY <1>1, <1>2, <1>9 DEF Once

\* FinishedIsWhole, however often the commands are refused, killed, restored and given again, and
\* whatever the staged re-mint is (remint_apply.py:247-373, 411-479, 570-635).
THEOREM FinishedIsWholeHolds == Spec => []FinishedIsWhole
<1>1. CorpusInv /\ SheetInv => FinishedIsWhole
  <2> SUFFICES ASSUME CorpusInv, SheetInv, reached = Finished PROVE
         /\ Once(Names) /\ CommitsOf(Names) = Minted
         /\ CommitsOf(Names) \cap staged.moved = {}
         /\ \A id \in Names : corpus[id] = RealOf[id[2]]
         /\ ledger.state = "whole" /\ ledger.pins = corpus
         /\ heldout.state = "whole" /\ heldout.document.corpus = Names
    BY DEF FinishedIsWhole
  <2>1. Provable /\ Names = staged.names /\ OwnDonors(Names)
        /\ ledger.state = "whole" /\ ledger.pins = corpus
        /\ heldout.state = "whole" /\ heldout.document.corpus = Names
    BY Steps DEF SheetInv, Proved, Swapped, RewritesAll, Pinned, Derived
  <2>2. snapshot.document = "whole" /\ CommitsOf(staged.names) \cap staged.moved = {}
    BY <2>1 DEF Provable
  <2>3. snapshot.names = OldIds /\ staged \in StagedSet
    BY <2>2 DEF SheetInv, NamesTheOld, CorpusInv, DiskTypes
  <2> QED
    BY <2>1, <2>2, <2>3, ProvableIsOnce DEF OwnDonors
<1> QED
  BY <1>1, CorpusInvHolds, SheetInvHolds, PTL

-----------------------------------------------------------------------------
(* The bands of the rule. *)

\* Division with a remainder.
LEMMA Division ==
    ASSUME NEW n \in Nat, NEW h \in Nat \ {0}
    PROVE  /\ n \div h \in Nat /\ n % h \in 0 .. h - 1
           /\ n = h * (n \div h) + (n % h)
OBVIOUS

\* The first band begins with the easiest task, and the last ends with the hardest.
LEMMA BandsEnd ==
    ASSUME NEW n \in Nat
    PROVE  BandStart(0, n) = 0 /\ BandStart(HELDOUT_BANDS, n) = n /\ \A b \in Nat : BandStart(b, n) \in Nat
<1>1. HELDOUT_BANDS \in Nat \ {0}
  BY HeldoutAssumption
<1> DEFINE q == n \div HELDOUT_BANDS
           r == n % HELDOUT_BANDS
<1>2. q \in Nat /\ r \in 0 .. HELDOUT_BANDS - 1 /\ n = HELDOUT_BANDS * q + r
  BY <1>1, Division
<1> HIDE DEF q, r
<1>3. \A b : BandStart(b, n) = b * q + IF b < r THEN b ELSE r
  BY DEF BandStart, q, r
<1>4. 0 * q = 0 /\ \A b \in Nat : b * q \in Nat
  BY <1>2
<1>5. ~(HELDOUT_BANDS < r) /\ r \in Nat
  BY <1>1, <1>2
<1>6. BandStart(HELDOUT_BANDS, n) = n
  BY <1>2, <1>3, <1>5
<1>7. BandStart(0, n) = 0
  BY <1>3, <1>4, <1>5
<1>8. \A b \in Nat : BandStart(b, n) \in Nat
  BY <1>3, <1>4, <1>5
<1> QED
  BY <1>6, <1>7, <1>8

\* A band ends before a later one begins.
LEMMA BandsAreApart ==
    ASSUME NEW n \in Nat, NEW a \in Nat, NEW b \in Nat, a < b
    PROVE  BandStart(a + 1, n) <= BandStart(b, n)
<1>1. HELDOUT_BANDS \in Nat \ {0}
  BY HeldoutAssumption
<1> DEFINE q == n \div HELDOUT_BANDS
           r == n % HELDOUT_BANDS
<1>2. q \in Nat /\ r \in Nat
  BY <1>1, Division
<1>3. \A c : BandStart(c, n) = c * q + IF c < r THEN c ELSE r
  BY DEF BandStart
<1> HIDE DEF q, r
<1>4. (a + 1) * q <= b * q
  <2>1. PICK d \in Nat : b = a + 1 + d
    <3>1. b - (a + 1) \in Nat
      OBVIOUS
    <3> QED
      BY <3>1
  <2>2. b * q = (a + 1) * q + d * q /\ d * q \in Nat /\ (a + 1) * q \in Nat
    BY <1>2, <2>1
  <2> QED
    BY <2>2
<1>5. (IF a + 1 < r THEN a + 1 ELSE r) <= (IF b < r THEN b ELSE r)
  BY <1>2
<1>6. (a + 1) * q \in Nat /\ b * q \in Nat
  BY <1>2
<1> QED
  BY <1>2, <1>3, <1>4, <1>5, <1>6

\* The bands are a partition: a measured task is in one of them and in no other, whatever their
\* number is and however it divides the corpus (heldout.py:134-160).
THEOREM EveryTaskIsInOneBand ==
    ASSUME NEW measured \in SUBSET Ids, NEW id \in measured
    PROVE  LET index == Cardinality({o \in measured : Easier(o, id)})
               n     == Cardinality(measured)
               Of(b) == BandStart(b, n) <= index /\ index < BandStart(b + 1, n)
           IN  /\ BandOf(id, measured) \in Bands
               /\ \A b \in Bands : Of(b) <=> b = BandOf(id, measured)
<1> DEFINE n     == Cardinality(measured)
           below == {o \in measured : Easier(o, id)}
           index == Cardinality(below)
<1>1. IsFiniteSet(Ids)
  <2>1. R \in Int /\ C \in Int /\ 0 \in Int /\ 1 \in Int
    BY HeldoutAssumption
  <2>2. IsFiniteSet(0 .. R) /\ IsFiniteSet(Commits)
    BY <2>1, FS_Interval DEF Commits
  <2>3. Ids \in SUBSET ((0 .. R) \X Commits)
    BY HeldoutAssumption DEF Ids, Roots, OldLabel
  <2> QED
    BY <2>2, <2>3, FS_Product, FS_Subset
<1>2. IsFiniteSet(measured) /\ IsFiniteSet(below)
  <2>1. below \in SUBSET Ids
    OBVIOUS
  <2> QED
    BY <1>1, <2>1, FS_Subset
<1>3. id \notin below
  <2>1. id[1] \in Nat /\ id[2] \in Commits /\ id[2] \in Nat /\ Size[id[2]] \in Nat
    BY HeldoutAssumption DEF Ids, Roots, Commits, OldLabel
  <2> QED
    BY <2>1 DEF Easier, NameBefore
<1>4. n \in Nat /\ index \in Nat /\ index < n
  <2>1. n \in Nat /\ index \in Nat
    BY <1>2, FS_CardinalityType
  <2>2. below \in SUBSET measured /\ below # measured
    BY <1>3
  <2>3. index <= n /\ index # n
    BY <1>2, <2>2, FS_Subset
  <2> QED
    BY <2>1, <2>3
<1> HIDE DEF n, index
<1> DEFINE past == {b \in Nat : index < BandStart(b, n)}
<1>5. HELDOUT_BANDS \in past
  BY <1>4, BandsEnd, HeldoutAssumption
<1>6. PICK end \in past : \A b \in past : end <= b
  <2>1. past \in SUBSET Nat /\ past # {}
    BY <1>5
  <2> QED
    BY <2>1, LeastOf
<1>7. end # 0
  BY <1>4, <1>6, BandsEnd
<1>8. end - 1 \in Bands /\ end \in Nat
  BY <1>5, <1>6, <1>7, HeldoutAssumption DEF Bands
<1>9. BandStart(end - 1, n) <= index
  <2>1. end - 1 \in Nat /\ end - 1 \notin past
    BY <1>6, <1>7
  <2>2. BandStart(end - 1, n) \in Nat
    BY <1>4, <2>1, BandsEnd
  <2> QED
    BY <1>4, <2>1, <2>2
<1>10. \E b \in Bands : BandStart(b, n) <= index /\ index < BandStart(b + 1, n)
  <2>1. (end - 1) + 1 = end /\ index < BandStart(end, n)
    BY <1>6, <1>8
  <2>2. index < BandStart((end - 1) + 1, n)
    BY <2>1
  <2> QED
    BY <1>8, <1>9, <2>2
<1> DEFINE Of(b) == BandStart(b, n) <= index /\ index < BandStart(b + 1, n)
<1>11. ASSUME NEW b \in Bands, NEW c \in Bands, Of(b), Of(c), b < c
       PROVE  FALSE
  <2>1. b \in Nat /\ c \in Nat /\ b + 1 \in Nat
    BY <1>11, HeldoutAssumption DEF Bands
  <2>2. BandStart(b + 1, n) <= BandStart(c, n)
    BY <1>4, <1>11, <2>1, BandsAreApart
  <2>3. BandStart(b + 1, n) \in Nat /\ BandStart(c, n) \in Nat
    BY <1>4, <2>1, BandsEnd
  <2> QED
    BY <1>4, <1>11, <2>2, <2>3
<1>12. \A b, c \in Bands : Of(b) /\ Of(c) => b = c
  <2>1. SUFFICES ASSUME NEW b \in Bands, NEW c \in Bands, Of(b), Of(c), b # c PROVE FALSE
    OBVIOUS
  <2>2. b \in Nat /\ c \in Nat
    BY HeldoutAssumption DEF Bands
  <2> QED
    BY <1>11, <2>1, <2>2
<1>13. PICK band \in Bands : Of(band)
  BY <1>10
<1>14. BandOf(id, measured) = CHOOSE b \in Bands : Of(b)
  BY DEF BandOf, n, index
<1> HIDE DEF Of
<1>15. BandOf(id, measured) \in Bands /\ Of(BandOf(id, measured))
  BY <1>13, <1>14
<1>16. \A b \in Bands : Of(b) <=> b = BandOf(id, measured)
  BY <1>12, <1>15
<1> QED
  BY <1>15, <1>16 DEF Of, n, index

-----------------------------------------------------------------------------
(* The type invariant. *)

\* Every document the rule has drawn, on disk or not.
Documents == {Drawn(ids, measured) : ids \in SUBSET Ids, measured \in SUBSET Ids}

DocumentTypes ==
    /\ ledger \in [state : {"cut", "whole"}, pins : [Ids -> Contents]]
    /\ stratum \in [state : {"cut", "whole"}, measured : SUBSET Ids]
    /\ heldout \in [state : {"cut", "whole"}, document : Documents]

Phases == {"idle", "copying", "entering", "adding", "removing", "rewriting",
           "ledger", "stratum", "heldout"}
OperatorTypes ==
    /\ staged \in Stagings /\ todo \subseteq Ids /\ pc \in Phases
    /\ touched \in BOOLEAN /\ kills \in 0 .. MaxKills
    /\ exit \in {"none", "done", "refused", "killed"}

NightTypes ==
    /\ loaded \subseteq Ids
    /\ night \in [over : {"nothing", "trained"}, trained : SUBSET Ids, held : SUBSET Ids, once : BOOLEAN]
    /\ report \in [verdict : {"none", "clean", "LEAKED"}, trained : SUBSET Ids, held : SUBSET Ids]

LEMMA DrawnTyped ==
    ASSUME NEW document \in Documents
    PROVE  /\ \A part \in {"corpus", "measured", "refused", "excluded", "membership"} :
                document[part] \subseteq Ids
           /\ document.band \in [document.measured -> Bands]
<1>1. PICK ids \in SUBSET Ids, measured \in SUBSET Ids : document = Drawn(ids, measured)
  BY DEF Documents
<1>2. /\ document.measured = ids \cap measured /\ document.corpus = ids
      /\ document.refused = ids \ document.measured
      /\ document.excluded \subseteq document.measured
      /\ document.membership \subseteq document.measured \ document.excluded
  BY <1>1, DrawnWithin
<1>3. document.band = [i \in document.measured |-> BandOf(i, document.measured)]
  BY <1>1 DEF Drawn
<1>4. \A i \in document.measured : BandOf(i, document.measured) \in Bands
  BY <1>2, EveryTaskIsInOneBand
<1>5. document.band \in [document.measured -> Bands]
  BY <1>3, <1>4
<1> QED
  BY <1>2, <1>5

\* What a command that ends, or goes to work, or has dealt with a file, leaves of the operator.
LEMMA OperatorMoves ==
    ASSUME OperatorTypes, UNCHANGED <<staged, kills>>,
           \/ RefuseAtOnce \/ Refuse \/ Succeed
           \/ \E id : Handled(id)
           \/ \E command, ids : \E phase \in Phases : ids \subseteq Ids /\ Work(command, phase, ids)
    PROVE  OperatorTypes'
<1>1. CASE RefuseAtOnce
  BY <1>1 DEF RefuseAtOnce, End, OperatorTypes, Phases
<1>2. CASE Refuse
  BY <1>2 DEF Refuse, End, OperatorTypes, Phases
<1>3. CASE Succeed
  BY <1>3 DEF Succeed, End, OperatorTypes, Phases
<1>4. CASE \E id : Handled(id)
  BY <1>4 DEF Handled, OperatorTypes
<1>5. CASE \E command, ids : \E phase \in Phases : ids \subseteq Ids /\ Work(command, phase, ids)
  BY <1>5 DEF Work, OperatorTypes
<1> QED
  BY <1>1, <1>2, <1>3, <1>4, <1>5

LEMMA OperatorKept == ASSUME OperatorTypes, [Next]_vars PROVE OperatorTypes'
<1>0. /\ Names \subseteq Ids /\ {} \subseteq Ids
      /\ \A ids \in {Names, {}} : ids \subseteq Ids
      /\ StagedIn(root) \subseteq Ids
  BY RemintAssumption DEF Names, OperatorTypes, StagedIn, StagedSet, NewIds, Ids
<1>1. CASE SnapshotBegins
  <2>1. Work("snapshot", "copying", Names) \/ RefuseAtOnce
    BY <1>1 DEF SnapshotBegins
  <2>2. UNCHANGED <<staged, kills>>
    BY <1>1, <2>1 DEF SnapshotBegins, Work, RefuseAtOnce
  <2> QED
    BY <1>0, <2>1, <2>2, OperatorMoves DEF Phases
<1>2. CASE SnapshotCopies \/ SwapAdds \/ SwapRemoves \/ RewriteOne
  <2>1. Refuse \/ \E id : Handled(id)
    BY <1>2 DEF SnapshotCopies, SwapAdds, SwapRemoves, RewriteOne
  <2>2. UNCHANGED <<staged, kills>>
    BY <1>2, <2>1 DEF SnapshotCopies, SwapAdds, SwapRemoves, RewriteOne, Refuse, Handled
  <2> QED
    BY <2>1, <2>2, OperatorMoves
<1>3. CASE SnapshotSeals \/ RewriteEnds \/ RegenerateWrites \/ StratumWrites \/ HeldoutWrites
  <2>1. Refuse \/ Succeed
    BY <1>3 DEF SnapshotSeals, RewriteEnds, RegenerateWrites, StratumWrites, HeldoutWrites
  <2>2. UNCHANGED <<staged, kills>>
    BY <1>3, <2>1 DEF SnapshotSeals, RewriteEnds, RegenerateWrites, StratumWrites, HeldoutWrites,
                      Refuse, Succeed
  <2> QED
    BY <2>1, <2>2, OperatorMoves
<1>4. CASE Verify
  BY <1>4 DEF Verify, End, OperatorTypes, Phases
<1>5. CASE SwapBegins \/ RewriteBegins
  <2>1. RefuseAtOnce \/ Work("swap", "entering", {}) \/ Work("rewrite", "rewriting", Names)
    BY <1>5 DEF SwapBegins, RewriteBegins
  <2>2. UNCHANGED <<staged, kills>>
    BY <1>5, <2>1 DEF SwapBegins, RewriteBegins, Work, RefuseAtOnce
  <2> QED
    BY <1>0, <2>1, <2>2, OperatorMoves DEF Phases
<1>6. CASE SwapEnters \/ SwapAdded \/ SwapLeaves
  <2>1. \/ Refuse \/ Succeed
        \/ /\ pc' \in {"entering", "adding", "removing"} /\ UNCHANGED <<touched, exit, kills>>
           /\ todo' \in {StagedIn(root), todo, {id \in Names : RootOf(id) = root /\ id \notin StagedIn(root)}}
    BY <1>6 DEF SwapEnters, SwapAdded, SwapLeaves
  <2>2. UNCHANGED staged
    BY <1>6 DEF SwapEnters, SwapAdded, SwapLeaves
  <2>3. CASE Refuse \/ Succeed
    BY <2>2, <2>3, OperatorMoves DEF Refuse, Succeed
  <2> QED
    BY <1>0, <2>1, <2>2, <2>3 DEF OperatorTypes, Phases
<1>7. CASE Regenerate \/ ReDeriveStratum \/ ReDeriveHeldout
  <2>1. \E command \in {"ledger", "stratum", "heldout"} : \E ok : Write(command, ok)
    BY <1>7 DEF Regenerate, ReDeriveStratum, ReDeriveHeldout
  <2> QED
    BY <1>0, <2>1, OperatorMoves DEF Write, Work, RefuseAtOnce, Phases
<1>8. CASE Kill \/ KillWriting
  <2>1. Killed
    BY <1>8 DEF Kill, KillWriting
  <2> QED
    BY <2>1, RemintAssumption DEF Killed, End, OperatorTypes, Phases
<1>9. CASE Restore
  BY <1>9 DEF Restore, OperatorTypes
<1>10. CASE NightLoads \/ NightExcludes \/ Check \/ UNCHANGED vars
  <2>1. UNCHANGED <<staged, operator>>
    BY <1>10 DEF NightLoads, NightExcludes, Check, vars
  <2> QED
    BY <2>1 DEF operator, OperatorTypes
<1> QED
  BY <1>1, <1>2, <1>3, <1>4, <1>5, <1>6, <1>7, <1>8, <1>9, <1>10 DEF Next

\* What the documents and the night are written from was typed before.
LEMMA DocumentsKept ==
    ASSUME CorpusInv, DocumentTypes, [Next]_vars PROVE DocumentTypes'
<1>0. Names \in SUBSET Ids /\ corpus \in [Ids -> Contents]
  BY DEF Names, CorpusInv, DiskTypes
<1>1. CASE RegenerateWrites
  BY <1>0, <1>1 DEF RegenerateWrites, DocumentTypes
<1>2. CASE StratumWrites
  <2>1. PICK measured \in SUBSET Names : stratum' = [state |-> "whole", measured |-> measured]
    BY <1>2 DEF StratumWrites
  <2> QED
    BY <1>0, <1>2, <2>1 DEF StratumWrites, DocumentTypes
<1>3. CASE HeldoutWrites
  <2>1. Now \in Documents
    BY <1>0 DEF Now, Documents, DocumentTypes
  <2> QED
    BY <1>3, <2>1 DEF HeldoutWrites, DocumentTypes
<1>4. CASE KillWriting
  BY <1>4 DEF KillWriting, DocumentTypes
<1>5. ASSUME ~RegenerateWrites, ~StratumWrites, ~HeldoutWrites, ~KillWriting
      PROVE  UNCHANGED <<ledger, stratum, heldout>>
  BY <1>5 DEF Next, vars, disk, SnapshotBegins, SnapshotCopies, SnapshotSeals, Verify, SwapBegins,
       SwapEnters, SwapAdds, SwapAdded, SwapRemoves, SwapLeaves, RewriteBegins, RewriteOne,
       RewriteEnds, Regenerate, ReDeriveStratum, ReDeriveHeldout, Write, Kill, Restore, NightLoads,
       NightExcludes, Check
<1> QED
  BY <1>1, <1>2, <1>3, <1>4, <1>5 DEF DocumentTypes

LEMMA NightKept ==
    ASSUME DocumentTypes, NightTypes, [Next]_vars PROVE NightTypes'
<1>1. heldout.document.membership \in SUBSET Ids
  BY DrawnTyped DEF DocumentTypes
<1>2. CASE NightLoads
  BY <1>2 DEF NightLoads, NightTypes, Names
<1>3. CASE NightExcludes
  <2>1. loaded' \subseteq Ids /\ UNCHANGED report
    BY <1>3 DEF NightExcludes
  <2>2. \/ UNCHANGED night
        \/ \E trained \in {{}, loaded \ heldout.document.membership} :
             night' = [over |-> "trained", trained |-> trained,
                       held |-> heldout.document.membership, once |-> Once(loaded)]
    BY <1>3 DEF NightExcludes
  <2>3. Once(loaded) \in BOOLEAN
    BY DEF Once
  <2>4. night' \in [over : {"nothing", "trained"}, trained : SUBSET Ids, held : SUBSET Ids, once : BOOLEAN]
    BY <1>1, <2>2, <2>3 DEF NightTypes
  <2> QED
    BY <2>1, <2>4 DEF NightTypes
<1>4. CASE Check
  <2>1. PICK verdict \in {"clean", "LEAKED"} :
          report' = [verdict |-> verdict, trained |-> night.trained,
                     held |-> heldout.document.membership]
    BY <1>4 DEF Check
  <2> QED
    BY <1>1, <1>4, <2>1 DEF Check, NightTypes
<1>5. ASSUME ~NightLoads, ~NightExcludes, ~Check PROVE UNCHANGED nightly
  BY <1>5 DEF Next, vars, SnapshotBegins, SnapshotCopies, SnapshotSeals, Verify, SwapBegins,
       SwapEnters, SwapAdds, SwapAdded, SwapRemoves, SwapLeaves, RewriteBegins, RewriteOne,
       RewriteEnds, Regenerate, RegenerateWrites, ReDeriveStratum, StratumWrites, ReDeriveHeldout,
       HeldoutWrites, Write, Kill, KillWriting, Killed, Restore
<1> QED
  BY <1>2, <1>3, <1>4, <1>5 DEF nightly, NightTypes

\* The type invariant, and with it that the document on disk puts each task it measured in a band
\* there is, for every corpus, staging and rule and any number of kills.
THEOREM TypesHold == Spec => []TypeOK
<1>1. Init => DocumentTypes /\ OperatorTypes /\ NightTypes
  <2> SUFFICES ASSUME Init PROVE DocumentTypes /\ OperatorTypes /\ NightTypes
    OBVIOUS
  <2>1. Drawn(OldIds, OldIds) \in Documents
    BY RealIsReal DEF Documents
  <2>2. DocumentTypes
    BY <2>1, RealIsReal, OldBytesAreOwn DEF Init, DocumentTypes
  <2>3. 0 \in 0 .. MaxKills
    BY RemintAssumption
  <2>4. OperatorTypes
    BY <2>3 DEF Init, OperatorTypes, Phases
  <2>5. NightTypes
    BY DEF Init, NightTypes, NoNight, NoReport
  <2> QED
    BY <2>2, <2>4, <2>5
<1>2. CorpusInv /\ SheetInv /\ DocumentTypes /\ OperatorTypes /\ NightTypes /\ [Next]_vars
        => (DocumentTypes /\ OperatorTypes /\ NightTypes)'
  BY DocumentsKept, OperatorKept, NightKept
<1>3. CorpusInv /\ SheetInv /\ DocumentTypes /\ OperatorTypes /\ NightTypes => TypeOK
  <2> SUFFICES ASSUME CorpusInv, SheetInv, DocumentTypes, OperatorTypes, NightTypes PROVE TypeOK
    OBVIOUS
  <2>1. /\ corpus \in [Ids -> Contents] /\ snapshot \in Snapshots
        /\ reached \in 1 .. Finished /\ root \in Roots
    BY DEF CorpusInv, DiskTypes, SheetInv, Placed
  <2>2. /\ \A part \in {"corpus", "measured", "refused", "excluded", "membership"} :
             heldout.document[part] \subseteq Ids
        /\ heldout.document.band \in [heldout.document.measured -> Bands]
    BY DrawnTyped DEF DocumentTypes
  <2>3. /\ ledger.state \in {"cut", "whole"} /\ ledger.pins \in [Ids -> Contents]
        /\ stratum.state \in {"cut", "whole"} /\ stratum.measured \subseteq Ids
        /\ heldout.state \in {"cut", "whole"}
    BY DEF DocumentTypes
  <2>4. /\ night.over \in {"nothing", "trained"} /\ night.once \in BOOLEAN
        /\ night.trained \cup night.held \subseteq Ids
        /\ report.verdict \in {"none", "clean", "LEAKED"} /\ report.trained \cup report.held \subseteq Ids
        /\ loaded \subseteq Ids
    BY DEF NightTypes
  <2> QED
    BY <2>1, <2>2, <2>3, <2>4 DEF TypeOK, OperatorTypes, Phases, Snapshots
<1> QED
  BY <1>1, <1>2, <1>3, CorpusInvHolds, SheetInvHolds, PTL DEF Spec
=============================================================================
