---------------------------- MODULE Mining_proofs ----------------------------
(***************************************************************************)
(* Theorems of Mining, for any donors, commits, nights and kills.  They    *)
(* rest on one invariant: what a running night skips holds every commit of *)
(* `--tasks` and all it has put in its delta, what it still attempts is    *)
(* outside of that, and a commit it has begun to mint passed the check of  *)
(* the held set.  What a task declares is followed from the derivation to  *)
(* the corpus beside it.                                                   *)
(***************************************************************************)
EXTENDS Mining, FiniteSetTheorems, TLAPS

\* A commit is in `--tasks` under one id.
OneIdPerCommit == \A b, c \in Base : b.sha = c.sha => b = c

Minting == {"candidate", "derive", "prove", "copy", "copying"}
InHand  == {"derive", "prove", "copy", "copying"}

Types ==
    /\ out = [i \in Ids |-> out[i]]
    /\ donor \in Nat \ {0}
    /\ membership \subseteq Base
    /\ pc \in Minting \cup {"ledger", "ledgering"} => donor \in Donors
    /\ pc \in Minting => queue \in Seq(Commits)
    /\ pc \in InHand => queue # <<>>

Skipped ==
    /\ pc # "down" => Shas(Base) \cup Shas(pairs) \subseteq accumulated
    /\ pc \in Minting => \A n \in 1..Len(queue) : queue[n] \notin accumulated
    /\ pc \in Minting \cup {"ledger", "ledgering"} =>
          \A i \in minted : i \in Ids /\ i.sha \notin accumulated /\ i.label = Labels[donor]

Once ==
    pc \in Minting =>
        /\ \A m, n \in 1..Len(queue) : m # n => queue[m] # queue[n]
        /\ \A i \in minted, n \in 1..Len(queue) : queue[n] # i.sha

Corpus ==
    /\ Shas(Minted) \cap Shas(Base) = {}
    /\ Shas(pairs) \cap Shas(Base) = {}
    /\ \A p, q \in pairs : p.sha = q.sha => p = q
    /\ pc = "drawn" => drawn \subseteq (Base \ membership) \cup Minted

Derivable ==
    /\ pc \in InHand => Head(queue) \in Holdable
    /\ Shas(Minted) \subseteq Holdable

Hashed ==
    /\ nights \in 0..MaxNights /\ (pc # "down" => nights # 0)
    /\ pc \in {"prove", "copy", "copying"} => staged \in Manifests
    /\ evidence \in {None, Torn} \cup [Ids -> Manifests \cup {None}]
    /\ pc \in Minting \cup {"ledger", "ledgering"} => \A i \in minted : out[i] \in Manifests
    /\ pc # "down" /\ evidence # Torn => \A i \in pairs :
          i \in Ids /\ evidence # None /\ evidence[i] = out[i] /\ out[i] \in Manifests
    /\ pc = "ledgering" =>
          /\ opened \in [Ids -> Manifests \cup {None}] /\ evidence = Torn
          /\ \A i \in pairs \cup minted : i \in Ids /\ opened[i] = out[i] /\ out[i] \in Manifests

MiningInv == Types /\ Skipped /\ Once /\ Corpus /\ Derivable /\ Hashed

-----------------------------------------------------------------------------
(* Lemmas about the operators. *)

\* What is drawn for a donor is a sequence of its commits outside the skip set, each once.
LEMMA SelectedIsNew ==
    ASSUME NEW q \in Selected(donor)
    PROVE  /\ q \in Seq(Commits) /\ \A n \in 1..Len(q) : q[n] \notin accumulated
           /\ \A m, n \in 1..Len(q) : m # n => q[m] # q[n]
<1> DEFINE S == Pool(donor) \ accumulated
<1>1. S \subseteq Commits
  BY DEF Pool, Candidates
<1>2. Cardinality(S) \in Nat
  BY <1>1, FS_Subset, FS_CardinalityType, MiningAssumption
<1>3. PICK k \in Nat : q \in [1..k -> S] /\ \A i, j \in 1..k : i # j => q[i] # q[j]
  BY <1>2 DEF Selected, SetToSeqs
<1> HIDE DEF S
<1>4. q \in Seq(S) /\ Len(q) = k
  BY <1>3
<1>5. q \in Seq(Commits)
  BY <1>1, <1>4
<1> QED
  BY <1>3, <1>4, <1>5 DEF S

\* Dropping the commit in hand keeps what is left a sequence of commits outside the skip set.
LEMMA TailIsNew ==
    ASSUME NEW q \in Seq(Commits), q # <<>>, NEW skip, \A n \in 1..Len(q) : q[n] \notin skip
    PROVE  Tail(q) \in Seq(Commits) /\ \A n \in 1..Len(Tail(q)) : Tail(q)[n] \notin skip
<1>1. Tail(q) \in Seq(Commits) /\ Len(Tail(q)) = Len(q) - 1 /\ Len(q) \in Nat
  OBVIOUS
<1>2. \A n \in 1..Len(Tail(q)) : Tail(q)[n] = q[n + 1] /\ n + 1 \in 1..Len(q)
  BY <1>1
<1> QED
  BY <1>1, <1>2

\* What is left behind the commit in hand does not name it again.
LEMMA TailIsOnce ==
    ASSUME NEW q \in Seq(Commits), q # <<>>, \A m, n \in 1..Len(q) : m # n => q[m] # q[n]
    PROVE  /\ \A m, n \in 1..Len(Tail(q)) : m # n => Tail(q)[m] # Tail(q)[n]
           /\ \A n \in 1..Len(Tail(q)) : Tail(q)[n] # Head(q) /\ \E m \in 1..Len(q) : q[m] = Tail(q)[n]
<1>1. Tail(q) \in Seq(Commits) /\ Len(Tail(q)) = Len(q) - 1 /\ Len(q) \in Nat /\ Head(q) = q[1]
  OBVIOUS
<1>2. \A n \in 1..Len(Tail(q)) : Tail(q)[n] = q[n + 1] /\ n + 1 \in 1..Len(q) /\ n + 1 # 1
  BY <1>1
<1>3. 1 \in 1..Len(q)
  BY <1>1
<1>4. \A m, n \in 1..Len(Tail(q)) : m # n => m + 1 # n + 1
  BY <1>1
<1> QED
  BY <1>1, <1>2, <1>3, <1>4

\* The commit in hand is one of the donor's, outside the skip set; its id carries the donor's label.
LEMMA HeadIsNew ==
    ASSUME Types, Skipped, pc \in InHand
    PROVE  Head(queue) \in Commits /\ Head(queue) \notin accumulated /\ Id \in Ids
           /\ Id.sha = Head(queue) /\ Id.label = Labels[donor]
<1>1. queue \in Seq(Commits) /\ queue # <<>> /\ donor \in Donors
  BY DEF Types, InHand, Minting
<1>2. Head(queue) = queue[1] /\ 1 \in 1..Len(queue) /\ queue[1] \in Commits
  BY <1>1
<1>3. queue[1] \notin accumulated
  BY <1>2 DEF Skipped, InHand, Minting
<1> QED
  BY <1>1, <1>2, <1>3 DEF Id, Ids, Donors

\* Without a conftest between the gold patch and the tests, the tree the labels are derived on is
\* the one STRICT verifies the gold patch on.
LEMMA HoldableIsOneTree == Holdable \subseteq OneTree
<1>1. SUFFICES ASSUME NEW c \in Holdable PROVE c \in OneTree
  OBVIOUS
<1> DEFINE commit == Nature[c].commit
<1>2. c \in Commits /\ HeldPaths(commit) \cap GoldPaths(commit) = {}
  BY <1>1 DEF Holdable, OverDeclared
<1>3. Classify(commit).held \subseteq HeldPaths(commit)
  BY DEF HeldPaths
<1>4. \A p \in commit.tree :
        (CASE p \in HeldPaths(commit) -> BlobAt(commit, p)
           [] p \in GoldPaths(commit) \ HeldPaths(commit) -> "commit"
           [] OTHER                    -> "parent")
        = IF p \in Classify(commit).held \cup GoldPaths(commit) THEN "commit" ELSE "parent"
  <2> TAKE p \in commit.tree
  <2>1. CASE p \in HeldPaths(commit)
    BY <1>2, <1>3, <2>1 DEF BlobAt
  <2>2. CASE p \in GoldPaths(commit)
    BY <1>2, <1>3, <2>2
  <2>3. CASE p \notin HeldPaths(commit) /\ p \notin GoldPaths(commit)
    BY <1>3, <2>3
  <2> QED
    BY <2>1, <2>2, <2>3
<1>5. DerivedTree(commit) = VerifiedTree(commit)
  BY <1>4 DEF DerivedTree, VerifiedTree
<1> QED
  BY <1>2, <1>5 DEF OneTree

-----------------------------------------------------------------------------
(* The invariant. *)

\* A candidate that is given up leaves the rest of the queue.
LEMMA AttemptedKeeps ==
    ASSUME Types, Skipped, pc \in Minting, queue # <<>>, Attempted, UNCHANGED accumulated
    PROVE  /\ queue' \in Seq(Commits) /\ \A n \in 1..Len(queue') : queue'[n] \notin accumulated'
           /\ pc' = "candidate"
<1>1. queue \in Seq(Commits) /\ \A n \in 1..Len(queue) : queue[n] \notin accumulated
  BY DEF Types, Skipped
<1> QED
  BY <1>1, TailIsNew DEF Attempted

LEMMA TypesStep == ASSUME Types, Skipped, [Next]_vars PROVE Types'
<1> USE DEF Types, Minting, InHand
<1>1. CASE \E listed \in BOOLEAN : Begin(listed)
  BY <1>1 DEF Begin, disk, mint
<1>2. CASE StartDonor
  BY <1>2, SelectedIsNew DEF StartDonor, disk
<1>3. CASE Provision \/ Reject \/ Derive \/ Prove
  <2>1. UNCHANGED <<out, donor, membership, accumulated>> /\ pc \in Minting /\ queue # <<>>
    BY <1>3 DEF Provision, Reject, Derive, Prove, Mine, Attempts, disk
  <2>2. Attempted \/ (pc' \in InHand /\ UNCHANGED queue)
    BY <1>3 DEF Provision, Reject, Derive, Prove
  <2>3. CASE Attempted
    BY <2>1, <2>3, AttemptedKeeps
  <2>4. CASE pc' \in InHand /\ UNCHANGED queue
    BY <2>1, <2>4
  <2> QED
    BY <2>2, <2>3, <2>4
<1>4. CASE CopyBegins
  BY <1>4 DEF CopyBegins, Mine
<1>5. CASE CopyEnds
  <2>1. out' = [i \in Ids |-> out'[i]] /\ pc \in Minting /\ queue # <<>> /\ Attempted
    BY <1>5 DEF CopyEnds, Mine
  <2>2. UNCHANGED <<donor, membership, accumulated>>
    BY <1>5 DEF CopyEnds, Mine
  <2> QED
    BY <2>1, <2>2, AttemptedKeeps
<1>6. CASE MintEnds
  BY <1>6 DEF MintEnds, disk
<1>7. CASE LedgerRaises \/ StageRaises \/ LoadRaises \/ Load \/ DonorsDone \/ End \/ Kill
  BY <1>7 DEF LedgerRaises, StageRaises, LoadRaises, Load, DonorsDone, End, Kill, disk, mint
<1>8. CASE LedgerBegins \/ LedgerEnds \/ DonorAbsent
  BY <1>8 DEF LedgerBegins, LedgerEnds, DonorAbsent, disk
<1>9. CASE Commit \/ Clean \/ UNCHANGED vars
  BY <1>9 DEF Commit, Clean, vars, disk, mint
<1> QED
  BY <1>1, <1>2, <1>3, <1>4, <1>5, <1>6, <1>7, <1>8, <1>9 DEF Next, Night, Mint

LEMMA SkippedStep == ASSUME Types, Skipped, [Next]_vars PROVE Skipped'
<1> USE DEF Skipped, Minting, InHand
<1>1. CASE \E listed \in BOOLEAN : Begin(listed)
  BY <1>1 DEF Begin, Existing, Shas
<1>2. CASE StartDonor
  BY <1>2, SelectedIsNew DEF StartDonor
<1>3. CASE Provision \/ Reject \/ Derive \/ Prove
  <2>1. UNCHANGED <<donor, minted, pairs, accumulated>> /\ pc \in Minting /\ queue # <<>>
    BY <1>3 DEF Provision, Reject, Derive, Prove, Mine, Attempts, Types
  <2>2. Attempted \/ (pc' \in InHand /\ UNCHANGED queue)
    BY <1>3 DEF Provision, Reject, Derive, Prove
  <2>3. CASE Attempted
    BY <2>1, <2>3, AttemptedKeeps DEF Shas
  <2>4. CASE pc' \in InHand /\ UNCHANGED queue
    BY <2>1, <2>4 DEF Shas
  <2> QED
    BY <2>2, <2>3, <2>4
<1>4. CASE CopyBegins
  BY <1>4 DEF CopyBegins, Mine, Shas
<1>5. CASE CopyEnds
  <2>1. UNCHANGED <<donor, pairs, accumulated>> /\ minted' = minted \cup {Id}
        /\ pc = "copying" /\ queue # <<>> /\ Attempted
    BY <1>5 DEF CopyEnds, Mine, Types
  <2>2. Id \in Ids /\ Id.sha \notin accumulated /\ Id.label = Labels[donor]
    BY <2>1, HeadIsNew
  <2>3. \A i \in minted' : i \in Ids /\ i.sha \notin accumulated /\ i.label = Labels[donor]
    BY <2>1, <2>2
  <2> QED
    BY <2>1, <2>3, AttemptedKeeps DEF Shas
<1>6. CASE MintEnds
  BY <1>6 DEF MintEnds, Shas
<1>7. CASE LedgerRaises \/ StageRaises \/ LoadRaises \/ Load \/ DonorsDone \/ End \/ Kill
  BY <1>7 DEF LedgerRaises, StageRaises, LoadRaises, Load, DonorsDone, End, Kill, mint, Shas
<1>8. CASE LedgerBegins \/ DonorAbsent
  BY <1>8 DEF LedgerBegins, DonorAbsent, Shas
<1>9. CASE LedgerEnds
  BY <1>9 DEF LedgerEnds, Shas
<1>10. CASE Commit \/ Clean \/ UNCHANGED vars
  BY <1>10 DEF Commit, Clean, vars, mint, Shas
<1> QED
  BY <1>1, <1>2, <1>3, <1>4, <1>5, <1>6, <1>7, <1>8, <1>9, <1>10 DEF Next, Night, Mint

LEMMA OnceStep == ASSUME Types, Skipped, Once, [Next]_vars PROVE Once'
<1> USE DEF Once, Minting
<1>1. CASE StartDonor
  BY <1>1, SelectedIsNew DEF StartDonor
<1>2. CASE Provision \/ Reject \/ Derive \/ Prove
  <2>1. UNCHANGED minted /\ pc \in Minting /\ queue # <<>> /\ queue \in Seq(Commits)
    BY <1>2 DEF Provision, Reject, Derive, Prove, Mine, Attempts, Types, InHand
  <2>2. queue' = Tail(queue) \/ UNCHANGED queue
    BY <1>2 DEF Provision, Reject, Derive, Prove, Attempted
  <2>3. CASE queue' = Tail(queue)
    <3>1. \A m, n \in 1..Len(queue') : m # n => queue'[m] # queue'[n]
      BY <2>1, <2>3, TailIsOnce
    <3>2. \A n \in 1..Len(queue') : \E m \in 1..Len(queue) : queue[m] = queue'[n]
      BY <2>1, <2>3, TailIsOnce
    <3>3. \A i \in minted', n \in 1..Len(queue') : queue'[n] # i.sha
      BY <2>1, <3>2
    <3> QED
      BY <3>1, <3>3
  <2>4. CASE UNCHANGED queue
    BY <2>1, <2>4
  <2> QED
    BY <2>2, <2>3, <2>4
<1>3. CASE CopyBegins
  BY <1>3 DEF CopyBegins, Mine
<1>4. CASE CopyEnds
  <2>1. /\ pc = "copying" /\ queue # <<>> /\ queue \in Seq(Commits) /\ queue' = Tail(queue)
        /\ minted' = minted \cup {Id}
    BY <1>4 DEF CopyEnds, Mine, Attempted, Types, InHand
  <2>2. Id.sha = Head(queue)
    BY DEF Id
  <2>3. \A n \in 1..Len(queue') : queue'[n] # Head(queue) /\ \E m \in 1..Len(queue) : queue[m] = queue'[n]
    BY <2>1, TailIsOnce
  <2>4. \A m, n \in 1..Len(queue') : m # n => queue'[m] # queue'[n]
    BY <2>1, TailIsOnce
  <2>5. \A n \in 1..Len(queue') : queue'[n] # Id.sha
    BY <2>2, <2>3
  <2>6. \A i \in minted, n \in 1..Len(queue') : queue'[n] # i.sha
    BY <2>1, <2>3
  <2> QED
    BY <2>1, <2>4, <2>5, <2>6
<1>5. CASE (\E listed \in BOOLEAN : Begin(listed)) \/ StageRaises \/ MintEnds \/ LedgerRaises
           \/ LedgerBegins \/ LedgerEnds \/ DonorsDone
  BY <1>5 DEF Begin, StageRaises, MintEnds, LedgerRaises, LedgerBegins, LedgerEnds, DonorsDone
<1>6. CASE LoadRaises \/ Load \/ End \/ DonorAbsent \/ Kill \/ Commit \/ Clean \/ UNCHANGED vars
  BY <1>6 DEF LoadRaises, Load, End, DonorAbsent, Kill, Commit, Clean, vars, mint
<1> QED
  BY <1>1, <1>2, <1>3, <1>4, <1>5, <1>6 DEF Next, Night, Mint

\* A copy adds to the corpus the id in hand and nothing else.
LEMMA CopyAdds ==
    ASSUME Types, CopyBegins \/ CopyEnds PROVE Minted' \subseteq Minted \cup {Id}
BY DEF Types, CopyBegins, CopyEnds, Minted

LEMMA CorpusStep == ASSUME Types, Skipped, Corpus, [Next]_vars PROVE Corpus'
<1> USE DEF Corpus
<1>1. CASE \E listed \in BOOLEAN : Begin(listed)
  BY <1>1 DEF Begin, disk, Minted, Shas
<1>2. CASE CopyBegins \/ CopyEnds
  <2>1. pc \in InHand /\ UNCHANGED pairs /\ pc' # "drawn"
    BY <1>2 DEF CopyBegins, CopyEnds, Mine, Attempted, InHand
  <2>2. Id.sha \notin Shas(Base)
    BY <2>1, HeadIsNew DEF Skipped, InHand
  <2>3. Shas(Minted') \cap Shas(Base) = {}
    BY <2>2, CopyAdds, <1>2 DEF Shas
  <2> QED
    BY <2>1, <2>3 DEF Shas
<1>3. CASE LedgerEnds
  <2>1. \A i \in minted : i \in Ids /\ i.sha \notin accumulated /\ i.label = Labels[donor]
    BY <1>3 DEF LedgerEnds, Skipped
  <2>2. Shas(Base) \cup Shas(pairs) \subseteq accumulated
    BY <1>3 DEF LedgerEnds, Skipped
  <2>3. \A i, j \in minted : i.sha = j.sha => i = j
    BY <2>1 DEF Ids
  <2>4. pairs' = pairs \cup minted /\ UNCHANGED out /\ pc' = "donor"
    BY <1>3 DEF LedgerEnds
  <2>5. Shas(pairs') \cap Shas(Base) = {}
    BY <2>1, <2>2, <2>4 DEF Shas
  <2>6. \A i \in pairs, j \in minted : i.sha # j.sha
    BY <2>1, <2>2 DEF Shas
  <2>7. \A p, q \in pairs' : p.sha = q.sha => p = q
    BY <2>3, <2>4, <2>6
  <2> QED
    BY <2>4, <2>5, <2>7 DEF Minted, Shas
<1>4. CASE Load
  BY <1>4 DEF Load, Loaded, disk, Minted, Shas
<1>5. CASE Provision \/ Reject \/ Derive \/ StageRaises \/ Prove
  BY <1>5 DEF Provision, Reject, Derive, StageRaises, Prove, Mine, Attempted, disk, Minted, Shas
<1>6. CASE StartDonor \/ MintEnds \/ LedgerRaises \/ LedgerBegins \/ DonorsDone \/ LoadRaises \/ End
  BY <1>6 DEF StartDonor, MintEnds, LedgerRaises, LedgerBegins, DonorsDone, LoadRaises, End, disk,
     Minted, Shas
<1>7. CASE DonorAbsent \/ Kill \/ Commit \/ Clean \/ UNCHANGED vars
  BY <1>7 DEF DonorAbsent, Kill, Commit, Clean, vars, disk, Minted, Shas
<1> QED
  BY <1>1, <1>2, <1>3, <1>4, <1>5, <1>6, <1>7 DEF Next, Night, Mint

LEMMA DerivableStep == ASSUME Types, Skipped, Derivable, [Next]_vars PROVE Derivable'
<1> USE DEF Derivable, InHand
<1>1. CASE Provision
  BY <1>1 DEF Provision, Mine, Attempted, Minted
<1>2. CASE CopyBegins \/ CopyEnds
  <2>1. pc \in InHand /\ (pc' \in InHand => UNCHANGED queue)
    BY <1>2 DEF CopyBegins, CopyEnds, Mine, Attempted
  <2>2. Id.sha \in Holdable
    BY <2>1, HeadIsNew
  <2>3. Shas(Minted') \subseteq Holdable
    BY <1>2, <2>2, CopyAdds DEF Shas
  <2> QED
    BY <2>1, <2>3 DEF Shas
<1>3. CASE Reject \/ Derive \/ Prove
  BY <1>3 DEF Reject, Derive, Prove, Mine, Attempted, disk, Minted
<1>4. CASE \E listed \in BOOLEAN : Begin(listed)
  BY <1>4 DEF Begin, disk, Minted
<1>5. CASE StartDonor \/ MintEnds \/ LedgerRaises \/ LedgerBegins \/ LedgerEnds \/ DonorsDone
  BY <1>5 DEF StartDonor, MintEnds, LedgerRaises, LedgerBegins, LedgerEnds, DonorsDone, disk, Minted
<1>6. CASE StageRaises \/ LoadRaises \/ Load \/ End \/ DonorAbsent \/ Kill
  BY <1>6 DEF StageRaises, LoadRaises, Load, End, DonorAbsent, Kill, disk, Minted
<1>7. CASE Commit \/ Clean \/ UNCHANGED vars
  BY <1>7 DEF Commit, Clean, vars, disk, mint, Minted
<1> QED
  BY <1>1, <1>2, <1>3, <1>4, <1>5, <1>6, <1>7 DEF Next, Night, Mint

\* What a derivation declares is a manifest.
LEMMA DerivedTyped ==
    ASSUME Hashed, pc = "derive", NEW before, NEW after, NEW repeat
    PROVE  Derived(before, after, repeat) \in Manifests
<1>1. nights \in 1..MaxNights
  BY MiningAssumption DEF Hashed
<1> QED
  BY <1>1 DEF Derived, Flipped, Manifests

\* The ledger a mint rewrites names what it copied and keeps the rest.
LEMMA MergedKeeps ==
    ASSUME Types, Skipped, Hashed, pc = "ledger", evidence # Torn
    PROVE  /\ Merged \in [Ids -> Manifests \cup {None}]
           /\ \A i \in pairs \cup minted : i \in Ids /\ Merged[i] = out[i] /\ out[i] \in Manifests
<1>1. \A i \in minted : i \in Ids /\ out[i] \in Manifests
  BY DEF Skipped, Hashed
<1>2. \A i \in pairs : i \in Ids /\ evidence # None /\ evidence[i] = out[i] /\ out[i] \in Manifests
  BY DEF Hashed
<1>3. Entries \in [Ids -> Manifests \cup {None}]
  BY DEF Hashed, Entries
<1>4. \A i \in pairs : Entries[i] = out[i]
  BY <1>2 DEF Entries
<1> QED
  BY <1>1, <1>2, <1>3, <1>4 DEF Merged

LEMMA HashedStep == ASSUME Types, Skipped, Once, Hashed, [Next]_vars PROVE Hashed'
<1> USE DEF Hashed, Minting
<1>1. CASE \E listed \in BOOLEAN : Begin(listed)
  BY <1>1, MiningAssumption DEF Begin, disk, mint
<1>2. CASE StartDonor
  BY <1>2 DEF StartDonor, disk
<1>3. CASE Provision \/ Reject \/ Prove
  <2>1. UNCHANGED <<out, evidence, minted, pairs, nights>> /\ pc \in Minting
    BY <1>3 DEF Provision, Reject, Prove, Mine, disk
  <2>2. pc' \in {"candidate", "derive", "copy"} /\ (pc' = "copy" => pc = "prove" /\ UNCHANGED staged)
    BY <1>3 DEF Provision, Reject, Prove, Mine, Attempted
  <2> QED
    BY <2>1, <2>2
<1>4. CASE Derive
  <2>1. UNCHANGED <<out, evidence, minted, pairs, nights>> /\ pc = "derive"
    BY <1>4 DEF Derive, Mine, disk
  <2>2. pc' = "candidate" \/ (pc' = "prove" /\ staged' \in Manifests)
    BY <1>4, <2>1, DerivedTyped DEF Derive, Attempted
  <2> QED
    BY <2>1, <2>2
<1>5. CASE CopyBegins \/ CopyEnds
  <2>1. /\ pc \in InHand /\ pc' \in {"candidate", "copying"} /\ UNCHANGED <<evidence, pairs, nights>>
        /\ out = [i \in Ids |-> out[i]]
    BY <1>5 DEF CopyBegins, CopyEnds, Mine, Attempted, InHand, Types
  <2>2. \A i \in Ids : i # Id => out'[i] = out[i]
    BY <1>5, <2>1 DEF CopyBegins, CopyEnds
  <2>3. \A i \in pairs : i # Id
    BY <2>1, HeadIsNew DEF Skipped, InHand, Shas
  <2>4. evidence # Torn => \A i \in pairs :
          i \in Ids /\ evidence # None /\ evidence[i] = out'[i] /\ out'[i] \in Manifests
    BY <2>1, <2>2, <2>3 DEF InHand
  <2>5. \A i \in minted : i \in Ids /\ out[i] \in Manifests
    BY <2>1 DEF Skipped, InHand
  <2>6. \A i \in minted' : out'[i] \in Manifests
    <3>1. CASE CopyBegins
      <4>1. \A i \in minted : i # Id
        BY <2>1 DEF Id, Once, Types, InHand
      <4> QED
        BY <2>2, <2>5, <3>1, <4>1 DEF CopyBegins
    <3>2. CASE CopyEnds
      <4>1. Id \in Ids /\ staged \in Manifests
        BY <2>1, <3>2, HeadIsNew DEF CopyEnds, Mine
      <4>2. minted' = minted \cup {Id} /\ out'[Id] = staged
        BY <2>1, <3>2, <4>1 DEF CopyEnds
      <4> QED
        BY <2>2, <2>5, <4>1, <4>2
    <3> QED
      BY <1>5, <3>1, <3>2
  <2>7. pc' = "copying" => staged' \in Manifests
    BY <1>5 DEF CopyBegins, CopyEnds, Mine, Attempted
  <2> QED
    BY <2>1, <2>4, <2>6, <2>7 DEF InHand
<1>6. CASE MintEnds
  BY <1>6 DEF MintEnds, disk
<1>7. CASE LedgerBegins
  <2>1. /\ pc = "ledger" /\ evidence # Torn /\ pc' = "ledgering" /\ opened' = Merged
        /\ evidence' = Torn /\ UNCHANGED <<out, minted, pairs, nights>>
    BY <1>7 DEF LedgerBegins
  <2> QED
    BY <2>1, MergedKeeps
<1>8. CASE LedgerEnds
  BY <1>8, MiningAssumption DEF LedgerEnds
<1>9. CASE LedgerRaises \/ StageRaises \/ LoadRaises \/ Load \/ DonorsDone \/ End \/ Kill
  BY <1>9 DEF LedgerRaises, StageRaises, LoadRaises, Load, DonorsDone, End, Kill, disk, mint
<1>10. CASE DonorAbsent \/ Commit \/ Clean \/ UNCHANGED vars
  BY <1>10 DEF DonorAbsent, Commit, Clean, vars, disk, mint
<1> QED
  BY <1>1, <1>2, <1>3, <1>4, <1>5, <1>6, <1>7, <1>8, <1>9, <1>10 DEF Next, Night, Mint

LEMMA MiningInvariant == Spec => []MiningInv
<1>1. Init => MiningInv
  <2> SUFFICES ASSUME Init PROVE MiningInv
    OBVIOUS
  <2>1. Minted = {} /\ Shas({}) = {}
    BY DEF Init, Minted, Shas
  <2> QED
    BY <2>1, MiningAssumption
       DEF Init, MiningInv, Types, Skipped, Once, Corpus, Derivable, Hashed, Minting, InHand
<1>2. MiningInv /\ [Next]_vars => MiningInv'
  BY TypesStep, SkippedStep, OnceStep, CorpusStep, DerivableStep, HashedStep DEF MiningInv
<1> QED
  BY <1>1, <1>2, PTL DEF Spec

-----------------------------------------------------------------------------
(* What is minted does what it declares. *)

\* What a manifest of a commit declares is what the commit does; where the import roots leave its
\* tests to another copy of the code, only a flaky one can have turned.
Live(m, c) ==
    /\ m \in Manifests /\ m.fail_to_pass # {}
    /\ \A t \in m.fail_to_pass :
          Nature[c].tests[t] = "flaky" \/ (c \in Reached /\ Nature[c].tests[t] = "turns")
    /\ c \in Reached => \A t \in m.pass_to_pass : Nature[c].tests[t] \in {"green", "flaky"}

Lively ==
    /\ pc \in {"prove", "copy", "copying"} => Live(staged, Head(queue))
    /\ \A i \in Minted : out[i] # Torn => Live(out[i], i.sha)
    /\ pc = "drawn" => \A i \in Minted : out[i] # Torn

\* What a steady test shows is decided by whether the code it sees has the patch.
LEMMA SteadyShows ==
    ASSUME NEW kind \in Kinds \ {"flaky"}, NEW patched \in BOOLEAN,
           NEW r \in Shows(kind, patched), NEW s \in Shows(kind, patched)
    PROVE  r = s
<1>1. CASE kind \in {"turns", "breaks"}
  BY <1>1 DEF Shows
<1>2. CASE kind = "green"
  BY <1>2 DEF Shows
<1>3. CASE kind = "red"
  BY <1>3 DEF Shows
<1> QED
  BY <1>1, <1>2, <1>3 DEF Kinds

\* Beyond the roots a steady test shows the same with and without the patch.
LEMMA UnreachedIsSteady ==
    ASSUME NEW c \in Commits \ Reached, NEW t \in Tests,
           Nature[c].tests[t] \in Kinds, Nature[c].tests[t] # "flaky",
           NEW r \in Shown(c, t, FALSE), NEW s \in Shown(c, t, TRUE)
    PROVE  r = s
<1>1. CASE Nature[c].project.copy = "none"
  BY <1>1 DEF Shown
<1>2. CASE Nature[c].project.copy # "none"
  <2> DEFINE copied == Nature[c].project.copy = "new"
  <2>1. r \in Shows(Nature[c].tests[t], copied) /\ s \in Shows(Nature[c].tests[t], copied)
    BY <1>2 DEF Shown
  <2>2. copied \in BOOLEAN
    OBVIOUS
  <2> HIDE DEF copied
  <2> QED
    BY <2>1, <2>2, SteadyShows
<1> QED
  BY <1>1, <1>2

\* Whatever the three runs showed, what is derived from them is true of the commit.
LEMMA DerivedIsLive ==
    ASSUME NEW c \in Commits, NEW before \in Runs(c, FALSE), NEW after \in Runs(c, TRUE), NEW repeat,
           Derived(before, after, repeat) \in Manifests,
           Derived(before, after, repeat).fail_to_pass # {}
    PROVE  Live(Derived(before, after, repeat), c)
<1> DEFINE m == Derived(before, after, repeat)
<1>1. Nature[c].tests \in [Tests -> Kinds]
  BY MiningAssumption
<1>2. ASSUME NEW t \in Tests, c \in Reached
      PROVE  /\ before[t] = "failed" /\ after[t] = "passed" => Nature[c].tests[t] \in {"turns", "flaky"}
             /\ before[t] = "passed" /\ after[t] = "passed" => Nature[c].tests[t] \in {"green", "flaky"}
  <2>1. before[t] \in Shows(Nature[c].tests[t], FALSE) /\ after[t] \in Shows(Nature[c].tests[t], TRUE)
    BY <1>2 DEF Runs, Shown
  <2>2. Nature[c].tests[t] \in Kinds
    BY <1>1
  <2>3. CASE Nature[c].tests[t] = "breaks"
    BY <2>1, <2>3 DEF Shows
  <2>4. CASE Nature[c].tests[t] = "red"
    BY <2>1, <2>4 DEF Shows
  <2>5. CASE Nature[c].tests[t] = "turns"
    BY <2>1, <2>5 DEF Shows
  <2>6. CASE Nature[c].tests[t] = "green"
    BY <2>1, <2>6 DEF Shows
  <2>7. CASE Nature[c].tests[t] = "flaky"
    BY <2>7
  <2> QED
    BY <2>2, <2>3, <2>4, <2>5, <2>6, <2>7 DEF Kinds
<1>5. ASSUME NEW t \in Tests, c \notin Reached, before[t] = "failed", after[t] = "passed"
      PROVE  Nature[c].tests[t] = "flaky"
  <2>1. before[t] \in Shown(c, t, FALSE) /\ after[t] \in Shown(c, t, TRUE)
    BY DEF Runs
  <2>2. Nature[c].tests[t] \in Kinds
    BY <1>1
  <2> QED
    BY <1>5, <2>1, <2>2, UnreachedIsSteady
<1>3. \A t \in m.fail_to_pass : t \in Tests /\ after[t] = "passed" /\ before[t] = "failed"
  BY DEF Derived, Flipped
<1>4. \A t \in m.pass_to_pass : t \in Tests /\ after[t] = "passed" /\ before[t] = "passed"
  BY DEF Derived, Flipped
<1> HIDE DEF m
<1> QED
  BY <1>2, <1>3, <1>4, <1>5 DEF Live, m

LEMMA LivelyStep == ASSUME MiningInv, Lively, [Next]_vars PROVE Lively'
<1> USE DEF Lively
<1>1. CASE Derive
  <2>1. pc = "derive" /\ UNCHANGED out /\ Head(queue) \in Commits
    BY <1>1, HeadIsNew DEF Derive, Mine, disk, MiningInv, InHand
  <2>2. \/ pc' = "candidate"
        \/ /\ pc' = "prove" /\ UNCHANGED queue
           /\ \E before \in Runs(Head(queue), FALSE), after, repeat \in Runs(Head(queue), TRUE) :
                staged' = Derived(before, after, repeat) /\ staged'.fail_to_pass # {}
    BY <1>1 DEF Derive, Attempted
  <2>3. pc' = "prove" => Live(staged', Head(queue'))
    <3>1. ASSUME NEW before \in Runs(Head(queue), FALSE), NEW after \in Runs(Head(queue), TRUE),
                 NEW repeat \in Runs(Head(queue), TRUE),
                 staged' = Derived(before, after, repeat), staged'.fail_to_pass # {}
          PROVE  Live(staged', Head(queue))
      BY <2>1, <3>1, DerivedTyped, DerivedIsLive DEF MiningInv
    <3> QED
      BY <2>2, <3>1
  <2> QED
    BY <2>1, <2>2, <2>3 DEF Minted
<1>2. CASE Provision \/ Reject \/ Prove
  <2>1. UNCHANGED out
    BY <1>2 DEF Provision, Reject, Prove, Mine, disk
  <2>2. \/ pc' \in {"candidate", "derive"}
        \/ pc = "prove" /\ pc' = "copy" /\ UNCHANGED <<queue, staged>>
    BY <1>2 DEF Provision, Reject, Prove, Mine, Attempted
  <2> QED
    BY <2>1, <2>2 DEF Minted
<1>3. CASE CopyBegins \/ CopyEnds
  <2>1. /\ pc \in InHand /\ Live(staged, Head(queue)) /\ DOMAIN out = Ids
        /\ pc' = "candidate" \/ (pc' = "copying" /\ UNCHANGED <<queue, staged>>)
        /\ out' = [out EXCEPT ![Id] = Torn] \/ out' = [out EXCEPT ![Id] = staged]
    BY <1>3 DEF CopyBegins, CopyEnds, Mine, Attempted, InHand, MiningInv, Types
  <2>2. Id \in Ids /\ Id.sha = Head(queue)
    BY <2>1, HeadIsNew DEF MiningInv
  <2>3. ASSUME NEW i \in Minted', out'[i] # Torn PROVE Live(out'[i], i.sha)
    <3>1. i \in Ids /\ out'[i] # None
      BY DEF Minted
    <3>2. CASE i = Id
      <4>1. out'[i] = staged
        BY <2>1, <2>2, <2>3, <3>2
      <4> QED
        BY <2>1, <2>2, <3>2, <4>1
    <3>3. CASE i # Id
      <4>1. out'[i] = out[i]
        BY <2>1, <3>1, <3>3
      <4> QED
        BY <2>3, <3>1, <4>1 DEF Minted
    <3> QED
      BY <3>2, <3>3
  <2> QED
    BY <2>1, <2>3
<1>4. CASE Load
  BY <1>4 DEF Load, disk, Minted
<1>5. CASE \E listed \in BOOLEAN : Begin(listed)
  BY <1>5 DEF Begin, disk, Minted
<1>6. CASE StartDonor \/ MintEnds \/ LedgerRaises \/ LedgerBegins \/ LedgerEnds \/ DonorsDone
  BY <1>6 DEF StartDonor, MintEnds, LedgerRaises, LedgerBegins, LedgerEnds, DonorsDone, disk, Minted
<1>7. CASE StageRaises \/ LoadRaises \/ End \/ DonorAbsent \/ Kill
  BY <1>7 DEF StageRaises, LoadRaises, End, DonorAbsent, Kill, disk, Minted
<1>8. CASE Commit \/ Clean \/ UNCHANGED vars
  BY <1>8 DEF Commit, Clean, vars, disk, mint, Minted
<1> QED
  BY <1>1, <1>2, <1>3, <1>4, <1>5, <1>6, <1>7, <1>8 DEF Next, Night, Mint

-----------------------------------------------------------------------------
(* The theorems. *)

\* Where a commit is in `--tasks` under one id, no night draws a held-out commit, under whatever
\* label and from whatever donor it was re-mined, whatever was killed before (remine.py:32-36).
THEOREM HeldoutStaysOutHolds == ASSUME OneIdPerCommit PROVE Spec => []HeldoutStaysOut
<1>1. MiningInv => HeldoutStaysOut
  <2> SUFFICES ASSUME MiningInv, pc = "drawn", NEW i \in drawn, NEW h \in membership, i.sha = h.sha
               PROVE  FALSE
    BY DEF HeldoutStaysOut, Shas
  <2>1. h \in Base /\ (i \in Base \ membership \/ i \in Minted)
    BY DEF MiningInv, Types, Corpus
  <2>2. CASE i \in Base \ membership
    BY <2>1, <2>2, OneIdPerCommit DEF OneIdPerCommit
  <2>3. CASE i \in Minted
    BY <2>1, <2>3 DEF MiningInv, Corpus, Shas
  <2> QED
    BY <2>1, <2>2, <2>3
<1> QED
  BY <1>1, MiningInvariant, PTL

\* Whatever history donors share, the delta of a night names no commit of its corpus and none twice
\* (remine.py:110-112).
THEOREM NothingTwiceHolds == Spec => []NothingTwice
<1>1. MiningInv => NothingTwice
  BY DEF MiningInv, Corpus, NothingTwice
<1> QED
  BY <1>1, MiningInvariant, PTL

\* Every minted task was derived on the tree STRICT verifies it on, for any layout of its repository
\* (held.py:118-139).
THEOREM LabelsAreOfTheTreeHolds == Spec => []LabelsAreOfTheTree
<1>1. MiningInv => LabelsAreOfTheTree
  BY HoldableIsOneTree DEF MiningInv, Derivable, LabelsAreOfTheTree
<1> QED
  BY <1>1, MiningInvariant, PTL

\* What a night's delta names is on disk, and the evidence beside it hashes those very bytes, for
\* every donor of the night (mine.py:415-432).
THEOREM EvidenceAccountsHolds == Spec => []EvidenceAccounts
<1>1. MiningInv => EvidenceAccounts
  BY DEF MiningInv, Hashed, EvidenceAccounts
<1> QED
  BY <1>1, MiningInvariant, PTL

\* What is minted does what it declares, at every step of every night.
LEMMA MintedInvariant == Spec => [](MiningInv /\ Lively)
<1>1. Init => Lively
  <2> SUFFICES ASSUME Init PROVE Lively
    OBVIOUS
  <2>1. Minted = {} /\ Shas({}) = {}
    BY DEF Init, Minted, Shas
  <2> QED
    BY <2>1 DEF Init, Lively
<1>2. MiningInv /\ Lively /\ [Next]_vars => Lively'
  BY LivelyStep
<1> QED
  BY <1>1, <1>2, MiningInvariant, PTL DEF Spec

\* What a night draws of its re-mine was written whole, and no test it declares does otherwise than
\* declared, however its runs came out and whatever was killed or cut short before (mine.py:20-24,
\* derive.py:95-191).
THEOREM DrawnIsLiveHolds == Spec => []DrawnIsLive
<1>1. Lively => DrawnIsLive
  BY DEF Lively, Live, DrawnIsLive
<1> QED
  BY <1>1, MintedInvariant, PTL

\* However a project's layout is declared, guessed or hidden, and whatever copy of its code the
\* environment brings, a steady test of a minted task turned green with the checkout's own code: a
\* wrong import root can only have minted a flaky test (environment.py:315-341, derive.py:151-191).
THEOREM OwnCodeDecidesHolds == Spec => []OwnCodeDecides
<1>1. Lively => OwnCodeDecides
  BY DEF Lively, Live, OwnCodeDecides
<1> QED
  BY <1>1, MintedInvariant, PTL

-----------------------------------------------------------------------------
(* The type invariant. *)

\* A commit named by an id, of the corpus or minted, is a commit.
LEMMA ShasAreCommits == ASSUME NEW ids \in SUBSET (Base \cup Ids) PROVE Shas(ids) \subseteq Commits
BY MiningAssumption DEF Shas, Ids

\* A candidate that is given up leaves the night typed.
LEMMA AttemptedTyped ==
    ASSUME MiningInv, TypeOK, pc \in InHand \/ (pc = "candidate" /\ queue # <<>>), Attempted
    PROVE  /\ queue' \in Seq(Commits) /\ staged' \in Manifests \cup {None} /\ pc' = "candidate"
BY DEF Attempted, TypeOK, MiningInv, Types, InHand, Minting

\* What the night's process holds is left as it was by a step that only moves it on.
LEMMA MovesTyped ==
    ASSUME TypeOK, UNCHANGED <<disk, history, membership, donor, mint, accumulated, pairs, nights>>,
           pc' \in {"down", "load", "drawn"}, drawn' \in SUBSET (Base \cup Ids),
           left' \in [kills : 0..MaxKills, commits : 0..MaxCommits]
    PROVE  TypeOK'
BY DEF TypeOK, disk, mint

LEMMA MintTyped == ASSUME MiningInv, TypeOK, Mint PROVE TypeOK'
<1>1. CASE Provision \/ Reject \/ Derive \/ Prove
  <2>1. /\ UNCHANGED <<out, evidence, opened, history, membership, donor, minted, accumulated, pairs,
                       drawn, nights, left>>
        /\ pc \in InHand \/ (pc = "candidate" /\ queue # <<>>)
    BY <1>1 DEF Provision, Reject, Derive, Prove, Mine, Attempts, disk, InHand
  <2>2. scratch' \subseteq Ids
    <3>1. CASE Provision
      <4>1. Head(queue) \in Commits /\ Id \in Ids
        BY <2>1, <3>1 DEF Provision, Mine, Attempts, MiningInv, Types, Minting, InHand, Id, Ids, Donors
      <4> QED
        BY <3>1, <4>1 DEF Provision, TypeOK
    <3>2. CASE UNCHANGED scratch
      BY <3>2 DEF TypeOK
    <3> QED
      BY <1>1, <3>1, <3>2 DEF Reject, Derive, Prove, disk
  <2>3. /\ queue' \in Seq(Commits) /\ staged' \in Manifests \cup {None}
        /\ pc' \in {"candidate", "derive", "prove", "copy"}
    <3>1. CASE Attempted
      BY <2>1, <3>1, AttemptedTyped
    <3>2. CASE pc' \in {"derive", "copy"} /\ UNCHANGED <<queue, staged>>
      BY <3>2 DEF TypeOK
    <3>3. CASE Derive /\ ~Attempted
      <4>1. pc = "derive" /\ Hashed
        BY <3>3 DEF Derive, Mine, MiningInv
      <4>2. pc' = "prove" /\ staged' \in Manifests /\ UNCHANGED queue
        BY <3>3, <4>1, DerivedTyped DEF Derive
      <4> QED
        BY <4>2 DEF TypeOK
    <3> QED
      BY <1>1, <3>1, <3>2, <3>3 DEF Provision, Reject, Prove
  <2> QED
    BY <2>1, <2>2, <2>3 DEF TypeOK
<1>2. CASE CopyBegins \/ CopyEnds
  <2>1. /\ pc \in InHand /\ pc' \in {"candidate", "copying"}
        /\ UNCHANGED <<evidence, scratch, opened, history, membership, donor, accumulated, pairs,
                       drawn, nights, left>>
    BY <1>2 DEF CopyBegins, CopyEnds, Mine, Attempted, InHand
  <2>2. Id \in Ids
    BY <2>1, HeadIsNew DEF MiningInv
  <2>3. queue' \in Seq(Commits) /\ staged' \in Manifests \cup {None} /\ minted' \subseteq Ids
    BY <1>2, <2>1, <2>2, AttemptedTyped DEF CopyBegins, CopyEnds, TypeOK
  <2>4. out' \in [Ids -> Manifests \cup {None, Torn}]
    <3>1. pc = "copying" => staged \in Manifests
      BY DEF MiningInv, Hashed
    <3> QED
      BY <1>2, <2>2, <3>1 DEF CopyBegins, CopyEnds, Mine, TypeOK
  <2> QED
    BY <2>1, <2>3, <2>4 DEF TypeOK
<1>3. CASE StageRaises
  BY <1>3, MovesTyped DEF StageRaises, TypeOK
<1> QED
  BY <1>1, <1>2, <1>3 DEF Mint

LEMMA TypeStep == ASSUME MiningInv, TypeOK, [Next]_vars PROVE TypeOK'
<1>0. Minted \subseteq Ids
  BY DEF Minted
<1>1. CASE \E listed \in BOOLEAN : Begin(listed)
  <2>1. PICK listed \in BOOLEAN : Begin(listed)
    BY <1>1
  <2>2. accumulated' \subseteq Commits
    BY <1>0, <2>1, ShasAreCommits DEF Begin, Existing
  <2>3. donor' \in 1..Len(Labels) + 1 /\ nights' \in 0..MaxNights
    BY <2>1, MiningAssumption DEF Begin, TypeOK
  <2> QED
    BY <2>1, <2>2, <2>3 DEF Begin, TypeOK, disk, mint
<1>2. CASE StartDonor
  BY <1>2, SelectedIsNew DEF StartDonor, TypeOK, disk
<1>3. CASE Mint
  BY <1>3, MintTyped
<1>4. CASE MintEnds
  <2>1. donor \in 1..Len(Labels) /\ Len(Labels) \in Nat
    BY <1>4, MiningAssumption DEF MintEnds, MiningInv, Types, Minting, Donors
  <2> QED
    BY <1>4, <2>1 DEF MintEnds, TypeOK, disk
<1>5. CASE LedgerRaises \/ DonorsDone \/ LoadRaises \/ End
  BY <1>5, MovesTyped DEF LedgerRaises, DonorsDone, LoadRaises, End, TypeOK
<1>6. CASE LedgerBegins
  <2>1. Merged \in [Ids -> Manifests \cup {None}]
    BY <1>6, MergedKeeps DEF LedgerBegins, MiningInv
  <2> QED
    BY <1>6, <2>1 DEF LedgerBegins, TypeOK
<1>7. CASE LedgerEnds
  <2>1. opened \in [Ids -> Manifests \cup {None}] /\ donor \in 1..Len(Labels) /\ Len(Labels) \in Nat
    BY <1>7, MiningAssumption DEF LedgerEnds, MiningInv, Hashed, Types, Donors
  <2>2. Shas(minted) \subseteq Commits
    BY ShasAreCommits DEF TypeOK
  <2> QED
    BY <1>7, <2>1, <2>2 DEF LedgerEnds, TypeOK
<1>8. CASE Load
  BY <1>0, <1>8, MovesTyped DEF Load, Loaded, TypeOK
<1>9. CASE DonorAbsent
  <2>1. donor \in 1..Len(Labels) /\ Len(Labels) \in Nat
    BY <1>9, MiningAssumption DEF DonorAbsent, Donors
  <2> QED
    BY <1>9, <2>1 DEF DonorAbsent, TypeOK, disk
<1>10. CASE Kill
  <2>1. left' \in [kills : 0..MaxKills, commits : 0..MaxCommits]
    <3>1. MaxKills \in Nat /\ left.kills \in 0..MaxKills /\ left.kills > 0
      BY <1>10, MiningAssumption DEF Kill, TypeOK
    <3>2. left.kills - 1 \in 0..MaxKills
      BY <3>1
    <3> QED
      BY <1>10, <3>2 DEF Kill, TypeOK
  <2> QED
    BY <1>10, <2>1, MovesTyped DEF Kill, TypeOK
<1>11. CASE Commit
  <2>1. left' \in [kills : 0..MaxKills, commits : 0..MaxCommits]
    BY <1>11, MiningAssumption DEF Commit, TypeOK
  <2>2. history' \in [Donors -> SUBSET Commits]
    BY <1>11 DEF Commit, TypeOK
  <2> QED
    BY <1>11, <2>1, <2>2 DEF Commit, TypeOK, disk, mint
<1>12. CASE Clean \/ UNCHANGED vars
  BY <1>12 DEF Clean, vars, TypeOK, disk, mint
<1> QED
  BY <1>1, <1>2, <1>3, <1>4, <1>5, <1>6, <1>7, <1>8, <1>9, <1>10, <1>11, <1>12 DEF Next, Night

\* The type invariant: a ledger and a corpus hold whole manifests, nothing or a write cut short, and
\* what is queued, minted and skipped are commits and ids of the donors, for any of them.
THEOREM TypesHold == Spec => []TypeOK
<1>1. Init => TypeOK
  BY MiningAssumption DEF Init, TypeOK
<1>2. MiningInv /\ TypeOK /\ [Next]_vars => TypeOK'
  BY TypeStep
<1> QED
  BY <1>1, <1>2, MiningInvariant, PTL DEF Spec
=============================================================================
