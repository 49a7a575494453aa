------------------------- MODULE Checkpoint_proofs -------------------------
(***************************************************************************)
(* What verifies is what was trained, for every set of nights of a run id. *)
(* Neither property is inductive: a provenance is true of the files it     *)
(* records because of what the steps before it left in the directory.  The *)
(* invariant says what each step finds (InTurn, Buffered) and that every   *)
(* provenance, on disk or read by the check, is true of the files it       *)
(* records; whatever then happens to those files, a directory that         *)
(* verifies holds them still.                                              *)
(***************************************************************************)
EXTENDS Checkpoint, TLAPS

\* A provenance is true of what it records.
True(p) ==
    /\ p \in Provenance
    /\ IsTrained(p, p.files[p.runtime])
    /\ IsConfigured(p, p.files.config)

Holding ==
    /\ DOMAIN disk = Files
    /\ disk["config"] \in Configs \cup {None, Cut}
    /\ disk["torch"] \in Adapters \cup {None, Cut}
    /\ disk["mlx"] \in Adapters \cup {None, Cut}
    /\ command \in Command

\* What a step finds in the directory.
Full == [of |-> command.selects, steps |-> "full"]
TrainFileRead == {"valid file", "document", "probe", "probe config", "train"}
InTurn ==
    /\ pc \in {"draw", "down"} => buffer = None
    /\ pc \in TrainFileRead => disk["train"] = command.selects
    /\ pc \in {"probe config", "train config"} => command.runtime = "torch"
    /\ pc \in {"train config", "config", "provenance"} => disk[command.runtime] = Full
    /\ pc = "config" /\ buffer = None /\ command.runtime = "torch" => disk["config"] = PeftConfig
    /\ pc = "provenance" => IsConfigured(command, disk["config"])

\* What a step has in hand for the file it has open.
Buffered ==
    buffer # None =>
        /\ pc = "train file" => buffer = command.selects
        /\ pc = "probe" => buffer \in Adapters
        /\ pc = "train" => buffer = Full
        /\ pc \in {"probe config", "train config"} => buffer = PeftConfig
        /\ pc = "config" => buffer \in Configs /\ IsConfigured(command, buffer)
        /\ pc = "provenance" => True(buffer)

OnDisk  == disk["provenance"] \notin {None, Cut} => True(disk["provenance"])
InCheck ==
    /\ DOMAIN check = {"at", "hashed", "dataset", "provenance"}
    /\ check.provenance # None => True(check.provenance)
    /\ check.at = "linked" => /\ check.provenance # None
                              /\ check.provenance.dataset = check.dataset
    /\ check.at = "provenance" => check.provenance # None

CheckpointInv == Holding /\ InTurn /\ Buffered /\ OnDisk /\ InCheck

-----------------------------------------------------------------------------
(* What is written. *)

LEMMA FilesAre == /\ Files = {"train", "valid", "dataset", "provenance", "ledger", "config", "torch", "mlx"}
                  /\ Runtimes = {"mlx", "torch"}
  BY DEF Files, SealedFiles, Runtimes

\* The merged configuration speaks the vocabulary of the runtime that trained, and no other
\* (`write_checkpoint`).
LEMMA MergedIsConfigured ==
  ASSUME CheckpointInv, pc = "config", buffer = None, ~Refused
  PROVE  Merged \in Configs /\ IsConfigured(command, Merged)
<1>1. disk["config"] # Cut
  BY DEF Refused
<1>2. Kept \subseteq Runtimes \cup {"targets"}
  BY <1>1 DEF CheckpointInv, Holding, Kept, Configs
<1>3. command.runtime \in Runtimes
  BY DEF CheckpointInv, Holding, Command
<1>4. Merged \in Configs
  BY <1>2, <1>3 DEF Merged, Configs
<1>5. Merged.keys \cap Runtimes = {command.runtime}
  BY <1>3, FilesAre DEF Merged, Other
<1>6. command.runtime = "torch" => "targets" \in Merged.keys
  <2>1. SUFFICES ASSUME command.runtime = "torch" PROVE "targets" \in Merged.keys
    OBVIOUS
  <2>2. disk["config"] = PeftConfig
    BY <2>1 DEF CheckpointInv, InTurn
  <2>3. PeftConfig # None /\ PeftConfig # Cut
    BY FileAssumption DEF PeftConfig, Configs, Runtimes
  <2>4. Kept = {"torch", "targets"}
    BY <2>2, <2>3 DEF Kept, PeftConfig
  <2> QED
    BY <2>1, <2>4 DEF Merged, Other
<1>7. Merged # None /\ Merged # Cut
  BY <1>4, FileAssumption
<1> QED
  BY <1>4, <1>5, <1>6, <1>7 DEF IsConfigured

\* What the provenance claims is true when it is written.
LEMMA ClaimsAreTrue ==
  ASSUME CheckpointInv, pc = "provenance"
  PROVE  True(Claims)
<1>1. Recorded \in SealedAs
  BY DEF CheckpointInv, Holding, Recorded, SealedAs
<1>2. command.selects \in Datasets /\ command.runtime \in Runtimes
  BY DEF CheckpointInv, Holding, Command
<1>3. Claims \in Provenance
  BY <1>1, <1>2 DEF Claims, Provenance, HasSplit
<1>4. Recorded[command.runtime] = disk[command.runtime]
  BY <1>2, FilesAre DEF Recorded
<1>5. IsTrained(Claims, Claims.files[Claims.runtime])
  BY <1>4 DEF CheckpointInv, InTurn, Full, Claims, IsTrained
<1>6. IsConfigured(Claims, Claims.files.config)
  BY DEF CheckpointInv, InTurn, Claims, Recorded, IsConfigured
<1> QED
  BY <1>3, <1>5, <1>6 DEF True

-----------------------------------------------------------------------------
(* The steps. *)

\* A step that writes nothing and goes where nothing is expected of it.
LEMMA NothingWritten ==
  ASSUME CheckpointInv, UNCHANGED <<disk, check>>, command' \in Command,
         \/ UNCHANGED <<pc, buffer, command>>
         \/ buffer' = None /\ pc' \in {"draw", "train file", "ledger", "down"}
  PROVE  CheckpointInv'
<1>1. Holding' /\ OnDisk' /\ InCheck'
  BY DEF CheckpointInv, Holding, OnDisk, InCheck, True, IsTrained, IsConfigured
<1>2. CASE UNCHANGED <<pc, buffer, command>>
  <2>1. InTurn'
    BY <1>2 DEF CheckpointInv, InTurn, Full, IsConfigured
  <2>2. Buffered'
    BY <1>2 DEF CheckpointInv, Buffered, Full, True, IsTrained, IsConfigured
  <2> QED
    BY <1>1, <2>1, <2>2 DEF CheckpointInv
<1>3. CASE buffer' = None /\ pc' \in {"draw", "train file", "ledger", "down"}
  <2>1. InTurn'
    BY <1>3 DEF InTurn, TrainFileRead
  <2>2. Buffered'
    BY <1>3 DEF Buffered
  <2> QED
    BY <1>1, <2>1, <2>2 DEF CheckpointInv
<1> QED
  BY <1>2, <1>3

\* A write of a file that is in no provenance, whose content nothing later depends on.
LEMMA AsideWritten ==
  ASSUME CheckpointInv, NEW f \in {"valid", "dataset", "ledger"}, NEW content, NEW to,
         Write(f, content, to), UNCHANGED <<command, check>>,
         pc \in {"valid file", "document", "ledger"},
         \/ pc \in TrainFileRead /\ to \in {"document", "probe", "ledger"}
         \/ to = "done"
  PROVE  CheckpointInv'
<1>1. \A g \in Files : g # f => disk'[g] = disk[g]
  BY FilesAre DEF CheckpointInv, Holding, Write
<1>2. DOMAIN disk' = Files
  BY DEF CheckpointInv, Holding, Write
<1>3. Holding' /\ OnDisk' /\ InCheck'
  BY <1>1, <1>2, FilesAre DEF CheckpointInv, Holding, OnDisk, InCheck, True, IsTrained, IsConfigured
<1>4. \/ pc' = pc
      \/ buffer' = None /\ pc' = to
  BY DEF Write, GoTo
<1>5. InTurn'
  BY <1>1, <1>4, FilesAre DEF CheckpointInv, InTurn, TrainFileRead
<1>6. Buffered'
  BY <1>4 DEF Buffered
<1> QED
  BY <1>3, <1>5, <1>6 DEF CheckpointInv

LEMMA TrainWritten ==
  ASSUME CheckpointInv, WriteTrain
  PROVE  CheckpointInv'
<1> USE DEF WriteTrain, At, Rest, World
<1>1. \A g \in Files : g # "train" => disk'[g] = disk[g]
  BY FilesAre DEF CheckpointInv, Holding, Write
<1>2. Holding' /\ OnDisk' /\ InCheck'
  BY <1>1, FilesAre DEF CheckpointInv, Holding, OnDisk, InCheck, True, IsTrained, IsConfigured, Write
<1>3. CASE buffer = None
  BY <1>2, <1>3 DEF CheckpointInv, InTurn, Buffered, TrainFileRead, Write
<1>4. CASE buffer # None
  <2>1. disk'["train"] = command.selects /\ buffer' = None /\ pc' = "valid file"
    BY <1>4, FilesAre DEF CheckpointInv, Holding, Buffered, Write, GoTo
  <2> QED
    BY <1>2, <2>1 DEF CheckpointInv, InTurn, Buffered, TrainFileRead
<1> QED
  BY <1>3, <1>4

\* The probe leaves an adapter; what it is trained on is not the directory's concern yet.
LEMMA ProbeWritten ==
  ASSUME CheckpointInv, Probe
  PROVE  CheckpointInv'
<1> USE DEF Probe, At, Rest, World
<1>1. command.runtime \in {"mlx", "torch"} /\ command.selects \in Datasets
  BY FilesAre DEF CheckpointInv, Holding, Command
<1>2. Trained("probe") \in Adapters
  BY <1>1 DEF CheckpointInv, InTurn, TrainFileRead, Trained, Adapters
<1>3. \A g \in Files : g # command.runtime => disk'[g] = disk[g]
  BY FilesAre DEF CheckpointInv, Holding, Write
<1>4. disk'[command.runtime] \in Adapters \cup {Cut} /\ DOMAIN disk' = Files
  BY <1>1, <1>2, FilesAre DEF CheckpointInv, Holding, Buffered, Write
<1>5. Holding' /\ OnDisk' /\ InCheck'
  BY <1>1, <1>3, <1>4, FilesAre
  DEF CheckpointInv, Holding, OnDisk, InCheck, True, IsTrained, IsConfigured
<1>6. CASE buffer = None
  BY <1>1, <1>2, <1>3, <1>5, <1>6, FilesAre
  DEF CheckpointInv, InTurn, Buffered, TrainFileRead, Write
<1>7. CASE buffer # None
  <2>1. buffer' = None /\ pc' = IF command.runtime = "torch" THEN "probe config" ELSE "train"
    BY <1>7 DEF Write, GoTo
  <2>2. InTurn'
    BY <1>1, <1>3, <2>1, FilesAre DEF CheckpointInv, InTurn, TrainFileRead
  <2>3. Buffered'
    BY <2>1 DEF Buffered
  <2> QED
    BY <1>5, <2>2, <2>3 DEF CheckpointInv
<1> QED
  BY <1>6, <1>7

LEMMA TrainingWritten ==
  ASSUME CheckpointInv, Train
  PROVE  CheckpointInv'
<1>0. /\ pc = "train" /\ UNCHANGED <<command, check>>
      /\ Write(command.runtime, Trained("full"),
               IF command.runtime = "torch" THEN "train config" ELSE "config")
  BY DEF Train, At, World
<1>1. command.runtime \in {"mlx", "torch"} /\ command.selects \in Datasets
  BY <1>0, FilesAre DEF CheckpointInv, Holding, Command
<1>2. Trained("full") = Full /\ Full \in Adapters
  BY <1>0, <1>1 DEF CheckpointInv, InTurn, TrainFileRead, Trained, Adapters, Full
<1>3. \A g \in Files : g # command.runtime => disk'[g] = disk[g]
  BY <1>0, FilesAre DEF CheckpointInv, Holding, Write
<1>4. disk'[command.runtime] \in Adapters \cup {Cut} /\ DOMAIN disk' = Files
  <2>1. buffer # None => buffer \in Adapters
    BY <1>0, <1>2 DEF CheckpointInv, Buffered
  <2> QED
    BY <1>0, <1>1, <2>1, FilesAre DEF CheckpointInv, Holding, Write
<1>5. Holding' /\ OnDisk' /\ InCheck'
  <2>1. Holding'
    BY <1>0, <1>1, <1>3, <1>4, FilesAre DEF CheckpointInv, Holding
  <2>2. OnDisk'
    BY <1>1, <1>3, FilesAre DEF CheckpointInv, OnDisk, True, IsTrained, IsConfigured
  <2>3. InCheck'
    BY <1>0 DEF CheckpointInv, InCheck, True, IsTrained, IsConfigured
  <2> QED
    BY <2>1, <2>2, <2>3
<1>6. CASE buffer = None
  BY <1>0, <1>1, <1>2, <1>3, <1>5, <1>6, FilesAre
  DEF CheckpointInv, InTurn, Buffered, TrainFileRead, Write, Full
<1>7. CASE buffer # None
  <2>1. buffer' = None /\ pc' = IF command.runtime = "torch" THEN "train config" ELSE "config"
    BY <1>0, <1>7 DEF Write, GoTo
  <2>2. disk'[command.runtime] = Full
    BY <1>0, <1>1, <1>7, FilesAre DEF CheckpointInv, Holding, Buffered, Write
  <2>3. InTurn'
    BY <1>0, <1>1, <1>3, <2>1, <2>2, FilesAre DEF InTurn, TrainFileRead, Full
  <2>4. Buffered'
    BY <2>1 DEF Buffered
  <2> QED
    BY <1>5, <2>3, <2>4 DEF CheckpointInv
<1> QED
  BY <1>6, <1>7

\* The configuration, by PEFT or by the writer of the checkpoint, and what it leaves alone.
LEMMA ConfigLeaves ==
  ASSUME CheckpointInv, NEW content, NEW to, Write("config", content, to),
         UNCHANGED <<command, check>>,
         content \in Configs, buffer # None => buffer \in Configs
  PROVE  /\ Holding' /\ OnDisk' /\ InCheck'
         /\ \A g \in Files : g # "config" => disk'[g] = disk[g]
         /\ buffer # None => disk'["config"] = buffer
<1>1. /\ \A g \in Files : g # "config" => disk'[g] = disk[g]
      /\ disk'["config"] \in Configs \cup {Cut} /\ DOMAIN disk' = Files
      /\ buffer # None => disk'["config"] = buffer
  BY FilesAre DEF CheckpointInv, Holding, Write
<1> QED
  BY <1>1, FilesAre DEF CheckpointInv, Holding, OnDisk, InCheck, True, IsTrained, IsConfigured

LEMMA PeftConfigWritten ==
  ASSUME CheckpointInv, SavePeftConfig
  PROVE  CheckpointInv'
<1> USE DEF SavePeftConfig, At, Rest, World
<1>1. PeftConfig \in Configs
  BY FilesAre DEF PeftConfig, Configs
<1>2. command.runtime = "torch"
  BY DEF CheckpointInv, InTurn
<1>3. buffer # None => buffer = PeftConfig
  BY DEF CheckpointInv, Buffered
<1>4. /\ Holding' /\ OnDisk' /\ InCheck'
      /\ \A g \in Files : g # "config" => disk'[g] = disk[g]
      /\ buffer # None => disk'["config"] = buffer
  BY <1>1, <1>3, ConfigLeaves
<1>5. CASE buffer = None
  <2>1. pc' = pc /\ buffer' = PeftConfig
    BY <1>5 DEF Write
  <2>2. InTurn'
    BY <1>2, <1>4, <2>1, FilesAre DEF CheckpointInv, InTurn, TrainFileRead, Full
  <2>3. Buffered'
    BY <2>1 DEF Buffered
  <2> QED
    BY <1>4, <2>2, <2>3 DEF CheckpointInv
<1>6. CASE buffer # None
  <2>1. buffer' = None
    BY <1>6 DEF Write
  <2>2. \/ pc = "probe config" /\ pc' = "train"
        \/ pc = "train config" /\ pc' = "config"
    BY <1>6 DEF Write, GoTo
  <2>3. disk'["config"] = PeftConfig
    BY <1>3, <1>4, <1>6
  <2>4. InTurn'
    BY <1>2, <1>4, <2>1, <2>2, <2>3, FilesAre DEF CheckpointInv, InTurn, TrainFileRead, Full, PeftConfig
  <2>5. Buffered'
    BY <2>1 DEF Buffered
  <2> QED
    BY <1>4, <2>4, <2>5 DEF CheckpointInv
<1> QED
  BY <1>5, <1>6

LEMMA ConfigWritten ==
  ASSUME CheckpointInv, WriteConfig
  PROVE  CheckpointInv'
<1>0. /\ pc = "config" /\ ~Refused /\ UNCHANGED <<command, check>>
      /\ Write("config", Merged, "provenance")
  BY DEF WriteConfig, At, Rest, World
<1>1. command.runtime \in {"mlx", "torch"}
  BY FilesAre DEF CheckpointInv, Holding, Command
<1>2. buffer # None => buffer \in Configs /\ IsConfigured(command, buffer)
  BY <1>0 DEF CheckpointInv, Buffered
<1>3. CASE buffer = None
  <2>1. Merged \in Configs /\ IsConfigured(command, Merged)
    BY <1>0, <1>3, MergedIsConfigured
  <2>2. /\ Holding' /\ OnDisk' /\ InCheck'
        /\ \A g \in Files : g # "config" => disk'[g] = disk[g]
    BY <1>0, <1>2, <2>1, ConfigLeaves
  <2>3. pc' = "config" /\ buffer' = Merged /\ buffer' # None
    <3>1. pc' = "config" /\ buffer' = Merged
      BY <1>0, <1>3 DEF Write
    <3> QED
      BY <3>1, <2>1, FileAssumption
  <2>4. InTurn'
    BY <1>0, <1>1, <2>2, <2>3, FilesAre DEF CheckpointInv, InTurn, TrainFileRead, Full
  <2>5. Buffered'
    BY <1>0, <2>1, <2>3 DEF Buffered, IsConfigured
  <2> QED
    BY <2>2, <2>4, <2>5 DEF CheckpointInv
<1>4. CASE buffer # None
  <2>1. pc' = "provenance" /\ buffer' = None
    BY <1>0, <1>4 DEF Write, GoTo
  <2>2. /\ \A g \in Files : g # "config" => disk'[g] = disk[g]
        /\ disk'["config"] = buffer /\ DOMAIN disk' = Files
    BY <1>0, <1>4, FilesAre DEF CheckpointInv, Holding, Write
  <2>3. Holding' /\ OnDisk' /\ InCheck'
    BY <1>0, <1>2, <1>4, <2>2, FilesAre
    DEF CheckpointInv, Holding, OnDisk, InCheck, True, IsTrained, IsConfigured
  <2>4. IsConfigured(command, disk["config"])'
    BY <1>0, <1>2, <1>4, <2>2 DEF IsConfigured
  <2>5. InTurn'
    BY <1>0, <1>1, <2>1, <2>2, <2>4, FilesAre DEF CheckpointInv, InTurn, TrainFileRead, Full
  <2>6. Buffered'
    BY <2>1 DEF Buffered
  <2> QED
    BY <2>3, <2>5, <2>6 DEF CheckpointInv
<1> QED
  BY <1>3, <1>4

LEMMA ProvenanceWritten ==
  ASSUME CheckpointInv, WriteProvenance
  PROVE  CheckpointInv'
<1>0. /\ pc = "provenance" /\ UNCHANGED <<command, check>>
      /\ Write("provenance", Claims, "verify")
  BY DEF WriteProvenance, At, Rest, World
<1>1. command.runtime \in {"mlx", "torch"}
  BY FilesAre DEF CheckpointInv, Holding, Command
<1>2. \A g \in Files : g # "provenance" => disk'[g] = disk[g]
  BY <1>0, FilesAre DEF CheckpointInv, Holding, Write
<1>3. Holding' /\ InCheck'
  <2>1. DOMAIN disk' = Files
    BY <1>0 DEF CheckpointInv, Holding, Write
  <2> QED
    BY <1>0, <1>2, <2>1, FilesAre DEF CheckpointInv, Holding, InCheck, True, IsTrained, IsConfigured
<1>4. CASE buffer = None
  <2>1. pc' = "provenance" /\ buffer' = Claims /\ disk'["provenance"] = Cut
    BY <1>0, <1>4, FilesAre DEF CheckpointInv, Holding, Write
  <2>2. True(Claims)
    BY <1>0, ClaimsAreTrue
  <2>3. InTurn'
    BY <1>0, <1>1, <1>2, <2>1, FilesAre DEF CheckpointInv, InTurn, TrainFileRead, Full, IsConfigured
  <2>4. Buffered' /\ OnDisk'
    BY <2>1, <2>2 DEF Buffered, OnDisk, True, IsTrained, IsConfigured
  <2> QED
    BY <1>3, <2>3, <2>4 DEF CheckpointInv
<1>5. CASE buffer # None
  <2>1. pc' = "verify" /\ buffer' = None /\ disk'["provenance"] = buffer
    BY <1>0, <1>5, FilesAre DEF CheckpointInv, Holding, Write, GoTo
  <2>2. True(buffer)
    BY <1>0, <1>5 DEF CheckpointInv, Buffered
  <2>3. InTurn' /\ Buffered'
    BY <2>1 DEF InTurn, TrainFileRead, Buffered
  <2>4. OnDisk'
    BY <2>1, <2>2 DEF OnDisk, True, IsTrained, IsConfigured
  <2> QED
    BY <1>3, <2>3, <2>4 DEF CheckpointInv
<1> QED
  BY <1>4, <1>5

\* The check: it holds what was on disk when it read it.
LEMMA Checked ==
  ASSUME CheckpointInv, Check
  PROVE  CheckpointInv'
<1>1. UNCHANGED <<disk, command, pc, buffer>>
  BY DEF Check, CheckReads, CheckParses, CheckHashes, CheckLinks, CheckEnds, Leave, night
<1>2. Holding' /\ OnDisk' /\ InTurn' /\ Buffered'
  <2>1. Holding' /\ OnDisk'
    BY <1>1 DEF CheckpointInv, Holding, OnDisk, True, IsTrained, IsConfigured
  <2>2. InTurn'
    BY <1>1 DEF CheckpointInv, InTurn, Full, IsConfigured
  <2>3. Buffered'
    BY <1>1 DEF CheckpointInv, Buffered, Full, True, IsTrained, IsConfigured
  <2> QED
    BY <2>1, <2>2, <2>3
<1>3. InCheck'
  <2>1. CASE CheckReads
    BY <2>1 DEF CheckReads, CheckpointInv, InCheck, True, IsTrained, IsConfigured
  <2>2. CASE CheckParses
    BY <2>2 DEF CheckParses, CheckpointInv, InCheck, OnDisk, True, IsTrained, IsConfigured
  <2>3. CASE CheckHashes
    BY <2>3 DEF CheckHashes, CheckpointInv, InCheck, True, IsTrained, IsConfigured
  <2>4. CASE CheckLinks
    BY <2>4 DEF CheckLinks, Links, CheckpointInv, InCheck, True, IsTrained, IsConfigured
  <2>5. CASE CheckEnds
    BY <2>5 DEF CheckEnds, Unread, InCheck
  <2> QED
    BY <2>1, <2>2, <2>3, <2>4, <2>5 DEF Check
<1> QED
  BY <1>2, <1>3 DEF CheckpointInv

LEMMA InvStarts == Init => CheckpointInv
<1> SUFFICES ASSUME Init PROVE CheckpointInv
  OBVIOUS
<1>1. command \in Command
  BY CheckpointAssumption DEF Init
<1>2. Holding
  BY <1>1, FilesAre DEF Init, Holding
<1>3. InTurn /\ Buffered
  BY DEF Init, InTurn, Buffered, TrainFileRead
<1>4. OnDisk /\ InCheck
  BY FilesAre DEF Init, OnDisk, InCheck, Unread
<1> QED
  BY <1>2, <1>3, <1>4 DEF CheckpointInv

LEMMA InvKept == CheckpointInv /\ [Next]_vars => CheckpointInv'
<1> SUFFICES ASSUME CheckpointInv, [Next]_vars PROVE CheckpointInv'
  OBVIOUS
<1>0. command \in Command
  BY DEF CheckpointInv, Holding
<1> DEFINE Elsewhere == {"draw", "train file", "ledger", "down"}
<1>1. CASE Draw
  BY <1>0, <1>1, NothingWritten DEF Draw, Rest
<1>2. CASE Drawn
  <2>1. buffer' = None /\ pc' = "train file"
    BY <1>2 DEF CheckpointInv, InTurn, Drawn, At, GoTo
  <2> QED
    BY <1>0, <1>2, <2>1, NothingWritten DEF Drawn, Rest, World
<1>3. CASE WriteTrain
  BY <1>3, TrainWritten
<1>4. CASE WriteValid
  <2>1. pc = "valid file" /\ pc \in TrainFileRead /\ UNCHANGED <<command, check>>
    BY <1>4 DEF WriteValid, At, TrainFileRead, Rest, World
  <2>2. CASE Write("valid", command.selects, "document")
    BY <2>1, <2>2, AsideWritten
  <2>3. CASE GoTo("document") /\ UNCHANGED <<disk, buffer>>
    <3>1. Holding' /\ OnDisk' /\ InCheck'
      BY <2>1, <2>3 DEF CheckpointInv, Holding, OnDisk, InCheck, True, IsTrained, IsConfigured
    <3>2. InTurn' /\ Buffered'
      BY <2>1, <2>3 DEF CheckpointInv, InTurn, Buffered, TrainFileRead, GoTo
    <3> QED
      BY <3>1, <3>2 DEF CheckpointInv
  <2> QED
    BY <1>4, <2>2, <2>3 DEF WriteValid
<1>5. CASE WriteDocument
  <2>1. /\ pc = "document" /\ pc \in TrainFileRead /\ UNCHANGED <<command, check>>
        /\ Write("dataset", command.selects, IF Trains THEN "probe" ELSE "ledger")
    BY <1>5 DEF WriteDocument, At, TrainFileRead, Rest, World
  <2> QED
    BY <2>1, AsideWritten
<1>6. CASE Probe
  BY <1>6, ProbeWritten
<1>7. CASE Train
  BY <1>7, TrainingWritten
<1>8. CASE SavePeftConfig
  BY <1>8, PeftConfigWritten
<1>9. CASE WriteConfig
  BY <1>9, ConfigWritten
<1>10. CASE WriteProvenance
  BY <1>10, ProvenanceWritten
<1>11. CASE Verify
  <2>1. UNCHANGED <<disk, check, command>> /\ pc' = "ledger" /\ UNCHANGED buffer
    BY <1>11 DEF Verify, GoTo, World
  <2>2. Holding' /\ OnDisk' /\ InCheck'
    BY <2>1 DEF CheckpointInv, Holding, OnDisk, InCheck, True, IsTrained, IsConfigured
  <2>3. InTurn' /\ Buffered'
    BY <2>1 DEF InTurn, Buffered, TrainFileRead
  <2> QED
    BY <2>2, <2>3 DEF CheckpointInv
<1>12. CASE WriteLedger
  <2> DEFINE content == [dataset    |-> command.selects,
                         checkpoint |-> IF made THEN disk["provenance"] ELSE None]
  <2>1. /\ pc = "ledger" /\ UNCHANGED <<command, check>>
        /\ Write("ledger", content, "done")
    BY <1>12 DEF WriteLedger, At, Rest, World
  <2> QED
    BY <2>1, AsideWritten
<1>13. CASE Fail
  <2>1. buffer' = None /\ pc' \in Elsewhere
    BY <1>13 DEF Fail, GoTo
  <2> QED
    BY <1>0, <1>13, <2>1, NothingWritten DEF Fail, Rest, World
<1>14. CASE Tick
  BY <1>0, <1>14, NothingWritten DEF Tick
<1>15. CASE Hang
  BY <1>0, <1>15, NothingWritten DEF Hang
<1>16. CASE StallKill \/ Kill
  BY <1>0, <1>16, NothingWritten DEF StallKill, Kill, Die, Gone
<1>17. CASE Resume
  <2>1. buffer' = None /\ pc' = "draw"
    BY <1>17 DEF CheckpointInv, InTurn, Resume, GoTo
  <2> QED
    BY <1>0, <1>17, <2>1, NothingWritten DEF Resume
<1>18. CASE Change
  <2>1. command' \in Command
    BY <1>18, CheckpointAssumption DEF Change
  <2> QED
    BY <1>18, <2>1, NothingWritten DEF Change, Gone
<1>19. CASE Check
  BY <1>19, Checked
<1>20. CASE UNCHANGED vars
  BY <1>0, <1>20, NothingWritten DEF vars, night
<1> QED
  BY <1>1, <1>2, <1>3, <1>4, <1>5, <1>6, <1>7, <1>8, <1>9, <1>10, <1>11, <1>12, <1>13, <1>14,
     <1>15, <1>16, <1>17, <1>18, <1>19, <1>20 DEF Next, Work

LEMMA InvHolds == Spec => []CheckpointInv
  BY InvStarts, InvKept, PTL DEF Spec

-----------------------------------------------------------------------------
(* The theorems. *)

\* A directory that verifies holds the adapter its provenance describes (`verify_checkpoint`).
THEOREM VerifiedIsTrainedHolds == Spec => []VerifiedIsTrained
<1>1. CheckpointInv => VerifiedIsTrained
  <2> SUFFICES ASSUME CheckpointInv, Verifies
               PROVE  IsTrained(disk["provenance"], disk[disk["provenance"].runtime])
                      /\ IsConfigured(disk["provenance"], disk["config"])
    BY DEF VerifiedIsTrained
  <2> DEFINE p == disk["provenance"]
  <2>1. True(p) /\ \A f \in SealedFiles : p.files[f] # None => disk[f] = p.files[f]
    BY DEF CheckpointInv, OnDisk, Verifies, VerifiesAs, SameBytes
  <2>2. p.runtime \in SealedFiles /\ p.dataset \in Datasets
    BY <2>1 DEF True, Provenance, Runtimes, SealedFiles
  <2>3. p.files[p.runtime] # None
    <3>1. p.files[p.runtime] \in Adapters
      BY <2>1, <2>2 DEF True, IsTrained, Adapters
    <3> QED
      BY <3>1, FileAssumption
  <2>4. disk[p.runtime] = p.files[p.runtime]
    BY <2>1, <2>2, <2>3
  <2>5. p.files["config"] # None
    BY <2>1 DEF True, IsConfigured
  <2>6. disk["config"] = p.files["config"]
    BY <2>1, <2>5 DEF SealedFiles
  <2> QED
    BY <2>1, <2>4, <2>6 DEF True
<1> QED
  BY <1>1, InvHolds, PTL

\* What the check links to a run was trained to the end on the dataset it read (`_link_of`).
THEOREM LinkIsTrueHolds == Spec => []LinkIsTrue
<1>1. CheckpointInv => LinkIsTrue
  <2> SUFFICES ASSUME CheckpointInv, check.at = "linked"
               PROVE  IsTrained([check.provenance EXCEPT !.dataset = check.dataset],
                                check.provenance.files[check.provenance.runtime])
    BY DEF LinkIsTrue
  <2>1. True(check.provenance) /\ check.provenance.dataset = check.dataset
    BY DEF CheckpointInv, InCheck
  <2>2. [check.provenance EXCEPT !.dataset = check.dataset].dataset = check.provenance.dataset
    BY <2>1 DEF True, Provenance
  <2> QED
    BY <2>1, <2>2 DEF True, IsTrained
<1> QED
  BY <1>1, InvHolds, PTL

-----------------------------------------------------------------------------
(* The ledger: the night keeps, from its dataset document to its ledger, what the ledger says. *)

Entry == [dataset    |-> command.selects,
          checkpoint |-> IF made THEN disk["provenance"] ELSE None]

MadeInv ==
    /\ made => /\ pc \in {"ledger", "done"} /\ Verifies
               /\ disk["provenance"].dataset = command.selects
    /\ pc \in Guarded \cup {"ledger", "done"} => disk["dataset"] = command.selects
    /\ pc = "valid file" /\ buffer # None => HasSplit
    /\ pc = "document" /\ buffer # None => buffer = command.selects
    /\ pc = "provenance" /\ buffer # None => buffer.dataset = command.selects
    /\ pc = "verify" => buffer = None /\ disk["provenance"].dataset = command.selects
    /\ pc = "ledger" /\ buffer # None => buffer = Entry
    /\ pc = "done" => disk["ledger"] = Entry

LEMMA MadeStarts == Init => MadeInv
  BY DEF Init, MadeInv, Guarded

\* Nothing is written, and the night goes on where it was, or goes back to its start.
LEMMA MadeUnmoved ==
  ASSUME CheckpointInv, MadeInv, UNCHANGED disk,
         \/ UNCHANGED <<pc, buffer, command, made>>
         \/ ~made' /\ pc' \in {"draw", "train file", "down"}
  PROVE  MadeInv'
<1>1. CASE UNCHANGED <<pc, buffer, command, made>>
  BY <1>1 DEF MadeInv, Verifies, VerifiesAs, SameBytes, HasSplit, Entry
<1>2. CASE ~made' /\ pc' \in {"draw", "train file", "down"}
  BY <1>2 DEF MadeInv, Guarded
<1> QED
  BY <1>1, <1>2

\* A file the provenance records is written: no checkpoint of this night is made yet.
LEMMA MadeNotYet ==
  ASSUME CheckpointInv, MadeInv, NEW f \in SealedFiles, NEW content,
         NEW to \in {"probe config", "train", "train config", "config", "provenance"},
         Write(f, content, to), UNCHANGED <<command, made>>,
         pc \in {"probe", "probe config", "train", "train config", "config"}
  PROVE  MadeInv'
<1>1. ~made'
  <2>1. ~made
    BY DEF MadeInv
  <2> QED
    BY <2>1, Zenon
<1>2. disk'["dataset"] = disk["dataset"] /\ disk["dataset"] = command.selects
  BY FilesAre DEF CheckpointInv, Holding, Write, SealedFiles, MadeInv, Guarded
<1>3. pc' = pc \/ (pc' = to /\ buffer' = None)
  BY DEF Write, GoTo
<1> QED
  BY <1>1, <1>2, <1>3 DEF MadeInv

LEMMA MadeKept == CheckpointInv /\ MadeInv /\ [Next]_vars => MadeInv'
<1> SUFFICES ASSUME CheckpointInv, MadeInv, [Next]_vars PROVE MadeInv'
  OBVIOUS
<1>1. CASE Draw \/ Tick \/ Hang \/ Check \/ UNCHANGED vars
  <2>1. UNCHANGED <<disk, pc, buffer, command, made>>
    BY <1>1 DEF Draw, Tick, Hang, Check, CheckReads, CheckParses, CheckHashes, CheckLinks,
                CheckEnds, Leave, vars, night, Rest
  <2> QED
    BY <2>1, MadeUnmoved
<1>2. CASE StallKill \/ Kill \/ Change
  BY <1>2, MadeUnmoved DEF StallKill, Kill, Die, Gone, Change
<1>3. CASE Drawn \/ Resume
  <2>1. ~made' /\ pc' \in {"draw", "train file"} /\ UNCHANGED disk
    <3>1. ~made /\ pc' \in {"draw", "train file"} /\ UNCHANGED <<disk, made>>
      BY <1>3 DEF Drawn, Resume, At, GoTo, Rest, MadeInv
    <3> QED
      BY <3>1, Zenon
  <2> QED
    BY <2>1, MadeUnmoved
<1>4. CASE WriteTrain
  <2>1. ~made' /\ pc' \in {"train file", "valid file"} /\ (pc' = "valid file" => buffer' = None)
    BY <1>4 DEF WriteTrain, At, Write, GoTo, Rest, MadeInv
  <2> QED
    BY <2>1 DEF MadeInv, Guarded
<1>5. CASE WriteValid
  <2>1. /\ pc = "valid file" /\ ~made' /\ UNCHANGED command
        /\ \/ HasSplit /\ Write("valid", command.selects, "document")
           \/ ~HasSplit /\ GoTo("document") /\ UNCHANGED <<disk, buffer>>
    BY <1>5 DEF WriteValid, At, Rest, MadeInv
  <2>2. \/ pc' = "valid file" /\ HasSplit'
        \/ pc' = "document" /\ buffer' = None
    BY <2>1 DEF Write, GoTo, MadeInv, HasSplit
  <2> QED
    BY <2>1, <2>2 DEF MadeInv, Guarded
<1>6. CASE WriteDocument
  <2>1. /\ pc = "document" /\ ~made' /\ UNCHANGED command
        /\ Write("dataset", command.selects, IF Trains THEN "probe" ELSE "ledger")
    BY <1>6 DEF WriteDocument, At, Rest, MadeInv
  <2>2. CASE buffer = None
    BY <2>1, <2>2 DEF Write, MadeInv, Guarded
  <2>3. CASE buffer # None
    <3>1. buffer' = None /\ pc' \in {"probe", "ledger"} /\ disk'["dataset"] = command.selects
      BY <2>1, <2>3, FilesAre DEF Write, GoTo, MadeInv, CheckpointInv, Holding
    <3> QED
      BY <2>1, <3>1 DEF MadeInv
  <2> QED
    BY <2>2, <2>3
<1>7. CASE Probe
  <2>1. command.runtime \in SealedFiles
    BY FilesAre DEF CheckpointInv, Holding, Command, SealedFiles
  <2> QED
    BY <1>7, <2>1, MadeNotYet DEF Probe, At, Rest
<1>8. CASE Train
  <2>1. command.runtime \in SealedFiles
    BY FilesAre DEF CheckpointInv, Holding, Command, SealedFiles
  <2> QED
    BY <1>8, <2>1, MadeNotYet DEF Train, At
<1>9. CASE SavePeftConfig
  <2>1. \/ pc = "probe config" /\ Write("config", PeftConfig, "train")
        \/ pc = "train config" /\ Write("config", PeftConfig, "config")
    BY <1>9 DEF SavePeftConfig, At
  <2>2. UNCHANGED <<command, made>> /\ "config" \in SealedFiles
    BY <1>9 DEF SavePeftConfig, Rest, SealedFiles
  <2> QED
    BY <2>1, <2>2, MadeNotYet
<1>10. CASE WriteConfig
  <2>1. /\ pc = "config" /\ Write("config", Merged, "provenance")
        /\ UNCHANGED <<command, made>> /\ "config" \in SealedFiles
    BY <1>10 DEF WriteConfig, At, Rest, SealedFiles
  <2> QED
    BY <2>1, MadeNotYet
<1>11. CASE WriteProvenance
  <2>1. /\ pc = "provenance" /\ ~made' /\ UNCHANGED command
        /\ Write("provenance", Claims, "verify")
    BY <1>11 DEF WriteProvenance, At, Rest, MadeInv
  <2>2. disk'["dataset"] = command.selects
    BY <2>1, FilesAre DEF Write, MadeInv, Guarded, CheckpointInv, Holding
  <2>3. CASE buffer = None
    BY <2>1, <2>2, <2>3 DEF Write, MadeInv, Claims
  <2>4. CASE buffer # None
    <3>1. buffer' = None /\ pc' = "verify" /\ disk'["provenance"] = buffer
      BY <2>1, <2>4, FilesAre DEF Write, GoTo, CheckpointInv, Holding
    <3>2. buffer.dataset = command.selects
      BY <2>1, <2>4 DEF MadeInv
    <3> QED
      BY <2>1, <2>2, <3>1, <3>2 DEF MadeInv
  <2> QED
    BY <2>3, <2>4
<1>12. CASE Verify
  <2>1. pc = "verify" /\ pc' = "ledger" /\ UNCHANGED <<disk, buffer, command>> /\ Verifies
    BY <1>12 DEF Verify, At, GoTo
  <2> QED
    BY <2>1 DEF MadeInv, Verifies, VerifiesAs, SameBytes, Guarded
<1>13. CASE WriteLedger
  <2>1. pc = "ledger" /\ UNCHANGED <<command, made>> /\ Write("ledger", Entry, "done")
    BY <1>13 DEF WriteLedger, At, Rest, Entry
  <2>2. \A g \in Files : g # "ledger" => disk'[g] = disk[g]
    BY <2>1, FilesAre DEF Write, CheckpointInv, Holding
  <2>3. Entry' = Entry /\ disk'["dataset"] = command.selects
    BY <2>1, <2>2, FilesAre DEF Entry, MadeInv
  <2>4. made => Verifies' /\ disk'["provenance"].dataset = command.selects
    BY <2>2, FilesAre DEF MadeInv, Verifies, VerifiesAs, SameBytes, SealedFiles
  <2>5. CASE buffer = None
    BY <2>1, <2>3, <2>4, <2>5 DEF Write, MadeInv
  <2>6. CASE buffer # None
    <3>1. pc' = "done" /\ disk'["ledger"] = Entry
      BY <2>1, <2>6, FilesAre DEF Write, GoTo, MadeInv, CheckpointInv, Holding
    <3> QED
      BY <2>1, <2>3, <2>4, <3>1 DEF MadeInv
  <2> QED
    BY <2>5, <2>6
<1>14. CASE Fail
  <2>1. /\ pc \in Guarded /\ pc' = "ledger" /\ buffer' = None
        /\ UNCHANGED <<disk, command, made>>
    BY <1>14 DEF Fail, GoTo, Rest
  <2>2. ~made
    BY <2>1 DEF MadeInv, Guarded
  <2> QED
    BY <2>1, <2>2 DEF MadeInv
<1> QED
  BY <1>1, <1>2, <1>3, <1>4, <1>5, <1>6, <1>7, <1>8, <1>9, <1>10, <1>11, <1>12, <1>13, <1>14
  DEF Next, Work

\* A ledger names a checkpoint only if it is the one there, verifies, and was trained on the
\* dataset beside the ledger (`run_night`, `_train`).
THEOREM LedgerNamesItsCheckpointHolds == Spec => []LedgerNamesItsCheckpoint
<1>1. MadeInv => LedgerNamesItsCheckpoint
  BY DEF MadeInv, LedgerNamesItsCheckpoint, Entry
<1> QED
  BY <1>1, InvStarts, InvKept, MadeStarts, MadeKept, PTL DEF Spec

-----------------------------------------------------------------------------
(* The type invariant: what a step has in hand is of the file it has open. *)

\* The file a step has open, under the night's command; a step that writes none has none open.
Opened ==
    CASE pc = "train file" -> {"train"}
      [] pc = "valid file" -> {"valid"}
      [] pc = "document"   -> {"dataset"}
      [] pc \in {"probe", "train"} -> {command.runtime}
      [] pc \in {"probe config", "train config", "config"} -> {"config"}
      [] pc = "provenance" -> {"provenance"}
      [] pc = "ledger"     -> {"ledger"}
      [] OTHER             -> {}

Directory ==
    /\ DOMAIN disk = Files /\ \A f \in Files : disk[f] \in Contents(f)
    /\ pc \in Steps /\ spent \in Nat
    /\ buffer # None => \E f \in Opened \cap Files : buffer \in Contents(f) \ {Cut}

Surroundings ==
    /\ drawn \in 0 .. Draws /\ command \in Commands
    /\ made \in BOOLEAN /\ hung \in BOOLEAN
    /\ idle \in 0 .. Stall /\ read \in Datasets \cup {None, Cut}
    /\ left \in [kills : 0 .. MaxKills, hangs : 0 .. MaxHangs, changes : 0 .. MaxChanges]

Reading ==
    /\ check.at \in {"start", "dataset", "provenance", "linked"} /\ check.hashed \in 0 .. 3
    /\ check.dataset \in Datasets \cup {None} /\ check.provenance \in Provenance \cup {None}
    /\ check.at \in {"provenance", "linked"} => check.provenance # None

LEMMA ContentsAre ==
    /\ \A f \in {"train", "valid", "dataset"} : Contents(f) = {None, Cut} \cup Datasets
    /\ \A f \in {"mlx", "torch"} : Contents(f) = {None, Cut} \cup Adapters
    /\ Contents("config") = {None, Cut} \cup Configs
    /\ Contents("provenance") = {None, Cut} \cup Provenance
    /\ Contents("ledger") = {None, Cut} \cup Ledgers
  BY DEF Contents

\* A write of what a file holds keeps the directory.
LEMMA WriteFits ==
  ASSUME Directory, NEW f \in Files, NEW content, NEW to \in Steps, Write(f, content, to),
         Opened = {f}, UNCHANGED command,
         buffer = None => content \in Contents(f) \ {Cut}
  PROVE  Directory'
<1>1. None \in Contents(f) /\ Cut \in Contents(f)
  BY DEF Contents
<1>2. CASE buffer = None
  <2>1. buffer' = content /\ disk' = [disk EXCEPT ![f] = Cut] /\ UNCHANGED <<pc, spent>>
    BY <1>2 DEF Write
  <2>2. Opened' = {f}
    BY <2>1 DEF Opened
  <2>3. DOMAIN disk' = Files /\ \A g \in Files : disk'[g] \in Contents(g)
    BY <1>1, <2>1 DEF Directory
  <2> QED
    BY <1>2, <2>1, <2>2, <2>3 DEF Directory
<1>3. CASE buffer # None
  <2>1. buffer' = None /\ disk' = [disk EXCEPT ![f] = buffer] /\ pc' = to /\ spent' = 0
    BY <1>3 DEF Write, GoTo
  <2>2. buffer \in Contents(f)
    BY <1>3 DEF Directory
  <2>3. DOMAIN disk' = Files /\ \A g \in Files : disk'[g] \in Contents(g)
    BY <2>1, <2>2 DEF Directory
  <2> QED
    BY <2>1, <2>3 DEF Directory
<1> QED
  BY <1>2, <1>3

\* A step that leaves the files as they are, with nothing in hand or what there was.
LEMMA DirectoryKept ==
  ASSUME Directory, UNCHANGED disk, pc' \in Steps, spent' \in Nat,
         buffer' = None \/ UNCHANGED <<pc, buffer, command>>
  PROVE  Directory'
<1>1. CASE buffer' = None
  BY <1>1 DEF Directory
<1>2. CASE UNCHANGED <<pc, buffer, command>>
  <2>1. Opened' = Opened
    BY <1>2 DEF Opened
  <2> QED
    BY <1>2, <2>1 DEF Directory
<1> QED
  BY <1>1, <1>2

\* What the steps of the night write is what their files hold.
LEMMA NightFits ==
  ASSUME CheckpointInv, MadeInv, Directory, Work
  PROVE  Directory'
<1>0. /\ command.selects \in Datasets /\ command.runtime \in {"mlx", "torch"}
      /\ command.selects # Cut /\ pc \in Steps /\ spent \in Nat
  BY CheckpointAssumption DEF CheckpointInv, Holding, Command, Runtimes, Directory
<1> DEFINE Fitting(f, content) == content \in Contents(f) \ {Cut}
<1>1. CASE Draw \/ Drawn
  <2>1. /\ buffer' = None /\ UNCHANGED disk
        /\ spent' = 0 /\ (pc' = pc \/ pc' = "train file")
    BY <1>1 DEF Draw, Drawn, At, GoTo, CheckpointInv, InTurn
  <2>2. pc' \in Steps /\ spent' \in Nat
    BY <1>0, <2>1 DEF Steps
  <2> QED
    BY <2>1, <2>2, DirectoryKept
<1>2. CASE WriteTrain
  <2>1. Opened = {"train"} /\ UNCHANGED command /\ Write("train", command.selects, "valid file")
    BY <1>2 DEF WriteTrain, At, Opened, Rest
  <2> QED
    BY <1>0, <2>1, WriteFits, FilesAre, ContentsAre DEF Steps
<1>3. CASE WriteValid
  <2>1. Opened = {"valid"} /\ pc = "valid file" /\ UNCHANGED command
    BY <1>3 DEF WriteValid, At, Opened, Rest
  <2>2. CASE Write("valid", command.selects, "document")
    BY <1>0, <2>1, <2>2, WriteFits, FilesAre, ContentsAre DEF Steps
  <2>3. CASE ~HasSplit /\ GoTo("document") /\ UNCHANGED <<disk, buffer>>
    <3>1. buffer' = None
      BY <2>1, <2>3 DEF MadeInv
    <3> QED
      BY <2>3, <3>1, DirectoryKept DEF GoTo, Steps
  <2> QED
    BY <1>3, <2>2, <2>3 DEF WriteValid
<1>4. CASE WriteDocument
  <2>1. /\ Opened = {"dataset"} /\ UNCHANGED command
        /\ Write("dataset", command.selects, IF Trains THEN "probe" ELSE "ledger")
    BY <1>4 DEF WriteDocument, At, Opened, Rest
  <2>2. (IF Trains THEN "probe" ELSE "ledger") \in Steps
    BY DEF Steps, Guarded
  <2> QED
    BY <1>0, <2>1, <2>2, WriteFits, FilesAre, ContentsAre
<1>5. CASE Probe \/ Train
  <2>1. /\ pc \in {"probe", "train"} /\ Opened = {command.runtime} /\ UNCHANGED command
        /\ disk["train"] = command.selects
    BY <1>5 DEF Probe, Train, At, Opened, Rest, CheckpointInv, InTurn, TrainFileRead
  <2>2. \E steps \in {"probe", "full"}, to \in Steps : Write(command.runtime, Trained(steps), to)
    BY <1>5 DEF Probe, Train, Steps, Guarded
  <2>3. \A steps \in {"probe", "full"} : Trained(steps) \in Adapters /\ Trained(steps) # Cut
    BY <1>0, <2>1, FileAssumption DEF Trained, Adapters
  <2> QED
    BY <1>0, <2>1, <2>2, <2>3, WriteFits, FilesAre, ContentsAre
<1>6. CASE SavePeftConfig
  <2>1. Opened = {"config"} /\ UNCHANGED command
    BY <1>6 DEF SavePeftConfig, At, Opened, Rest
  <2>2. \E to \in Steps : Write("config", PeftConfig, to)
    BY <1>6 DEF SavePeftConfig, Steps, Guarded
  <2>3. PeftConfig \in Configs /\ PeftConfig # Cut
    BY FileAssumption DEF PeftConfig, Configs, Runtimes
  <2> QED
    BY <2>1, <2>2, <2>3, WriteFits, FilesAre, ContentsAre
<1>7. CASE WriteConfig
  <2>1. /\ pc = "config" /\ ~Refused /\ Opened = {"config"} /\ UNCHANGED command
        /\ Write("config", Merged, "provenance")
    BY <1>7 DEF WriteConfig, At, Opened, Rest
  <2>2. buffer = None => Merged \in Configs /\ Merged # Cut
    BY <2>1, MergedIsConfigured, FileAssumption
  <2>3. "provenance" \in Steps
    BY DEF Steps, Guarded
  <2> QED
    BY <2>1, <2>2, <2>3, WriteFits, FilesAre, ContentsAre
<1>8. CASE WriteProvenance
  <2>1. /\ pc = "provenance" /\ Opened = {"provenance"} /\ UNCHANGED command
        /\ Write("provenance", Claims, "verify")
    BY <1>8 DEF WriteProvenance, At, Opened, Rest
  <2>2. Claims \in Provenance /\ Claims # Cut
    BY <2>1, ClaimsAreTrue, FileAssumption DEF True
  <2>3. "verify" \in Steps
    BY DEF Steps, Guarded
  <2> QED
    BY <2>1, <2>2, <2>3, WriteFits, FilesAre, ContentsAre
<1>9. CASE Verify
  BY <1>9, DirectoryKept DEF Verify, At, GoTo, Steps, MadeInv
<1>10. CASE WriteLedger
  <2>1. Opened = {"ledger"} /\ UNCHANGED command /\ Write("ledger", Entry, "done")
    BY <1>10 DEF WriteLedger, At, Opened, Rest, Entry
  <2>2. made => disk["provenance"] \in Provenance
    BY DEF MadeInv, Verifies, VerifiesAs, CheckpointInv, OnDisk, True
  <2>3. Entry \in Ledgers /\ Entry # Cut
    BY <1>0, <2>2, FileAssumption DEF Entry, Ledgers
  <2>4. "done" \in Steps
    BY DEF Steps
  <2> QED
    BY <2>1, <2>3, <2>4, WriteFits, FilesAre, ContentsAre
<1>11. CASE Fail
  BY <1>11, DirectoryKept DEF Fail, GoTo, Steps
<1> QED
  BY <1>1, <1>2, <1>3, <1>4, <1>5, <1>6, <1>7, <1>8, <1>9, <1>10, <1>11 DEF Work

LEMMA WorldKept ==
  ASSUME Directory, Surroundings, Work \/ Fail
  PROVE  Surroundings' /\ UNCHANGED check
<1>1. CASE Draw
  BY <1>1, CheckpointAssumption DEF Draw, Rest, Surroundings
<1>2. CASE \/ Drawn \/ WriteTrain \/ WriteValid \/ WriteDocument \/ Probe \/ SavePeftConfig
           \/ WriteConfig \/ WriteProvenance \/ WriteLedger \/ Fail
  <2>1. UNCHANGED <<Rest, World>>
    BY <1>2 DEF Drawn, WriteTrain, WriteValid, WriteDocument, Probe, SavePeftConfig, WriteConfig,
                WriteProvenance, WriteLedger, Fail
  <2> QED
    BY <2>1 DEF Surroundings, Rest, World
<1>3. CASE Train
  <2>1. disk["valid"] \in Datasets \cup {None, Cut}
    BY FilesAre, ContentsAre DEF Directory
  <2> QED
    BY <1>3, <2>1 DEF Train, Surroundings, World
<1>4. CASE Verify
  BY <1>4 DEF Verify, Surroundings, World
<1> QED
  BY <1>1, <1>2, <1>3, <1>4 DEF Work

LEMMA CheckFits ==
  ASSUME CheckpointInv, Reading, Check
  PROVE  Reading'
<1> USE DEF CheckpointInv, InCheck, Reading
<1>1. CASE CheckReads
  BY <1>1 DEF CheckReads
<1>2. CASE CheckParses
  <2>1. disk["provenance"] \in Provenance /\ disk["provenance"] # None
    BY <1>2 DEF CheckParses, OnDisk, True
  <2> QED
    BY <1>2, <2>1 DEF CheckParses
<1>3. CASE CheckHashes
  BY <1>3 DEF CheckHashes
<1>4. CASE CheckLinks
  BY <1>4 DEF CheckLinks
<1>5. CASE CheckEnds
  BY <1>5 DEF CheckEnds, Unread
<1> QED
  BY <1>1, <1>2, <1>3, <1>4, <1>5 DEF Check

LEMMA TypesKept ==
  CheckpointInv /\ MadeInv /\ Directory /\ Surroundings /\ Reading /\ [Next]_vars
    => (Directory /\ Surroundings /\ Reading)'
<1> SUFFICES ASSUME CheckpointInv, MadeInv, Directory, Surroundings, Reading, [Next]_vars
             PROVE  Directory' /\ Surroundings' /\ Reading'
  OBVIOUS
<1>0. pc \in Steps /\ spent \in Nat /\ {"down", "draw"} \subseteq Steps
  BY DEF Directory, Steps
<1>1. CASE Work
  <2>1. Surroundings' /\ UNCHANGED check
    BY <1>1, WorldKept
  <2> QED
    BY <1>1, <2>1, NightFits DEF Reading
<1>2. CASE Fail
  <2>1. Surroundings' /\ UNCHANGED check
    BY <1>2, WorldKept
  <2>2. Directory'
    BY <1>2, DirectoryKept DEF Fail, GoTo, Steps
  <2> QED
    BY <2>1, <2>2 DEF Reading
<1>3. CASE Tick
  <2>1. Directory'
    BY <1>0, <1>3, DirectoryKept DEF Tick
  <2>2. Surroundings'
    BY <1>3, CheckpointAssumption DEF Tick, Surroundings
  <2> QED
    BY <1>3, <2>1, <2>2 DEF Tick, Reading
<1>4. CASE Hang
  <2>1. Directory'
    BY <1>0, <1>4, DirectoryKept DEF Hang
  <2>2. Surroundings'
    BY <1>4, CheckpointAssumption DEF Hang, Surroundings
  <2> QED
    BY <1>4, <2>1, <2>2 DEF Hang, Reading
<1>5. CASE StallKill \/ Kill \/ Change
  <2>1. Gone /\ UNCHANGED <<disk, check>>
    BY <1>5 DEF StallKill, Kill, Change, Die
  <2>2. Directory'
    BY <1>0, <2>1, DirectoryKept DEF Gone
  <2>3. /\ command' \in Commands /\ drawn' \in 0 .. Draws
        /\ left' \in [kills : 0 .. MaxKills, hangs : 0 .. MaxHangs, changes : 0 .. MaxChanges]
    BY <1>5, CheckpointAssumption DEF StallKill, Kill, Change, Die, Surroundings
  <2>4. made' \in BOOLEAN /\ hung' \in BOOLEAN /\ idle' \in 0 .. Stall /\ read' = None
    <3>1. 0 \in 0 .. Stall
      BY CheckpointAssumption
    <3>2. made' = FALSE /\ hung' = FALSE /\ idle' = 0 /\ read' = None
      BY <2>1, Zenon DEF Gone
    <3> QED
      BY <3>1, <3>2
  <2>5. Surroundings'
    BY <2>3, <2>4 DEF Surroundings
  <2> QED
    BY <2>1, <2>2, <2>5 DEF Reading
<1>6. CASE Resume
  <2>1. Directory'
    BY <1>0, <1>6, DirectoryKept DEF Resume, GoTo, CheckpointInv, InTurn
  <2>2. Surroundings'
    BY <1>6, CheckpointAssumption DEF Resume, Baseline, Surroundings
  <2> QED
    BY <1>6, <2>1, <2>2 DEF Resume, Reading
<1>7. CASE Check
  <2>1. Leave
    BY <1>7 DEF Check, CheckReads, CheckParses, CheckHashes, CheckLinks, CheckEnds
  <2>2. Directory' /\ Surroundings'
    BY <1>0, <2>1, DirectoryKept DEF Leave, night, Surroundings
  <2> QED
    BY <1>7, <2>2, CheckFits
<1>8. CASE UNCHANGED vars
  BY <1>0, <1>8, DirectoryKept DEF vars, night, Surroundings, Reading
<1> QED
  BY <1>1, <1>2, <1>3, <1>4, <1>5, <1>6, <1>7, <1>8 DEF Next

\* The type invariant: every file holds what its writer writes, nothing or a cut write, and the
\* check a provenance once it has parsed one, for any commands, kills, hangs and changes.
THEOREM TypesHold == Spec => []TypeOK
<1>1. Init => Directory /\ Surroundings /\ Reading
  <2> SUFFICES ASSUME Init PROVE Directory /\ Surroundings /\ Reading
    OBVIOUS
  <2>1. \A f \in Files : None \in Contents(f)
    BY DEF Contents
  <2>2. Directory
    BY <2>1 DEF Init, Directory, Steps
  <2>3. drawn \in 0 .. Draws /\ idle \in 0 .. Stall
    BY CheckpointAssumption DEF Init
  <2>4. left \in [kills : 0 .. MaxKills, hangs : 0 .. MaxHangs, changes : 0 .. MaxChanges]
    BY CheckpointAssumption DEF Init
  <2>5. Surroundings
    BY <2>3, <2>4 DEF Init, Surroundings
  <2>6. Reading
    BY DEF Init, Reading, Unread
  <2> QED
    BY <2>2, <2>5, <2>6
<1>2. Directory /\ Surroundings /\ Reading => TypeOK
  <2> SUFFICES ASSUME Directory, Surroundings, Reading PROVE TypeOK
    OBVIOUS
  <2>1. None \in Contents("train") /\ "train" \in Files /\ None # Cut
    BY CheckpointAssumption, FilesAre DEF Contents
  <2>2. buffer \in Writable
    BY <2>1 DEF Directory, Writable
  <2> QED
    BY <2>2 DEF Directory, Surroundings, Reading, TypeOK
<1> QED
  BY <1>1, <1>2, InvStarts, InvKept, MadeStarts, MadeKept, TypesKept, PTL DEF Spec
=============================================================================
