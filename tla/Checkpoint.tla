----------------------------- MODULE Checkpoint -----------------------------
(***************************************************************************)
(* The end of a night (loop/night.py: run_night from its draws on, _train; *)
(* loop/sft.py: probe_capacity, train, write_checkpoint,                   *)
(* verify_checkpoint), run under the supervisor that kills a night which   *)
(* writes no draw for `--stall-seconds` (loop/supervise.py), and the       *)
(* leakage check that links a run to a checkpoint while all of this goes   *)
(* on (loop/check_leakage.py).  The draws themselves are module NightDraws *)
(* and appear here only as the writes the supervisor watches.  What a      *)
(* document or an adapter holds is kept as what it was made from; a digest *)
(* is injective, so it is left out and the contents are compared.          *)
(***************************************************************************)
EXTENDS Naturals

CONSTANTS
    None, Cut,      \* what a path holds: no file; a file whose write was cut short
    Datasets,       \* the training sets a night may select
    Validated,      \* those large enough for a validation split
    Barren,         \* those without a single example
    Commands,       \* how a night of this run id may be invoked
    Draws,          \* `--draws`
    DrawTicks,      \* the longest a draw takes
    TrainTicks,     \* how long training takes, its capacity probe included
    Stall,          \* `--stall-seconds`
    MaxKills,       \* bound: kills by anyone but the supervisor
    MaxHangs,       \* bound: calls into the runtime that never return
    MaxChanges      \* bound: nights started anew, the same run id, other inputs perhaps

Runtimes == {"mlx", "torch"}
Command  == [selects : Datasets, runtime : Runtimes, probe : BOOLEAN]

ASSUME CheckpointAssumption ==
    /\ None # Cut /\ {None, Cut} \cap Datasets = {}
    /\ Validated \subseteq Datasets /\ Barren \subseteq Datasets /\ Barren \cap Validated = {}
    /\ Commands \subseteq Command
    /\ {Draws, DrawTicks, TrainTicks, Stall, MaxKills, MaxHangs, MaxChanges} \subseteq Nat
    /\ DrawTicks < Stall

\* The files, a runtime naming its adapter's (adapters.safetensors, adapter_model.safetensors);
\* those the provenance of a checkpoint records, in the order it does.
Sealed == <<"config", "torch", "mlx">>
SealedFiles == {"config", "torch", "mlx"}
Files  == {"train", "valid", "dataset", "provenance", "ledger"} \cup SealedFiles

\* An adapter is what it was trained on and whether by the capacity probe's few steps; the
\* adapter's configuration is whose vocabularies it holds ("targets" for what only PEFT knows)
\* and who wrote it last.
Adapters   == [of : Datasets, steps : {"probe", "full"}]
Configs    == [keys : SUBSET (Runtimes \cup {"targets"}), by : {"trainer", "writer"}]
SealedAs   == [config  : Configs \cup {None, Cut},
               torch   : Adapters \cup {None, Cut},
               mlx     : Adapters \cup {None, Cut}]
Provenance == [dataset : Datasets, runtime : Runtimes, validated : BOOLEAN, files : SealedAs]
Ledgers    == [dataset : Datasets, checkpoint : Provenance \cup {None}]

ASSUME FileAssumption ==
    {None, Cut} \cap (Adapters \cup Configs \cup Provenance \cup Ledgers) = {}

VARIABLES
    \* on disk
    disk,       \* [Files -> what the path holds]
    drawn,      \* draws whose journal is complete
    \* the night's process
    command,    \* how it was invoked
    pc,         \* the step it is at, or "down" or "done"
    buffer,     \* what it is writing to the file of that step, None while that is not open
    made,       \* whether the checkpoint was written and verified
    hung,       \* whether the call it is in never returns
    spent,      \* how long it has been at that step
    read,       \* history: the validation set its training read, None if it read none
    \* the supervisor and the world
    idle,       \* since the last write of a draw, or the spawn if that is later
    left,       \* kills, hangs and changes still to come
    \* the leakage check
    check       \* how far it is, and the dataset and the provenance it has read

night == <<command, pc, buffer, made, hung, spent, read>>
vars  == <<disk, drawn, night, idle, left, check>>

Unread == [at |-> "start", hashed |-> 0, dataset |-> None, provenance |-> None]

Init ==
    /\ disk = [f \in Files |-> None] /\ drawn = 0
    /\ command \in Commands
    /\ pc = "draw" /\ buffer = None /\ made = FALSE /\ hung = FALSE /\ spent = 0 /\ read = None
    /\ idle = 0
    /\ left = [kills |-> MaxKills, hangs |-> MaxHangs, changes |-> MaxChanges]
    /\ check = Unread

-----------------------------------------------------------------------------
(* What is written. *)

\* Without a split there is no valid.jsonl: it is not written, and one that is there is left.
HasSplit == command.selects \in Validated
\* A probe trains nothing, nor does a night that selected nothing.
Trains   == ~command.probe /\ command.selects \notin Barren

\* The trainer writes over the adapter of its runtime; what it trained on is train.jsonl.
Trained(steps) == [of |-> disk["train"], steps |-> steps]
\* PEFT writes its configuration with every adapter it saves; mlx-lm's trainer writes none.
PeftConfig == [keys |-> {"torch", "targets"}, by |-> "trainer"]

\* The keys of the other runtime are stripped, the rest of what was there is kept.
Other(r) == IF r = "mlx" THEN "torch" ELSE "mlx"
Kept     == IF disk["config"] = None THEN {} ELSE disk["config"].keys
Merged   == [keys |-> (Kept \ {Other(command.runtime)}) \cup {command.runtime}, by |-> "writer"]

\* `write_checkpoint` refuses a directory without files, and a configuration it cannot parse.
Refused ==
    /\ pc = "config" /\ buffer = None
    /\ \/ \A f \in SealedFiles : disk[f] = None
       \/ disk["config"] = Cut

\* Mutant of Recorded: what is recorded is what was hashed before the configuration was written.
RecordedBefore == [config |-> None, torch |-> disk["torch"], mlx |-> disk["mlx"]]
Recorded == [config |-> disk["config"], torch |-> disk["torch"], mlx |-> disk["mlx"]]
Claims   == [dataset |-> command.selects, runtime |-> command.runtime, validated |-> HasSplit,
             files |-> Recorded]

\* What a reader of the checkpoint re-hashes: every file the provenance records, and no other.
SameBytes(recorded, f) == recorded[f] # None => disk[f] = recorded[f]
VerifiesAs(p) == p \notin {None, Cut} /\ \A f \in SealedFiles : SameBytes(p.files, f)
Verifies      == VerifiesAs(disk["provenance"])

-----------------------------------------------------------------------------
(* The night. *)

Running == pc \notin {"down", "done"}
Rest    == <<command, made, hung, read>>
World   == <<drawn, idle, left, check>>

\* Training takes TrainTicks, and no step but a draw takes any other time.
Ready == ~hung /\ (pc = "train" => spent >= TrainTicks)

GoTo(step) == pc' = step /\ spent' = 0

\* A write is an open, which empties the file, and a close; then the night goes on to `to`.  What
\* is written was put together before the file was opened.
Write(f, content, to) ==
    \/ /\ buffer = None /\ buffer' = content
       /\ disk' = [disk EXCEPT ![f] = Cut] /\ UNCHANGED <<pc, spent>>
    \/ /\ buffer # None /\ buffer' = None
       /\ disk' = [disk EXCEPT ![f] = buffer] /\ GoTo(to)

At(step) == pc = step /\ Ready

\* A draw that completes writes its journal; the draws of an earlier process replay.
Draw ==
    /\ At("draw") /\ drawn < Draws
    /\ drawn' = drawn + 1 /\ spent' = 0 /\ idle' = 0
    /\ UNCHANGED <<disk, pc, buffer, Rest, left, check>>

Drawn ==
    /\ At("draw") /\ drawn = Draws
    /\ GoTo("train file") /\ UNCHANGED <<disk, buffer, Rest, World>>

WriteTrain == At("train file") /\ Write("train", command.selects, "valid file")
                               /\ UNCHANGED <<Rest, World>>

WriteValid ==
    /\ At("valid file")
    /\ \/ HasSplit /\ Write("valid", command.selects, "document")
       \/ ~HasSplit /\ GoTo("document") /\ UNCHANGED <<disk, buffer>>
    /\ UNCHANGED <<Rest, World>>

WriteDocument ==
    /\ At("document")
    /\ Write("dataset", command.selects, IF Trains THEN "probe" ELSE "ledger")
    /\ UNCHANGED <<Rest, World>>

\* `probe_capacity` runs the trainer for a few steps, over the adapter that is there; `train`
\* runs it for all of them.  mlx-lm's reads valid.jsonl if it is there, PEFT's never does.
Probe ==
    /\ At("probe")
    /\ Write(command.runtime, Trained("probe"),
             IF command.runtime = "torch" THEN "probe config" ELSE "train")
    /\ UNCHANGED <<Rest, World>>

Train ==
    /\ At("train")
    /\ Write(command.runtime, Trained("full"),
             IF command.runtime = "torch" THEN "train config" ELSE "config")
    /\ read' = IF command.runtime = "mlx" THEN disk["valid"] ELSE None
    /\ UNCHANGED <<command, made, hung, World>>

SavePeftConfig ==
    /\ \/ At("probe config") /\ Write("config", PeftConfig, "train")
       \/ At("train config") /\ Write("config", PeftConfig, "config")
    /\ UNCHANGED <<Rest, World>>

\* `write_checkpoint`: the configuration, then the provenance over every file in the directory.
WriteConfig ==
    /\ At("config") /\ ~Refused
    /\ Write("config", Merged, "provenance")
    /\ UNCHANGED <<Rest, World>>

WriteProvenance ==
    /\ At("provenance") /\ Write("provenance", Claims, "verify") /\ UNCHANGED <<Rest, World>>

Verify ==
    /\ At("verify") /\ Verifies
    /\ made' = TRUE /\ GoTo("ledger")
    /\ UNCHANGED <<disk, buffer, command, hung, read, World>>

\* Training and the checkpoint step are guarded: whatever they raise (the capacity finding, the
\* projected length, a full disk, an unreadable configuration) becomes the ledger's reason.
Guarded == {"probe", "probe config", "train", "train config", "config", "provenance", "verify"}
Fail ==
    /\ pc \in Guarded /\ ~hung
    /\ GoTo("ledger") /\ buffer' = None
    /\ UNCHANGED <<disk, Rest, World>>

\* Mutant of WriteLedger: the ledger names whatever checkpoint is there.
WriteLedgerOfWhatIsThere ==
    /\ At("ledger")
    /\ Write("ledger", [dataset    |-> command.selects,
                        checkpoint |-> IF disk["provenance"] = Cut THEN None
                                                                  ELSE disk["provenance"]], "done")
    /\ UNCHANGED <<Rest, World>>

WriteLedger ==
    /\ At("ledger")
    /\ Write("ledger", [dataset    |-> command.selects,
                        checkpoint |-> IF made THEN disk["provenance"] ELSE None], "done")
    /\ UNCHANGED <<Rest, World>>

Work ==
    \/ Draw \/ Drawn \/ WriteTrain \/ WriteValid \/ WriteDocument \/ Probe \/ Train
    \/ SavePeftConfig \/ WriteConfig \/ WriteProvenance \/ Verify \/ WriteLedger
    \/ Refused /\ Fail

-----------------------------------------------------------------------------
(* The supervisor, the operator and the machine. *)

\* Time passes while a step takes its time, or for ever in a call that never returns.
Takes == CASE pc = "draw"  -> DrawTicks
           [] pc = "train" -> TrainTicks
           [] OTHER        -> 0
Tick ==
    /\ Running /\ idle < Stall
    /\ \/ hung /\ UNCHANGED spent
       \/ ~hung /\ spent < Takes /\ spent' = spent + 1
    /\ idle' = idle + 1
    /\ UNCHANGED <<disk, drawn, command, pc, buffer, made, hung, read, left, check>>

\* A call into the runtime never returns; an in-process timeout does not reach it.
Hang ==
    /\ pc \in {"draw", "probe", "train"} /\ ~hung /\ left.hangs > 0
    /\ hung' = TRUE /\ left' = [left EXCEPT !.hangs = @ - 1]
    /\ UNCHANGED <<disk, drawn, command, pc, buffer, made, spent, read, idle, check>>

\* The process ends where it is, inside a write perhaps.
Gone == pc' = "down" /\ buffer' = None /\ made' = FALSE /\ hung' = FALSE /\ spent' = 0
        /\ read' = None /\ idle' = 0
Die  == Running /\ Gone /\ UNCHANGED <<disk, drawn, command, check>>

Stalled == idle >= Stall
StallKill == Stalled /\ Die /\ UNCHANGED left

Kill == left.kills > 0 /\ Die /\ left' = [left EXCEPT !.kills = @ - 1]

\* Mutant of Baseline: the newest journal's time, whenever it was written.
BaselineOfJournals == IF drawn > 0 THEN Stall ELSE 0
\* The same command again.  The baseline is the spawn, never an old journal's time.
Baseline == 0
Resume ==
    /\ pc = "down"
    /\ GoTo("draw") /\ idle' = Baseline
    /\ UNCHANGED <<disk, drawn, command, buffer, made, hung, read, left, check>>

\* Another command for the same run id: of the draws on disk some may serve it, the rest are
\* drawn again.
Change ==
    /\ ~Running /\ left.changes > 0
    /\ command' \in Commands /\ drawn' \in 0 .. drawn
    /\ Gone /\ left' = [left EXCEPT !.changes = @ - 1]
    /\ UNCHANGED <<disk, check>>

-----------------------------------------------------------------------------
(* The leakage check, given the run and the checkpoint.  It refuses a run without a dataset, a  *)
(* document it cannot parse, a file that is not the one recorded, and a checkpoint that names   *)
(* another dataset; each ends it without a link.                                                *)

Leave == UNCHANGED <<disk, drawn, night, idle, left>>

CheckReads ==
    /\ check.at = "start" /\ disk["ledger"] # Cut /\ disk["dataset"] \in Datasets
    /\ check' = [check EXCEPT !.at = "dataset", !.dataset = disk["dataset"]]
    /\ Leave

CheckParses ==
    /\ check.at = "dataset" /\ disk["provenance"] \notin {None, Cut}
    /\ check' = [check EXCEPT !.at = "provenance", !.provenance = disk["provenance"]]
    /\ Leave

CheckHashes ==
    /\ check.at = "provenance" /\ check.hashed < 3
    /\ SameBytes(check.provenance.files, Sealed[check.hashed + 1])
    /\ check' = [check EXCEPT !.hashed = @ + 1]
    /\ Leave

\* Mutant of Links: a checkpoint that verifies is taken for the run's.
LinksAny(p, d) == TRUE
Links(p, d) == p.dataset = d
CheckLinks ==
    /\ check.at = "provenance" /\ check.hashed = 3
    /\ Links(check.provenance, check.dataset)
    /\ check' = [check EXCEPT !.at = "linked"]
    /\ Leave

\* It refuses, or it has said what it found.
CheckEnds == check.at # "start" /\ check' = Unread /\ Leave

Check == CheckReads \/ CheckParses \/ CheckHashes \/ CheckLinks \/ CheckEnds

Next == Work \/ Fail \/ Tick \/ Hang \/ StallKill \/ Kill \/ Resume \/ Change \/ Check

\* The scheduler runs a night that can run, time passes, the supervisor polls, and an operator
\* gives a stopped night's command again.
Fairness == WF_vars(Work) /\ WF_vars(Tick) /\ WF_vars(StallKill) /\ WF_vars(Resume)

Spec == Init /\ [][Next]_vars /\ Fairness

-----------------------------------------------------------------------------
(* Properties. *)

Steps == Guarded \cup {"draw", "train file", "valid file", "document", "ledger", "down", "done"}
Contents(f) ==
    {None, Cut} \cup
        CASE f \in {"train", "valid", "dataset"} -> Datasets
          [] f \in {"mlx", "torch"}              -> Adapters
          [] f = "config"                        -> Configs
          [] f = "provenance"                    -> Provenance
          [] f = "ledger"                        -> Ledgers
Writable == (UNION {Contents(f) : f \in Files}) \ {Cut}

\* Every file holds what its writer writes, nothing or a cut write, and every counter is within
\* its bound; the check holds a provenance once it has parsed one.
TypeOK ==
    /\ DOMAIN disk = Files /\ \A f \in Files : disk[f] \in Contents(f)
    /\ drawn \in 0 .. Draws /\ command \in Commands
    /\ pc \in Steps /\ buffer \in Writable /\ made \in BOOLEAN /\ hung \in BOOLEAN
    /\ spent \in Nat /\ idle \in 0 .. Stall /\ read \in Datasets \cup {None, Cut}
    /\ left \in [kills : 0 .. MaxKills, hangs : 0 .. MaxHangs, changes : 0 .. MaxChanges]
    /\ check.at \in {"start", "dataset", "provenance", "linked"} /\ check.hashed \in 0 .. 3
    /\ check.dataset \in Datasets \cup {None} /\ check.provenance \in Provenance \cup {None}
    /\ check.at \in {"provenance", "linked"} => check.provenance # None

\* An adapter is in a state to be loaded as what a provenance says: trained to the end on the
\* dataset it names, configured in its runtime's vocabulary alone, PEFT's targets kept.
IsTrained(p, adapter) == adapter = [of |-> p.dataset, steps |-> "full"]
IsConfigured(p, config) ==
    /\ config \notin {None, Cut}
    /\ config.keys \cap Runtimes = {p.runtime}
    /\ p.runtime = "torch" => "targets" \in config.keys

\* A checkpoint directory that verifies holds the adapter its provenance describes: whatever was
\* killed, failed, resumed or given again in that directory, under the other runtime too
\* (`verify_checkpoint`, over what `write_checkpoint` and the trainers leave).
VerifiedIsTrained ==
    Verifies => LET p == disk["provenance"]
                IN  IsTrained(p, disk[p.runtime]) /\ IsConfigured(p, disk["config"])

\* What the leakage check links to a run's dataset was trained on that dataset, even when a night
\* of the same run id was rewriting both while it read (`_link_of`).
LinkIsTrue ==
    check.at = "linked" =>
        LET p == check.provenance
        IN  IsTrained([p EXCEPT !.dataset = check.dataset], p.files[p.runtime])

\* The ledger a night ends with names a checkpoint only if it is the one in the directory, it
\* verifies, and it was trained on the dataset beside the ledger (`run_night`, `_train`).
LedgerNamesItsCheckpoint ==
    pc = "done" =>
        LET ledger == disk["ledger"]
        IN  /\ ledger.dataset = disk["dataset"]
            /\ ledger.checkpoint # None =>
                  /\ ledger.checkpoint = disk["provenance"] /\ Verifies
                  /\ ledger.checkpoint.dataset = ledger.dataset

\* A supervised night, however often it hangs, is killed or raises in training, ends with its
\* ledger written (`supervise`: a resumed night is not killed for yesterday's journals; `_train`:
\* a failure in training does not take the ledger with it).
NightEnds == (pc # "done") ~> (pc = "done")
=============================================================================
