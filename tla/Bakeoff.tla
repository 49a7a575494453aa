------------------------------ MODULE Bakeoff -------------------------------
(***************************************************************************)
(* The bake-off (bakeoff/run.py `conduct`): the tasks are chosen, by a     *)
(* committed stratum or without one, the weights proved, the prompts       *)
(* frozen, every candidate swept over both sources against a               *)
(* journal, and the one report written (bakeoff/report.py `build_report`,  *)
(* selection.py).  The process may be killed anywhere and started again    *)
(* with other arguments over the same journal; a donor may be lost and the *)
(* pool fetched again while it runs.  One step here is one step of the     *)
(* sweep, whose insides are module Sweep's.                                *)
(***************************************************************************)
EXTENDS Stratum, Reports

CONSTANTS
    Recorded,       \* the weights' provenance: per candidate, the files of its fetch and their bytes
    Disks,          \* the weights that may be on the disk, likewise
    MODEL_CONFIG,   \* the file a model's directory holds
    Candidates,     \* in the order of the provenance
    Size,           \* the parameters each one's name declares; None when not exactly one
    PrivateCorpus, PublicCorpus,    \* the two corpora, in their order
    Fact,           \* a task's record (Oracle)
    Bands, Corpora, \* the rules and the corpora, in their order, a stratum may have been composed of
    Strata,         \* the stratum documents an operator may name, edited and outdated ones among them
    DevSubsets,     \* the subsets an operator may declare, unknown ids among them
    Onlys,          \* what --only may choose; {} for no flag
    Probes,         \* how many tasks --probe may ask for; None for no flag
    Pools,          \* what the source-A pool may hold
    Funnels,        \* the eligible instances source A's ledger may name; None when it cannot be read
    RecordedOns,    \* what an operator may declare as the day, a blank among them
    Answers,        \* per candidate and task: the controls and verdicts a sweep may find
    MaxStarts, MaxMishaps     \* bounds

PrivateTasks == Range(PrivateCorpus)
PublicTasks  == Range(PublicCorpus)
Tasks        == PrivateTasks \cup PublicTasks
Contenders   == Range(Candidates)

\* The documents `whetstone bakeoff stratum` may have written, whichever donors it could read.
Composed ==
    {ComposeDocument(band, ids, Fact, read) :
        band \in Bands, ids \in Corpora, read \in SUBSET {Fact[t].repo : t \in DOMAIN Fact}} \ {None}

\* Whoever edits a document leaves its digest as it is: a digest is one that was computed.
ASSUME BakeoffAssumption ==
    /\ PrivateCorpus \in Seq(DOMAIN Fact) /\ PublicCorpus \in Seq(DOMAIN Fact) /\ PrivateTasks \cap PublicTasks = {}
    /\ Candidates \in Seq(DOMAIN Recorded) /\ Size \in [Contenders -> Nat \cup {None}] /\ None \notin Nat
    /\ \A only \in Onlys : only \subseteq Contenders
    /\ Corpora \subseteq Seq(DOMAIN Fact)
    /\ \A document \in Strata : "document_digest" \in DOMAIN document =>
          \E composed \in Composed : document.document_digest = composed.document_digest
    /\ MaxStarts \in Nat /\ MaxMishaps \in Nat

VARIABLES
    repos, pool,    \* beside it: the repositories that can be read, the source-A pool,
    funnel, weights,    \* source A's ledger, and the bytes of every candidate
    journal,        \* on disk: [candidate \X task -> step]
    report,         \* what stands in --out: page, sidecar and cost of a report, a probe's cost,
                    \* and the page the report door makes of a stored journal
    run,            \* the process: its arguments and its contract, or None
    steps,          \* what it holds: [candidate \X task -> step]
    ended,          \* the candidates whose sweeps are over
    writing,        \* the files of the report already written
    starts, mishaps

world       == <<repos, pool, funnel, weights>>
memory      == <<run, steps, ended, writing>>
bakeoffVars == <<world, journal, report, memory, starts, mishaps>>

Nothing == << >>
Files   == <<"page", "sidecar", "cost">>
Paths   == {"page", "sidecar", "cost", "probe", "arm"}

\* Where something stands in an order, and a function that says one thing more.
Place(order, x) == CHOOSE k \in DOMAIN order : order[k] = x
With(f, x, v)   == [y \in DOMAIN f \cup {x} |-> IF y = x THEN v ELSE f[y]]

BakeoffInit ==
    /\ repos = {Fact[t].repo : t \in Tasks} /\ pool \in Pools /\ funnel \in Funnels /\ weights \in Disks
    /\ journal = Nothing /\ report = [f \in Paths |-> None]
    /\ run = None /\ steps = Nothing /\ ended = {} /\ writing = 0
    /\ starts = 0 /\ mishaps = 0

-----------------------------------------------------------------------------
(* The arguments, and the contract frozen over them. *)

\* The private tasks a document leaves of the corpus; None for one that is refused.
Members(document) ==
    LET members == ReadDocument(document)
    IN  IF members = None THEN None ELSE IncludeStratum(members, PrivateTasks)
\* A declared id must be a task's, of the members when a stratum is given.
UnknownDevSubset(private, dev) == dev \ (private \cup PublicTasks) # {}

\* The one prompt of a task shows the files of its oracle.
Prompt(t)  == [task |-> t, files |-> OracleSources(Fact[t], repos, pool)]
Posable(t) == OracleSources(Fact[t], repos, pool) # None

\* A task with no oracle poses nothing, and is scored for what it is.
Freeze(tasks) == {Prompt(t) : t \in {x \in tasks : Posable(x)}}

SelectCandidates(only) == IF only = {} THEN Contenders ELSE only

\* The first `n` of some tasks, in the order they are swept.
TaskOrder   == PrivateCorpus \o PublicCorpus
First(n, tasks) ==
    {t \in tasks : Cardinality({o \in tasks : Place(TaskOrder, o) <= Place(TaskOrder, t)}) <= n}

\* Every recorded file of every recorded candidate, those --only leaves out among them, has its bytes
\* on the disk, in a directory that is a model's; other files beside them are nobody's business.
Verify(files, found) == MODEL_CONFIG \in DOMAIN found /\ Restrict(found, DOMAIN files) = files
LoadWeights ==
    /\ DOMAIN Recorded # {}
    /\ \A c \in DOMAIN Recorded : c \in DOMAIN weights /\ Recorded[c] # Nothing /\ Verify(Recorded[c], weights[c])

\* What the operator may ask for.
Arguments ==
    [stratum : Strata \cup {None}, dev : DevSubsets, only : Onlys, probe : Probes,
     journaled : BOOLEAN, recorded_on : RecordedOns]

Begin ==
    /\ run = None /\ starts < MaxStarts /\ starts' = starts + 1
    /\ \E args \in Arguments :
          LET members == IF args.stratum = None THEN PrivateTasks ELSE Members(args.stratum)
              private == members \ args.dev
              public  == PublicTasks \ args.dev
              probing == args.probe # None
          IN  /\ members # None /\ ~UnknownDevSubset(members, args.dev)
              /\ args.stratum # None => private # {}
              /\ LoadWeights
              /\ run' = [private |-> IF probing THEN First(args.probe, private) ELSE private,
                         public  |-> IF probing THEN {} ELSE public,
                         dev |-> args.dev, restricted |-> args.stratum # None,
                         probe |-> probing, recorded_on |-> args.recorded_on,
                         contract |-> Freeze(private \cup public),
                         candidates |-> SelectCandidates(args.only),
                         done |-> IF args.journaled /\ ~probing THEN journal ELSE Nothing,
                         journaled |-> args.journaled /\ ~probing]
    /\ UNCHANGED <<world, journal, report, steps, ended, writing, mishaps>>

-----------------------------------------------------------------------------
(* The sweeps: candidate by candidate, source B and then source A. *)

Swept            == run.private \cup run.public
SweptOver(c, corpus) == [t \in corpus |-> steps[<<c, t>>]]
\* The candidate in hand, what its sweeps have left, and the one task of it that is next.
InHand           == {c \in run.candidates \ ended : \A d \in run.candidates \ ended :
                                                        Place(Candidates, c) <= Place(Candidates, d)}
Remaining(c)     == ({c} \X Swept) \ DOMAIN steps
Due              == {ct \in UNION {Remaining(c) : c \in InHand} : \A other \in Remaining(ct[1]) :
                                                        Place(TaskOrder, ct[2]) <= Place(TaskOrder, other[2])}

Dies == run' = None /\ steps' = Nothing /\ ended' = {} /\ writing' = 0

\* A step on record is not asked again, whatever it was asked under.
Replay ==
    /\ run # None
    /\ \E ct \in Due \cap DOMAIN run.done : steps' = With(steps, ct, run.done[ct])
    /\ UNCHANGED <<world, journal, report, run, ended, writing, starts, mishaps>>

\* The control and the verdict are the machine's, as far as it gets: no reference patch and no
\* environment skip the control, no environment and no oracle ask the base nothing.
Found(c, t) ==
    {[control |-> IF ReferencePatch(Fact[t], repos, pool) = None THEN "SKIPPED" ELSE a.control,
      verdict |-> IF a.verdict.outcome # "UNPROVISIONED" /\ ~Posable(t)
                  THEN [outcome |-> "NO_ORACLE", strict |-> "UNVERIFIED", weak |-> "UNVERIFIED"]
                  ELSE a.verdict] : a \in Answers[c][t]}
Asks(found)  == found.verdict.outcome \notin {"UNPROVISIONED", "NO_ORACLE"}

\* The seal: a prompt the contract does not pose is not asked.
\* Mutant of SealedPrompt: it is.
Unsealed(prompt) == TRUE
SealedPrompt(prompt) == prompt \in run.contract

Step(found, t) ==
    [control |-> found.control, verdict |-> found.verdict, prompt |-> IF Asks(found) THEN Prompt(t) ELSE None]
Score ==
    /\ run # None
    /\ \E ct \in Due \ DOMAIN run.done : \E found \in Found(ct[1], ct[2]) :
          /\ Asks(found) => SealedPrompt(Prompt(ct[2]))
          /\ steps'   = With(steps, ct, Step(found, ct[2]))
          /\ journal' = IF run.journaled THEN With(journal, ct, Step(found, ct[2])) ELSE journal
    /\ UNCHANGED <<world, report, run, ended, writing, starts, mishaps>>

\* ContractChanged leaves the sweep, and the run with it.
ContractChanged ==
    /\ run # None
    /\ \E ct \in Due \ DOMAIN run.done :
          /\ \E found \in Found(ct[1], ct[2]) : Asks(found)
          /\ ~SealedPrompt(Prompt(ct[2]))
    /\ Dies /\ UNCHANGED <<world, journal, report, starts, mishaps>>

\* No ranking from a harness that failed a control, or that no control has shown to work.
Rankable(swept) ==
    /\ \E t \in DOMAIN swept : swept[t].control = "INTACT"
    /\ \A t \in DOMAIN swept : swept[t].control # "BROKEN"
\* Mutant of Proven: source B's harness stands for both.
ProvenOnPrivate(c) == Rankable(SweptOver(c, run.private))
Proven(c)          == Rankable(SweptOver(c, run.private)) /\ Rankable(SweptOver(c, run.public))

\* A candidate's harness is judged when its sweeps end, and a name that declares no size found out;
\* a probe ranks nothing.
CandidateEnds ==
    /\ run # None
    /\ \E c \in InHand :
          /\ Remaining(c) = {}
          /\ IF run.probe \/ (Proven(c) /\ Size[c] # None)
             THEN ended' = ended \cup {c} /\ UNCHANGED <<run, steps, writing>>
             ELSE Dies
    /\ UNCHANGED <<world, journal, report, starts, mishaps>>

AllSwept == run # None /\ ended = run.candidates
\* What a probe publishes is what it cost, and no count.
ProbeEnds ==
    /\ AllSwept /\ run.probe /\ Dies
    /\ report' = [report EXCEPT !["probe"] = [candidates |-> run.candidates, tasks |-> Cardinality(run.private)]]
    /\ UNCHANGED <<world, journal, starts, mishaps>>

-----------------------------------------------------------------------------
(* The report. *)

\* Mutant of Verdicts: only the tasks a base was asked are counted.
VerdictsAsked(c, corpus) ==
    [t \in {x \in corpus : steps[<<c, x>>].prompt # None} |-> steps[<<c, t>>].verdict]
Verdicts(c, corpus) == [t \in corpus |-> steps[<<c, t>>].verdict]
Counted(c)  == [private |-> Tally(Verdicts(c, run.private)), public |-> Tally(Verdicts(c, run.public))]

\* The highest count of source B, the smaller base and then the first name on a tie.
Before(counts, c, d) ==
    \/ counts[c].private.solved > counts[d].private.solved
    \/ /\ counts[c].private.solved = counts[d].private.solved
       /\ \/ Size[c] < Size[d]
          \/ Size[c] = Size[d] /\ Place(Candidates, c) < Place(Candidates, d)
Ranking(counts) == {cd \in (DOMAIN counts) \X (DOMAIN counts) : Before(counts, cd[1], cd[2])}
Leads(counts)   == {c \in DOMAIN counts : \A d \in DOMAIN counts \ {c} : <<c, d>> \in Ranking(counts)}
\* All at zero is no evidence, and nobody's victory.
\* Mutant of Selected: the first of the ranking, whatever it solved.
SelectedFirst(counts) == Leads(counts)
Selected(counts) ==
    IF \A c \in DOMAIN counts : counts[c].private.solved = 0 THEN {} ELSE Leads(counts)

BuildReport ==
    LET counts == [c \in ended |-> Counted(c)]
    IN  [counts |-> counts, selected |-> Selected(counts), ranking |-> Ranking(counts),
         task_set |-> [private |-> Cardinality(run.private), public |-> Cardinality(run.public)],
         recorded_on |-> run.recorded_on, dev_subset |-> run.dev, contract |-> run.contract,
         eligible |-> funnel]

\* The page says besides who solved the public instance and nothing private, and puts source A's
\* result under the name of the first eligible instance of the ledger.
Split(r)    == {c \in DOMAIN r.counts : r.counts[c].public.solved > 0 /\ r.counts[c].private.solved = 0}
SourceAResult(r) ==
    [instance |-> Head(r.eligible),
     lines    |-> [c \in DOMAIN r.counts |-> SourceALine(r.counts[c].public)]]
Rendered(r) ==
    [f \in DOMAIN r \cup {"split", "source_a"} |->
        IF f = "split" THEN Split(r) ELSE IF f = "source_a" THEN SourceAResult(r) ELSE r[f]]
Document(file) ==
    CASE file = "page"    -> Rendered(BuildReport)
      [] file = "sidecar" -> BuildReport
      [] file = "cost"    -> [candidates |-> run.candidates, tasks |-> Cardinality(Swept)]

\* What the report refuses, when everything has been paid for: an input left blank, a source with no
\* step, a task of the dev subset among the scored, a ledger that names no instance.
IncompleteProvenance == run.recorded_on = None
MissingSource        == run.private = {} \/ run.public = {}
ScoredDevSubset      == {ct[2] : ct \in DOMAIN steps} \cap run.dev # {}
NoFunnel             == funnel = None \/ funnel = <<>>

Reporting == AllSwept /\ ~run.probe
\* Page, sidecar and cost, each written in place.
Publish ==
    /\ Reporting /\ ~NoFunnel /\ ~IncompleteProvenance /\ ~MissingSource /\ ~ScoredDevSubset
    /\ report' = [report EXCEPT ![Files[writing + 1]] = Document(Files[writing + 1])]
    /\ IF writing + 1 = Len(Files) THEN Dies
       ELSE writing' = writing + 1 /\ UNCHANGED <<run, steps, ended>>
    /\ UNCHANGED <<world, journal, starts, mishaps>>

ReportRefused ==
    /\ Reporting /\ (NoFunnel \/ IncompleteProvenance \/ MissingSource \/ ScoredDevSubset)
    /\ Dies /\ UNCHANGED <<world, journal, report, starts, mishaps>>

-----------------------------------------------------------------------------
(* The report doors (bakeoff/comparison.py): the counts of a stored journal, under the contract of *)
(* a stored sidecar.  The operator names both, and nothing holds the one against the other.         *)

\* Whatever the journal holds of a candidate is counted, both sources together.
\* Mutant of ArmTally: a task whose control was skipped is left out.
StoredTasks(c)      == {t \in Tasks : <<c, t>> \in DOMAIN journal}
ArmTallyProven(c)   == Tally([t \in {x \in StoredTasks(c) : journal[<<c, x>>].control = "INTACT"} |->
                                  journal[<<c, t>>].verdict])
ArmTally(c)         == Tally([t \in StoredTasks(c) |-> journal[<<c, t>>].verdict])

ReadContract        == report["sidecar"] \notin {None, Torn}
ContractArm         == [contract |-> report["sidecar"].contract, dev_subset |-> report["sidecar"].dev_subset,
                        tallies  |-> [c \in {ct[1] : ct \in DOMAIN journal} |-> ArmTally(c)]]

\* A journal of no step, or in which no control is intact, gives no count.
ArmRefused          == ~ReadContract \/ \A ct \in DOMAIN journal : journal[ct].control # "INTACT"

\* Three pages of one arm; the last names the first of its candidates as the one it is about.
Comparison(arm, day)    == [schema |-> "comparison", arm |-> arm, recorded_on |-> day]
StratumReport(arm, day) == [schema |-> "stratum-report", arm |-> arm, recorded_on |-> day]
LargerBaseReport(arm, day) ==
    [schema |-> "larger-base-report", arm |-> arm, recorded_on |-> day,
     candidate |-> {c \in DOMAIN arm.tallies :
                      \A d \in DOMAIN arm.tallies : Place(Candidates, c) <= Place(Candidates, d)}]
Pages(arm, day) == {Comparison(arm, day), StratumReport(arm, day), LargerBaseReport(arm, day)}

RenderArm ==
    /\ run = None /\ ~ArmRefused
    /\ \E day \in RecordedOns \ {None} : \E page \in Pages(ContractArm, day) : report' = [report EXCEPT !["arm"] = page]
    /\ UNCHANGED <<world, journal, memory, starts, mishaps>>

-----------------------------------------------------------------------------
Mishap == mishaps < MaxMishaps /\ mishaps' = mishaps + 1

\* Killed: the journal keeps every step, and a file half written stays so.
Kill ==
    /\ run # None /\ Mishap /\ Dies
    /\ \/ UNCHANGED report
       \/ Reporting /\ report' = [report EXCEPT ![Files[writing + 1]] = Torn]
    /\ UNCHANGED <<world, journal, starts>>

RepositoryIsLost(r) ==
    /\ r \in repos /\ Mishap /\ repos' = repos \ {r}
    /\ UNCHANGED <<pool, funnel, weights, journal, report, memory, starts>>
PoolIsFetchedAgain ==
    /\ Mishap /\ pool' \in Pools \ {pool}
    /\ UNCHANGED <<repos, funnel, weights, journal, report, memory, starts>>
WeightsAreReplaced ==
    /\ Mishap /\ weights' \in Disks \ {weights}
    /\ UNCHANGED <<repos, pool, funnel, journal, report, memory, starts>>

BakeoffNext ==
    \/ Begin
    \/ Replay \/ Score \/ ContractChanged \/ CandidateEnds \/ ProbeEnds
    \/ Publish \/ ReportRefused \/ RenderArm \/ Kill
    \/ PoolIsFetchedAgain \/ WeightsAreReplaced
    \/ \E r \in {Fact[t].repo : t \in Tasks} : RepositoryIsLost(r)

BakeoffSpec == BakeoffInit /\ [][BakeoffNext]_bakeoffVars

-----------------------------------------------------------------------------
BakeoffTypeOK ==
    /\ DOMAIN journal \cup DOMAIN steps \subseteq Contenders \X Tasks
    /\ ended \subseteq Contenders /\ starts \in 0..MaxStarts /\ mishaps \in 0..MaxMishaps
    /\ writing \in 0..2 /\ (writing > 0 => AllSwept)

\* A run restricted by a stratum scores nothing but tasks the rule puts in its band, by the shape of
\* their own fix: no edit, no other rule and no other corpus slips one in (stratum.py:478-649,
\* run.py:606-622).
StratumIsTheRules ==
    (run # None /\ run.restricted) =>
        \A t \in run.private :
            LET difficulty == DifficultyOf(Fact[t], {Fact[x].repo : x \in Tasks})
            IN  difficulty # None /\ InBand(BAND, difficulty)

Written == {f \in {"page", "sidecar"} : report'[f] # report[f] /\ report'[f] # Torn}

\* What the doors count of one run's journal is what its report counted in memory, source by source.
ArmIsTheReport(arm, sidecar) ==
    /\ DOMAIN arm.tallies = DOMAIN sidecar.counts
    /\ \A c \in DOMAIN arm.tallies, f \in Fields :
          arm.tallies[c][f] = sidecar.counts[c].private[f] + sidecar.counts[c].public[f]

\* Every candidate is counted over all the tasks the report names, those the machine could not pose
\* or run among them and the dev subset not; what this process asked is what the published
\* contract poses, a donor lost or a pool fetched again in between; and while there was one run, a
\* page made of its journal gives its counts again (run.py:450-494, report.py:488, comparison.py:843-853).
CountsAreOfTheContract ==
    [][/\ report'["arm"] # report["arm"] /\ starts = 1
              => ArmIsTheReport(report'["arm"].arm, report["sidecar"])
       /\ \A f \in Written :
             LET r == report'[f]
             IN  /\ DOMAIN r.counts = run.candidates
                 /\ \A c \in DOMAIN r.counts :
                       /\ r.counts[c].private.denominator = r.task_set.private
                       /\ r.counts[c].public.denominator = r.task_set.public
                       /\ \A t \in Tasks \cap r.dev_subset : <<c, t>> \notin DOMAIN steps
                 /\ \A ct \in DOMAIN steps \ DOMAIN run.done :
                       steps[ct].prompt # None => steps[ct].prompt \in r.contract]_bakeoffVars

\* A base is selected on evidence: on each source, for every candidate, some control showed that the
\* harness works and none that it does not; nobody solved more, nobody smaller as much, and where
\* nobody solved anything nobody is selected (sweep.py:160-183, selection.py:123-165).
SelectionIsEarned ==
    [][\A f \in Written :
        LET r         == report'[f]
            solved(c) == r.counts[c].private.solved
            controls(c, corpus) == {steps[<<c, t>>].control : t \in corpus}
        IN  /\ \A c \in DOMAIN r.counts, corpus \in {run.private, run.public} :
                  "INTACT" \in controls(c, corpus) /\ "BROKEN" \notin controls(c, corpus)
            /\ \A s \in r.selected, c \in DOMAIN r.counts :
                  /\ solved(s) > 0 /\ solved(s) >= solved(c)
                  /\ solved(c) = solved(s) => Size[s] <= Size[c]
            /\ r.selected = {} => \A c \in DOMAIN r.counts : solved(c) = 0]_bakeoffVars
=============================================================================
