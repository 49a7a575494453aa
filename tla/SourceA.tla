------------------------------ MODULE SourceA ------------------------------
(***************************************************************************)
(* Source A: the fetch of a published dataset (tasks/fetch.py), the draw   *)
(* (draw.py), and the filter that takes each instance through the gates,   *)
(* copies what survives into the corpus and ledgers the rest (public.py,   *)
(* gates.py).  A human runs each command, on what the last one committed;  *)
(* the dataset may be republished between two pages, a tool fail, an       *)
(* exception leave the filter, a process be killed.                        *)
(***************************************************************************)
EXTENDS Candidates

CONSTANTS
    None, Torn,     \* what a path holds: no file; a file whose write was cut short
    Rows,           \* the ids of published rows
    Facts,          \* a row: what it declares, its repository at the base, what its tests do
    Tests,
    WellFormed,     \* the node ids pytest can address
    Era,            \* the ids the hand-determined table has pins for
    Truncated,      \* the rows the server will not send whole
    Editions,       \* the orders the dataset is published in
    Place,          \* where an id sorts among the ids
    PageSize, MaxRows,
    DrawSize,
    MaxRuns,        \* bound: fetches and filters begun
    MaxEditions     \* bound: times the dataset is republished

ASSUME SourceAAssumption ==
    /\ None # Torn /\ {None, Torn} \cap Nat = {}
    /\ WellFormed \subseteq Tests /\ Era \subseteq Rows /\ Truncated \subseteq Rows
    /\ Editions \subseteq Seq(Rows) /\ Editions # {} /\ Place \in [Rows -> Nat]
    /\ {PageSize, MaxRows, DrawSize, MaxRuns, MaxEditions} \subseteq Nat /\ PageSize > 0

VARIABLES
    \* published, and on disk
    dataset, pool, instances, ledger, selection,
    \* the command that runs
    pc,
    fetched, steady,    \* the rows so far; whether the dataset stood still since the first page
    given,              \* the instances of the filter
    todo,               \* the instances still to filter, the one in hand first
    clones,             \* ids this filter has a checkout of
    eligible, rejected, \* what the filter has decided: ids; an id and the gate that refused
    runs, editions

disk == <<pool, instances, ledger, selection>>
mem  == <<fetched, steady, given, todo, clones, eligible, rejected>>
vars == <<dataset, disk, pc, mem, runs, editions>>

Gates   == {"format", "collectability", "environment", "liveness"}
Ids(s)  == Range(s)
Refused == {r.id : r \in Range(rejected)}

Times(s, i) == Cardinality({k \in DOMAIN s : s[k] = i})
Orders(s)   == {[k \in DOMAIN s |-> s[p[k]]] : p \in SetToSeqs(DOMAIN s)}

Init ==
    /\ dataset \in Editions /\ pool = None /\ ledger = None /\ selection = None
    /\ instances = [i \in Rows |-> None]
    /\ pc = "down" /\ fetched = <<>> /\ steady = TRUE /\ given = <<>> /\ todo = <<>> /\ clones = {}
    /\ eligible = <<>> /\ rejected = <<>> /\ runs = 0 /\ editions = 0

-----------------------------------------------------------------------------
(* The fetch: a page after another, from the offset the rows so far make. *)

FetchBegins ==
    /\ pc = "down" /\ runs < MaxRuns
    /\ pc' = "fetch" /\ fetched' = <<>> /\ steady' = TRUE /\ runs' = runs + 1
    /\ UNCHANGED <<dataset, disk, given, todo, clones, eligible, rejected, editions>>

\* A response may hold fewer rows than were asked for; the offset moves by what it held.
Smaller(a, b)   == IF a < b THEN a ELSE b
Asked           == Smaller(PageSize, MaxRows - Len(fetched))
Available       == Len(dataset) - Len(fetched)
\* Mutant of NextPage: the offset counts the rows that are kept.
NextPageOfKept(n) ==
    LET kept == Cardinality({k \in DOMAIN fetched : fetched[k] \notin Truncated})
    IN  SubSeq(dataset, kept + 1, kept + n)
NextPage(n)     == SubSeq(dataset, Len(fetched) + 1, Len(fetched) + n)
Page ==
    /\ pc = "fetch" /\ Len(fetched) < MaxRows /\ Available > 0
    /\ \E n \in 1..Smaller(Asked, Available) : fetched' = fetched \o NextPage(n)
    /\ UNCHANGED <<dataset, disk, pc, steady, given, todo, clones, eligible, rejected, runs, editions>>

\* What a sequence names of a set, in its order.
Keep(s, ids) ==
    LET kept[n \in 0..Len(s)] ==
            IF n = 0 THEN <<>> ELSE IF s[n] \in ids THEN Append(kept[n - 1], s[n]) ELSE kept[n - 1]
    IN  kept[Len(s)]

\* A row the server truncated is dropped and its id published; no other row is.  Both lists are
\* sorted by their ids, one that came twice included.
Ascending(s)     == \A j, k \in DOMAIN s : j < k => Place[s[j]] <= Place[s[k]]
Sorted(s)        == {o \in Orders(s) : Ascending(o)}
RowsToPool(rows) ==
    {[records |-> kept, truncated |-> cut] :
        kept \in Sorted(Keep(rows, Rows \ Truncated)), cut \in Sorted(Keep(rows, Truncated))}
\* `whole` is not of the document: whether the dataset stood still while it was fetched.
PoolDocuments(rows) ==
    {[records |-> pooled.records, truncated |-> pooled.truncated, whole |-> steady] : pooled \in RowsToPool(rows)}

\* An empty page ends the fetch, whether or not the dataset ends there; what came is written.
FetchEnds ==
    /\ pc = "fetch"
    /\ pc' = "down" /\ pool' \in PoolDocuments(fetched)
    /\ UNCHANGED <<dataset, instances, ledger, selection, mem, runs, editions>>

Republish ==
    /\ editions < MaxEditions
    /\ dataset' \in Editions \ {dataset} /\ steady' = FALSE /\ editions' = editions + 1
    /\ UNCHANGED <<disk, pc, fetched, given, todo, clones, eligible, rejected, runs>>

-----------------------------------------------------------------------------
(* What a filter is given: a named set, a draw of the pool, or the pool. *)

ReadPool == pool \notin {None, Torn}

\* Round-robin over the repositories: an instance comes in the round of its place in its repository.
Round(s, k)    == Cardinality({j \in 1..k : Facts[s[j]].repo = Facts[s[k]].repo})
RoundRobin(s)  == \A j, k \in DOMAIN s : j < k =>
                      \/ Round(s, j) < Round(s, k)
                      \/ Round(s, j) = Round(s, k) /\ Facts[s[j]].repo < Facts[s[k]].repo
Draw(records)  == {SubSeq(s, 1, DrawSize) : s \in {o \in Orders(records) : RoundRobin(o)}}
Only(records)  == {Keep(records, only) : only \in (SUBSET Range(records)) \ {{}}}

MayFilter == pc = "down" /\ runs < MaxRuns /\ ReadPool
FilterOn(chosen) ==
    /\ pc' = "declare" /\ given' = chosen /\ todo' = chosen /\ runs' = runs + 1
    /\ clones' = {} /\ eligible' = <<>> /\ rejected' = <<>>
    /\ UNCHANGED <<dataset, pool, instances, ledger, fetched, steady, editions>>

FilterWhole == MayFilter /\ FilterOn(pool.records) /\ UNCHANGED selection
FilterOnly  == MayFilter /\ \E chosen \in Only(pool.records) : FilterOn(chosen) /\ UNCHANGED selection
FilterDraw  ==
    /\ MayFilter /\ DrawSize \in 1..Len(pool.records)
    /\ \E chosen \in Draw(pool.records) : FilterOn(chosen) /\ selection' = Range(chosen)

-----------------------------------------------------------------------------
(* One instance, gate by gate.  A step answers "goes on", or the gate that refuses; some can also *)
(* raise what the filter does not catch.                                                          *)

Inst == Head(todo)
F    == Facts[Inst]
If(holds, gate) == IF holds THEN {"goes on"} ELSE {gate}

\* The two lists are published with repeats and overlaps.
Declared2(f)  == [fail_to_pass |-> Range(f.fail), pass_to_pass |-> Range(f.pass) \ Range(f.fail)]
DeclaredIds   == Declared2(F).fail_to_pass \cup Declared2(F).pass_to_pass

\* Malformed ids are nobody's; no id at all would pass every check of ids vacuously.
Malformed     == DeclaredIds \ WellFormed
CheckFormat   == If(DeclaredIds # {} /\ Malformed = {}, "format")
EraPins       == If(Inst \in Era, "environment")

\* A clone may fail, and into a directory that is there it does.
Clone         == If(Inst \notin clones, "collectability") \cup {"collectability"}

\* The .py files a test patch names are its tests; one it adds is refused, and one it deletes is not.
TestFiles     == {e.path : e \in {t \in F.test_patch : t.path.name # "data"}}
HeldFor       == If(TestFiles # {} /\ TestFiles \subseteq F.tree, "collectability")
HeldSet       == TestFiles \cup ConftestFloor(F.tree, TestFiles)
LayoutOf      == If(~UnknownImportRoot(F.project), "environment")

\* An install that exits 0 is no evidence: what it installed must import, and freeze to exact pins.
ProbeImports     == F.imports
CheckEnvironment == If(ProbeImports /\ Describable(F.project.freeze), "environment")
                        \cup {"environment", "raises"}
Overlay          == If(F.applies, "collectability")

\* Mutant of CheckCollectable: an id pytest collects and nobody declared is let through.
CheckCollectableAtLeast == If(DeclaredIds \subseteq F.collects, "collectability") \cup {"collectability"}
CheckCollectable        == If(DeclaredIds = F.collects, "collectability") \cup {"collectability"}

\* The held files are read from the overlaid checkout, where a deleted one is not; then it is loaded.
ManifestFor == [fail_to_pass |-> Declared2(F).fail_to_pass, pass_to_pass |-> Declared2(F).pass_to_pass,
                blobs |-> HeldSet, import_roots |-> ImportRoots(F.project)]
Stage       == If((\A e \in F.test_patch : e.status # "D") /\ LoadTask(ManifestFor), "raises")
Liveness    == If(F.live, "liveness") \cup {"liveness", "raises"}

Steps  == <<"declare", "pins", "clone", "hold", "layout", "environment", "overlay", "collect",
            "stage", "live", "copy">>
Answers(step) ==
    CASE step = "declare" -> CheckFormat      [] step = "pins"        -> EraPins
      [] step = "clone"   -> Clone            [] step = "hold"        -> HeldFor
      [] step = "layout"  -> LayoutOf         [] step = "environment" -> CheckEnvironment
      [] step = "overlay" -> Overlay          [] step = "collect"     -> CheckCollectable
      [] step = "stage"   -> Stage            [] step = "live"        -> Liveness

At(k) == pc = Steps[k] /\ todo # <<>>
GoesOn(k) ==
    /\ At(k) /\ "goes on" \in Answers(Steps[k])
    /\ pc' = Steps[k + 1]
    /\ clones' = IF Steps[k] = "clone" THEN clones \cup {Inst} ELSE clones
    /\ UNCHANGED <<dataset, disk, fetched, steady, given, todo, eligible, rejected, runs, editions>>

\* A rejection is a finding, and the next instance follows.
Rejected(k) ==
    /\ At(k) /\ \E gate \in Answers(Steps[k]) \cap Gates :
                    rejected' = Append(rejected, [id |-> Inst, gate |-> gate])
    /\ pc' = "declare" /\ todo' = Tail(todo)
    /\ UNCHANGED <<dataset, disk, fetched, steady, given, clones, eligible, runs, editions>>

\* Any other exception leaves the filter: what was copied stays, and no ledger is written.
Raises(k) ==
    /\ At(k) /\ "raises" \in Answers(Steps[k])
    /\ pc' = "down"
    /\ UNCHANGED <<dataset, disk, mem, runs, editions>>

\* A copied manifest carries what its instance declared when it was filtered.
CopyBegins ==
    /\ pc = "copy"
    /\ pc' = "copying" /\ instances' = [instances EXCEPT ![Inst] = Torn]
    /\ UNCHANGED <<dataset, pool, ledger, selection, mem, runs, editions>>
CopyEnds ==
    /\ pc = "copying"
    /\ pc' = "declare" /\ todo' = Tail(todo)
    /\ instances' = [instances EXCEPT ![Inst] = runs] /\ eligible' = Append(eligible, Inst)
    /\ UNCHANGED <<dataset, pool, ledger, selection, fetched, steady, given, clones, rejected, runs,
                   editions>>

-----------------------------------------------------------------------------
(* The ledger of a filter. *)

\* No instance is on both sides, and the sides add up to what was given.
\* Mutant of Conserves: the totals alone, which an instance counted twice satisfies.
ConservesTotals == Len(eligible) + Len(rejected) = Len(given)
Conserves ==
    /\ Refused \cap Ids(eligible) = {}
    /\ Len(eligible) + Len(rejected) = Len(given)
FilterRaises ==
    /\ pc = "declare" /\ todo = <<>> /\ ~Conserves
    /\ pc' = "down"
    /\ UNCHANGED <<dataset, disk, mem, runs, editions>>

\* Written whether or not anything survived; a kill inside the write leaves it torn.  `run` and `of`
\* are not of the file: the filter that wrote it, and the instances that one was given.
WriteIneligible ==
    /\ pc = "declare" /\ todo = <<>> /\ Conserves
    /\ pc' = "down"
    /\ ledger' = [eligible |-> eligible, rejected |-> rejected, input |-> Len(given),
                  run |-> runs, of |-> given]
    /\ UNCHANGED <<dataset, pool, instances, selection, mem, runs, editions>>

Kill ==
    /\ pc # "down" /\ pc' = "down"
    /\ ledger' \in {ledger} \cup IF pc = "declare" /\ todo = <<>> /\ Conserves THEN {Torn} ELSE {}
    /\ pool' \in {pool} \cup IF pc = "fetch" THEN {Torn} ELSE {}
    /\ UNCHANGED <<dataset, instances, selection, mem, runs, editions>>

Next ==
    \/ FetchBegins \/ Page \/ FetchEnds \/ Republish
    \/ FilterWhole \/ FilterOnly \/ FilterDraw
    \/ \E k \in 1..10 : GoesOn(k) \/ Rejected(k) \/ Raises(k)
    \/ CopyBegins \/ CopyEnds \/ FilterRaises \/ WriteIneligible \/ Kill

Spec == Init /\ [][Next]_vars

-----------------------------------------------------------------------------
TypeOK ==
    /\ dataset \in Editions /\ pc \in Range(Steps) \cup {"down", "fetch", "copying"}
    /\ instances \in [Rows -> {None, Torn} \cup 1..MaxRuns] /\ selection \in {None} \cup SUBSET Rows
    /\ fetched \in Seq(Rows) /\ steady \in BOOLEAN /\ given \in Seq(Rows) /\ todo \in Seq(Rows)
    /\ clones \subseteq Rows /\ eligible \in Seq(Rows) /\ Refused \subseteq Rows
    /\ runs \in 0..MaxRuns /\ editions \in 0..MaxEditions

\* However the server cuts its pages and whenever it is republished between two of them, a pool is
\* the first rows of what was published, as many as came before an empty page, the row at each place
\* from the edition of that moment and of one edition where none followed; each is in it as often as
\* it came, or named as truncated (fetch.py:390-425, 153-184).
PoolIsTheDataset ==
    ReadPool =>
        LET length == Len(pool.records) + Len(pool.truncated)
        IN  /\ length <= MaxRows
            /\ \E from \in [1..length -> Editions] :
                  /\ \A k \in 1..length : k <= Len(from[k])
                  /\ pool.whole => \A j, k \in 1..length : from[j] = from[k]
                  /\ \A i \in Rows : Times(IF i \in Truncated THEN pool.truncated ELSE pool.records, i)
                                         = Times([k \in 1..length |-> from[k][k]], i)

DeclaredBy(i) == Declared2(Facts[i]).fail_to_pass \cup Declared2(Facts[i]).pass_to_pass
Formed(i)     == DeclaredBy(i) # {} /\ DeclaredBy(i) \subseteq WellFormed

\* A manifest in the corpus was proved by every gate, whatever later filters were given, whichever
\* of them died, and whatever else the machine refused (public.py:29-33).
Provable(i) ==
    /\ Declared2(Facts[i]).fail_to_pass # {} /\ DeclaredBy(i) \subseteq WellFormed
    /\ DeclaredBy(i) = Facts[i].collects
    /\ i \in Era /\ Facts[i].imports /\ Facts[i].live
CorpusIsProved ==
    \A i \in Rows : instances[i] \notin {None, Torn} => Provable(i)

\* What an instance has shown that a gate refuses: an earlier gate had let it through.
CameTo(i, gate) ==
    /\ gate # "format" <=> Formed(i)
    /\ gate \in {"collectability", "liveness"} => i \in Era
    /\ gate = "liveness" => Facts[i].imports /\ DeclaredBy(i) = Facts[i].collects

\* Nothing vanishes and nothing is counted twice: a ledger has every instance its filter was given,
\* as often as it was given, among the eligible or among the rejected and never among both; the
\* manifests its filter left are those of its eligible ones, and it names for each of the others a
\* gate that instance had come to (gates.py:752-785, public.py:267-304).
LedgerAccounts ==
    ledger \notin {None, Torn} =>
        LET refused == [k \in DOMAIN ledger.rejected |-> ledger.rejected[k].id]
        IN  /\ ledger.input = Len(ledger.of)
            /\ \A i \in Rows :
                  /\ Times(ledger.of, i) = Times(ledger.eligible, i) + Times(refused, i)
                  /\ i \notin Ids(ledger.eligible) \cap Ids(refused)
                  /\ instances[i] = ledger.run => i \in Ids(ledger.eligible)
                  /\ i \in Ids(ledger.eligible) => instances[i] = Torn \/ instances[i] >= ledger.run
            /\ \A r \in Range(ledger.rejected) : CameTo(r.id, r.gate)
=============================================================================
