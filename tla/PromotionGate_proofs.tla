------------------------ MODULE PromotionGate_proofs ------------------------
(***************************************************************************)
(* For every held-out membership, retry budget and number of crashes: a    *)
(* retry never asks the base again, a decision is the truth about what     *)
(* the two checkpoints answered, and a record accounts for each retry.     *)
(***************************************************************************)
EXTENDS PromotionGate, FiniteSetTheorems, TLAPS

\* No two tasks render one prompt.
OwnPrompts == \A t, u \in Tasks : PromptOf[t] = PromptOf[u] => t = u

-----------------------------------------------------------------------------
(* The inductive invariant. *)

\* Where the process is.
Position ==
    /\ pc \in {"down", "score", "retry", "decide"} /\ side \in Sides /\ task \in Tasks
    /\ pc = "retry" => task \in Held
    /\ DOMAIN answer = Sides /\ \A s \in Sides : DOMAIN answer[s] = Tasks
    /\ DOMAIN graded = Sides /\ \A s \in Sides : DOMAIN graded[s] = Tasks
    /\ DOMAIN outcome = Sides /\ \A s \in Sides : DOMAIN outcome[s] = Tasks
    /\ DOMAIN kept = Sides /\ \A s \in Sides : DOMAIN kept[s] = Prompts

\* The recorder holds what each asked task was answered, and nothing of the others.
Recorder ==
    \A s \in Sides, t \in Tasks :
        /\ answer[s][t] # NoText => kept[s][PromptOf[t]] = answer[s][t]
        /\ kept[s][PromptOf[t]] # NoText => answer[s][t] # NoText

\* Tasks still to be scored.
Unreached(s, t) ==
    pc = "score" /\ (\/ s = side /\ t >= task
                     \/ s = "incumbent" /\ side = "candidate")

Cleared(s, t) == answer[s][t] = NoText /\ graded[s][t] = NoText /\ outcome[s][t] = Unscored

\* What a scored task's outcome says of its answer.
Truthful(s, t) ==
    /\ outcome[s][t] \in Outcomes
    /\ outcome[s][t] = "SOLVED" => <<t, answer[s][t]>> \in Passing
    /\ outcome[s][t] = "NOT_SOLVED" => <<t, answer[s][t]>> \notin Passing

Scores ==
    \A s \in Sides, t \in Tasks :
        /\ graded[s][t] = answer[s][t]
        /\ Unreached(s, t) \/ (pc = "down" /\ ~Over) => Cleared(s, t)
        /\ pc # "down" /\ ~Unreached(s, t) => Truthful(s, t)

AtRest == pc = "down" /\ ~Over => side = "candidate" /\ task = 1

Written == record.exit # "none" => pc = "down" /\ exit = "decided"

GateInv == Position /\ Recorder /\ Scores /\ AtRest /\ Written /\ DecisionIsTheTruth

-----------------------------------------------------------------------------
(* The tasks. *)

LEMMA FirstTasks == 1 \in Held /\ Held \subseteq Tasks
<1>1. H \in Nat /\ H # 0 /\ P \in Nat
  BY GateAssumption
<1> QED
  BY <1>1 DEF Held, Tasks

LEMMA TasksAreNumbers ==
    /\ Tasks \subseteq Nat
    /\ \A t \in Tasks : t + 1 \notin Tasks => \A u \in Tasks : u <= t
<1>1. H \in Nat /\ H # 0 /\ P \in Nat
  BY GateAssumption
<1> QED
  BY <1>1 DEF Tasks

-----------------------------------------------------------------------------
(* What a process that ends leaves. *)

LEMMA ExitClears ==
    ASSUME NEW why, Exit(why), Written, why # "decided", pc # "down" \/ ~Over,
           record' = record \/ record' = NoRecord,
           why # "none"
    PROVE  Position' /\ Recorder' /\ Scores' /\ AtRest' /\ Written' /\ DecisionIsTheTruth'
<1>1. /\ pc' = "down" /\ side' = "candidate" /\ task' = 1 /\ exit' = why
      /\ answer' = BySide([t \in Tasks |-> NoText])
      /\ kept' = BySide([p \in Prompts |-> NoText])
      /\ outcome' = BySide([t \in Tasks |-> Unscored])
      /\ graded' = BySide([t \in Tasks |-> NoText])
  BY DEF Exit
<1>2. Position'
  BY <1>1, FirstTasks DEF Position, BySide, Sides
<1>3. \A t \in Tasks : PromptOf[t] \in Prompts
  BY GateAssumption
<1>4. Recorder'
  BY <1>1, <1>3 DEF Recorder, BySide
<1>5. Scores'
  BY <1>1 DEF Scores, BySide, Cleared, Unreached, Truthful
<1>6. record.exit = "none"
  BY DEF Written, Over
<1>7. record'.exit = "none"
  BY <1>6 DEF NoRecord
<1> QED
  BY <1>1, <1>2, <1>4, <1>5, <1>7 DEF AtRest, Written, DecisionIsTheTruth

-----------------------------------------------------------------------------
(* How the loops move. *)

LEMMA NextUnscoredMoves ==
    ASSUME Position, pc = "score", NextUnscored
    PROVE  /\ pc' \in {"score", "retry"} /\ side' \in Sides /\ task' \in Tasks
           /\ pc' = "retry" => task' \in Held
           /\ \A s \in Sides, t \in Tasks :
                Unreached(s, t)' <=> Unreached(s, t) /\ ~(s = side /\ t = task)
<1>1. side \in Sides /\ task \in Tasks /\ task \in Nat
  BY TasksAreNumbers DEF Position
<1>2. CASE task + 1 \in Tasks
  <2>1. task' = task + 1 /\ side' = side /\ pc' = "score"
    BY <1>2 DEF NextUnscored
  <2>2. ASSUME NEW s \in Sides, NEW t \in Tasks
        PROVE  Unreached(s, t)' <=> Unreached(s, t) /\ ~(s = side /\ t = task)
    <3>1. t \in Nat
      BY TasksAreNumbers
    <3>2. t >= task + 1 <=> t >= task /\ t # task
      BY <1>1, <3>1
    <3> QED
      BY <2>1, <3>2 DEF Unreached
  <2> QED
    BY <1>1, <1>2, <2>1, <2>2
<1>3. CASE task + 1 \notin Tasks
  <2>1. /\ task' = 1
        /\ side' = IF side = "candidate" THEN "incumbent" ELSE "candidate"
        /\ pc' = IF side = "candidate" THEN "score" ELSE "retry"
    BY <1>3 DEF NextUnscored
  <2>2. ASSUME NEW s \in Sides, NEW t \in Tasks
        PROVE  Unreached(s, t)' <=> Unreached(s, t) /\ ~(s = side /\ t = task)
    <3>1. t \in Nat /\ t <= task
      BY <1>1, <1>3, TasksAreNumbers
    <3>2. t >= 1
      BY GateAssumption DEF Tasks
    <3>3. t >= task <=> t = task
      BY <1>1, <3>1
    <3>4. CASE side = "candidate"
      BY <2>1, <3>2, <3>3, <3>4 DEF Unreached, Sides
    <3>5. CASE side = "incumbent"
      BY <2>1, <3>3, <3>5 DEF Unreached, Sides
    <3> QED
      BY <1>1, <3>4, <3>5 DEF Sides
  <2>3. 1 \in Tasks /\ 1 \in Held
    BY FirstTasks
  <2> QED
    BY <1>1, <2>1, <2>2, <2>3 DEF Sides
<1> QED
  BY <1>2, <1>3

LEMMA NextRetriedMoves ==
    ASSUME Position, pc = "retry", NextRetried
    PROVE  /\ pc' \in {"retry", "decide"} /\ side' \in Sides /\ task' \in Tasks
           /\ pc' = "retry" => task' \in Held
<1>1. side \in Sides /\ task \in Tasks
  BY DEF Position
<1>2. CASE task + 1 \in Held
  BY <1>1, <1>2, FirstTasks DEF NextRetried
<1>3. CASE task + 1 \notin Held
  BY <1>1, <1>3, FirstTasks DEF NextRetried, Sides
<1> QED
  BY <1>2, <1>3

-----------------------------------------------------------------------------
(* Every action keeps the invariant. *)

\* A task that is scored without being asked.
LEMMA ScoreUnaskedStep ==
    ASSUME GateInv, ScoreUnasked PROVE GateInv'
<1>1. /\ pc = "score" /\ NextUnscored /\ UNCHANGED <<record, answer, kept, graded, exit>>
      /\ \E o \in {"UNPROVISIONED", "NO_ORACLE"} : SetOutcome(o)
  BY DEF ScoreUnasked
<1>2. PICK o \in {"UNPROVISIONED", "NO_ORACLE"} : outcome' = [outcome EXCEPT ![side][task] = o]
  BY <1>1 DEF SetOutcome
<1>3. /\ pc' \in {"score", "retry"} /\ side' \in Sides /\ task' \in Tasks
      /\ pc' = "retry" => task' \in Held
      /\ \A s \in Sides, t \in Tasks :
           Unreached(s, t)' <=> Unreached(s, t) /\ ~(s = side /\ t = task)
  BY <1>1, NextUnscoredMoves DEF GateInv
<1>4. Position'
  BY <1>1, <1>2, <1>3 DEF GateInv, Position
<1>5. Recorder'
  BY <1>1 DEF GateInv, Recorder
<1>6. Scores'
  <2> SUFFICES ASSUME NEW s \in Sides, NEW t \in Tasks
               PROVE  /\ graded'[s][t] = answer'[s][t]
                      /\ Unreached(s, t)' => Cleared(s, t)'
                      /\ ~Unreached(s, t)' => Truthful(s, t)'
    BY <1>1, <1>3 DEF Scores
  <2>1. graded[s][t] = answer[s][t]
    BY DEF GateInv, Scores
  <2>2. CASE s = side /\ t = task
    <3>1. outcome'[s][t] = o
      BY <1>2, <2>2 DEF GateInv, Position
    <3> QED
      BY <1>1, <1>2, <1>3, <2>1, <2>2, <3>1 DEF Truthful, Outcomes, Uncovered
  <2>3. CASE ~(s = side /\ t = task)
    <3>1. outcome'[s][t] = outcome[s][t]
      BY <1>2, <2>3 DEF GateInv, Position
    <3>2. Unreached(s, t)' <=> Unreached(s, t)
      BY <1>3, <2>3
    <3>3. /\ Unreached(s, t) => Cleared(s, t)
          /\ ~Unreached(s, t) => Truthful(s, t)
      BY <1>1 DEF GateInv, Scores
    <3> QED
      BY <1>1, <2>1, <3>1, <3>2, <3>3 DEF Cleared, Truthful
  <2> QED
    BY <2>2, <2>3
<1>7. AtRest' /\ Written' /\ DecisionIsTheTruth'
  BY <1>1, <1>3 DEF GateInv, AtRest, Written, DecisionIsTheTruth
<1> QED
  BY <1>4, <1>5, <1>6, <1>7 DEF GateInv

\* A task whose completion is graded.
LEMMA ScoreStep ==
    ASSUME OwnPrompts, GateInv, Score PROVE GateInv'
<1>1. PICK c \in Completions :
        /\ answer' = [answer EXCEPT ![side][task] = c]
        /\ kept' = [kept EXCEPT ![side][PromptOf[task]] = IF @ = NoText THEN c ELSE @]
        /\ graded' = [graded EXCEPT ![side][task] = c]
        /\ \E o \in Verdict(task, c) : SetOutcome(o)
  BY DEF Score
<1>2. PICK o \in Verdict(task, c) : outcome' = [outcome EXCEPT ![side][task] = o]
  BY <1>1 DEF SetOutcome
<1>3. pc = "score" /\ NextUnscored /\ UNCHANGED <<record, exit>>
  BY DEF Score
<1>4. /\ pc' \in {"score", "retry"} /\ side' \in Sides /\ task' \in Tasks
      /\ pc' = "retry" => task' \in Held
      /\ \A s \in Sides, t \in Tasks :
           Unreached(s, t)' <=> Unreached(s, t) /\ ~(s = side /\ t = task)
  BY <1>3, NextUnscoredMoves DEF GateInv
<1>5. side \in Sides /\ task \in Tasks /\ c # NoText
  BY GateAssumption DEF GateInv, Position, NoText
<1>6. /\ DOMAIN answer = Sides /\ \A s \in Sides : DOMAIN answer[s] = Tasks
      /\ DOMAIN graded = Sides /\ \A s \in Sides : DOMAIN graded[s] = Tasks
      /\ DOMAIN outcome = Sides /\ \A s \in Sides : DOMAIN outcome[s] = Tasks
      /\ DOMAIN kept = Sides /\ \A s \in Sides : DOMAIN kept[s] = Prompts
  BY DEF GateInv, Position
<1>7. Position'
  BY <1>1, <1>2, <1>4, <1>6 DEF Position
<1>8. PromptOf[task] \in Prompts
  BY <1>5, GateAssumption
<1>9. kept[side][PromptOf[task]] = NoText
  <2>1. Unreached(side, task)
    <3>1. task >= task
      BY <1>5, TasksAreNumbers
    <3> QED
      BY <1>3, <3>1 DEF Unreached
  <2>2. answer[side][task] = NoText
    BY <1>5, <2>1 DEF GateInv, Scores, Cleared
  <2> QED
    BY <1>5, <2>2 DEF GateInv, Recorder
<1>10. Recorder'
  <2> SUFFICES ASSUME NEW s \in Sides, NEW t \in Tasks
               PROVE  /\ answer'[s][t] # NoText => kept'[s][PromptOf[t]] = answer'[s][t]
                      /\ kept'[s][PromptOf[t]] # NoText => answer'[s][t] # NoText
    BY DEF Recorder
  <2>1. CASE s = side /\ t = task
    BY <1>1, <1>5, <1>6, <1>8, <1>9, <2>1
  <2>2. CASE ~(s = side /\ t = task)
    <3>1. answer'[s][t] = answer[s][t]
      BY <1>1, <1>6, <2>2
    <3>2. s = side => PromptOf[t] # PromptOf[task]
      BY <1>5, <2>2 DEF OwnPrompts
    <3>3. PromptOf[t] \in Prompts
      BY GateAssumption
    <3>4. kept'[s][PromptOf[t]] = kept[s][PromptOf[t]]
      BY <1>1, <1>6, <3>2, <3>3
    <3> QED
      BY <3>1, <3>4 DEF GateInv, Recorder
  <2> QED
    BY <2>1, <2>2
<1>11. Scores'
  <2> SUFFICES ASSUME NEW s \in Sides, NEW t \in Tasks
               PROVE  /\ graded'[s][t] = answer'[s][t]
                      /\ Unreached(s, t)' => Cleared(s, t)'
                      /\ ~Unreached(s, t)' => Truthful(s, t)'
    BY <1>3, <1>4 DEF Scores
  <2>1. CASE s = side /\ t = task
    <3>1. outcome'[s][t] = o /\ answer'[s][t] = c /\ graded'[s][t] = c
      BY <1>1, <1>2, <1>6, <2>1
    <3>2. o \in Outcomes /\ (o = "SOLVED" => <<t, c>> \in Passing)
                         /\ (o = "NOT_SOLVED" => <<t, c>> \notin Passing)
      BY <1>2, <2>1 DEF Verdict, Outcomes, Uncovered
    <3> QED
      BY <1>4, <2>1, <3>1, <3>2 DEF Truthful
  <2>2. CASE ~(s = side /\ t = task)
    <3>1. /\ outcome'[s][t] = outcome[s][t] /\ answer'[s][t] = answer[s][t]
          /\ graded'[s][t] = graded[s][t]
      BY <1>1, <1>2, <1>6, <2>2
    <3>2. Unreached(s, t)' <=> Unreached(s, t)
      BY <1>4, <2>2
    <3>3. /\ graded[s][t] = answer[s][t]
          /\ Unreached(s, t) => Cleared(s, t)
          /\ ~Unreached(s, t) => Truthful(s, t)
      BY <1>3 DEF GateInv, Scores
    <3> QED
      BY <3>1, <3>2, <3>3 DEF Cleared, Truthful
  <2> QED
    BY <2>1, <2>2
<1>12. AtRest' /\ Written' /\ DecisionIsTheTruth'
  BY <1>3, <1>4 DEF GateInv, AtRest, Written, DecisionIsTheTruth
<1> QED
  BY <1>7, <1>10, <1>11, <1>12 DEF GateInv

\* A task there is nothing to retry for.
LEMMA RetryNothingStep ==
    ASSUME GateInv, RetryNothing PROVE GateInv'
<1>1. /\ pc = "retry" /\ NextRetried
      /\ UNCHANGED <<record, answer, kept, outcome, graded, exit>>
  BY DEF RetryNothing
<1>2. /\ pc' \in {"retry", "decide"} /\ side' \in Sides /\ task' \in Tasks
      /\ pc' = "retry" => task' \in Held
  BY <1>1, NextRetriedMoves DEF GateInv
<1>3. Position' /\ Recorder'
  BY <1>1, <1>2 DEF GateInv, Position, Recorder
<1>4. Scores'
  BY <1>1, <1>2 DEF GateInv, Scores, Cleared, Truthful, Unreached
<1>5. AtRest' /\ Written' /\ DecisionIsTheTruth'
  BY <1>1, <1>2 DEF GateInv, AtRest, Written, DecisionIsTheTruth
<1> QED
  BY <1>3, <1>4, <1>5 DEF GateInv

\* One verification of the recorded answer.
LEMMA RetryStep ==
    ASSUME GateInv, Retry PROVE GateInv'
<1>1. pc = "retry" /\ HasAnswer /\ UNCHANGED <<record, answer, kept, exit>>
  BY DEF Retry
<1>2. PICK o \in Verdict(task, Replayed) \cup {"NO_ORACLE"} :
        \/ /\ ~Retryable(o) /\ SetOutcome(o)
           /\ graded' = [graded EXCEPT ![side][task] = Replayed] /\ NextRetried
        \/ NextRetried /\ UNCHANGED <<outcome, graded>>
        \/ UNCHANGED <<pc, side, task, outcome, graded>>
  BY DEF Retry, Replays
<1>3. side \in Sides /\ task \in Tasks /\ task \in Held
  BY <1>1 DEF GateInv, Position
<1>4. Replayed = answer[side][task]
  BY <1>1, <1>3 DEF GateInv, Recorder, HasAnswer, Replayed
<1>5. /\ pc' \in {"retry", "decide"} /\ side' \in Sides /\ task' \in Tasks
      /\ pc' = "retry" => task' \in Held
  BY <1>1, <1>2, <1>3, NextRetriedMoves DEF GateInv
<1>6. /\ DOMAIN graded = Sides /\ \A s \in Sides : DOMAIN graded[s] = Tasks
      /\ DOMAIN outcome = Sides /\ \A s \in Sides : DOMAIN outcome[s] = Tasks
  BY DEF GateInv, Position
<1>7. CASE UNCHANGED <<outcome, graded>>
  <2>1. Position' /\ Recorder'
    BY <1>1, <1>5, <1>7 DEF GateInv, Position, Recorder
  <2>2. Scores'
    BY <1>1, <1>5, <1>7 DEF GateInv, Scores, Cleared, Truthful, Unreached
  <2> QED
    BY <1>1, <1>5, <1>7, <2>1, <2>2 DEF GateInv, AtRest, Written, DecisionIsTheTruth
<1>8. CASE /\ ~Retryable(o) /\ outcome' = [outcome EXCEPT ![side][task] = o]
           /\ graded' = [graded EXCEPT ![side][task] = Replayed]
  <2>1. Position' /\ Recorder'
    BY <1>1, <1>5, <1>6, <1>8 DEF GateInv, Position, Recorder
  <2>2. Scores'
    <3> SUFFICES ASSUME NEW s \in Sides, NEW t \in Tasks
                 PROVE  graded'[s][t] = answer'[s][t] /\ Truthful(s, t)'
      BY <1>1, <1>5 DEF Scores, Unreached
    <3>1. graded[s][t] = answer[s][t] /\ Truthful(s, t)
      BY <1>1 DEF GateInv, Scores, Unreached
    <3>2. CASE s = side /\ t = task
      <4>1. outcome'[s][t] = o /\ graded'[s][t] = answer[s][t]
        BY <1>4, <1>6, <1>8, <3>2
      <4>2. o \in Outcomes /\ (o = "SOLVED" => <<t, answer[s][t]>> \in Passing)
                           /\ (o = "NOT_SOLVED" => <<t, answer[s][t]>> \notin Passing)
        BY <1>2, <1>4, <3>2 DEF Verdict, Outcomes, Uncovered
      <4> QED
        BY <1>1, <4>1, <4>2 DEF Truthful
    <3>3. CASE ~(s = side /\ t = task)
      <4>1. outcome'[s][t] = outcome[s][t] /\ graded'[s][t] = graded[s][t]
        BY <1>6, <1>8, <3>3
      <4> QED
        BY <1>1, <3>1, <4>1 DEF Truthful
    <3> QED
      BY <3>2, <3>3
  <2> QED
    BY <1>1, <1>5, <2>1, <2>2 DEF GateInv, AtRest, Written, DecisionIsTheTruth
<1> QED
  BY <1>2, <1>7, <1>8 DEF SetOutcome

-----------------------------------------------------------------------------
(* The rule of the gate. *)

\* Over finite sets, more solved and nothing lost is a strict superset.
LEMMA MoreAndNothingLost ==
    ASSUME NEW New, NEW Old, IsFiniteSet(New), IsFiniteSet(Old)
    PROVE  (/\ Cardinality(New) > Cardinality(Old)
            /\ Cardinality(Old \ New) = 0)  <=>  (Old \subseteq New /\ Old # New)
<1>1. IsFiniteSet(Old \ New)
  BY FS_Subset
<1>2. Cardinality(Old \ New) = 0 <=> Old \ New = {}
  BY <1>1, FS_EmptySet
<1>3. Cardinality(New) \in Nat /\ Cardinality(Old) \in Nat
  BY FS_CardinalityType
<1>4. ASSUME Old \subseteq New
      PROVE  Cardinality(New) > Cardinality(Old) <=> Old # New
  <2>1. Cardinality(Old) <= Cardinality(New) /\ (Cardinality(New) = Cardinality(Old) => New = Old)
    BY <1>4, FS_Subset
  <2> QED
    BY <1>3, <2>1
<1> QED
  BY <1>2, <1>4

LEMMA DecideStep ==
    ASSUME GateInv, Decide PROVE GateInv'
<1> DEFINE new == outcome["candidate"]
           old == outcome["incumbent"]
<1>1. /\ pc = "decide" /\ pc' = "down" /\ exit' = "decided"
      /\ UNCHANGED <<side, task, answer, kept, outcome, graded>>
      /\ record'.exit = DecisionOn(new, old)
  BY DEF Decide, memory
<1>2. Position' /\ Recorder'
  BY <1>1 DEF GateInv, Position, Recorder
<1>3. Scores'
  BY <1>1 DEF GateInv, Scores, Unreached, Over
<1>4. \A s \in Sides, t \in Held : Truthful(s, t)
  BY <1>1, FirstTasks DEF GateInv, Scores, Unreached
<1>5. ASSUME DecisionOn(new, old) # "UNVERIFIED"
      PROVE  DecisionOn(new, old) = "promoted" <=>
                /\ Solves("incumbent") \subseteq Solves("candidate")
                /\ Solves("incumbent") # Solves("candidate")
  <2>1. Undecided(new, old) = {}
    BY <1>5 DEF DecisionOn
  <2>2. \A t \in Held : Covered(new, old, t)
    BY <2>1 DEF Undecided
  <2>3. \A t \in Held : new[t] \in {"SOLVED", "NOT_SOLVED"} /\ old[t] \in {"SOLVED", "NOT_SOLVED"}
    BY <1>4, <2>2 DEF Covered, Truthful, Outcomes, Sides
  <2>4. SolvedIn(new, old, new) = Solves("candidate")
    BY <1>4, <2>2, <2>3 DEF SolvedIn, Solves, Truthful, Sides
  <2>5. SolvedIn(new, old, old) = Solves("incumbent")
    BY <1>4, <2>2, <2>3 DEF SolvedIn, Solves, Truthful, Sides
  <2>6. Regressed(new, old) = Solves("incumbent") \ Solves("candidate")
    BY <2>4, <2>5 DEF Regressed, SolvedIn
  <2>7. IsFiniteSet(Solves("incumbent")) /\ IsFiniteSet(Solves("candidate"))
    <3>1. IsFiniteSet(Held)
      BY GateAssumption, FS_Interval DEF Held
    <3>2. Solves("incumbent") \in SUBSET Held /\ Solves("candidate") \in SUBSET Held
      BY DEF Solves
    <3> QED
      BY <3>1, <3>2, FS_Subset
  <2> QED
    BY <2>1, <2>4, <2>5, <2>6, <2>7, MoreAndNothingLost DEF DecisionOn
<1>6. DecisionIsTheTruth'
  BY <1>1, <1>5 DEF DecisionIsTheTruth, Solves
<1> QED
  BY <1>1, <1>2, <1>3, <1>6 DEF GateInv, AtRest, Written, Over

-----------------------------------------------------------------------------
(* The environments: a scored task was turned away exactly where the build of its environment       *)
(* failed, and then it was asked nothing.                                                           *)

Reached(s, t) == pc # "down" /\ ~Unreached(s, t)

Provision ==
    /\ DOMAIN built = Tasks
    /\ \A s \in Sides, t \in Tasks : Reached(s, t) =>
          /\ built[t] # "unbuilt"
          /\ outcome[s][t] = "UNPROVISIONED" <=> built[t] = "failed"
          /\ outcome[s][t] = "UNPROVISIONED" => answer[s][t] = NoText

\* The task that is scored takes its environment from the cache or fills the cache; no other task's
\* environment changes, nor does one that was answered for before.
LEMMA AcquireKeeps ==
    ASSUME Provision, NEW t \in Tasks, NEW got, Acquire(t, got), got \in {"built", "failed"}
    PROVE  /\ DOMAIN built' = Tasks /\ built'[t] = got
           /\ \A u \in Tasks : u # t \/ built[u] # "unbuilt" => built'[u] = built[u]
BY DEF Provision, Acquire

LEMMA ScoringKeepsProvision ==
    ASSUME GateInv, Provision, pc = "score", NextUnscored,
           NEW got \in {"built", "failed"}, Acquire(task, got),
           NEW o, outcome' = [outcome EXCEPT ![side][task] = o],
           o = "UNPROVISIONED" <=> got = "failed",
           o = "UNPROVISIONED" => answer' = answer,
           \A s \in Sides, t \in Tasks : ~(s = side /\ t = task) => answer'[s][t] = answer[s][t]
    PROVE  Provision'
<1>1. /\ side \in Sides /\ task \in Tasks
      /\ DOMAIN outcome = Sides /\ \A s \in Sides : DOMAIN outcome[s] = Tasks
  BY DEF GateInv, Position
<1>2. /\ DOMAIN built' = Tasks /\ built'[task] = got
      /\ \A u \in Tasks : u # task \/ built[u] # "unbuilt" => built'[u] = built[u]
  BY <1>1, AcquireKeeps
<1>3. \A s \in Sides, t \in Tasks :
        Unreached(s, t)' <=> Unreached(s, t) /\ ~(s = side /\ t = task)
  BY NextUnscoredMoves DEF GateInv
<1>4. Unreached(side, task)
  BY <1>1, TasksAreNumbers DEF Unreached
<1>5. answer[side][task] = NoText
  BY <1>1, <1>4 DEF GateInv, Scores, Cleared
<1>6. ASSUME NEW s \in Sides, NEW t \in Tasks, ~Unreached(s, t)'
      PROVE  /\ built'[t] # "unbuilt"
             /\ outcome'[s][t] = "UNPROVISIONED" <=> built'[t] = "failed"
             /\ outcome'[s][t] = "UNPROVISIONED" => answer'[s][t] = NoText
  <2>1. CASE s = side /\ t = task
    <3>1. outcome'[s][t] = o
      BY <1>1, <2>1
    <3>2. o = "UNPROVISIONED" => answer'[s][t] = NoText
      BY <1>5, <2>1
    <3> QED
      BY <1>2, <2>1, <3>1, <3>2
  <2>2. CASE ~(s = side /\ t = task)
    <3>1. Reached(s, t)
      BY <1>3, <1>6, <2>2 DEF Reached
    <3>2. outcome'[s][t] = outcome[s][t] /\ answer'[s][t] = answer[s][t]
      BY <1>1, <2>2
    <3>3. /\ built[t] # "unbuilt" /\ (outcome[s][t] = "UNPROVISIONED" <=> built[t] = "failed")
          /\ outcome[s][t] = "UNPROVISIONED" => answer[s][t] = NoText
      BY <3>1 DEF Provision
    <3> QED
      BY <1>2, <3>2, <3>3
  <2> QED
    BY <2>1, <2>2
<1> QED
  BY <1>2, <1>6 DEF Provision, Reached

LEMMA ScoreKeepsProvision == ASSUME GateInv, Provision, Score PROVE Provision'
<1>0. PICK c \in Completions :
        /\ answer' = [answer EXCEPT ![side][task] = c]
        /\ \E o \in Verdict(task, c) : SetOutcome(o)
  BY DEF Score
<1>1. PICK o \in Verdict(task, c) : outcome' = [outcome EXCEPT ![side][task] = o]
  BY <1>0 DEF SetOutcome
<1>2. pc = "score" /\ NextUnscored /\ Acquire(task, "built")
  BY DEF Score
<1>3. o # "UNPROVISIONED"
  BY DEF Verdict
<1>4. \A s \in Sides, t \in Tasks : ~(s = side /\ t = task) => answer'[s][t] = answer[s][t]
  BY <1>0 DEF GateInv, Position
<1> QED
  BY <1>1, <1>2, <1>3, <1>4, ScoringKeepsProvision

LEMMA ScoreUnaskedKeepsProvision == ASSUME GateInv, Provision, ScoreUnasked PROVE Provision'
<1>1. PICK got \in {"built", "failed"} :
        /\ Acquire(task, got)
        /\ SetOutcome(IF got = "failed" THEN "UNPROVISIONED" ELSE "NO_ORACLE")
  BY DEF ScoreUnasked
<1>2. pc = "score" /\ NextUnscored /\ answer' = answer
  BY DEF ScoreUnasked
<1> DEFINE o == IF got = "failed" THEN "UNPROVISIONED" ELSE "NO_ORACLE"
<1>3. outcome' = [outcome EXCEPT ![side][task] = o] /\ (o = "UNPROVISIONED" <=> got = "failed")
  BY <1>1 DEF SetOutcome
<1> HIDE DEF o
<1> QED
  BY <1>1, <1>2, <1>3, ScoringKeepsProvision

\* A task turned away has no answer to verify again, and no verification turns one away.
LEMMA RetryKeepsProvision == ASSUME GateInv, Provision, Retry PROVE Provision'
<1>1. pc = "retry" /\ HasAnswer /\ UNCHANGED <<built, answer>>
  BY DEF Retry
<1>2. PICK o \in Verdict(task, Replayed) \cup {"NO_ORACLE"} :
        \/ SetOutcome(o) /\ NextRetried
        \/ NextRetried /\ UNCHANGED outcome
        \/ UNCHANGED <<pc, side, task, outcome>>
  BY DEF Retry, Replays
<1>3. side \in Sides /\ task \in Tasks
  BY DEF GateInv, Position
<1>4. pc' \in {"retry", "decide"}
  BY <1>1, <1>2, NextRetriedMoves DEF GateInv
<1>5. \A s \in Sides, t \in Tasks : Reached(s, t)
  BY <1>1 DEF Reached, Unreached
<1>6. CASE outcome' = outcome
  BY <1>1, <1>5, <1>6 DEF Provision
<1>7. CASE outcome' = [outcome EXCEPT ![side][task] = o]
  <2>1. o # "UNPROVISIONED"
    BY DEF Verdict
  <2>2. built[task] # "failed"
    BY <1>1, <1>3, <1>5 DEF Provision, HasAnswer
  <2>3. ASSUME NEW s \in Sides, NEW t \in Tasks
        PROVE  outcome'[s][t] = IF s = side /\ t = task THEN o ELSE outcome[s][t]
    BY <1>3, <1>7 DEF GateInv, Position
  <2> QED
    BY <1>1, <1>5, <2>1, <2>2, <2>3 DEF Provision
<1> QED
  BY <1>2, <1>6, <1>7 DEF SetOutcome

LEMMA NextKeepsProvision == ASSUME GateInv, Provision, [Next]_vars PROVE Provision'
<1>1. CASE \E why : Exit(why)
  BY <1>1 DEF Exit, Provision, Reached
<1>2. CASE pc = "down" /\ ~Over /\ pc' = "score" /\ UNCHANGED memory
  <2>1. side = "candidate" /\ task = 1 /\ UNCHANGED <<side, task, built>>
    BY <1>2 DEF memory, GateInv, AtRest
  <2>2. \A t \in Tasks : t >= 1
    BY GateAssumption DEF Tasks
  <2> QED
    BY <1>2, <2>1, <2>2 DEF Provision, Reached, Unreached, Sides
<1>3. CASE Score
  BY <1>3, ScoreKeepsProvision
<1>4. CASE ScoreUnasked
  BY <1>4, ScoreUnaskedKeepsProvision
<1>5. CASE RetryNothing
  <2>1. pc = "retry" /\ pc' \in {"retry", "decide"} /\ UNCHANGED <<built, answer, outcome>>
    BY <1>5, NextRetriedMoves DEF RetryNothing, GateInv
  <2> QED
    BY <2>1 DEF Provision, Reached, Unreached
<1>6. CASE Retry
  BY <1>6, RetryKeepsProvision
<1>7. CASE Decide
  BY <1>7 DEF Decide, memory, Provision, Reached
<1>8. CASE UNCHANGED vars
  BY <1>8 DEF vars, memory, Provision, Reached, Unreached
<1> QED
  BY <1>1, <1>2, <1>3, <1>4, <1>5, <1>6, <1>7, <1>8 DEF Next, Work, Start, RetryRefused, Crash

-----------------------------------------------------------------------------
(* The retries: a task the pass has left without a verdict was asked nothing, or had the whole      *)
(* budget spent on it.                                                                              *)

\* Held-out tasks the retry pass is done with.
Passed(s, t) ==
    \/ pc = "decide"
    \/ /\ pc = "retry"
       /\ \/ s = side /\ t < task
          \/ s = "candidate" /\ side = "incumbent"

Exhausted(s, t) ==
    \/ answer[s][t] = NoText
    \/ \E r \in retries : r.side = s /\ r.task = t /\ r.used = RETRY_COUNT

Spending ==
    /\ used \in 0 .. RETRY_COUNT - 1
    /\ \A s \in Sides, t \in Held : Passed(s, t) /\ Retryable(outcome[s][t]) => Exhausted(s, t)

\* What the retries rest on, whatever the prompts: an asked task's answer was recorded.
Ledger ==
    /\ Position
    /\ \A s \in Sides, t \in Tasks : answer[s][t] # NoText => kept[s][PromptOf[t]] # NoText
    /\ Written

LEMMA NextKeepsLedger == ASSUME Ledger, [Next]_vars PROVE Ledger'
<1>1. /\ \A t \in Tasks : PromptOf[t] \in Prompts
      /\ NoText \notin Completions
  BY GateAssumption DEF NoText
<1>2. CASE \E why : why # "decided" /\ Exit(why) /\ ~(pc = "down" /\ Over)
                   /\ (record' = record \/ record' = NoRecord)
  <2>1. /\ pc' = "down" /\ side' = "candidate" /\ task' = 1
        /\ answer' = BySide([t \in Tasks |-> NoText])
        /\ kept' = BySide([p \in Prompts |-> NoText])
        /\ outcome' = BySide([t \in Tasks |-> Unscored])
        /\ graded' = BySide([t \in Tasks |-> NoText])
    BY <1>2 DEF Exit
  <2>2. record'.exit = "none"
    BY <1>2 DEF Ledger, Written, Over, NoRecord
  <2>3. Position'
    BY <2>1, FirstTasks DEF Position, BySide, Sides
  <2> QED
    BY <2>1, <2>2, <2>3 DEF Ledger, Written, BySide
<1>3. CASE pc = "down" /\ ~Over /\ pc' = "score" /\ UNCHANGED <<record, memory>>
  BY <1>3 DEF Ledger, Position, Written, memory, Over
<1>4. CASE ScoreUnasked
  BY <1>4, NextUnscoredMoves DEF ScoreUnasked, SetOutcome, Ledger, Position, Written
<1>5. CASE Score
  <2>1. PICK c \in Completions :
           /\ answer' = [answer EXCEPT ![side][task] = c]
           /\ kept' = [kept EXCEPT ![side][PromptOf[task]] = IF @ = NoText THEN c ELSE @]
           /\ graded' = [graded EXCEPT ![side][task] = c]
           /\ \E o \in Verdict(task, c) : outcome' = [outcome EXCEPT ![side][task] = o]
    BY <1>5 DEF Score, SetOutcome
  <2>2. pc = "score" /\ NextUnscored /\ record' = record /\ side \in Sides /\ task \in Tasks
    BY <1>5 DEF Score, Ledger, Position
  <2>3. Position'
    <3>1. pc' \in {"score", "retry"} /\ side' \in Sides /\ task' \in Tasks
          /\ (pc' = "retry" => task' \in Held)
      BY <2>2, NextUnscoredMoves DEF Ledger
    <3>2. DOMAIN answer' = Sides /\ \A s \in Sides : DOMAIN answer'[s] = Tasks
      BY <2>1, <2>2 DEF Ledger, Position
    <3>3. DOMAIN graded' = Sides /\ \A s \in Sides : DOMAIN graded'[s] = Tasks
      BY <2>1, <2>2 DEF Ledger, Position
    <3>4. DOMAIN kept' = Sides /\ \A s \in Sides : DOMAIN kept'[s] = Prompts
      BY <2>1, <2>2 DEF Ledger, Position
    <3>5. DOMAIN outcome' = Sides /\ \A s \in Sides : DOMAIN outcome'[s] = Tasks
      BY <2>1, <2>2 DEF Ledger, Position
    <3> QED
      BY <3>1, <3>2, <3>3, <3>4, <3>5 DEF Position
  <2>4. ASSUME NEW s \in Sides, NEW t \in Tasks, answer'[s][t] # NoText
        PROVE  kept'[s][PromptOf[t]] # NoText
    <3>1. kept'[s][PromptOf[t]]
             = IF s = side /\ PromptOf[t] = PromptOf[task] /\ kept[s][PromptOf[t]] = NoText
                 THEN c ELSE kept[s][PromptOf[t]]
      BY <1>1, <2>1, <2>2 DEF Ledger, Position
    <3>2. (s = side /\ t = task) \/ answer'[s][t] = answer[s][t]
      BY <2>1, <2>2 DEF Ledger, Position
    <3> QED
      BY <1>1, <2>4, <3>1, <3>2 DEF Ledger
  <2> QED
    BY <2>2, <2>3, <2>4 DEF Ledger, Written
<1>6. CASE RetryNothing
  BY <1>6, NextRetriedMoves DEF RetryNothing, Ledger, Position, Written
<1>7. CASE Retry
  <2>1. /\ pc = "retry" /\ UNCHANGED <<record, answer, kept>>
        /\ UNCHANGED <<pc, side, task>> \/ NextRetried
        /\ UNCHANGED outcome \/ \E o : outcome' = [outcome EXCEPT ![side][task] = o]
        /\ UNCHANGED graded \/ \E o : graded' = [graded EXCEPT ![side][task] = o]
    BY <1>7 DEF Retry, SetOutcome
  <2>2. /\ pc' \in {"down", "score", "retry", "decide"} /\ side' \in Sides /\ task' \in Tasks
        /\ pc' = "retry" => task' \in Held
    BY <2>1, NextRetriedMoves DEF Ledger, Position
  <2>3. /\ DOMAIN outcome' = Sides /\ \A s \in Sides : DOMAIN outcome'[s] = Tasks
        /\ DOMAIN graded' = Sides /\ \A s \in Sides : DOMAIN graded'[s] = Tasks
    BY <2>1 DEF Ledger, Position
  <2> QED
    BY <2>1, <2>2, <2>3 DEF Ledger, Position, Written
<1>8. CASE Decide
  BY <1>8 DEF Decide, memory, Ledger, Position, Written
<1>9. CASE UNCHANGED vars
  BY <1>9 DEF vars, memory, Ledger, Position, Written
<1> QED
  BY <1>2, <1>3, <1>4, <1>5, <1>6, <1>7, <1>8, <1>9 DEF Next, Work, Start, RetryRefused, Crash

LEMMA NextRetriedPasses ==
    ASSUME Position, pc = "retry", NextRetried
    PROVE  \A s \in Sides, t \in Held :
              Passed(s, t)' <=> Passed(s, t) \/ (s = side /\ t = task)
<1>1. /\ side \in Sides /\ task \in Held /\ Held \subseteq Nat
      /\ \A t \in Held : t >= 1 /\ (task + 1 \notin Held => t <= task)
  BY GateAssumption DEF Position, Held
<1>2. CASE task + 1 \in Held
  <2>1. task' = task + 1 /\ side' = side /\ pc' = pc
    BY <1>2 DEF NextRetried
  <2>2. \A t \in Held : t < task + 1 <=> t < task \/ t = task
    BY <1>1
  <2> QED
    BY <2>1, <2>2 DEF Passed
<1>3. CASE task + 1 \notin Held
  <2>1. /\ task' = 1
        /\ side' = IF side = "candidate" THEN "incumbent" ELSE "candidate"
        /\ pc' = IF side = "candidate" THEN "retry" ELSE "decide"
    BY <1>3 DEF NextRetried
  <2>2. \A t \in Held : ~(t < 1) /\ (t < task \/ t = task)
    BY <1>1, <1>3
  <2> QED
    BY <1>1, <2>1, <2>2 DEF Passed, Sides
<1> QED
  BY <1>2, <1>3

LEMMA RetryNothingKeepsSpending == ASSUME Ledger, Spending, RetryNothing PROVE Spending'
<1>1. /\ pc = "retry" /\ NextRetried /\ UNCHANGED <<answer, kept, outcome, retries>>
      /\ ~Retryable(outcome[side][task]) \/ ~HasAnswer
  BY DEF RetryNothing
<1>2. used' = 0 /\ 0 \in 0 .. RETRY_COUNT - 1
  BY <1>1, GateAssumption DEF NextRetried
<1>3. side \in Sides /\ task \in Tasks
  BY DEF Ledger, Position
<1>4. ~HasAnswer => answer[side][task] = NoText
  BY <1>3 DEF HasAnswer, Replayed, Ledger
<1>5. \A s \in Sides, t \in Held : Passed(s, t)' <=> Passed(s, t) \/ (s = side /\ t = task)
  BY <1>1, NextRetriedPasses DEF Ledger
<1> QED
  BY <1>1, <1>2, <1>4, <1>5 DEF Spending, Exhausted

LEMMA RetryKeepsSpending == ASSUME Ledger, Spending, Retry PROVE Spending'
<1>1. pc = "retry" /\ UNCHANGED answer /\ side \in Sides /\ task \in Tasks
  BY DEF Retry, Ledger, Position
<1>2. used \in Nat /\ used < RETRY_COUNT /\ RETRY_COUNT \in Nat \ {0}
  BY GateAssumption DEF Spending
<1>3. PICK o \in Verdict(task, Replayed) \cup {"NO_ORACLE"} :
         \/ /\ ~Retryable(o) /\ SetOutcome(o)
            /\ retries' = retries \cup {Tried(o)} /\ NextRetried
         \/ /\ Spent(used) >= RETRY_COUNT
            /\ retries' = retries \cup {Tried(outcome[side][task])}
            /\ NextRetried /\ UNCHANGED outcome
         \/ /\ Spent(used) < RETRY_COUNT
            /\ used' = Spent(used) /\ UNCHANGED <<pc, side, task, outcome, retries>>
  BY DEF Retry, Replays
<1>4. ASSUME NEW s \in Sides, NEW t \in Held, Exhausted(s, t), retries \subseteq retries'
      PROVE  Exhausted(s, t)'
  BY <1>1, <1>4 DEF Exhausted
<1>5. CASE NextRetried /\ retries \subseteq retries'
  <2>1. used' = 0 /\ 0 \in 0 .. RETRY_COUNT - 1
    BY <1>2, <1>5 DEF NextRetried
  <2>2. \A s \in Sides, t \in Held : Passed(s, t)' <=> Passed(s, t) \/ (s = side /\ t = task)
    BY <1>1, <1>5, NextRetriedPasses DEF Ledger
  <2>3. CASE /\ ~Retryable(o) /\ outcome' = [outcome EXCEPT ![side][task] = o]
    <3>1. ASSUME NEW s \in Sides, NEW t \in Held
          PROVE  outcome'[s][t] = IF s = side /\ t = task THEN o ELSE outcome[s][t]
      BY <1>1, <2>3, FirstTasks DEF Ledger, Position
    <3> QED
      BY <1>4, <1>5, <2>1, <2>2, <2>3, <3>1 DEF Spending
  <2>4. CASE /\ Spent(used) >= RETRY_COUNT /\ outcome' = outcome
             /\ retries' = retries \cup {Tried(outcome[side][task])}
    <3>1. Spent(used) = RETRY_COUNT
      BY <1>2, <2>4 DEF Spent
    <3>2. ASSUME NEW s \in Sides, NEW t \in Held, s = side, t = task
          PROVE  Exhausted(s, t)'
      <4>1. Tried(outcome[side][task]) \in retries'
        BY <2>4
      <4>2. /\ Tried(outcome[side][task]).side = side /\ Tried(outcome[side][task]).task = task
            /\ Tried(outcome[side][task]).used = RETRY_COUNT
        BY <3>1 DEF Tried
      <4>3. \E r \in retries' : r.side = s /\ r.task = t /\ r.used = RETRY_COUNT
        BY <3>2, <4>1, <4>2
      <4> QED
        BY <4>3 DEF Exhausted
    <3> QED
      BY <1>4, <1>5, <2>1, <2>2, <2>4, <3>2 DEF Spending
  <2> QED
    BY <1>3, <1>5, <2>1, <1>2, <2>3, <2>4 DEF SetOutcome, Spent
<1>6. CASE /\ Spent(used) < RETRY_COUNT /\ used' = Spent(used)
           /\ UNCHANGED <<pc, side, task, outcome, retries>>
  <2>1. used' \in 0 .. RETRY_COUNT - 1
    BY <1>2, <1>6 DEF Spent
  <2> QED
    BY <1>1, <1>6, <2>1 DEF Spending, Passed, Exhausted
<1> QED
  BY <1>3, <1>5, <1>6

LEMMA NextKeepsSpending == ASSUME Ledger, Spending, [Next]_vars PROVE Spending'
<1>1. CASE \E why : Exit(why)
  <2>1. used' = 0 /\ pc' = "down"
    BY <1>1 DEF Exit
  <2> QED
    BY <2>1, GateAssumption DEF Spending, Passed
<1>2. CASE pc = "down" /\ pc' = "score" /\ UNCHANGED memory
  BY <1>2 DEF memory, Spending, Passed
<1>3. CASE Score \/ ScoreUnasked
  <2>1. pc = "score" /\ NextUnscored /\ used' = used
    BY <1>3 DEF Score, ScoreUnasked
  <2>2. \A s \in Sides, t \in Held : ~Passed(s, t)'
    <3>1. \A t \in Held : ~(t < 1)
      BY GateAssumption DEF Held
    <3>2. CASE task + 1 \in Tasks
      BY <2>1, <3>2 DEF NextUnscored, Passed
    <3>3. CASE task + 1 \notin Tasks
      BY <2>1, <3>1, <3>3 DEF NextUnscored, Passed, Ledger, Position, Sides
    <3> QED
      BY <3>2, <3>3
  <2> QED
    BY <2>1, <2>2 DEF Spending
<1>4. CASE RetryNothing
  BY <1>4, RetryNothingKeepsSpending
<1>5. CASE Retry
  BY <1>5, RetryKeepsSpending
<1>6. CASE Decide
  BY <1>6 DEF Decide, memory, Spending, Passed
<1>7. CASE UNCHANGED vars
  BY <1>7 DEF vars, memory, Spending, Passed, Exhausted
<1> QED
  BY <1>1, <1>2, <1>3, <1>4, <1>5, <1>6, <1>7 DEF Next, Work, Start, RetryRefused, Crash

-----------------------------------------------------------------------------
(* The record: what is decided and what is counted are of the same outcomes. *)

\* A fold that passes has nothing but passes in it.
LEMMA FoldPasses ==
    ASSUME NEW found, found \subseteq {"PASS", "FAIL", "UNVERIFIED"}, Reduce(found) = "PASS"
    PROVE  found = {"PASS"}
<1>1. found \ {"NOT_COVERED"} = found /\ found # {}
  BY DEF Reduce
<1>2. \E s \in found : \A o \in found : Rank[o] <= Rank[s]
  <2>1. CASE "FAIL" \in found
    BY <2>1 DEF Rank, Statuses
  <2>2. CASE "FAIL" \notin found /\ "UNVERIFIED" \in found
    BY <2>2 DEF Rank, Statuses
  <2>3. CASE "FAIL" \notin found /\ "UNVERIFIED" \notin found
    BY <1>1, <2>3 DEF Rank, Statuses
  <2> QED
    BY <2>1, <2>2, <2>3
<1>3. \A o \in found : Rank[o] <= Rank["PASS"]
  BY <1>1, <1>2 DEF Reduce
<1>4. ~(Rank["FAIL"] <= Rank["PASS"]) /\ ~(Rank["UNVERIFIED"] <= Rank["PASS"])
  BY DEF Rank, Statuses
<1> QED
  BY <1>1, <1>3, <1>4

LEMMA StatusesOfTasks ==
    ASSUME NEW o
    PROVE  /\ StatusOfTask(o) \in {"PASS", "FAIL", "UNVERIFIED"}
           /\ StatusOfTask(o) = "PASS" => o = "SOLVED"
BY DEF StatusOfTask, Uncovered

LEMMA HeldIsFinite == IsFiniteSet(Held)
BY GateAssumption, FS_Interval DEF Held

\* A side whose status is PASS solved all it was given.
LEMMA PassCountsAll ==
    ASSUME NEW s \in Sides, Counts(s, Held).status = "PASS"
    PROVE  Counts(s, Held).solved = Cardinality(Held)
<1> DEFINE found == {StatusOfTask(outcome[s][t]) : t \in Held}
<1>1. found \subseteq {"PASS", "FAIL", "UNVERIFIED"} /\ Reduce(found) = "PASS"
  BY StatusesOfTasks DEF Counts
<1>2. found = {"PASS"}
  <2> HIDE DEF found
  <2> QED
    BY <1>1, FoldPasses
<1>3. \A t \in Held : outcome[s][t] = "SOLVED"
  BY <1>2, StatusesOfTasks
<1>4. {t \in Held : outcome[s][t] = "SOLVED"} = Held
  BY <1>3
<1> QED
  BY <1>4 DEF Counts

\* The tasks that decide nothing are those of the pairs the retries could not settle.
LEMMA UndecidedAreOutlasted ==
    Undecided(outcome["candidate"], outcome["incumbent"]) = {p[2] : p \in Outlasted}
<1>1. ASSUME NEW t \in Held
      PROVE  ~Covered(outcome["candidate"], outcome["incumbent"], t)
                <=> \E s \in Sides : Retryable(outcome[s][t])
  BY DEF Covered, Retryable, Sides
<1>2. ASSUME NEW t \in Held
      PROVE  t \in {p[2] : p \in Outlasted} <=> \E s \in Sides : Retryable(outcome[s][t])
  <2>1. ASSUME NEW s \in Sides, Retryable(outcome[s][t]) PROVE t \in {p[2] : p \in Outlasted}
    <3>1. <<s, t>> \in Outlasted
      BY <2>1 DEF Outlasted
    <3> QED
      BY <3>1
  <2>2. ASSUME NEW p \in Outlasted, p[2] = t PROVE \E s \in Sides : Retryable(outcome[s][t])
    BY <2>2 DEF Outlasted
  <2> QED
    BY <2>1, <2>2
<1>3. {p[2] : p \in Outlasted} \subseteq Held
  BY DEF Outlasted
<1> QED
  BY <1>1, <1>2, <1>3 DEF Undecided

\* Where every task is decided, what either side solved is what it is counted for.
LEMMA SolvedIsCounted ==
    ASSUME Undecided(outcome["candidate"], outcome["incumbent"]) = {}, NEW s \in Sides
    PROVE  Cardinality(SolvedIn(outcome["candidate"], outcome["incumbent"], outcome[s]))
              = Counts(s, Held).solved
<1>1. SolvedIn(outcome["candidate"], outcome["incumbent"], outcome[s])
         = {t \in Held : outcome[s][t] = "SOLVED"}
  BY DEF SolvedIn, Undecided
<1> QED
  BY <1>1 DEF Counts

LEMMA DecideExplains == ASSUME Ledger, Spending, Decide PROVE RecordExplainsItself'
<1> DEFINE new == outcome["candidate"]
           old == outcome["incumbent"]
<1>1. /\ pc = "decide" /\ answer' = answer
      /\ record'.exit = DecisionOn(new, old)
      /\ record'.after = Outlasted /\ record'.retries = retries
      /\ record'.unverified = Cardinality(Undecided(new, old))
      /\ \A s \in Sides : record'.private[s] = Counts(s, Held)
      /\ record'.solved_new = Cardinality(SolvedIn(new, old, new))
      /\ record'.solved_old = Cardinality(SolvedIn(new, old, old))
  BY DEF Decide, memory
<1>2. record'.exit = "UNVERIFIED" <=> Undecided(new, old) # {}
  BY <1>1 DEF DecisionOn
<1>3. Undecided(new, old) = {p[2] : p \in Outlasted}
  BY UndecidedAreOutlasted
<1>4. Undecided(new, old) # {} <=> record'.after # {}
  BY <1>1, <1>3
<1>5. ASSUME NEW p \in Outlasted
      PROVE  \/ answer[p[1]][p[2]] = NoText
             \/ \E r \in retries : r.side = p[1] /\ r.task = p[2] /\ r.used = RETRY_COUNT
  <2>1. p[1] \in Sides /\ p[2] \in Held /\ Retryable(outcome[p[1]][p[2]])
    BY DEF Outlasted
  <2>2. Passed(p[1], p[2])
    BY <1>1 DEF Passed
  <2> QED
    BY <2>1, <2>2 DEF Spending, Exhausted
<1>6. \A s \in Sides : record'.private[s].status = "PASS" => record'.private[s].solved = Cardinality(Held)
  BY <1>1, PassCountsAll
<1>7. record'.exit # "UNVERIFIED" =>
        /\ record'.solved_new = record'.private["candidate"].solved
        /\ record'.solved_old = record'.private["incumbent"].solved
  BY <1>1, <1>2, SolvedIsCounted DEF Sides
<1> HIDE DEF new, old
<1> QED
  BY <1>1, <1>2, <1>3, <1>4, <1>5, <1>6, <1>7 DEF RecordExplainsItself

\* A record that was written stays, and so does what it was written from.
LEMMA NextExplains ==
    ASSUME Ledger, Spending, RecordExplainsItself, [Next]_vars PROVE RecordExplainsItself'
<1>1. CASE Decide
  BY <1>1, DecideExplains
<1>2. CASE record'.exit = "none"
  BY <1>2 DEF RecordExplainsItself
<1>3. CASE UNCHANGED <<record, answer>>
  BY <1>3 DEF RecordExplainsItself
<1>4. CASE record.exit # "none"
  <2>1. pc = "down" /\ Over
    BY <1>4 DEF Ledger, Written, Over
  <2>2. UNCHANGED vars
    BY <2>1 DEF Next, Work, Start, ScoreUnasked, Score, RetryNothing, Retry, RetryRefused, Decide, Crash
  <2> QED
    BY <1>3, <2>2 DEF vars, memory
<1>5. CASE record.exit = "none" /\ ~Decide
  <2>1. record' = record \/ record' = NoRecord
    BY <1>5 DEF Next, Work, Start, ScoreUnasked, Score, RetryNothing, Retry, RetryRefused, Crash, vars
  <2> QED
    BY <1>2, <1>5, <2>1 DEF NoRecord
<1> QED
  BY <1>1, <1>4, <1>5

-----------------------------------------------------------------------------
(* The theorems. *)

LEMMA InitGate == Init => GateInv
<1> SUFFICES ASSUME Init PROVE GateInv
  OBVIOUS
<1>1. \A t \in Tasks : PromptOf[t] \in Prompts
  BY GateAssumption
<1>2. Position
  BY FirstTasks DEF Init, Position, BySide, Sides
<1>3. Recorder
  BY <1>1 DEF Init, Recorder, BySide
<1>4. Scores
  BY DEF Init, Scores, BySide, Cleared, Unreached
<1>5. AtRest /\ Written /\ DecisionIsTheTruth
  BY DEF Init, AtRest, Written, DecisionIsTheTruth, NoRecord
<1> QED
  BY <1>2, <1>3, <1>4, <1>5 DEF GateInv

LEMMA StartStep == ASSUME GateInv, Start PROVE GateInv'
<1>1. pc = "down" /\ ~Over /\ record' = record
  BY DEF Start
<1>2. CASE Exit("refused")
  BY <1>1, <1>2, ExitClears DEF GateInv
<1>3. CASE pc' = "score" /\ exit' = "none" /\ UNCHANGED memory
  <2>1. UNCHANGED <<side, task, answer, kept, outcome, graded>>
    BY <1>3 DEF memory
  <2>2. side = "candidate" /\ task = 1
    BY <1>1 DEF GateInv, AtRest
  <2>3. Position' /\ Recorder'
    BY <1>3, <2>1 DEF GateInv, Position, Recorder
  <2>4. Scores'
    <3> SUFFICES ASSUME NEW s \in Sides, NEW t \in Tasks
                 PROVE  graded'[s][t] = answer'[s][t] /\ Unreached(s, t)' /\ Cleared(s, t)'
      BY <1>3 DEF Scores
    <3>1. t >= 1
      BY GateAssumption DEF Tasks
    <3>2. Unreached(s, t)'
      BY <1>3, <2>1, <2>2, <3>1 DEF Unreached, Sides
    <3> QED
      BY <1>1, <2>1, <3>2 DEF GateInv, Scores, Cleared
  <2>5. record.exit = "none"
    BY <1>1 DEF GateInv, Written, Over
  <2> QED
    BY <1>1, <1>3, <2>3, <2>4, <2>5 DEF GateInv, AtRest, Written, DecisionIsTheTruth
<1> QED
  BY <1>2, <1>3 DEF Start

LEMMA NextKeepsGate == ASSUME OwnPrompts, GateInv, [Next]_vars PROVE GateInv'
<1>1. CASE Start
  BY <1>1, StartStep
<1>2. CASE ScoreUnasked
  BY <1>2, ScoreUnaskedStep
<1>3. CASE Score
  BY <1>3, ScoreStep
<1>4. CASE RetryNothing
  BY <1>4, RetryNothingStep
<1>5. CASE Retry
  BY <1>5, RetryStep
<1>6. CASE RetryRefused
  <2>1. pc = "retry" /\ Exit("refused") /\ record' = record
    BY <1>6 DEF RetryRefused
  <2> QED
    BY <2>1, ExitClears DEF GateInv
<1>7. CASE Decide
  BY <1>7, DecideStep
<1>8. CASE Crash
  <2>1. pc # "down" /\ Exit("crashed") /\ (record' = record \/ record' = NoRecord)
    BY <1>8 DEF Crash
  <2> QED
    BY <2>1, ExitClears DEF GateInv
<1>9. CASE UNCHANGED vars
  <2>1. UNCHANGED <<record, pc, side, task, answer, kept, outcome, graded, exit>>
    BY <1>9 DEF vars, memory
  <2>2. Position' /\ Recorder' /\ Scores'
    BY <2>1 DEF GateInv, Position, Recorder, Scores, Cleared, Truthful, Unreached, Over
  <2> QED
    BY <2>1, <2>2 DEF GateInv, AtRest, Written, DecisionIsTheTruth, Solves, Over
<1> QED
  BY <1>1, <1>2, <1>3, <1>4, <1>5, <1>6, <1>7, <1>8, <1>9 DEF Next, Work

\* Where no two tasks render one prompt, a decision of the gate is the truth about the two
\* checkpoints' first answers, for every held-out set, retry budget and number of crashes.
THEOREM DecisionIsTheTruthHolds == ASSUME OwnPrompts PROVE Spec => []DecisionIsTheTruth
<1>1. Init => GateInv
  BY InitGate
<1>2. GateInv /\ [Next]_vars => GateInv'
  BY NextKeepsGate
<1>3. GateInv => DecisionIsTheTruth
  BY DEF GateInv
<1> QED
  BY <1>1, <1>2, <1>3, PTL DEF Spec

\* Under the same assumption the two sides compare: no retry is graded on anything but the first
\* attempt's answer, and a task whose environment cannot be built is turned away on both.
THEOREM SidesCompareHolds == ASSUME OwnPrompts PROVE Spec => []SidesCompare
<1>1. Init => GateInv /\ Provision
  BY InitGate DEF Init, Provision, Reached
<1>2. GateInv /\ Provision /\ [Next]_vars => (GateInv /\ Provision)'
  BY NextKeepsGate, NextKeepsProvision
<1>3. GateInv /\ Provision => SidesCompare
  BY DEF GateInv, Scores, FirstAnswerStands, SidesCompare, OneEnvironmentForBoth, Provision,
         Reached, Unreached, Sides
<1> QED
  BY <1>1, <1>2, <1>3, PTL DEF Spec

\* Whatever the prompts, the record the gate leaves explains its decision: it is UNVERIFIED exactly
\* over the tasks it names, each of which was never asked or had the whole budget spent on it, and
\* the counts of the two sides are the decision's (gate.py:222-231, 1573-1600, 1799-1836, 1846-1887).
THEOREM RecordExplainsItselfHolds == Spec => []RecordExplainsItself
<1>1. Init => Ledger /\ Spending /\ RecordExplainsItself
  <2> SUFFICES ASSUME Init PROVE Ledger /\ Spending /\ RecordExplainsItself
    OBVIOUS
  <2>1. Position
    BY FirstTasks DEF Init, Position, BySide, Sides
  <2>2. 0 \in 0 .. RETRY_COUNT - 1
    BY GateAssumption
  <2> QED
    BY <2>1, <2>2 DEF Init, Ledger, Written, BySide, Spending, Passed, RecordExplainsItself, NoRecord
<1>2. Ledger /\ Spending /\ RecordExplainsItself /\ [Next]_vars
        => (Ledger /\ Spending /\ RecordExplainsItself)'
  BY NextKeepsLedger, NextKeepsSpending, NextExplains
<1> QED
  BY <1>1, <1>2, PTL DEF Spec

-----------------------------------------------------------------------------
(* Types. *)

\* The kinds of what the process holds and of what it leaves.
Holdings ==
    /\ record.exit \in Decisions \cup {"none"}
    /\ built \in [Tasks -> {"unbuilt", "built", "failed"}]
    /\ answer \in [Sides -> [Tasks -> Completions \cup {NoText}]]
    /\ kept \in [Sides -> [Prompts -> Completions \cup {NoText}]]
    /\ outcome \in [Sides -> [Tasks -> Outcomes \cup {Unscored}]]
    /\ graded \in [Sides -> [Tasks -> Completions \cup {NoText}]]
    /\ retries \subseteq Retried
    /\ exit \in {"none", "crashed", "refused", "decided"}

\* Setting one entry of one side's table keeps its kind.
LEMMA TableSet ==
    ASSUME NEW T, NEW V, NEW f \in [Sides -> [T -> V]], NEW s \in Sides, NEW t \in T, NEW v \in V
    PROVE  [f EXCEPT ![s][t] = v] \in [Sides -> [T -> V]]
OBVIOUS

LEMMA ExitKeepsHoldings ==
    ASSUME NEW why \in {"crashed", "refused"}, Exit(why), record'.exit \in Decisions \cup {"none"}
    PROVE  Holdings'
BY DEF Exit, Holdings, BySide

LEMMA ScoringKeepsHoldings ==
    ASSUME Position, Holdings, ScoreUnasked \/ Score
    PROVE  Holdings'
<1>0. side \in Sides /\ task \in Tasks /\ PromptOf[task] \in Prompts
  BY GateAssumption DEF Position
<1>1. ASSUME NEW got \in {"built", "failed"}, Acquire(task, got)
      PROVE  built' \in [Tasks -> {"unbuilt", "built", "failed"}]
  BY <1>1 DEF Acquire, Holdings
<1>2. ASSUME NEW o \in Outcomes, SetOutcome(o)
      PROVE  outcome' \in [Sides -> [Tasks -> Outcomes \cup {Unscored}]]
  BY <1>0, <1>2, TableSet DEF SetOutcome, Holdings
<1>3. CASE ScoreUnasked
  <2>1. PICK got \in {"built", "failed"} :
           Acquire(task, got) /\ SetOutcome(IF got = "failed" THEN "UNPROVISIONED" ELSE "NO_ORACLE")
    BY <1>3 DEF ScoreUnasked
  <2>2. (IF got = "failed" THEN "UNPROVISIONED" ELSE "NO_ORACLE") \in Outcomes
    BY DEF Outcomes, Uncovered
  <2>3. UNCHANGED <<record, answer, kept, graded, retries, exit>>
    BY <1>3 DEF ScoreUnasked
  <2> QED
    BY <1>1, <1>2, <2>1, <2>2, <2>3 DEF Holdings
<1>4. CASE Score
  <2>1. PICK c \in Completions :
           /\ answer' = [answer EXCEPT ![side][task] = c]
           /\ kept' = [kept EXCEPT ![side][PromptOf[task]] = IF @ = NoText THEN c ELSE @]
           /\ graded' = [graded EXCEPT ![side][task] = c]
           /\ \E o \in Verdict(task, c) : SetOutcome(o)
    BY <1>4 DEF Score
  <2>2. Verdict(task, c) \subseteq Outcomes
    BY DEF Verdict, Outcomes, Uncovered
  <2>3. /\ answer' \in [Sides -> [Tasks -> Completions \cup {NoText}]]
        /\ graded' \in [Sides -> [Tasks -> Completions \cup {NoText}]]
    BY <1>0, <2>1, TableSet DEF Holdings
  <2>4. kept' \in [Sides -> [Prompts -> Completions \cup {NoText}]]
    <3>1. kept[side][PromptOf[task]] \in Completions \cup {NoText}
      BY <1>0 DEF Holdings
    <3> QED
      BY <1>0, <2>1, <3>1 DEF Holdings
  <2>5. Acquire(task, "built") /\ UNCHANGED <<record, retries, exit>>
    BY <1>4 DEF Score
  <2> QED
    BY <1>1, <1>2, <2>1, <2>2, <2>3, <2>4, <2>5 DEF Holdings
<1> QED
  BY <1>3, <1>4

LEMMA RetryKeepsHoldings ==
    ASSUME Position, Spending, Holdings, Retry
    PROVE  Holdings'
<1>0. side \in Sides /\ task \in Tasks /\ task \in Held /\ PromptOf[task] \in Prompts
  BY GateAssumption DEF Position, Retry
<1>1. Replayed \in Completions
  BY <1>0 DEF Retry, HasAnswer, Replayed, Holdings
<1>2. outcome[side][task] \in Uncovered
  BY DEF Retry, Retryable
<1>3. Spent(used) \in 1 .. RETRY_COUNT
  BY GateAssumption DEF Spending, Spent
<1>4. ASSUME NEW o \in Outcomes
      PROVE  Tried(o) \in Retried
  BY <1>0, <1>2, <1>3 DEF Tried, Retried
<1>5. outcome[side][task] \in Outcomes
  BY <1>2 DEF Outcomes
<1>6. PICK o \in Verdict(task, Replayed) \cup {"NO_ORACLE"} :
         \/ /\ outcome' = [outcome EXCEPT ![side][task] = o]
            /\ graded' = [graded EXCEPT ![side][task] = Replayed]
            /\ retries' = retries \cup {Tried(o)}
         \/ retries' = retries \cup {Tried(outcome[side][task])} /\ UNCHANGED <<outcome, graded>>
         \/ UNCHANGED <<outcome, graded, retries>>
  BY DEF Retry, Replays, SetOutcome
<1>7. o \in Outcomes
  BY DEF Verdict, Outcomes, Uncovered
<1>8. /\ outcome' \in [Sides -> [Tasks -> Outcomes \cup {Unscored}]]
      /\ graded' \in [Sides -> [Tasks -> Completions \cup {NoText}]]
  <2>1. /\ outcome \in [Sides -> [Tasks -> Outcomes \cup {Unscored}]]
        /\ graded \in [Sides -> [Tasks -> Completions \cup {NoText}]]
    BY DEF Holdings
  <2>2. o \in Outcomes \cup {Unscored} /\ Replayed \in Completions \cup {NoText}
    BY <1>1, <1>7
  <2>3. CASE /\ outcome' = [outcome EXCEPT ![side][task] = o]
             /\ graded' = [graded EXCEPT ![side][task] = Replayed]
    <3>1. outcome' \in [Sides -> [Tasks -> Outcomes \cup {Unscored}]]
      BY <1>0, <2>1, <2>2, <2>3, TableSet
    <3>2. graded' \in [Sides -> [Tasks -> Completions \cup {NoText}]]
      BY <1>0, <2>1, <2>2, <2>3, TableSet
    <3> QED
      BY <3>1, <3>2
  <2>4. CASE UNCHANGED <<outcome, graded>>
    BY <2>1, <2>4
  <2> QED
    BY <1>6, <2>3, <2>4
<1>9. retries' \subseteq Retried
  BY <1>4, <1>5, <1>6, <1>7 DEF Holdings
<1>10. UNCHANGED <<record, built, answer, kept, exit>>
  BY DEF Retry
<1> QED
  BY <1>8, <1>9, <1>10 DEF Holdings

LEMMA NextKeepsHoldings == ASSUME Position, Spending, Holdings, [Next]_vars PROVE Holdings'
<1>1. CASE Start
  BY <1>1, ExitKeepsHoldings DEF Start, Holdings, memory
<1>2. CASE ScoreUnasked \/ Score
  BY <1>2, ScoringKeepsHoldings
<1>3. CASE RetryNothing
  BY <1>3 DEF RetryNothing, Holdings
<1>4. CASE Retry
  BY <1>4, RetryKeepsHoldings
<1>5. CASE RetryRefused
  BY <1>5, ExitKeepsHoldings DEF RetryRefused, Holdings
<1>6. CASE Decide
  <2>1. record'.exit = DecisionOn(outcome["candidate"], outcome["incumbent"])
    BY <1>6 DEF Decide
  <2>2. record'.exit \in Decisions
    BY <2>1 DEF DecisionOn, Decisions
  <2>3. exit' = "decided" /\ UNCHANGED memory
    BY <1>6 DEF Decide
  <2> QED
    BY <2>2, <2>3 DEF memory, Holdings
<1>7. CASE Crash
  BY <1>7, ExitKeepsHoldings DEF Crash, Holdings, NoRecord
<1>8. CASE UNCHANGED vars
  BY <1>8 DEF vars, memory, Holdings
<1> QED
  BY <1>1, <1>2, <1>3, <1>4, <1>5, <1>6, <1>7, <1>8 DEF Next, Work

\* The type invariant, and with it that no task has more than the budget spent on it, for every
\* held-out set, rendering of prompts, budget and number of crashes.
THEOREM TypesHold == Spec => []TypeOK
<1>1. Init => Ledger /\ Spending /\ Holdings
  <2> SUFFICES ASSUME Init PROVE Ledger /\ Spending /\ Holdings
    OBVIOUS
  <2>1. Position
    BY FirstTasks DEF Init, Position, BySide, Sides
  <2>2. 0 \in 0 .. RETRY_COUNT - 1
    BY GateAssumption
  <2>3. Holdings
    BY DEF Init, Holdings, BySide, NoRecord
  <2> QED
    BY <2>1, <2>2, <2>3 DEF Init, Ledger, Written, BySide, Spending, Passed, NoRecord
<1>2. Ledger /\ Spending /\ Holdings /\ [Next]_vars => (Ledger /\ Spending /\ Holdings)'
  BY NextKeepsLedger, NextKeepsSpending, NextKeepsHoldings DEF Ledger
<1>3. Ledger /\ Spending /\ Holdings => TypeOK
  BY DEF Ledger, Position, Spending, Holdings, TypeOK
<1> QED
  BY <1>1, <1>2, <1>3, PTL DEF Spec
=============================================================================
