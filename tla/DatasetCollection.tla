-------------------------- MODULE DatasetCollection -------------------------
(* The expert-dataset pipeline: collect_dataset() of dataset/cli.py run one *)
(* process after another over a range of episode indices, each attempt      *)
(* committed or quarantined by the writer, runs that crash, are interrupted *)
(* or meet a failing system call, the splits made between them and the      *)
(* report of the validator on what is then on the disk.                     *)
EXTENDS EpisodeWriter, Sequences, SequencesExt

-----------------------------------------------------------------------------
(* Variation-group splits (dataset/splitter.py): how a dataset's variations *)
(* are dealt out to the train, validation and test splits, and how a leak   *)
(* between two splits is detected. Ratios are integer weights, because      *)
(* _normalize_ratios divides by their sum.                                  *)

SplitNames == <<"train", "validation", "test">>

TotalWeight(weights) == weights[1] + weights[2] + weights[3]

\* int(round(p / q)): Python rounds a tie to the even neighbour.
RoundHalfEven(p, q) ==
    LET floor == p \div q  rest == 2 * (p % q)
    IN  IF rest > q \/ (rest = q /\ floor % 2 = 1) THEN floor + 1 ELSE floor

\* Where the k-th split ends: the rounded cumulative share; the last split
\* takes what is left.
EndOf(k, weights, count) ==
    IF k = Len(SplitNames) THEN count
    ELSE RoundHalfEven(FoldLeft(+, 0, SubSeq(weights, 1, k)) * count,
                       TotalWeight(weights))

StartOf(k, weights, count) == IF k = 1 THEN 0 ELSE EndOf(k - 1, weights, count)

SplitGroups(groups, weights) ==
    [k \in DOMAIN SplitNames |->
        Range(SubSeq(groups, StartOf(k, weights, Len(groups)) + 1,
                             EndOf(k, weights, Len(groups))))]

\* detect_split_leakage: the variations that two splits list.
Leaks(variations) ==
    {v \in UNION Range(variations) :
        \E j, k \in DOMAIN SplitNames :
            j # k /\ v \in variations[j] /\ v \in variations[k]}

-----------------------------------------------------------------------------
CONSTANTS Weights,    \* the train/validation/test ratios asked for
          MaxRuns,    \* how many collection processes are started
          MaxFaults   \* how many crashes, interrupts and failures there are

ASSUME CollectionAssumption ==
    /\ Weights \subseteq [1..3 -> Nat]
    /\ \A w \in Weights : TotalWeight(w) > 0
    /\ MaxRuns \in Nat /\ MaxFaults \in Nat

NoIndex == -1
NoRun == [seed |-> "none", last |-> NoIndex, resume |-> TRUE, overwrite |-> FALSE]
NoSplits == [ids |-> <<>>, variations |-> <<>>]

VARIABLES
    run,          \* the arguments of the collection that is running
    index,        \* the episode index it is at, NoIndex if none is running
    handler,      \* the except clause it is in: "none", "error", "interrupt"
    runs, faults, \* how many of each there have been
    overwritten,  \* --overwrite has been given at least once
    splits        \* splits.json

loopVars == <<run, index, handler, runs, faults, overwritten, splits>>
vars == <<writerVars, loopVars>>

Init ==
    /\ WriterInit
    /\ run = NoRun /\ index = NoIndex /\ handler = "none"
    /\ runs = 0 /\ faults = 0 /\ overwritten = FALSE
    /\ splits = NoSplits

Idle == index = NoIndex
Current == <<run.seed, index>>

Launch ==
    /\ Idle /\ runs < MaxRuns
    /\ \E seed \in MasterSeeds, first, last \in Indices,
          resume, overwrite \in BOOLEAN :
           /\ first <= last
           /\ run' = [seed |-> seed, last |-> last, resume |-> resume,
                      overwrite |-> overwrite]
           /\ index' = first
           /\ OpenManifest(overwrite)
           /\ overwritten' = (overwritten \/ overwrite)
    /\ runs' = runs + 1
    /\ UNCHANGED <<episodes, quarantine, staged, step, payload, handler, faults,
                   splits>>

\* `continue`, the end of an iteration, or the end of the range.
NextIndex ==
    /\ index' = IF index = run.last THEN NoIndex ELSE index + 1
    /\ run' = IF index = run.last THEN NoRun ELSE run

\* The process ends in the middle of an episode; what it staged stays behind
\* under a name no later process will use.
Exit ==
    /\ index' = NoIndex /\ run' = NoRun
    /\ step' = "none" /\ handler' = "none" /\ staged' = {} /\ payload' = FALSE
    /\ UNCHANGED <<disk, runs, overwritten, splits>>

AlreadyCommitted ==
    Current \in CommittedVariations /\ run.resume /\ ~run.overwrite

Skip ==
    /\ ~Idle /\ step = "none" /\ AlreadyCommitted
    /\ NextIndex
    /\ UNCHANGED <<writerVars, handler, runs, faults, overwritten, splits>>

\* Into quarantine_episode, from the loop body or from an except clause.
Quarantine(clause, recorded) ==
    /\ step' = "quarantine" /\ handler' = clause /\ payload' = recorded
    /\ staged' = {}
    /\ UNCHANGED <<disk, run, index, runs, overwritten, splits>>

\* What an attempt may come to, as the loop body sees it. Sampling, resetting,
\* planning, compiling and recording raise; executing reports a failure.
Experts == {"raises", "fails", "succeeds"}

\* check_put_object_postcondition: where the object is now, or its reward; any
\* exception counts as "not there".
Placed == BOOLEAN

\* frame_count >= min_episode_frames, which every configuration sets to one. An
\* upper bound is configured but never compared.
EnoughFrames == BOOLEAN

\* write_episode: an episode that exists is an EpisodeWriteError unless it may be
\* replaced, and is handled like any other exception of the attempt.
Commit ==
    \/ /\ StartWrite(index, run.overwrite)
       /\ UNCHANGED <<disk, staged, payload, run, index, handler, runs,
                      overwritten, splits>>
    \/ /\ index \in DOMAIN episodes /\ ~run.overwrite
       /\ Quarantine("error", FALSE)

Attempt ==
    /\ ~Idle /\ step = "none" /\ ~AlreadyCommitted
    /\ \E expert \in Experts, placed \in Placed, enough \in EnoughFrames :
           \/ expert = "raises" /\ Quarantine("error", FALSE)
           \/ expert = "succeeds" /\ placed /\ enough /\ Commit
           \/ /\ expert # "raises"
              /\ expert = "succeeds" => ~(placed /\ enough)
              /\ Quarantine("none", enough)
    /\ UNCHANGED faults

Write ==
    /\ WriterStep(index, Current, run.overwrite)
    /\ UNCHANGED loopVars

\* The end of the iteration; the KeyboardInterrupt clause raises again.
EndEpisode ==
    /\ step = "done"
    /\ IF handler = "interrupt"
       THEN Exit /\ UNCHANGED faults
       ELSE /\ NextIndex
            /\ step' = "none" /\ handler' = "none" /\ payload' = FALSE
            /\ UNCHANGED <<disk, staged, runs, faults, overwritten, splits>>

\* A file operation raises: staging cleans up after itself, the loop body has an
\* except clause for it, and in an except clause there is none.
Raise ==
    /\ Writing /\ faults < MaxFaults
    /\ IF handler = "none" THEN Quarantine("error", FALSE) ELSE Exit
    /\ faults' = faults + 1

\* Ctrl-C at any point of the loop body.
Interrupt ==
    /\ ~Idle /\ handler = "none" /\ faults < MaxFaults
    /\ Quarantine("interrupt", FALSE)
    /\ faults' = faults + 1

Crash ==
    /\ ~Idle /\ faults < MaxFaults
    /\ Exit
    /\ faults' = faults + 1

\* create_variation_group_splits, between two collections. The order of the
\* variations is that of a hash: any order.
CreateSplits ==
    /\ Idle
    /\ \E weights \in Weights, order \in SetToSeqs(CommittedVariations) :
           LET dealt == SplitGroups(order, weights)
           IN  splits' = [variations |-> dealt,
                          ids |-> [k \in DOMAIN dealt |->
                                      {i \in DOMAIN episodes :
                                           /\ "metadata" \in episodes[i].files
                                           /\ episodes[i].variation \in dealt[k]}]]
    /\ UNCHANGED <<writerVars, run, index, handler, runs, faults, overwritten>>

Next ==
    \/ Launch \/ Skip \/ Attempt \/ Write \/ EndEpisode
    \/ Raise \/ Interrupt \/ Crash \/ CreateSplits

Spec == Init /\ [][Next]_vars

-----------------------------------------------------------------------------
\* The errors of validate_dataset that concern whole files (a missing
\* splits.json is a warning).  DUPLICATE_VARIATION is not among them: the id of a
\* variation hashes its index, so no two episodes share one.
LoadErrors == {i \in DOMAIN episodes : ~Whole(i)}

CountMismatch == manifest.committed # Cardinality(DOMAIN episodes)

\* Mutant of SplitErrors: episodes that no split lists are not reported.
UnknownOnly ==
    splits # NoSplits
    /\ \/ Leaks(splits.variations) # {}
       \/ ~(UNION Range(splits.ids) \subseteq DOMAIN episodes)

SplitErrors ==
    splits # NoSplits
    /\ \/ Leaks(splits.variations) # {}
       \/ UNION Range(splits.ids) # DOMAIN episodes

ReportIsClean == LoadErrors = {} /\ ~CountMismatch /\ ~SplitErrors

-----------------------------------------------------------------------------
(* Properties *)

\* The manifest and the directories agree as far as a crash lets them: every
\* commit the manifest counts has a whole episode behind it, whatever was
\* overwritten since, and, where nothing was ever overwritten, at most one
\* episode per fault is missing from the count. (The manifest is updated after
\* the rename, never before.)
ManifestIsBacked ==
    /\ manifest.committed <= Cardinality({i \in DOMAIN episodes : Whole(i)})
    /\ ~overwritten => Cardinality(DOMAIN episodes) <=
                           (IF manifest = NoManifest THEN 0 ELSE manifest.committed)
                           + faults + (IF step = "count" THEN 1 ELSE 0)

\* Resuming never costs data: a collection without --overwrite leaves every
\* episode directory it found, whole or not, exactly as it was, whatever master
\* seed or index range it is given and wherever it is cut off.
ResumeKeepsEpisodes ==
    [][~run.overwrite =>
          \A i \in DOMAIN episodes : i \in DOMAIN episodes' /\ episodes'[i] = episodes[i]]_vars

\* A dataset with splits that validates without errors can be trained on: each
\* episode is whole and is in exactly one split, although the splits may be older
\* than the episodes.
CleanReportsAreSound ==
    ReportIsClean /\ splits # NoSplits =>
        \A i \in DOMAIN episodes :
            /\ Whole(i)
            /\ \E k \in 1..3 : \A l \in 1..3 : i \in splits.ids[l] <=> l = k

=============================================================================
