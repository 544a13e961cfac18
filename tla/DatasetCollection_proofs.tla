---------------------- MODULE DatasetCollection_proofs ----------------------
(***************************************************************************)
(* The manifest, the episodes and the splits on the disk agree, for any    *)
(* indices, seeds, ratios and numbers of collections and of faults.        *)
(***************************************************************************)
EXTENDS DatasetCollection, FiniteSetTheorems, TLAPS

\* The steps of a call that has moved its episode into place, or never will.
Settled == {"count", "done", "quarantine", "mkdir", "clear", "report", "payload", "tally"}
Steps == Settled \union {"none", "remove", "stage", "publish"}

TypeInv ==
    /\ index \in Nat \union {NoIndex}
    /\ run.overwrite \in BOOLEAN
    /\ DOMAIN episodes \subseteq Nat /\ IsFiniteSet(DOMAIN episodes)
    /\ manifest \in [attempted : Int, committed : Int, quarantined : Int]
    /\ step \in Steps
    /\ faults \in Nat
    /\ overwritten \in BOOLEAN

\* Where a call is tells what is on the disk.
CallInv ==
    /\ Idle => step = "none" /\ ~run.overwrite
    /\ run.overwrite => overwritten
    /\ step = "remove" => run.overwrite
    /\ step \in {"stage", "publish"} => index \notin DOMAIN episodes
    /\ step = "publish" => staged = Files
    /\ manifest = NoManifest => Idle /\ DOMAIN episodes = {}
    /\ manifest # NoManifest => manifest.committed >= 0

\* The whole episodes that nothing will remove before a manifest starts at zero again:
\* all of them, or those a collection with --overwrite has already passed.
Backed ==
    {i \in DOMAIN episodes :
        /\ Whole(i)
        /\ run.overwrite => i < index \/ (i = index /\ step \in Settled)}

\* Moved into place, but not yet in the manifest.
Uncounted == IF step = "count" THEN 1 ELSE 0

Counted == IF manifest = NoManifest THEN 0 ELSE manifest.committed

CountInv ==
    /\ manifest.committed + Uncounted <= Cardinality(Backed)
    /\ ~overwritten => Cardinality(DOMAIN episodes) <= Counted + faults + Uncounted

\* An episode is in two splits only if they share a variation.
SplitInv ==
    splits # NoSplits =>
        /\ DOMAIN splits.ids = 1 .. 3 /\ DOMAIN splits.variations = 1 .. 3
        /\ \A j, k \in 1 .. 3 : \A i \in splits.ids[j] \cap splits.ids[k] :
              \E v \in splits.variations[j] : v \in splits.variations[k]

DiskInv == TypeInv /\ CallInv /\ CountInv
IInv == DiskInv /\ SplitInv

-----------------------------------------------------------------------------
(* Counting.                                                               *)

LEMMA SubsetsAreNoLarger ==
    ASSUME NEW S, NEW T, IsFiniteSet(T), S \subseteq T
    PROVE  Cardinality(S) \in Nat /\ Cardinality(T) \in Nat /\ Cardinality(S) <= Cardinality(T)
  BY FS_Subset, FS_CardinalityType

LEMMA OneMore ==
    ASSUME NEW S, NEW x, IsFiniteSet(S), x \notin S
    PROVE  Cardinality(S \union {x}) = Cardinality(S) + 1
  BY FS_AddElement

LEMMA CountsAreCounted ==
    ASSUME NEW m \in [attempted : Int, committed : Int, quarantined : Int]
    PROVE  /\ [m EXCEPT !.attempted = @ + 1, !.committed = @ + 1]
                 \in [attempted : Int, committed : Int, quarantined : Int]
           /\ [m EXCEPT !.attempted = @ + 1, !.quarantined = @ + 1]
                 \in [attempted : Int, committed : Int, quarantined : Int]
  <1>1. m.attempted + 1 \in Int /\ m.committed + 1 \in Int /\ m.quarantined + 1 \in Int
    OBVIOUS
  <1> QED
    BY <1>1, Zenon

\* Steps that lose no episode that is counted on, find none and commit none.
LEMMA CountsKept ==
    ASSUME TypeInv, TypeInv', CountInv, UNCHANGED <<manifest, overwritten>>,
           Backed \subseteq Backed', DOMAIN episodes' \subseteq DOMAIN episodes,
           \/ Uncounted' = Uncounted /\ faults' \in {faults, faults + 1}
           \/ Uncounted' = 0 /\ faults' = faults + 1
    PROVE  CountInv'
  <1>1. Cardinality(Backed) <= Cardinality(Backed')
        /\ Cardinality(Backed) \in Nat /\ Cardinality(Backed') \in Nat
    <2>1. IsFiniteSet(Backed')
      <3>1. IsFiniteSet((DOMAIN episodes)')
        BY DEF TypeInv
      <3>2. Backed' \subseteq (DOMAIN episodes)'
        BY DEF Backed
      <3> QED
        BY <3>1, <3>2, FS_Subset
    <2> QED
      BY <2>1, SubsetsAreNoLarger
  <1>2. /\ Cardinality(DOMAIN episodes') <= Cardinality(DOMAIN episodes)
        /\ Cardinality(DOMAIN episodes) \in Nat /\ Cardinality(DOMAIN episodes') \in Nat
    BY SubsetsAreNoLarger DEF TypeInv
  <1>3. manifest.committed \in Int /\ faults \in Nat
    BY DEF TypeInv
  <1>4. Counted \in Int /\ Counted' = Counted /\ manifest.committed' = manifest.committed
    BY <1>3 DEF Counted
  <1>5. Uncounted \in {0, 1} /\ Uncounted' \in {0, 1}
    BY DEF Uncounted
  <1> HIDE DEF Backed, Counted, Uncounted
  <1>6. manifest.committed' + Uncounted' <= Cardinality(Backed')
    BY <1>1, <1>3, <1>4, <1>5 DEF CountInv
  <1>7. ~overwritten' => Cardinality(DOMAIN episodes') <= Counted' + faults' + Uncounted'
    BY <1>2, <1>3, <1>4, <1>5 DEF CountInv
  <1> QED
    BY <1>6, <1>7 DEF CountInv

-----------------------------------------------------------------------------
(* The steps of the loop.                                                  *)

LEMMA InitHolds == Init => IInv
  <1> SUFFICES ASSUME Init PROVE IInv
    OBVIOUS
  <1>1. /\ DOMAIN episodes = {} /\ manifest = NoManifest /\ step = "none" /\ run = NoRun
        /\ index = NoIndex /\ faults = 0 /\ overwritten = FALSE /\ splits = NoSplits
    BY DEF Init, WriterInit
  <1>2. TypeInv
    <2>1. index \in Nat \union {NoIndex}
      BY <1>1
    <2>2. run.overwrite \in BOOLEAN
      BY <1>1 DEF NoRun
    <2>3. IsFiniteSet(DOMAIN episodes)
      BY <1>1, FS_EmptySet
    <2>4. manifest \in [attempted : Int, committed : Int, quarantined : Int]
      BY <1>1 DEF NoManifest
    <2> QED
      BY <1>1, <2>1, <2>2, <2>3, <2>4 DEF TypeInv, Steps
  <1>3. CallInv
    BY <1>1 DEF CallInv, Idle, NoRun
  <1>4. CountInv
    <2>1. Backed = {} /\ Cardinality({}) = 0
      BY <1>1, FS_EmptySet DEF Backed
    <2> QED
      BY <1>1, <2>1 DEF CountInv, Uncounted, Counted, NoManifest
  <1> QED
    BY <1>1, <1>2, <1>3, <1>4 DEF IInv, DiskInv, SplitInv

LEMMA LaunchStep == ASSUME DiskInv, Launch PROVE DiskInv'
  <1>1. PICK seed \in MasterSeeds, first \in Indices, last \in Indices,
             resume \in BOOLEAN, overwrite \in BOOLEAN :
           /\ run' = [seed |-> seed, last |-> last, resume |-> resume,
                      overwrite |-> overwrite]
           /\ index' = first
           /\ OpenManifest(overwrite)
           /\ overwritten' = (overwritten \/ overwrite)
    BY DEF Launch
  <1>2. /\ Idle /\ UNCHANGED <<episodes, staged, step, faults>>
        /\ run'.overwrite = overwrite /\ first \in Nat
    BY <1>1, WriterAssumption DEF Launch
  <1>3. step = "none" /\ ~run.overwrite
    BY <1>2 DEF DiskInv, CallInv
  <1>4. TypeInv'
    BY <1>1, <1>2 DEF DiskInv, TypeInv, OpenManifest, NewManifest
  <1>5. manifest' # NoManifest
    BY <1>1 DEF OpenManifest, NewManifest, NoManifest
  <1>6. CallInv'
    <2>1. ~Idle'
      BY <1>1, <1>2 DEF Idle, NoIndex
    <2>2. manifest'.committed >= 0
      BY <1>1 DEF OpenManifest, NewManifest, DiskInv, CallInv
    <2> QED
      BY <1>1, <1>2, <1>3, <1>5, <2>1, <2>2 DEF DiskInv, CallInv
  <1>7. CountInv'
    <2>1. Uncounted = 0 /\ Uncounted' = 0
      BY <1>2, <1>3 DEF Uncounted
    <2>2. CASE ~overwrite /\ manifest # NoManifest
      <3>1. UNCHANGED manifest /\ UNCHANGED overwritten
        BY <2>2, <1>1 DEF OpenManifest, DiskInv, TypeInv
      <3>2. Backed \subseteq Backed'
        BY <2>2, <1>2 DEF Backed, Whole
      <3> QED
        BY <3>1, <3>2, <2>1, <1>2, <1>4, CountsKept DEF DiskInv
    <2>3. CASE overwrite \/ manifest = NoManifest
      <3>1. manifest'.committed = 0 /\ Counted' = 0
        BY <2>3, <1>1, <1>5 DEF OpenManifest, NewManifest, Counted
      <3>2. Cardinality(Backed)' \in Nat
        <4>1. IsFiniteSet((DOMAIN episodes)') /\ Backed' \subseteq (DOMAIN episodes)'
          BY <1>4 DEF TypeInv, Backed
        <4> QED
          BY <4>1, SubsetsAreNoLarger
      <3>3. ~overwritten' => Cardinality(DOMAIN episodes') = 0
        BY <2>3, <1>1, <1>2, FS_EmptySet DEF DiskInv, CallInv
      <3>4. faults' \in Nat
        BY <1>4 DEF TypeInv
      <3> QED
        BY <3>1, <3>2, <3>3, <3>4, <2>1 DEF CountInv
    <2> QED
      BY <2>2, <2>3
  <1> QED
    BY <1>4, <1>6, <1>7 DEF DiskInv

\* The end of an iteration, after which the next episode is up.
LEMMA NextIndexStep ==
    ASSUME DiskInv, NextIndex, ~Idle, step \in {"none", "done"}, step' = "none",
           UNCHANGED <<episodes, manifest, faults, overwritten>>
    PROVE  DiskInv'
  <1>1. \/ index' = NoIndex /\ run' = NoRun
        \/ index' = index + 1 /\ run' = run
    BY DEF NextIndex
  <1>2. index \in Nat
    BY DEF DiskInv, TypeInv, Idle
  <1>3. TypeInv'
    <2>1. index' \in Nat \union {NoIndex}
      BY <1>1, <1>2
    <2>2. run'.overwrite \in BOOLEAN
      <3>1. NoRun.overwrite \in BOOLEAN /\ run.overwrite \in BOOLEAN
        BY DEF NoRun, DiskInv, TypeInv
      <3> QED
        BY <1>1, <3>1
    <2> QED
      BY <2>1, <2>2 DEF DiskInv, TypeInv, Steps
  <1>4. CallInv'
    BY <1>1, <1>2 DEF DiskInv, CallInv, Idle, NoRun, NoIndex
  <1>5. Backed \subseteq Backed'
    <2>1. CASE run' = NoRun
      BY <2>1 DEF Backed, Whole, NoRun
    <2>2. CASE index' = index + 1 /\ run' = run
      <3>1. \A i \in DOMAIN episodes : i \in Nat
        BY DEF DiskInv, TypeInv
      <3>2. \A i \in DOMAIN episodes : i < index \/ i = index => i < index + 1
        BY <3>1, <1>2
      <3> QED
        BY <2>2, <3>2 DEF Backed, Whole
    <2> QED
      BY <1>1, <2>1, <2>2
  <1>6. Uncounted' = Uncounted
    BY DEF Uncounted
  <1> QED
    BY <1>3, <1>4, <1>5, <1>6, CountsKept DEF DiskInv

\* The process ends.
LEMMA ExitStep ==
    ASSUME DiskInv, Exit, ~Idle,
           faults' = faults + 1 \/ (step = "done" /\ faults' = faults)
    PROVE  DiskInv'
  <1>1. /\ index' = NoIndex /\ run' = NoRun /\ step' = "none"
        /\ UNCHANGED <<episodes, manifest, overwritten>>
    BY DEF Exit, disk
  <1>2. TypeInv'
    BY <1>1 DEF DiskInv, TypeInv, NoRun, Steps
  <1>3. CallInv'
    BY <1>1 DEF DiskInv, CallInv, Idle, NoRun
  <1>4. Backed \subseteq Backed'
    BY <1>1 DEF Backed, Whole, NoRun
  <1>5. \/ Uncounted' = 0 /\ faults' = faults + 1
        \/ Uncounted' = Uncounted /\ faults' = faults
    BY <1>1 DEF Uncounted
  <1> QED
    BY <1>1, <1>2, <1>3, <1>4, <1>5, CountsKept DEF DiskInv

\* The attempt is to be quarantined: an episode it has moved into place stays there.
LEMMA QuarantineStep ==
    ASSUME DiskInv, NEW clause, NEW recorded, Quarantine(clause, recorded), ~Idle,
           faults' = faults + 1 \/ (step # "count" /\ faults' = faults)
    PROVE  DiskInv'
  <1>1. step' = "quarantine" /\ UNCHANGED <<episodes, manifest, run, index, overwritten>>
    BY DEF Quarantine, disk
  <1>2. TypeInv'
    BY <1>1 DEF DiskInv, TypeInv, Steps, Settled
  <1>3. CallInv'
    BY <1>1 DEF DiskInv, CallInv, Idle
  <1>4. Backed \subseteq Backed'
    BY <1>1 DEF Backed, Whole, Settled
  <1>5. \/ Uncounted' = 0 /\ faults' = faults + 1
        \/ Uncounted' = Uncounted /\ faults' = faults
    BY <1>1 DEF Uncounted
  <1> QED
    BY <1>1, <1>2, <1>3, <1>4, <1>5, CountsKept DEF DiskInv

LEMMA AttemptStep == ASSUME DiskInv, Attempt PROVE DiskInv'
  <1>1. ~Idle /\ step = "none" /\ UNCHANGED faults
    BY DEF Attempt
  <1>2. Commit \/ \E clause, recorded : Quarantine(clause, recorded)
    BY DEF Attempt
  <1>3. CASE \E clause, recorded : Quarantine(clause, recorded)
    BY <1>1, <1>3, QuarantineStep
  <1>4. CASE StartWrite(index, run.overwrite)
             /\ UNCHANGED <<disk, staged, payload, run, index, handler, runs, overwritten, splits>>
    <2>1. UNCHANGED <<episodes, manifest, staged, run, index, overwritten, faults>>
      BY <1>1, <1>4 DEF disk
    <2>2. \/ step' = "remove" /\ run.overwrite
          \/ step' = "stage" /\ index \notin DOMAIN episodes
      BY <1>4 DEF StartWrite
    <2>3. TypeInv'
      BY <2>1, <2>2 DEF DiskInv, TypeInv, Steps
    <2>4. CallInv'
      BY <1>1, <2>1, <2>2 DEF DiskInv, CallInv, Idle
    <2>5. Backed \subseteq Backed'
      BY <1>1, <2>1 DEF Backed, Whole, Settled
    <2>6. Uncounted' = Uncounted
      BY <1>1, <2>2 DEF Uncounted
    <2> QED
      BY <2>1, <2>3, <2>4, <2>5, <2>6, CountsKept DEF DiskInv
  <1> QED
    BY <1>2, <1>3, <1>4 DEF Commit

-----------------------------------------------------------------------------
(* The steps of the writer.                                                *)

\* The steps of the writer that leave the episodes and the counts of commits alone.
LEMMA OtherWriterStep ==
    ASSUME DiskInv, ~Idle, UNCHANGED <<episodes, run, index, faults, overwritten>>,
           manifest' = manifest \/ manifest' = [manifest EXCEPT !.attempted = @ + 1,
                                                              !.quarantined = @ + 1],
           \/ step \in Settled \ {"count"} /\ step' \in Settled \ {"count"}
           \/ /\ step = "stage" /\ step' \in {"stage", "publish"}
              /\ step' = "publish" => staged' = Files
    PROVE  DiskInv'
  <1>1. TypeInv'
    <2>1. manifest' \in [attempted : Int, committed : Int, quarantined : Int]
      BY CountsAreCounted DEF DiskInv, TypeInv
    <2>2. step' \in Steps
      BY DEF Steps, Settled
    <2> QED
      BY <2>1, <2>2 DEF DiskInv, TypeInv
  <1>2. manifest # NoManifest /\ manifest.committed >= 0
    BY DEF DiskInv, CallInv
  <1>3. manifest'.committed = manifest.committed
    BY DEF DiskInv, TypeInv
  <1>4. manifest' # NoManifest
    BY <1>2, <1>3 DEF NoManifest
  <1>5. CallInv'
    BY <1>2, <1>3, <1>4 DEF DiskInv, CallInv, Idle, Settled
  <1>6. Backed' = Backed
    <2>1. step \in Settled <=> step' \in Settled
      BY DEF Settled
    <2> QED
      BY <2>1 DEF Backed, Whole
  <1>7. Uncounted' = Uncounted /\ Counted' = Counted
    BY <1>2, <1>3, <1>4 DEF Uncounted, Counted, Settled
  <1> HIDE DEF Backed, Uncounted, Counted
  <1>8. CountInv'
    BY <1>3, <1>6, <1>7 DEF DiskInv, CountInv
  <1> QED
    BY <1>1, <1>5, <1>8 DEF DiskInv

LEMMA RemoveEpisodeStep ==
    ASSUME DiskInv, ~Idle, RemoveEpisode(index), UNCHANGED <<run, index, faults, overwritten>>
    PROVE  DiskInv'
  <1>1. step = "remove" /\ run.overwrite /\ UNCHANGED <<manifest, staged>>
    BY DEF RemoveEpisode, DiskInv, CallInv
  <1>2. /\ step' \in {"remove", "stage"} /\ DOMAIN episodes' \subseteq DOMAIN episodes
        /\ step' = "stage" => index \notin DOMAIN episodes'
        /\ \A i \in DOMAIN episodes : i # index => i \in DOMAIN episodes'
                                                   /\ episodes'[i] = episodes[i]
    <2>1. ASSUME NEW f \in episodes[index].files,
                 episodes' = [episodes EXCEPT ![index].files = @ \ {f}], step' = step
          PROVE  /\ DOMAIN episodes' = DOMAIN episodes
                 /\ \A i \in DOMAIN episodes : i # index => episodes'[i] = episodes[i]
      BY <2>1
    <2>2. ASSUME episodes' = Restrict(episodes, DOMAIN episodes \ {index})
          PROVE  /\ DOMAIN episodes' = DOMAIN episodes \ {index}
                 /\ \A i \in DOMAIN episodes \ {index} : episodes'[i] = episodes[i]
      BY <2>2 DEF Restrict
    <2> QED
      BY <1>1, <2>1, <2>2 DEF RemoveEpisode
  <1>3. TypeInv'
    <2>1. IsFiniteSet(DOMAIN episodes')
      BY <1>2, FS_Subset DEF DiskInv, TypeInv
    <2> QED
      BY <1>1, <1>2, <2>1 DEF DiskInv, TypeInv, Steps
  <1>4. CallInv'
    BY <1>1, <1>2 DEF DiskInv, CallInv, Idle
  <1>5. Backed \subseteq Backed'
    <2> SUFFICES ASSUME NEW i \in Backed PROVE i \in Backed'
      OBVIOUS
    <2>1. i \in DOMAIN episodes /\ Whole(i) /\ i < index
      BY <1>1 DEF Backed, Settled
    <2>2. i # index
      BY <2>1 DEF DiskInv, TypeInv, Idle
    <2>3. i \in DOMAIN episodes' /\ episodes'[i] = episodes[i]
      BY <1>2, <2>1, <2>2
    <2> QED
      BY <2>1, <2>3 DEF Backed, Whole
  <1>6. Uncounted' = Uncounted
    BY <1>1, <1>2 DEF Uncounted
  <1> QED
    BY <1>1, <1>2, <1>3, <1>4, <1>5, <1>6, CountsKept DEF DiskInv

LEMMA PublishStep ==
    ASSUME DiskInv, ~Idle, NEW v, Publish(index, v),
           UNCHANGED <<run, index, faults, overwritten>>
    PROVE  DiskInv'
  <1>1. /\ step = "publish" /\ step' = "count" /\ UNCHANGED manifest
        /\ index \notin DOMAIN episodes /\ staged = Files
    BY DEF Publish, DiskInv, CallInv
  <1>2. /\ DOMAIN episodes' = DOMAIN episodes \union {index}
        /\ episodes'[index].files = Files
        /\ \A i \in DOMAIN episodes : episodes'[i] = episodes[i]
    BY <1>1 DEF Publish
  <1>3. index \in Nat
    BY DEF DiskInv, TypeInv, Idle
  <1>4. IsFiniteSet(DOMAIN episodes) /\ IsFiniteSet(DOMAIN episodes')
    BY <1>2, FS_AddElement DEF DiskInv, TypeInv
  <1>5. TypeInv'
    BY <1>1, <1>2, <1>3, <1>4 DEF DiskInv, TypeInv, Steps, Settled
  <1>6. CallInv'
    BY <1>1 DEF DiskInv, CallInv, Idle
  <1>7. index \notin Backed /\ Backed \union {index} \subseteq Backed'
    BY <1>1, <1>2 DEF Backed, Whole, Settled
  <1>8. /\ Cardinality(DOMAIN episodes') = Cardinality(DOMAIN episodes) + 1
        /\ Cardinality(DOMAIN episodes) \in Nat
    BY <1>1, <1>2, <1>4, OneMore, FS_CardinalityType
  <1>9. /\ Cardinality(Backed) + 1 <= Cardinality(Backed')
        /\ Cardinality(Backed) \in Nat /\ Cardinality(Backed') \in Nat
    <2>1. IsFiniteSet(Backed) /\ IsFiniteSet(Backed')
      BY <1>4, FS_Subset DEF Backed
    <2>2. Cardinality(Backed \union {index}) = Cardinality(Backed) + 1
      BY <1>7, <2>1, OneMore
    <2> QED
      BY <1>7, <2>1, <2>2, SubsetsAreNoLarger
  <1>10. /\ Uncounted = 0 /\ Uncounted' = 1
         /\ manifest.committed \in Int /\ faults \in Nat
    BY <1>1 DEF Uncounted, DiskInv, TypeInv
  <1>11. Counted' = Counted /\ Counted \in Int
    BY <1>1, <1>10 DEF Counted
  <1> HIDE DEF Backed, Uncounted, Counted
  <1>12. manifest.committed' + Uncounted' <= Cardinality(Backed')
    BY <1>1, <1>9, <1>10 DEF DiskInv, CountInv
  <1>13. ~overwritten' => Cardinality(DOMAIN episodes') <= Counted' + faults' + Uncounted'
    BY <1>8, <1>10, <1>11 DEF DiskInv, CountInv
  <1>14. CountInv'
    BY <1>12, <1>13 DEF CountInv
  <1> QED
    BY <1>5, <1>6, <1>14 DEF DiskInv

LEMMA CountCommittedStep ==
    ASSUME DiskInv, ~Idle, CountCommitted, UNCHANGED <<run, index, faults, overwritten>>
    PROVE  DiskInv'
  <1>1. /\ step = "count" /\ step' = "done" /\ UNCHANGED episodes
        /\ manifest' = [manifest EXCEPT !.attempted = @ + 1, !.committed = @ + 1]
    BY DEF CountCommitted
  <1>2. manifest # NoManifest /\ manifest.committed >= 0 /\ manifest.committed \in Int
    BY DEF DiskInv, CallInv, TypeInv
  <1>3. TypeInv'
    <2>1. manifest' \in [attempted : Int, committed : Int, quarantined : Int]
      BY <1>1, CountsAreCounted DEF DiskInv, TypeInv
    <2>2. step' \in Steps
      BY <1>1 DEF Steps, Settled
    <2> QED
      BY <1>1, <2>1, <2>2 DEF DiskInv, TypeInv
  <1>4. manifest'.committed = manifest.committed + 1
    BY <1>1 DEF DiskInv, TypeInv
  <1>5. manifest' # NoManifest
    BY <1>2, <1>4 DEF NoManifest
  <1>6. CallInv'
    BY <1>1, <1>2, <1>4, <1>5 DEF DiskInv, CallInv, Idle
  <1>7. Backed' = Backed
    BY <1>1 DEF Backed, Whole, Settled
  <1>8. /\ Uncounted = 1 /\ Uncounted' = 0
        /\ Counted = manifest.committed /\ Counted' = manifest.committed + 1
    BY <1>1, <1>2, <1>4, <1>5 DEF Uncounted, Counted
  <1>9. /\ manifest.committed + 1 <= Cardinality(Backed)
        /\ ~overwritten => Cardinality(DOMAIN episodes) <= manifest.committed + faults + 1
    BY <1>8 DEF DiskInv, CountInv
  <1>10. faults \in Nat
    BY DEF DiskInv, TypeInv
  <1> HIDE DEF Backed, Uncounted, Counted
  <1>11. manifest'.committed + Uncounted' <= Cardinality(Backed')
    BY <1>2, <1>4, <1>7, <1>8, <1>9
  <1>12. manifest.committed + faults + 1 = Counted' + faults' + Uncounted'
    BY <1>2, <1>8, <1>10
  <1>13. CountInv'
    BY <1>1, <1>9, <1>11, <1>12 DEF CountInv
  <1> QED
    BY <1>3, <1>6, <1>13 DEF DiskInv

LEMMA WriteStep == ASSUME DiskInv, Write PROVE DiskInv'
  <1>0. UNCHANGED <<run, index, faults, overwritten>>
    BY DEF Write, loopVars
  <1>1. step # "none" => ~Idle
    BY DEF DiskInv, CallInv
  <1>2. CASE RemoveEpisode(index)
    BY <1>0, <1>1, <1>2, RemoveEpisodeStep DEF RemoveEpisode
  <1>3. CASE StagePayload
    <2>1. /\ step = "stage" /\ step' \in {"stage", "publish"}
          /\ step' = "publish" => staged' = Files
          /\ UNCHANGED <<episodes, manifest>>
      BY <1>3 DEF StagePayload
    <2> QED
      BY <1>0, <1>1, <2>1, OtherWriterStep
  <1>4. CASE Publish(index, Current)
    BY <1>0, <1>1, <1>4, PublishStep DEF Publish
  <1>5. CASE CountCommitted
    BY <1>0, <1>1, <1>5, CountCommittedStep DEF CountCommitted
  <1>6. CASE \/ StartQuarantine(index, run.overwrite) \/ ClearQuarantine(index)
             \/ WriteQuarantine(index) \/ CountQuarantined
    <2>1. /\ step \in Settled \ {"count"} /\ step' \in Settled \ {"count"}
          /\ UNCHANGED episodes
          /\ \/ manifest' = manifest
             \/ manifest' = [manifest EXCEPT !.attempted = @ + 1, !.quarantined = @ + 1]
      BY <1>6 DEF StartQuarantine, ClearQuarantine, WriteQuarantine, CountQuarantined, Settled
    <2>2. ~Idle
      BY <1>1, <2>1 DEF Settled
    <2> QED
      BY <1>0, <2>1, <2>2, OtherWriterStep
  <1> QED
    BY <1>2, <1>3, <1>4, <1>5, <1>6 DEF Write, WriterStep

-----------------------------------------------------------------------------
(* The invariant.                                                          *)

LEMMA SplitsAreDealt == ASSUME CreateSplits PROVE SplitInv'
  <1>1. PICK weights \in Weights, order \in SetToSeqs(CommittedVariations) :
           splits' = [variations |-> SplitGroups(order, weights),
                      ids |-> [k \in DOMAIN SplitGroups(order, weights) |->
                                  {i \in DOMAIN episodes :
                                       /\ "metadata" \in episodes[i].files
                                       /\ episodes[i].variation
                                            \in SplitGroups(order, weights)[k]}]]
    BY DEF CreateSplits
  <1> DEFINE dealt == SplitGroups(order, weights)
  <1>2. DOMAIN dealt = 1 .. 3
    BY DEF SplitGroups, SplitNames
  <1> HIDE DEF dealt
  <1>3. /\ splits'.variations = dealt /\ DOMAIN splits'.ids = 1 .. 3
        /\ \A k \in 1 .. 3 : \A i \in splits'.ids[k] : episodes[i].variation \in dealt[k]
    BY <1>1, <1>2 DEF dealt
  <1> QED
    BY <1>2, <1>3 DEF SplitInv

LEMMA StepHolds == IInv /\ [Next]_vars => IInv'
  <1> SUFFICES ASSUME IInv, [Next]_vars PROVE IInv'
    OBVIOUS
  <1>0. DiskInv /\ SplitInv
    BY DEF IInv
  <1>1. DiskInv'
    <2>1. CASE Launch
      BY <1>0, <2>1, LaunchStep
    <2>2. CASE Skip
      <3>1. ~Idle /\ step = "none" /\ step' = "none" /\ NextIndex
            /\ UNCHANGED <<episodes, manifest, faults, overwritten>>
        BY <2>2 DEF Skip, writerVars, disk
      <3> QED
        BY <1>0, <3>1, NextIndexStep
    <2>3. CASE Attempt
      BY <1>0, <2>3, AttemptStep
    <2>4. CASE Write
      BY <1>0, <2>4, WriteStep
    <2>5. CASE EndEpisode
      <3>1. step = "done" /\ ~Idle
        BY <1>0, <2>5 DEF EndEpisode, DiskInv, CallInv
      <3>2. CASE handler = "interrupt"
        BY <1>0, <2>5, <3>1, <3>2, ExitStep DEF EndEpisode
      <3>3. CASE handler # "interrupt"
        <4>1. NextIndex /\ step' = "none" /\ UNCHANGED <<episodes, manifest, faults, overwritten>>
          BY <2>5, <3>3 DEF EndEpisode, disk
        <4> QED
          BY <1>0, <3>1, <4>1, NextIndexStep
      <3> QED
        BY <3>2, <3>3
    <2>6. CASE Raise \/ Interrupt \/ Crash
      <3>1. ~Idle /\ faults' = faults + 1
        BY <1>0, <2>6 DEF Raise, Interrupt, Crash, Writing, DiskInv, CallInv
      <3>2. Exit \/ \E clause, recorded : Quarantine(clause, recorded)
        BY <2>6 DEF Raise, Interrupt, Crash
      <3> QED
        BY <1>0, <3>1, <3>2, ExitStep, QuarantineStep
    <2>7. CASE CreateSplits \/ UNCHANGED vars
      <3>1. UNCHANGED <<episodes, manifest, staged, step, run, index, faults, overwritten>>
        BY <2>7 DEF CreateSplits, vars, loopVars, writerVars, disk
      <3> QED
        BY <1>0, <3>1
        DEF DiskInv, TypeInv, CallInv, CountInv, Idle, Backed, Whole, Uncounted, Counted
    <2> QED
      BY <2>1, <2>2, <2>3, <2>4, <2>5, <2>6, <2>7 DEF Next
  <1>2. SplitInv'
    <2>1. CASE CreateSplits
      BY <2>1, SplitsAreDealt
    <2>2. CASE ~CreateSplits
      <3>1. UNCHANGED splits
        BY <2>2
        DEF Next, vars, loopVars, Launch, Skip, Attempt, Commit, Quarantine, Write, EndEpisode,
            Exit, Raise, Interrupt, Crash
      <3> QED
        BY <1>0, <3>1 DEF SplitInv
    <2> QED
      BY <2>1, <2>2
  <1> QED
    BY <1>1, <1>2 DEF IInv

LEMMA IInvHolds == Spec => []IInv
  BY InitHolds, StepHolds, PTL DEF Spec

-----------------------------------------------------------------------------
(* What the disk promises.                                                 *)

\* Every commit the manifest counts has a whole episode behind it, and where nothing
\* was overwritten at most one episode per fault is missing from the count (writer.py:
\* the manifest is updated after the rename).
THEOREM ManifestIsAlwaysBacked == Spec => []ManifestIsBacked
  <1>1. IInv => ManifestIsBacked
    <2> SUFFICES ASSUME IInv PROVE ManifestIsBacked
      OBVIOUS
    <2> DEFINE whole == {i \in DOMAIN episodes : Whole(i)}
    <2>1. IsFiniteSet(whole) /\ Backed \subseteq whole
      BY FS_Subset DEF IInv, DiskInv, TypeInv, Backed
    <2>2. Cardinality(Backed) <= Cardinality(whole)
          /\ Cardinality(Backed) \in Nat /\ Cardinality(whole) \in Nat
      BY <2>1, SubsetsAreNoLarger
    <2>3. Uncounted \in {0, 1} /\ manifest.committed \in Int
      BY DEF Uncounted, IInv, DiskInv, TypeInv
    <2>4. /\ manifest.committed + Uncounted <= Cardinality(Backed)
          /\ ~overwritten => Cardinality(DOMAIN episodes) <= Counted + faults + Uncounted
      BY DEF IInv, DiskInv, CountInv
    <2>5. manifest.committed <= Cardinality(whole)
      <3> HIDE DEF whole
      <3> QED
        BY <2>2, <2>3, <2>4
    <2> QED
      BY <2>4, <2>5 DEF ManifestIsBacked, Counted, Uncounted
  <1> QED
    BY <1>1, IInvHolds, PTL

\* A collection without --overwrite leaves every episode it found as it was, wherever
\* it is cut off (writer.py, cli.py).
THEOREM ResumeAlwaysKeepsEpisodes == Spec => ResumeKeepsEpisodes
  <1> DEFINE Kept == ~run.overwrite =>
                \A i \in DOMAIN episodes : i \in DOMAIN episodes' /\ episodes'[i] = episodes[i]
  <1>1. IInv /\ [Next]_vars => [Kept]_vars
    <2> SUFFICES ASSUME IInv, Next, ~run.overwrite PROVE Kept
      OBVIOUS
    <2>1. CASE \E v : Publish(index, v)
      BY <2>1 DEF Publish, IInv, DiskInv, CallInv
    <2>2. CASE ~ \E v : Publish(index, v)
      <3>1. ~RemoveEpisode(index)
        BY DEF RemoveEpisode, IInv, DiskInv, CallInv
      <3>2. UNCHANGED episodes
        BY <2>2, <3>1
        DEF Next, Launch, Skip, Attempt, Commit, Quarantine, Write, WriterStep, EndEpisode,
            Exit, Raise, Interrupt, Crash, CreateSplits, writerVars, disk, StagePayload,
            CountCommitted, StartQuarantine, ClearQuarantine, WriteQuarantine, CountQuarantined
      <3> QED
        BY <3>2
    <2> QED
      BY <2>1, <2>2
  <1> QED
    BY <1>1, IInvHolds, PTL DEF Spec, ResumeKeepsEpisodes

\* A dataset with splits that validates without errors can be trained on: every episode
\* is whole and is in exactly one split, however old the splits are (validator.py).
THEOREM CleanReportsAreAlwaysSound == Spec => []CleanReportsAreSound
  <1>1. IInv => CleanReportsAreSound
    <2> SUFFICES ASSUME SplitInv, ReportIsClean, splits # NoSplits, NEW i \in DOMAIN episodes
                 PROVE  /\ Whole(i)
                        /\ \E k \in 1 .. 3 : \A l \in 1 .. 3 : i \in splits.ids[l] <=> l = k
      BY DEF IInv, CleanReportsAreSound
    <2>1. Whole(i)
      BY DEF ReportIsClean, LoadErrors
    <2>2. DOMAIN splits.ids = 1 .. 3 /\ DOMAIN splits.variations = 1 .. 3
      BY DEF SplitInv
    <2>3. i \in UNION Range(splits.ids) /\ Leaks(splits.variations) = {}
      BY DEF ReportIsClean, SplitErrors
    <2>4. PICK k \in 1 .. 3 : i \in splits.ids[k]
      BY <2>2, <2>3 DEF Range
    <2>5. ASSUME NEW l \in 1 .. 3, l # k, i \in splits.ids[l] PROVE FALSE
      <3>1. PICK v \in splits.variations[k] : v \in splits.variations[l]
        BY <2>4, <2>5 DEF SplitInv
      <3>2. v \in UNION Range(splits.variations)
        BY <2>2, <3>1 DEF Range
      <3>3. k \in DOMAIN SplitNames /\ l \in DOMAIN SplitNames
        BY DEF SplitNames
      <3> QED
        BY <2>3, <2>5, <3>1, <3>2, <3>3 DEF Leaks
    <2> QED
      BY <2>1, <2>4, <2>5
  <1> QED
    BY <1>1, IInvHolds, PTL
=============================================================================
