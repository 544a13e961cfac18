---------------------------- MODULE EpisodeWriter ---------------------------
(* AtomicEpisodeWriter: how an episode reaches the disk, one file operation *)
(* per step, so that a crash, a KeyboardInterrupt or a failing system call  *)
(* can come between any two of them. An episode directory that exists holds *)
(* some of its files; one that does not is outside the function's domain.   *)
EXTENDS Integers, FiniteSets, Functions, TLC

CONSTANTS Indices,      \* the episode indices that may be collected
          MasterSeeds   \* the sampler's --master-seed values

ASSUME WriterAssumption == Indices \subseteq Nat /\ IsFiniteSet(Indices)

\* What a reader needs of a committed episode: load_episode_arrays opens the
\* frames, committed_variation_ids and load_episode_metadata the metadata.
Files == {"frames", "metadata"}

\* A variation's id hashes its index and its master seed, so episodes share a
\* variation only if they have the same index and the same seed.
Variations == MasterSeeds \X Indices

NoManifest == [attempted |-> -1, committed |-> -1, quarantined |-> -1]
NewManifest == [attempted |-> 0, committed |-> 0, quarantined |-> 0]

VARIABLES
    episodes,     \* episodes/<id>: the files there and their variation
    quarantine,   \* quarantine/<id>: which parts have been written
    manifest,     \* dataset_manifest.json, replaced as a whole
    staged,       \* the files in the current _staging/<id>.<uuid> directory
    step,         \* the next file operation of the call in progress
    payload       \* quarantine_episode was given a record with frames

disk == <<episodes, quarantine, manifest>>
writerVars == <<episodes, quarantine, manifest, staged, step, payload>>

WriterInit ==
    /\ episodes = <<>>
    /\ quarantine = <<>>
    /\ manifest = NoManifest
    /\ staged = {}
    /\ step = "none"
    /\ payload = FALSE

\* Mutant of OpenManifest: the counts outlive the episodes that --overwrite replaces.
OpenManifestOnce(overwrite) ==
    manifest' = IF manifest = NoManifest THEN NewManifest ELSE manifest

\* Opening the writer: the manifest is created, or started again at zero under
\* --overwrite while the episodes it counted stay where they are.
OpenManifest(overwrite) ==
    manifest' = IF manifest = NoManifest \/ overwrite THEN NewManifest
                ELSE manifest

Whole(i) == Files \subseteq episodes[i].files

\* A directory without metadata.json is passed over.
CommittedVariations ==
    {episodes[i].variation : i \in {j \in DOMAIN episodes :
                                        "metadata" \in episodes[j].files}}

\* Mutant of StartWrite: os.replace moves the payload onto whatever is there.
StartWriteOver(i, overwrite) ==
    step' = (IF i \in DOMAIN episodes /\ overwrite THEN "remove" ELSE "stage")

\* The checks of write_episode before it touches the disk.
StartWrite(i, overwrite) ==
    /\ i \in DOMAIN episodes => overwrite
    /\ step' = (IF i \in DOMAIN episodes THEN "remove" ELSE "stage")

\* shutil.rmtree(final_path): the files go one by one, in any order.
RemoveEpisode(i) ==
    /\ step = "remove"
    /\ \/ \E f \in episodes[i].files :
              /\ episodes' = [episodes EXCEPT ![i].files = @ \ {f}]
              /\ step' = step
       \/ /\ episodes[i].files = {}
          /\ episodes' = Restrict(episodes, DOMAIN episodes \ {i})
          /\ step' = "stage"
    /\ UNCHANGED <<quarantine, manifest, staged, payload>>

\* _write_episode_payload: frames.npz first, metadata.json after it.
StagePayload ==
    /\ step = "stage"
    /\ staged' = IF staged = {} THEN {"frames"} ELSE Files
    /\ step' = IF staged' = Files THEN "publish" ELSE step
    /\ UNCHANGED <<episodes, quarantine, manifest, payload>>

\* os.replace(stage_path, final_path).
Publish(i, v) ==
    /\ step = "publish"
    /\ episodes' = [j \in DOMAIN episodes \union {i} |->
                       IF j = i THEN [files |-> staged, variation |-> v] ELSE episodes[j]]
    /\ staged' = {}
    /\ step' = "count"
    /\ UNCHANGED <<quarantine, manifest, payload>>

\* Load, add one, save: nobody else writes the manifest, and the save replaces
\* the file as a whole.
CountCommitted ==
    /\ step = "count"
    /\ manifest' = [manifest EXCEPT !.attempted = @ + 1, !.committed = @ + 1]
    /\ step' = "done"
    /\ UNCHANGED <<episodes, quarantine, staged, payload>>

\* The first lines of quarantine_episode. A directory left by an earlier
\* attempt is kept as it is, and this attempt is not counted.
StartQuarantine(i, overwrite) ==
    /\ step = "quarantine"
    /\ step' = CASE i \notin DOMAIN quarantine -> "mkdir"
                 [] i \in DOMAIN quarantine /\ overwrite -> "clear"
                 [] OTHER -> "done"
    /\ UNCHANGED <<episodes, quarantine, manifest, staged, payload>>

ClearQuarantine(i) ==
    /\ step = "clear"
    /\ \/ \E part \in quarantine[i] :
              /\ quarantine' = [quarantine EXCEPT ![i] = @ \ {part}]
              /\ step' = step
       \/ /\ quarantine[i] = {}
          /\ quarantine' = Restrict(quarantine, DOMAIN quarantine \ {i})
          /\ step' = "mkdir"
    /\ UNCHANGED <<episodes, manifest, staged, payload>>

\* The directory, then quarantine.json, then the payload of a recorded attempt;
\* nothing is staged.
WriteQuarantine(i) ==
    /\ \/ /\ step = "mkdir"
          /\ quarantine' = (i :> {}) @@ quarantine
          /\ step' = "report"
       \/ /\ step = "report"
          /\ quarantine' = [quarantine EXCEPT ![i] = @ \union {"report"}]
          /\ step' = IF payload THEN "payload" ELSE "tally"
       \/ /\ step = "payload"
          /\ quarantine' = [quarantine EXCEPT ![i] = @ \union {"payload"}]
          /\ step' = "tally"
    /\ UNCHANGED <<episodes, manifest, staged, payload>>

CountQuarantined ==
    /\ step = "tally"
    /\ manifest' = [manifest EXCEPT !.attempted = @ + 1, !.quarantined = @ + 1]
    /\ step' = "done"
    /\ UNCHANGED <<episodes, quarantine, staged, payload>>

WriterStep(i, v, overwrite) ==
    \/ RemoveEpisode(i)
    \/ StagePayload
    \/ Publish(i, v)
    \/ CountCommitted
    \/ StartQuarantine(i, overwrite)
    \/ ClearQuarantine(i)
    \/ WriteQuarantine(i)
    \/ CountQuarantined

Writing == step \notin {"none", "done"}

=============================================================================
