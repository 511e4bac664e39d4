# Formal models of the VibeZ operator scripts and load tests

This directory holds TLA+ models of the Python scripts in `src/`, the TLC
configurations that model-check them, and TLAPS proofs. Source paths below are
relative to the repository root.

## 1. The system and its parts

The repository is not one program. It is a set of scripts that are run by hand:

| Part | Source | State and operations | Interacts with |
|---|---|---|---|
| WaveShape load shape | `src/tests/load/locustfile.py` 68-91 | Static stage table. `tick()` is a pure function of the run time: the first stage whose `duration` exceeds it, or `None`. | The locust harness polls `tick()` each second and spawns or stops users toward the target at `spawn_rate`. |
| VibeZUser | `src/tests/load/locustfile.py` 5-66 | Per user: pick a weighted `@task`, send one request, wait `between(1,5)`. One task uses `catch_response` with its own success set. `chaos_monkey` sleeps, drops (timeout 0.001) or sends normally. | The locust HttpSession records every request. The harness starts and stops users. |
| ApiUser and WSUser | `src/locustfile.py` | ApiUser: two weighted HTTP tasks. WSUser: `on_start` connects a WebSocket, then two weighted `send` tasks. | The harness, and a service that may refuse or close connections. |
| Markdown consolidator | `src/scripts/archive/consolidate-markdown.py` | Walks the tree with filters. Reads every `.md` in category order through `read_file_content` (`errors='ignore'`, error comment on failure). Writes one document in place with `'w'`. | Its output is the input of the deleter. |
| Markdown deleter | `src/scripts/delete-original-md.py` | Reads that document, extracts every `**Source**: \`p\`` match, and removes each path that exists. | Removes the files the consolidator read. Developers edit files concurrently. |
| Asset set-up | `src/scripts/setup_assets.py` | Creates imageset folders, copies up to three scales, writes `Contents.json`. | Creates the folders that copy_and_rename needs. |
| Asset copy | `src/scripts/copy_and_rename.py` | Copies `%40`-encoded files into existing imagesets and counts PNGs. | Depends on setup_assets. |
| String extractor | `src/extract_strings.py` | Regex scan of TypeScript sources, then a markdown report. | Nothing. |

These behaviours are hard to test:

- Users interleave with each other and with the harness, which can stop them anywhere.
- Stage boundaries are off-by-one-sensitive.
- The ramp has to be feasible within each stage's time slot.
- The run has to terminate.
- Exceptions are swallowed differently in tasks and in `on_start`.
- Connections are refused or closed by the service.
- In the markdown pair:
  - a developer can edit between the two scripts;
  - the consolidator can be rerun;
  - the in-place write can crash;
  - decoding is lossy;
  - the regex runs over the whole document, file contents included.

## 2. Modules

- **`WaveShape`** holds the stage table (`Stages`, a CONSTANT sequence) and `tick` (map: lines 74-91).
  - `Passed(t)` is the set of stage indices whose boundaries `t` has reached, with all earlier ones.
  - `StageIndex(t) == Cardinality(Passed(t)) + 1` is the stage the `for` loop returns, or N+1 for `None`.
  - `MCLoadRun` checks this closed form against a literal recursive transcription of the loop (`ScanFrom`) for every `t` in 0..301, with `ASSUME TickMatchesLoop`.
  - The recursion is kept out of the proved modules, because TLAPS cannot use a module that declares a RECURSIVE operator.
  - `WaveStages` is the shipped table.
- **`StageProgress`** is the abstract specification of the shape: the stage only moves forward, and the run stops only after the last stage.
- **`LoadRun`** composes `WaveShape` with the harness loop (spec sections 2 and 5).
  - `ShapeStop` is `tick()` returning `None`.
  - `ShapeApply` applies the `(users, spawn_rate)` target.
  - `Elapse` is one second: the user count moves toward the target by at most `spawn_rate`.
  - The run clock is capped by `MaxRunTime`.
  - `Abstract == INSTANCE StageProgress WITH stage <- StageIndex(runTime), stopped <- ~running` is the refinement mapping.
- **`VirtualUser`** models VibeZUser.
  - `pc`, `req` (the in-flight request with its accepted statuses) and `stats` (the latest recorded request per user).
  - One action per `@task`. `chaos_monkey` has three disjuncts. `ChaosLatency` is the request after the sleep.
  - `Respond` is the client recording a status. `Wait` is the think time. `Stop` is the harness.
  - Weights become "which tasks can be picked". Probabilities are outside TLC's reach.
- **`SwarmUsers`** models `src/locustfile.py`.
  - `pc`, `conn` (none/open/closed) and `outcome`.
  - `on_start` either connects, or raises and kills the user, as locust's `User.run` re-raises exceptions from `on_start`.
  - Sends on a connection that is not open raise inside a task. The task loop logs the error and carries on.
  - `ServerClose` and `Stop` are the environment.
- **`MarkdownPipeline`** models both markdown scripts and the developers around them.
  - `fs` is path -> content.
  - `doc` is the document as a sequence of blocks, each with a `whole` flag saying whether the write got past it.
  - The consolidator's local state is `cTodo` and `cAcc`. The deleter's is `dTodo` (sources not yet handled), `dCur` (the loop's current `source`) and `errors` (the paths whose `os.remove` raised).
  - `deleted` is the history of `<<path, content>>` removed.
  - Actions follow the code: `ConsolidateWalk` (the walk and filters fix the file list), `ConsolidateRead` (one file, in the category order of lines 74-96), `ConsolidateWrite`, `ConsolidateWriteCrash`, `DeleteParse`, `DeleteCheck` (`os.path.exists` holds, line 22), `DeleteOne` (`os.remove` then `deleted.append`, lines 24-25), `DeleteError` (`os.remove` raises because the file went away after the check, lines 26-27), `DeleteNotFound`, `DeleteFinish`, plus the environment's `EditFile` and `RemoveFile`.
  - File contents are model values. The MC module says which are empty, which are not UTF-8 (`Decoded` changes them) and which quote a Source line (`Cites`).
  - The table of contents, headings and size report are formatting and are left out.
- **`LoadRunProofs`** holds the TLAPS proofs about `LoadRun`.

Each model has an MC module (`MC*.tla`) that gives the constants their values.

## 3. Runs

| Run | Config | Checks | Shows |
|---|---|---|---|
| load_run | `MCLoadRun.cfg` | TypeOK, TargetReachedBeforeStageEnds, RunEnds, ImplementsStageProgress | With the shipped table, every stage reaches its user count before its boundary. The run ends. The shape refines `StageProgress`. |
| virtual_users | `MCVirtualUser.cfg` | TypeOK, UsersKeepRequesting | Every task a running VibeZUser enters issues a request, including after the latency sleep. |
| chaos_drop_failure (violation) | `MCVirtualUserChaosDrop.cfg` | ChaosDropNeverFailure | The packet-drop timeout is recorded as a failure (finding 1). |
| swarm_users | `MCSwarmUsers.cfg` | ClosedConnectionReported | WSUser never reconnects. A WSUser whose connection the service closed, and which the harness has not stopped, goes on to record a failed send. The dead connection therefore shows in the statistics, even after earlier successes. |
| swarm_connect_fail (violation) | `MCSwarmConnectFail.cfg` | UsersKeepLoading | A refused handshake ends the WSUser for good. |
| pipeline | `MCMarkdownPipeline.cfg` | TypeOK | Covers reruns, crashes, and edits or removals at any time, including between the deleter's exists check and its `os.remove`. The state stays well formed. In particular, `deleted` only ever holds a file that was really removed, with its text: a remove that raises goes to `errors`. |
| pipeline_once | `MCPipelineOnce.cfg` | NoContentLost | In the intended use (one run each, no later edits, UTF-8 text, no crash), every deleted file's exact text is in the document. |
| pipeline_edit_race, _rerun, _crash, _lossy (violations) | `MCPipeline*.cfg` | NoContentLost | Each of the four ways to lose a file's only copy. |
| pipeline_quote (violation) | `MCPipelineQuote.cfg` | SkippedNeverDeleted | A quoted Source line deletes a file the walk skipped. Without such a quote the property only restates the walk's filter, so no passing run checks it. |

Every property of a passing run has a mutant in `PROJECT.json`: a plausible bug in the mapped code that TLC catches under the same cfg.

**Bounds.**

- `MaxRunTime = 301` covers the whole 300-second shipped table, and one tick after it.
- Two users are enough for any interleaving of independent users. The statuses 0, 200, 401, 403 and 500 split every success set.
- The pipeline uses three paths, one of them skipped, with contents that are normal, empty, lossy or quoting.
  - Up to 4 script runs and 2 environment steps reach every interleaving of a rerun, a crash and an edit. The pass run has about 3.3 million distinct states.
  - Each violation is found with the smallest bound that exhibits it.

**Fairness.**

- `LoadRun` has weak fairness on `Next`, because the harness's timer keeps polling.
- The user modules have weak fairness per user on its own steps, because locust schedules every greenlet.
- Fairness on `Respond` assumes the service answers every request. That is exactly the case a missing timeout would break (see hazards).
- `Stop` and `ServerClose` are not fair: the harness and the service may never do them.
- The pipeline has no fairness: its properties are safety properties.

## 4. Findings

Seven findings are listed in `PROJECT.json`, each with its run and the line where it bites:

- The chaos drop counts as a failure, contrary to spec sections 4.1 and 7.
- A refused WebSocket handshake ends the user, contrary to spec section 7.
- The markdown pair can delete a file's only copy in four ways: a concurrent edit, a rerun, a crash during the in-place write, and lossy decoding.
- A quoted Source line deletes arbitrary files.

Two of these depend on locust's documented behaviour, which is modelled rather than read:

- HttpSession records a timeout and returns instead of raising.
- `User.run` re-raises an exception from `on_start`.

## 5. What is proved

`LoadRunProofs` proves the following for every stage table with positive spawn rates (`StagesAssumption`), every `MaxRunTime \in Nat` and every `None` outside the pairs:

- **`TypeCorrect`: `Spec => []TypeOK`.** TypeOK alone is not inductive. `Elapse` uses `target[1]` and `target[2]`, which is only well typed if the target is a pair whenever `polled` holds. The inductive invariant is `IInv == TypeOK /\ (polled => target # None)`. No run checks `IInv`; the proof establishes it directly. The proof uses these lemmas:
  - `StageIndexRange`: `Passed(t)` is finite, and `StageIndex(t) \in 1..N+1`.
  - `TickValue`: `tick(t) = None` exactly when `StageIndex(t) = N+1`, and otherwise `tick(t)` is a pair.
- **`Refinement`: `Spec => ImplementsStageProgress`.**
  - Initial states map to `StageProgress` initial states.
  - `ShapeStop` maps to `Stop`, because `tick` is `None` only past the last stage.
  - `ShapeApply` is a stutter.
  - `Elapse` is a stutter or an `Advance`. This rests on `StageIndexMonotone`: `t1 <= t2 => StageIndex(t1) <= StageIndex(t2)`, which holds because `Passed` grows with `t`. It holds even for a table whose boundaries do not increase.

The following are model-checked only:

- Liveness (`RunEnds`, `UsersKeepRequesting`, `ClosedConnectionReported`) and ENABLED. These are out of the prover's reach.
- That `StageIndex` agrees with the literal loop. This is a fact about a recursive definition.
- The pipeline and user safety properties.

## 6. Not modelled, and the plan

- **`setup_assets.py` and `copy_and_rename.py`.** Planned as an `AssetSetup` module, with the asset tree as state and one action per copy and per `Contents.json` write. The properties would be:
  - `Contents.json` names only copied files;
  - the reported PNG count equals the files on disk;
  - a copy into a missing folder raises.
- **`extract_strings.py`.** Regex text processing with no state. Its `categorize` (first matching keyword wins) is a candidate for a pure operator checked against a reference.
- **Deleter and reader gaps.**
  - `os.remove` is modelled as failing only for a file that went away after the exists check. Failures for other reasons, such as permissions, are not modelled.
  - Files that exist but cannot be read are not modelled either.
- **Proofs.** A proof of `MarkdownPipeline`'s type invariant is planned.
- **Never modelled.** Formatting, printing, timestamps and the absolute paths hard-coded in the scripts.
