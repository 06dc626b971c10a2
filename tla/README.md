# Verification models for ironic's image handling and the inspection-rules controller

This directory holds TLA+ models of three pieces of the repository. The
models are checked with TLC, and part of them is proved with TLAPS.

* `src/ironic/common/images.py` fetches, checks and converts deploy images,
  classifies image references, and builds boot media (ISO and vfat images).
* `src/k8s-integration/inspection_rules_controller.py` is a Kubernetes
  controller. It turns InspectionRule custom resources into the
  inspection-rules YAML file ironic reads.
* `src/ironic/db/sqlalchemy/alembic/versions/a1b2c3d4e5f6_...py` is a schema
  migration. It is not modelled; see below.

## Inventory: the parts and how they interact

| Part | Code | Module | Status |
|---|---|---|---|
| Format inspector | `detect_file_format`, `get_source_format` | `ImageFormat` | modelled |
| Safety gate | `safety_check_image`, `image_format_permitted`, `image_format_matches`, `check_if_image_format_is_permitted` | `ImageFormat` | modelled |
| Fetch and checksum guard | `fetch_into`, `fetch`, `_handle_zstd_compression` | `ImagePipeline` | modelled |
| Conversion pipeline | `image_to_raw` | `ImagePipeline` | partly (`force_raw_will_convert` and `converted_size` are not modelled) |
| Policy classifier | `is_whole_disk_image`, `is_source_a_path` | `PolicyClassifier` | modelled |
| Root filesystem builder | `_create_root_fs` | `BootMedia` | modelled |
| Boot media assembler | `create_boot_iso`, `create_isolinux_image_for_bios`, `create_esp_image_for_uefi`, `_get_deploy_iso_files`, `_label` | `BootMedia` | partly (`_extract_iso`'s walk is one step) |
| vfat image | `create_vfat_image` | `BootMedia` | modelled |
| Image service queries | `image_show`, `download_size`, `get_image_properties`, temp URLs | none | not modelled: pass-through calls; their answers are model inputs |
| Rules controller | `sync_rules`, `_get_all_rules`, `_convert_crd_to_rule`, `_update_crd_status`, `_write_rules_file`, `watch_rules`, `signal_handler` | `RulesController`, refining `RulesFile` | partly (`main`'s argument parsing and `--one-shot` are not modelled) |
| Alembic migration | `upgrade`, `downgrade` | none | not modelled: straight-line DDL with no control flow |

How the parts interact:

* `fetch` downloads through an image service. It validates the checksum
  under `remove_path_on_error`, then unwraps zstd. With `force_raw` it then
  calls `image_to_raw`.
* `image_to_raw` uses the format inspector (`get_source_format`). With deep
  inspection it also uses the safety gate. It then runs `qemu-img convert`,
  re-detects the result and renames it into place.
* `create_boot_iso` picks the BIOS or the UEFI builder.
  * Both builders turn an ordered `files_info` dict into a tree with
    `_create_root_fs`, then run mkisofs.
  * The UEFI builder gets its ESP either from `esp_image` or from a donor
    deploy ISO (`_get_deploy_iso_files`), never both.
  * `create_vfat_image` is the separate floppy/vfat builder.
* The controller is a single thread. `watch_rules` runs an initial
  `sync_rules`, then a loop of watch streams. Every event triggers a full
  sync. After each stream comes a periodic check. A signal ends the process
  with `sys.exit(0)`, and Kubernetes restarts the pod.

Every Python call above is synchronous. The models therefore make each call
one atomic step, and the external tools (download, zstd, qemu-img, mkisofs,
dd, mkfs, mcopy, the Kubernetes API, the disk) become nondeterministic
outcomes of that step. In the controller, the parts that do interleave are
the controller itself, the users who change resources, signals and pod
restarts. These are separate actions.

## Modules

### `ImageFormat` (operators only)

* A file is a record:
  * `cands`: the formats whose inspectors match it;
  * `safe`: whether the inspector's `safety_check` passes;
  * `href`, `intact`, `zstd`: used by the pipeline.
* `DetectFileFormat` is `detect_file_format`:
  * no match is `raw`;
  * one match is that format;
  * `{iso, gpt}` is `iso`;
  * any other multi-match raises `ImageFormatError`.
* `GetSourceFormat` maps that to `ImageUnacceptable`. `SafetyCheckImage`
  adds the safety check. `ImageFormatPermitted`, `ImageFormatMatches` and
  `CheckIfImageFormatIsPermitted` are the three policy functions, with the
  `ari`/`aki` and raw/gpt equivalences.

### `ImagePipeline` (`MCImagePipeline`)

* The state:
  * `fs` maps the paths `img`, `img.part`, `img.converted`, `img.zstd` and
    `img.part.zstd` to files or `Absent`;
  * `last` records what the last call was given and how it ended.
* There is one action per call: `Fetch`, `FetchDownloadFails` and
  `ImageToRaw`.
* The branches of `image_to_raw` are the members of `ToRawResults`:
  * the staging file is removed on error;
  * an ISO skips conversion;
  * the memory check;
  * `qemu-img` fails;
  * the re-detected format is not raw;
  * the rename.
* `HandleZstd` covers the zstd branches: skipped, ok, `OSError` restored,
  and a non-zero exit not restored. The download is first moved to its
  `.zstd` sidecar (overwriting one an earlier failure left); on success
  `zstd --rm` removes the sidecar, and on `OSError` it is moved back.
* In `ToRaw`, a conversion whose output re-detects as neither raw nor gpt
  has written `img.converted` and unlinked the staged file before
  `DropStaged` (the inner `remove_path_on_error`, line 590) deletes the
  output; a successful one is renamed from `img.converted` into place.
* Calls follow each other in any order. This is how a file left by one call
  (a stale `.part` or image) meets the next call.

### `ImageStore` (abstract specification of the pipeline)

* It states what `fetch` and `image_to_raw` promise the image cache (spec
  sections 1, 4.4 and 7) and leaves out how.
* The state: `store` maps the two places `image` and `staged` to a file or
  `Absent`; `request` is the last call (operation, place, reference,
  whether a checksum is to be verified, whether it returned).
* `Fetch(s, h, checked)` touches only place `s`. It either raises and
  leaves nothing there, or returns and leaves a file of `h` there, intact
  when `checked`.
* `Install` empties `staged`. It either leaves the image as it was, or
  returns and installs an `Installable` staged file (present and, with deep
  inspection, safe and of a permitted format). What it installs is the
  staged file itself when that is raw, gpt or an ISO, or otherwise a raw or
  gpt file of the same reference and integrity.
* `ImagePipeline` maps onto it through `StoreView` (the files at `img` and
  `img.part`) and `RequestView` (`last`, with a checksum counting as asked
  for only when file checksums are enabled). `.converted` and the zstd
  sidecars are not seen.
* A fetch is a `Fetch` of its destination's place. A direct
  `image_to_raw` is an `Install`.

### `PolicyClassifier`

* `IsSourceAPath` and `IsWholeDiskImage` translate the two functions branch
  by branch.
* The inputs are enumerated:
  * `instance_info`;
  * the image-service lookup: ok, or failing;
  * the glance image type and its kernel/ramdisk;
  * the HEAD probe: ok or failing, content type, length, trailing slash.
* Each function is one action that records its answer.

### `BootMedia` (`MCBootMedia`)

* The state:
  * `out` is the output path: `Absent`, a finished medium, `Partial` or
    `Zeroed`;
  * `last` records the last call.
* `RootFs` is `_create_root_fs`. The ordered `files_info` is a sequence of
  `<<source, destination>>` pairs, and the last pair for a destination wins,
  as in a dict update followed by a copy loop.
* `BiosResults`, `UefiResults` and `CreateVfatImage` list every failure
  point of their function and what it leaves at the output:
  * the copy failing, wrapped into `ImageCreationFailed`;
  * `write_to_file`, not wrapped;
  * mkisofs;
  * for vfat: dd, mkfs and mcopy.
* `CreateBootIso` dispatches on the boot mode, as `create_boot_iso` does.

### `RulesController` (`MCRulesController`)

* The state:
  * `crds`: the resources;
  * `status`: their `status.state`;
  * `file`: the rules file;
  * `leaked`: a stray temporary file;
  * `pc`: where `watch_rules` is;
  * `pending`: events on the open stream;
  * `streamSync`: a sync succeeded during the current stream;
  * `gen`: which uuid4 batch the next sync makes;
  * `changes`: user changes so far;
  * `synced`: a ghost, true when the file was written from the resources as
    they are now.
* `SyncResults` is the whole of `sync_rules`, atomically:
  * `_get_all_rules` may raise;
  * the per-resource loop: convert, append, patch Active, or on any error
    patch Error;
  * a non-API exception from the Error patch ends the loop;
  * `_write_rules_file`: sort by priority, temporary file, dump, rename,
    with each failure point and a signal between dump and rename.
* `sync_rules` logs and re-raises every `Exception`. Where it is called
  decides what happens next:
  * a failed first sync (`InitialSync`) reaches `main`, which exits with
    status 1, and the pod is restarted;
  * a failed sync on an event (`ProcessEvent`) abandons the stream and
    goes through the except branch to the periodic check;
  * a failed periodic sync is caught and logged by `PeriodicCheck`.
* The rest of `watch_rules` is `InitialSync`, `ProcessEvent`,
  `StreamTimeout`, `StreamFails` (410 restarts the stream, other errors go
  to the periodic check) and `PeriodicCheck`.
* `Stop` is the signal. `Restart` is the pod restart. `UserApply` and
  `UserDelete` are users, bounded by `MaxChanges`.

### `RulesFile` (abstract specification of the controller)

* It states what the controller promises about the rules file and leaves
  out how.
* The state: `crds`, `rules` (a sequence of `[crd, priority]` entries, or
  `Absent`) and `changes`.
* `Change` is a user edit. `Publish` replaces the file, in one step, with
  the unique `IsSnapshot` of the resources now: every convertible resource
  once, sorted by decreasing priority and stably by list order.
* `Spec` has `WF(Publish)`: while resources stay put, the file eventually
  matches them.
* `RulesController` maps onto it through `FileRules`, which is the file
  with the uuids dropped. The uuids are regenerated by every sync and are
  not part of the promise (the `rules_uuid` run is about that churn). The
  controller's `crds` and `changes` map to themselves.
* The mapping turns every controller step into one of two things:
  * a successful `_write_rules_file` (an atomic rename) is a `Publish`;
  * every other step, including a failed sync, a signal, a restart and a
    temporary file left behind, is a stutter or a `Change`.

## Runs

Passing runs:

| Run | Checks |
|---|---|
| `image_pipeline` | `ConvertedCleanedUp`, `FetchAtomic`, `FetchDelivers`, `ToRawContract` with deep inspection on, as the image cache uses the pipeline. A failed fetch leaves nothing at its destination. A successful one delivers that reference's image, intact when a checksum was given. No `.converted` file survives a call. `image_to_raw` consumes the staged file and installs either the staged raw/ISO image or a verified raw conversion of it, or leaves the destination unchanged. `ImplementsImageStore`: the pipeline refines `ImageStore`, so in addition a fetch never touches the other of `img` and `img.part`. |
| `policy_path_source` | `PathSourceAgreesWithSpec`: `is_source_a_path` follows spec 4.7 on every enumerated response, including a mounted ISO's HTML listing that also sends a length. |
| `boot_media` | `TypeOK`, `IsoLayout`. Whatever is injected (anywhere but at isolinux.bin; see Proofs), a returned ISO has its boot loader (isolinux.bin, or the ESP/donor efiboot) and the generated config at their paths, and the label is `config-2` exactly when metadata is injected. |
| `rules_controller` | `FileReflectsCluster`: after a completed sync, the file holds exactly the convertible resources at their current priorities, highest first. `ImplementsRulesFile`: the controller refines `RulesFile`. The file is only ever replaced, at once, by a correctly sorted snapshot of the resources as they were at some moment, and once users stop it eventually matches them. |

Violation runs (each is a finding in `PROJECT.json`):

| Run | Property | What TLC finds |
|---|---|---|
| `to_raw_insecure` | `ToRawContract` | Without deep inspection, line 575 detects the format of the destination, not the staged file. |
| `fetch_force_raw` | `FetchAtomic` | `fetch(force_raw=True)` converts a `.part` file it never wrote (line 501). |
| `zstd_restore` | `ZstdRestore` | Only `OSError` restores the download (line 470). |
| `policy_lookup_failure` | `WholeDiskUnknownOnLookupFailure` | A failed probe or lookup gives True/False or raises, not unknown. |
| `boot_media_partial_output` | `MediaNoPartialOutput` | mkfs, mcopy or mkisofs failures leave a partial image. |
| `rules_status` | `StatusActiveMeansFiled` | Resources are patched Active before the file is written (line 237). |
| `rules_uuid` | `UuidStable` | Rules without `spec.uuid` get a new uuid4 on every sync. |
| `rules_tmp` | `NoStrayTempFiles` | The temporary file leaks on dump or rename failure, or on SIGTERM. |

Every property of a passing run has a mutant in `PROJECT.json`. The mutant
is a plausible bug in a mapped definition, and TLC finds it under the run's
own configuration. Examples:

* the converted output kept when the conversion block raises;
* a dropped `remove_path_on_error`;
* an inverted checksum condition;
* ISO no longer exempt from conversion;
* the except branch of `is_source_a_path` returning False;
* the copy order in `_create_root_fs`;
* the generated config written before the injected files;
* the donor chosen whenever `deploy_iso` is set;
* rules appended only when their status patch succeeds;
* an inverted periodic-sync test.

## Bounds, and why they are enough

* **`MCImagePipeline`.** Two references: a glance one that verifies its
  transfer and an HTTP one. So a file of one reference can stand in for the
  other.
  * Seven kinds of content: raw; safe and unsafe qcow2; ISO+GPT; an
    ambiguous qcow2+vmdk; a non-permitted vmdk; zstd-wrapped qcow2.
  * Two qemu-img outputs: raw, and a faulty output still detected as qcow2.
  * Calls are unbounded in number. The state is finite because the
    directory has five paths.
  * Every branch of `image_to_raw` and of zstd handling is reached.
* **`MCPolicyClassifier`.** Every combination of source kind, glance answer
  and probe response.
* **`MCBootMedia`.**
  * Injected files: at a metadata path, at the isolinux and grub config
    paths, at `EFIBOOT_LOCATION`, and at the donor's grub path.
  * Donor layouts: with and without a grub config.
  * Inject lists: up to four files.
  * This covers every collision the layout property is about, except an
    injected file at `isolinux/isolinux.bin`. That one breaks `IsoLayout`
    (see Proofs), so it is left out of the run, and `IsoLayoutProved`
    takes its absence as a hypothesis.
* **`MCRulesController`.**
  * Two resources in a fixed list order, and two priorities. This is enough
    to see the sort and its stability, one resource failing while another
    succeeds, and deletions.
  * `MaxChanges = 2`: enough for a create and then an edit or a delete
    while a stream is open or closed.
  * `SpecUuids` is `{TRUE}` in the passing run. The uuid4 churn is the
    subject of the `rules_uuid` run, which allows `FALSE`.

## Fairness

`RulesController` assumes two kinds of fairness:

* **Weak fairness of the controller's actions.** The loop in `watch_rules`
  never blocks except on the stream, which times out after `sync_interval`.
  A stopped pod is restarted by its Deployment.
* **Strong fairness of a sync that brings the file up to date.** The API
  server, the status patches and the disk do not fail forever. A sync that
  could succeed infinitely often eventually does.

There is no fairness for users or signals: they may stop at any time.
Together these two give `RulesFile`'s `WF(Publish)`. Once users have made
their last change, a sync that writes the file stays possible. It may fail
or be cut short by a signal any finite number of times, but strong fairness
makes it succeed eventually. The `PeriodicDueMut` mutant disables the
periodic resync, and TLC then finds the refinement's liveness violated. The other modules describe single calls and have no liveness
properties.

## Proofs (TLAPS)

Four modules hold proofs. Each holds for every value of the constants that
satisfies the module's named assumptions. `tlapm` checks every step.

### `ImagePipelineProofs`

It proves six theorems, under `PipelineAssumption` and `FormatAssumption`:

* `TypeCorrect`: `Spec => []TypeOK`.
  * The type lemmas for `Write`, `Move`, removal, `ToRaw` and `HandleZstd`
    show that each of the 5-path updates stays in `[Paths -> File \cup {Absent}]`.
  * `InitTypeOK` and `NextTypeOK` are combined with PTL.
* `ConvertedNeverLeft`: `Spec => []ConvertedCleanedUp`, the invariant the
  `image_pipeline` run checks, for every constant and with or without
  `force_raw` and deep inspection.
  * It rests on `IInv == TypeOK /\ ConvertedCleanedUp` (lemma `IInvHolds`),
    which is also what `ToRawContract` needs: `image_to_raw` renames or
    removes `.converted` on every path (`ToRawNoConverted`), and the zstd
    step writes only its path and that path's sidecar
    (`HandleZstdCases`, which goes through each branch of
    `_handle_zstd_compression` once for all the zstd lemmas).
  * `fetch` never writes the `.converted` path (`DistinctPaths`).
* `ToRawContractProved`: under `DeepInspection`,
  `Spec => [][last'.op = "to_raw" => ToRawOutcome]_vars`.
  * It follows from `ToRawMeetsContract`, which goes through every member of
    `ToRawResults` using `IInv`.
  * This is the property the `image_pipeline` run checks.
* `FetchContract`: if no caller passes `force_raw`
  (`TRUE \notin FetchForceRaw`), then `Spec => [](FetchAtomic /\ FetchDelivers)`.
  * These are the two fetch invariants the `image_pipeline` run checks.
  * Without the hypothesis the theorem is false. The `fetch_force_raw` run
    shows the counterexample (the `.part` conversion, line 501).
  * The inductive invariant is `FInv == TypeOK /\ FetchAtomic /\ FetchDelivers`.
  * `HandleZstdAt` reads off `HandleZstdCases` what a fetch leaves at its path.
    On success the destination holds a file with the requested href and
    integrity. On failure it holds nothing.
  * `NextFInv` has one step per action. `ImageToRaw` keeps both fetch
    invariants only vacuously, because they are stated about the last
    call's `op`.
* `FetchDeliversProved`: the same hypothesis gives `Spec => []FetchDelivers`.
  It is a corollary of `FetchContract`.
* `ImplementsImageStoreProved`: under `DeepInspection` and
  `TRUE \notin FetchForceRaw`, `Spec => ImplementsImageStore`.
  * It is the refinement the `image_pipeline` run checks, proved step by step.
  * `Init` maps to `ImageStore`'s `Init`.
  * `NextRefines` shows that every step maps to an abstract step or a
    stutter. It rests on `IInv /\ FInv`:
    * `IInv` makes `ToRawMeetsContract` apply;
    * `FInv` after the step says what a fetch left at its destination.
  * `FetchStepRefines` turns a fetch into `Fetch` of its place. Its frame
    comes from `HandleZstdFrame`: the zstd step writes only its path and
    that path's sidecar.
  * `InstallStepRefines` turns an `image_to_raw` that met `ToRawMeets` into
    `Install`. For this, `ToRawMeets` states that a conversion keeps the
    staged file's integrity flag.
  * `SameFormatOps` shows that the instantiated format operators
    (`IS!DetectFileFormat`, `IS!File`, ...) are the pipeline's own.
  * Both hypotheses are needed: the `to_raw_insecure` and
    `fetch_force_raw` runs break the contract without them.

### `PolicyClassifierProofs`

* `PathSourceProved`: `Spec => []PathSourceAgreesWithSpec`, for every
  input, not only the enumerated ones.
* The inductive invariant is `TypeOK /\ PathAnswered`. `PathAnswered` says
  that `path` is still pending, or is `IsSourceAPath` of the current
  inputs; the inputs never change after `Init`.
* `IsSourceAPathMeetsSpec` checks the decision order of `is_source_a_path`
  against the four rules of spec 4.7. An HTML type is a listing even when
  a length comes with it (the mounted-ISO case of images.py:859-864, whose
  order spec 9 says to keep). Swapping the type and length tests breaks
  the property; TLC finds that in one step.

### `BootMediaProofs`

It proves two theorems under `BootAssumption`. That assumption holds of
every real input:

* inject lists pair injected files with inject destinations;
* vfat file lists pair inputs with destinations;
* a donor ISO's `efiboot.img` and `grub.cfg`, when both are found, are two
  different files and are not openstack metadata;
* the two configuration flags are Booleans;
* "no file" is not an input.

The theorems:

* `BootTypeCorrect`: `Spec => []TypeOK`.
* `IsoLayoutProved`: if no file is injected at `isolinux/isolinux.bin`, then
  `Spec => []IsoLayout`.
  * The hypothesis is needed. `create_isolinux_image_for_bios` merges
    `inject_files` after isolinux.bin (line 234), so an injected file at
    that path replaces the BIOS boot loader. TLC finds `IsoLayout`
    violated in one step when `MCInjectDests` includes that path.
  * The UEFI builder needs no such hypothesis, because its ESP or donor
    entries come after the injected files (line 354).
  * `IsoLayout` speaks only of the outcome of the last call, so the
    inductive invariant is just `TypeOK /\ IsoLayout`.

The argument goes through these lemmas:

* `RootFsLast`, `RootFsNone` and `RootFsFrom` say what `_create_root_fs`
  leaves at a destination:
  * the source of the last entry for it;
  * nothing, when there is no entry;
  * a member of `S`, when every entry for it comes from `S`.
* The largest index is found with `WFMin` on `Nat`, through `LeastNat` and
  `GreatestIndex`.
* `IsoFacts` describes the tree of any ISO a builder returns, and `IsoLabel`
  shows its label is `config-2` exactly when the tree holds injected metadata.
* `BiosIso` and `UefiIso` place the boot loader in the concatenated
  `files_info`, using `ConcatProperties`.
* `BiosResultsFacts` and `UefiResultsFacts` go through every outcome of
  the two builders.
* There is one step lemma per action.

### `RulesControllerProofs`

It proves three theorems under `ControllerAssumption` and
`AbsentAssumption`. The second says that "no resource" and "no file" are
neither a resource nor a rules list.

* `ControllerTypeCorrect`: `Spec => []TypeOK`.
* `FileReflectsClusterProved`: `Spec => []FileReflectsCluster`.
  * The inductive invariant is `TypeOK /\ FileReflectsCluster`.
  * The heart of it is `SortReflects`: the list `_write_rules_file` writes
    is sorted by decreasing priority, stably by list order, and holds each
    convertible resource exactly once.
  * This rests on `Rank` being a bijection from the kept resources onto
    `1..n`: `RankLess`, `RankInjective` and `RankOnto` (via
    `FS_Injection`).
  * `Before` is shown to be a strict total order (`BeforeOrder`).
* `RefinesRulesFile`: `Spec => RF!Init /\ [][RF!Next]_RF!avars`.
  * This is the safety part of `ImplementsRulesFile`.
  * Every successful sync maps to a `Publish` of the unique snapshot
    (`SyncPublishes`, `SyncRefines`).
  * Users' edits map to `Change`. Every other step is a stutter.

To make the controller provable, the model states the sort and the loop
with sets instead of `SelectSeq`.

* `SelectSeq` is a recursive definition, and the provers can say nothing
  about what it returns.
* `Rank(c, K, n)` is one plus the number of kept resources that
  `_write_rules_file`'s stable sort puts before `n`.
* `LoopOutcomes`, `Done` and `Kept` describe the per-resource loop of
  `sync_rules` as a function from resources to outcomes. `Done` is the
  prefix up to the first resource whose Error patch ends the loop.
* TLC gives the same number of distinct states as with the sequence
  version, and the same mutants are caught.

### What only TLC checks

* All liveness, including the `WF(Publish)` half of
  `ImplementsRulesFile`. The provers do not handle fairness or ENABLED.
* The properties of the violation runs (`ZstdRestore`,
  `StatusActiveMeansFiled`, `UuidStable`, `NoStrayTempFiles` and the
  others). They are false of the code, and TLC shows the counterexample.

## What is not modelled, and why

* **Time.** Only the order of events is modelled. For example, status
  patches are themselves MODIFIED events, so the controller resyncs after
  every sync; the model can see that this happens but cannot tell how
  often.
* **Process crashes inside `images.py` calls.** Each call is atomic.
* **The kind of exception the ISO builders raise.** `write_to_file`
  (lines 260, 371) sits outside any try, so a raw `OSError` escapes instead
  of `ImageCreationFailed`. `BootMedia` keeps that outcome, but no run
  checks error kinds.
* **`force_raw_will_convert`, `converted_size`** and the image service
  pass-through calls.
* **`_generate_cfg`'s text** and **`_extract_iso`'s directory walk.**
* **Concurrent calls on the same path.** The conductor serialises them
  through its image cache lock.
* **The alembic migration.**

## Plan for the next sittings

1. Model `force_raw_will_convert` and `converted_size`, and relate them to
   `image_to_raw` (the size estimate vs. the formats actually converted).
2. An abstract specification for `BootMedia`. What spec 7 promises (a
   failed build leaves nothing half-written) is false of the code (the
   `boot_media_partial_output` run). What holds of a returned ISO is
   already `IsoLayout`. So a refinement would either restate `IsoLayout`
   or build the partial outputs into the abstract spec. It is left until
   the failure path is settled.
3. Find status invariants of the controller that hold (the `rules_status`
   run shows the obvious one does not), and prove them.
4. Model `_extract_iso`'s walk with donor ISOs holding several candidate
   grub configs (hazard at images.py:950).
