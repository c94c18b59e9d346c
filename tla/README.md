# TLA+ models of the CDI modifier and the containerd config migrator

This directory holds TLC-checked models of the two parts of this repository
that make decisions:

- the **CDI device-injection modifier**, `src/internal/modifier/cdi.go` lines 1-127;
- the **containerd config builder and version migrator**: the builder is in
  `cdi.go` lines 128-267 (package `containerd`, concatenated into the same file);
  the V1 migrator's tests are `src/unnamed/part_001`.

`src/unnamed/part_000` is `vendor/modules.txt` and has no behaviour.

## 1. Inventory

### Components

| Component | Source | State it keeps | Operations |
|---|---|---|---|
| Device Resolver | `cdi.go:64-108` `getDevicesFromSpec` | none; it reads the OCI spec (annotations, env, privilege) and the config (`DefaultKind`, `AcceptEnvvarUnprivileged`) | resolve: load errors; annotation devices win; otherwise qualify, skip duplicates, apply the privilege policy |
| CDI Modifier | `cdi.go:30-62,110-127` `cdiModifier`, `NewCDIModifier`, `Modify` | `specDirs`, `devices` | construct (error / nil modifier / modifier); `Modify`: refresh the registry (an error is only logged), then inject (an error is fatal) |
| CDI registry (library, external) | spec 4.2, 6 | devices loaded from spec files in the scanned directories | `Refresh`, `InjectDevices` |
| Config Tree Accessor | `cdi.go:155-267` `builder.build`, `loadConfig`, `parseVersion` | the loaded TOML tree, `RuntimeType`, `UseDefaultRuntimeName` | load (missing file gives an empty tree; directory or bad TOML gives an error), detect the version, select V1/V2 |
| Config Version Migrator | not in `src/`; spec 4.4 and tests `part_001` | the tree: runtime entries, `default_runtime_name`, inlined `default_runtime`, `version` | `UpdateConfig`, `RevertConfig` for V1 and V2 |
| Toolkit lifecycle | not in `src/`; spec 2 | the config file on disk | setup (build, update, save), cleanup on shutdown (build, revert, save), being killed |

### Interactions

- The runtime calls `NewCDIModifier`, which calls the resolver. A non-nil modifier's
  `Modify` then calls the CDI registry, which reads spec files written by another
  program (a CDI spec generator) that may run at the same time.
- Separately, the toolkit builds an `engine.Interface` from the config file. The
  builder decides V1 or V2 from the file's content and the legacy flag. The toolkit
  calls Update at setup and Revert at cleanup. Between the two, the process may
  be killed and started again.

### What is hard

- **Concurrency.** There is none inside the code. The only concurrency is the spec
  generator rewriting files while `Modify` refreshes.
- **Partial failure.** A refresh error is swallowed; an injection error must leave
  the spec untouched.
- **Crash and restart.** A restarted toolkit parses a config it already rewrote.
- **Protocol sequences.** Setup, crash, setup and cleanup, over every kind of
  host config, must leave nothing that points at the toolkit's binaries.
- **Policy edges.** These are the env-var privilege policy, annotation precedence,
  qualification before deduplication, and an empty runtime class.

### Properties per component

- **Resolver:** devices are exactly the spec's resolution of the request; unprivileged
  env devices are never used; each device appears once.
- **Modifier:** all devices are injected or none; a refresh error alone never fails.
- **Accessor and migrator:** cleanup leaves no toolkit reference; an empty config
  round-trips; `default_runtime_name` always resolves; Setup then Cleanup restores the loaded config (spec 1, 4.4); V1
  inlines its default (spec 4.4).

## 2. Plan

1. `CDIModifier` (done): resolver, modifier and registry, with a concurrent spec-file
   writer.
2. `ContainerdConfig` (done): builder, loading and version detection over an abstract
   tree.
3. `RuntimeMigrator` (done): V1/V2 Update/Revert and the toolkit lifecycle. It
   EXTENDS `ContainerdConfig`, so every step goes through `Build`.
4. `AbstractToolkitConfig` (done): the config is "clean" or "installed", with a
   toolkit default only while installed. `RuntimeMigrator` refines it.
5. `Redeploy` (done): the options may change between toolkit runs.
6. `AdminEdit` (done): another writer replaces the file or changes its version key.
7. Several containers sharing one spec directory are not modelled (see section 5).

## 3. Modules

### `CDIModifier.tla`

Device names are records `[kind, id]`; a bare name has kind `NoKind`.
`CollectDevices` folds `CollectDevice` over the env list, exactly as the loop at
`cdi.go:86-95`. The `seen` accumulator is read but never extended, as in the
code. `GetDevicesFromSpec` is the whole function: its error returns, the
annotation short-cut, the empty list and the policy. `NewCDIModifier` and
`Modify` are actions. `Modify` includes the refresh, whose error is ignored, and
the injection. `WriteSpecFile` is the external generator moving a spec file
between absent, partial and valid. The registry operators (`RegistryDevices`,
`InjectDevices`) follow the spec, because the CDI library is not in this tree.
The ghost variable `refreshed` records the files as the last refresh saw them.

### `ContainerdConfig.tla`

The tree is a record:
- the version: absent, an integer, or a value of another type;
- a flag for unrelated sections;
- a function from runtime names to entries;
- the name pointer;
- the inlined default.

An entry records where its root, engine, privileged flag and extra options came
from (runc or the defaults). It also records its `runtime_type`, `BinaryName`,
`Runtime`, and whether it has the CDI `container_annotations`.

`LoadConfig`, `ParseVersion` and `Build` translate `loadConfig`,
`parseVersion` and `build`. A directory is rejected because `toml.LoadFile`
fails on it; the code's own directory check never fires.

### `RuntimeMigrator.tla`

`RuntimeBinaries` and `DefaultRuntimeName` encode the runtime table that the V1
tests expect for each runtime class.

`RuntimeEntry` copies runc's entry when there is one
(`TestUpdateV1ConfigWithRuncPresent`); otherwise it uses `FreshEntry`.

The two policies:
- `UpdateV1` writes a name pointer when `UseDefaultRuntimeName` holds, and
  otherwise an inlined default (`TestUpdateV1ConfigDefaultRuntime`). `UpdateV2`
  always writes the pointer.
- Revert removes the managed entries and a pointer naming one. V1 also removes
  an inlined default whose binary is a toolkit binary. Revert then drops a
  version left alone (`TestRevertV1Config`).

`Setup`, `Cleanup` and `Crash` are the toolkit's lifecycle. `Redeploy`, enabled
by the constant `Redeploys`, changes the options while the toolkit is stopped.
`AdminEdit`, enabled by the constant `AdminEdits`, is another writer of the
file at any time: `"replace"` puts any host config there, `"retag"` changes the
version key (as a containerd config migration does). `Unreadable` names the
configs `build` rejects; `LoadConfigLenient` is the seeded fault that reads bad
TOML as empty.
The options are built by `ToolkitOptions` from the test cases' fields and
`BuilderConfigs` (the builder's `With...` options). The ghost variables are
`lastOp` and the history variable `before`: the config an installation
started from. A Setup that finds toolkit content (a restart after a crash)
keeps it, so `RoundTripFromEmpty` and `RevertRestoresConfig` compare a
cleanup with the config before the first Setup.

`Abstract` instantiates `AbstractToolkitConfig` with a refinement mapping:
`AbstractStatus` is "installed" when every toolkit binary is configured,
"clean" when none is, and "partial" (which no abstract state allows)
otherwise; `HasToolkitDefault` holds when the name pointer or the inlined
default runs a toolkit binary. `RefinesAbstractToolkitConfig` is
`Abstract!Spec`.

### `AbstractToolkitConfig.tla`

Two variables, `status` and `toolkitDefault`. `Install` (Setup) makes the
config installed and may make a toolkit runtime the default; `Uninstall`
(Cleanup) makes it clean and removes that default. A crash, a failed step or
a redeploy is a stuttering step.

The `...NoPolicy`, `...Always`, `...Lenient` and similar operators are seeded
faults. Each is a plausible bug in the definition it replaces, and each is
caught by the property named in its comment.

## 4. Runs

| Run | Config | Result | What it shows |
|---|---|---|---|
| `cdi_modifier` | `MC_CDIModifier.cfg` | pass, 100,440 states | policy, resolution, all-or-nothing injection, non-fatal refresh |
| `cdi_dedup` | `MC_CDIModifier_dedup.cfg` | violation of `DevicesUnique` | env `nvidia.com/gpu=0,nvidia.com/gpu=0` gives a modifier listing the device twice (code bug, `cdi.go:90`) |
| `migrator_lifecycle` | `MC_RuntimeMigrator.cfg` | pass, 900 states | `CleanupLeavesNoToolkitRuntime`, `RoundTripFromEmpty` (also across a crash and a restarted setup), `DefaultRuntimeNameResolves`, and the refinement of `AbstractToolkitConfig` |
| `migrator_restore` | `MC_RuntimeMigrator_restore.cfg` | violation of `RevertRestoresConfig` | `version = 1` alone is emptied by Setup then Cleanup; an unversioned runc config gains `version = 1` |
| `migrator_v1_default` | `MC_RuntimeMigrator_v1default.cfg` | violation of `V1DefaultIsInlined` | non-legacy setup on a `version = 1` config writes `default_runtime_name` |
| `migrator_redeploy` | `MC_RuntimeMigrator_redeploy.cfg` | pass, 21,170 states | with options changing between runs, the default name still resolves |
| `migrator_admin` | `MC_RuntimeMigrator_admin.cfg` | pass, 34,326 states | with the file replaced or re-versioned at any time, an unreadable config is never saved over |
| `migrator_orphan` | `MC_RuntimeMigrator_orphan.cfg` | violation of `CleanupLeavesNoToolkitRuntime` | setup with class `""`, crash, redeploy with class `NAME`, setup, cleanup: the `nvidia` entry remains (spec gap, `part_001:654`) |
| `migrator_retag` | `MC_RuntimeMigrator_retag.cfg` | violation of `CleanupLeavesNoToolkitRuntime` | legacy setup on an empty config writes V1 with an inlined default; the version key becomes 2; the V2 revert leaves the inlined default on the toolkit binary (spec gap, `cdi.go:209`) |

### Bounds

**CDI modifier.**
- Two kinds: the default `nvidia.com/gpu` and another vendor's.
- Two ids.
- Env lists of up to two names drawn from `0`, `1`, `nvidia.com/gpu=0` and
  `other=1`. With these, a bare name and its qualified form collide, and a name
  of another vendor must be kept as it is.
- Annotation lists of at most one name.
- All four failure points.
- Both settings of privileged and of accept.
- `SpecDirs` unset, or set to a custom directory plus `/var/run/cdi`.
- The GPU spec file lives in `/var/run/cdi` and the other vendor's in `/etc/cdi`,
  so a configured `SpecDirs` hides one of them.
- Every initial spec-file state, and any number of rewrites.

Longer lists only repeat these cases.

**Migrator.**
- Runtime classes: empty, a custom `NAME`, and `nvidia-experimental` (a
  suffixed name). These are the classes the tests use.
- Both settings of set-as-default and of legacy.
- Runtime type: unset (so `build` falls back to `io.containerd.runc.v2`) or
  the tests' `runtime_type`. A fresh entry takes the configured type; an entry
  copied from runc keeps `runc_runtime_type`, as
  `TestUpdateV1ConfigWithRuncPresent` expects.
- Eleven host configs: no file, a directory, bad TOML, empty, `version=1`,
  `version=3`, a version of the wrong type, `version=2` with unrelated content,
  runc without a version, runc with `version=2` and default `runc`, and runc with
  `version=1` and an inlined default.
- In the admin runs, any of the eleven host configs may replace the file, and
  its version key may become 1, 2 or 3, at any time and without bound.
- In the redeploy runs, any option set may replace the current one while the
  toolkit is stopped.
- A behaviour may cycle through setup, crash and cleanup without bound. The
  state space is finite because each step recomputes the tree from the file.

### Fairness

None is assumed, and no run checks a liveness property. `NewCDIModifier` and
`Modify` are straight-line code called once each, so under any fairness they
finish in two steps; a liveness property there would hold whatever the code
did. The migrator's cleanup runs only on an external signal, so the code
guarantees no progress there. The properties are invariants, action
properties and the refinement (a safety property). Deadlock is checked: the
spec-file writer, and setup after cleanup, keep both specs live.

## 5. Not modelled

- The TOML parser and serializer, key ordering and layout. The tree is
  abstracted to the keys the migrator reads and writes.
- The OCI spec loader and writer, and the content of CDI edits (mounts, hooks,
  env). A device's edits are represented by the device name.
- Annotation lists with duplicates. `cdi.ParseAnnotations` is external, and its
  output is used verbatim.
- The exact V2 key paths (`io.containerd.grpc.v1.cri`). V2 is modelled on the
  same abstract tree.
- The Update/Revert implementation is not in this source tree. It is modelled
  from spec section 4.4 and the V1 tests, and PROJECT.json marks those
  definitions `spec_modelled`. The Config Version Migrator therefore stays
  "partly" modelled: there are no V2 tests in this tree, so V2 follows the
  spec's wording alone, and no more of it can be translated from code.
- The lines of `cdi.go` the map does not name (1-29 and 128-154) are license
  headers, package clauses and imports; they have no behaviour.
- CLI parsing, logging, and the `path == ""` error. The toolkit always passes a
  path, and the model's options carry one.
- Several containers at once. Each container is created by its own runtime
  process, and these processes share nothing but the spec files, which they
  only read. One modifier against a concurrent spec-file writer therefore
  covers every interleaving the code can meet.
- Runc's sub-tree shared with a new runtime entry (a reference bug in the
  Go code). The tree is a value here, so sharing cannot be expressed, and no
  property claims to check it.
