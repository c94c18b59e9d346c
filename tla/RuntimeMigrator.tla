-------------------------- MODULE RuntimeMigrator --------------------------
(***************************************************************************)
(* The containerd runtime migrator: UpdateConfig and RevertConfig of the   *)
(* toolkit's containerd setup, with the V1 (ConfigV1) and V2 (Config)      *)
(* policies that builder.build selects, run over the toolkit's lifecycle:  *)
(* Setup loads the config, adds the nvidia runtimes and saves it; Cleanup  *)
(* (on shutdown) loads it again, removes them and saves it; the toolkit    *)
(* may also be killed while set up and started again.                      *)
(*                                                                         *)
(* The Update/Revert policies are not in this source tree: they follow     *)
(* the spec (section 4.4) and the expectations of the V1 tests.            *)
(***************************************************************************)
EXTENDS ContainerdConfig, Functions, TLC

CONSTANTS
    Options,        \* the toolkit's options: runtimeClass, setAsDefault, ...
    InitialDisks,   \* config files the toolkit may find on a host
    Redeploys,      \* whether the deployment's options may change between runs
    AdminEdits      \* edits made to the file by others: "replace", "retag"

\* The toolkit's options: a runtime class, set-as-default, and the builder's
\* fields.
ToolkitOptions(runtimeClasses, builders) ==
    {[runtimeClass |-> c, setAsDefault |-> d, path |-> b.path,
      runtimeType |-> b.runtimeType, useLegacyConfig |-> b.useLegacyConfig] :
        c \in runtimeClasses, d \in BOOLEAN, b \in builders}

\* The runtime binaries installed by the toolkit, under runtimeDir.
BaseBinary == "nvidia-container-runtime"
SuffixedRuntimeBinaries ==
    ("nvidia-experimental" :> "nvidia-container-runtime.experimental") @@
    ("nvidia-cdi"          :> "nvidia-container-runtime.cdi") @@
    ("nvidia-legacy"       :> "nvidia-container-runtime.legacy")
ToolkitBinaries == {BaseBinary} \cup Range(SuffixedRuntimeBinaries)

\* The runtimes the toolkit manages: the base runtime is named after the
\* runtime class unless that is empty or one of the suffixed names.
RuntimeBinaries(runtimeClass) ==
    LET base == IF runtimeClass \in {""} \cup DOMAIN SuffixedRuntimeBinaries
                THEN "nvidia" ELSE runtimeClass
    IN (base :> BaseBinary) @@ SuffixedRuntimeBinaries

\* Seeded fault for DefaultRuntimeNameResolves: an empty runtime class is
\* not replaced by "nvidia".
DefaultRuntimeNameRaw(runtimeClass) == runtimeClass

\* The runtime set as default: the runtime class, "nvidia" if it is empty.
DefaultRuntimeName(runtimeClass) ==
    IF runtimeClass = "" THEN "nvidia" ELSE runtimeClass

\* runtimeMapV1: a runtime entry written where no runc entry exists.
FreshEntry(runtimeType, binary) ==
    [fields |-> "fresh", type |-> runtimeType, binaryName |-> binary,
     runtime |-> binary, annotated |-> TRUE]

\* A runtime entry: a copy of runc's entry when there is one (so its
\* runtime_type, root, engine, privileged_without_host_devices and extra
\* options carry over), with BinaryName/Runtime forced to the binary and
\* the CDI container_annotations added.
RuntimeEntry(t, runtimeType, binary) ==
    IF t.runtimes["runc"] # NoEntry
    THEN [t.runtimes["runc"] EXCEPT !.binaryName = binary, !.runtime = binary,
                                    !.annotated = TRUE]
    ELSE FreshEntry(runtimeType, binary)

\* defaultRuntimeV1: the inlined default_runtime, a copy of the selected
\* runtime's entry without container_annotations.
InlineDefault(entry) == [entry EXCEPT !.annotated = FALSE]

\* The tree with every managed runtime written.
WithRuntimes(c, o) ==
    LET bins == RuntimeBinaries(o.runtimeClass) IN
    [n \in RuntimeNames |->
        IF n \in DOMAIN bins THEN RuntimeEntry(c.tree, c.runtimeType, bins[n])
                             ELSE c.tree.runtimes[n]]

\* ConfigV1: version 1; the default is a name pointer when
\* UseDefaultRuntimeName holds, else an inlined default_runtime.
UpdateV1(c, o) ==
    LET rts  == WithRuntimes(c, o)
        dflt == DefaultRuntimeName(o.runtimeClass)
    IN [c.tree EXCEPT
          !.version = 1,
          !.runtimes = rts,
          !.defaultName = IF o.setAsDefault /\ c.useDefaultRuntimeName THEN dflt ELSE @,
          !.defaultRuntime = IF o.setAsDefault /\ ~c.useDefaultRuntimeName
                             THEN InlineDefault(rts[dflt]) ELSE @]

\* Seeded fault for RefinesAbstractToolkitConfig: only the runtime named
\* after the runtime class is written, not the suffixed ones.
UpdateV2BaseOnly(c, o) ==
    LET base == DefaultRuntimeName(o.runtimeClass) IN
    [c.tree EXCEPT
       !.version = 2,
       !.runtimes = [@ EXCEPT ![base] =
                       RuntimeEntry(c.tree, c.runtimeType, BaseBinary)],
       !.defaultName = IF o.setAsDefault THEN base ELSE @]

\* Config (V2): version 2; the default is always a name pointer.
UpdateV2(c, o) ==
    [c.tree EXCEPT
       !.version = 2,
       !.runtimes = WithRuntimes(c, o),
       !.defaultName = IF o.setAsDefault THEN DefaultRuntimeName(o.runtimeClass) ELSE @]

\* After the removals a config holding nothing but `version` is emptied.
DropLoneVersion(t) ==
    IF Keys(t) = {"version"} THEN [t EXCEPT !.version = NoVersion] ELSE t

\* Remove the managed runtimes and a default_runtime_name naming one.
WithoutRuntimes(t, o) ==
    LET managed == DOMAIN RuntimeBinaries(o.runtimeClass) IN
    [t EXCEPT
       !.runtimes = [n \in RuntimeNames |-> IF n \in managed THEN NoEntry ELSE @[n]],
       !.defaultName = IF @ \in managed THEN NoName ELSE @]

\* Seeded fault for CleanupLeavesNoToolkitRuntime: the inlined
\* default_runtime is left in place.
RevertV1KeepsDefault(c, o) == DropLoneVersion(WithoutRuntimes(c.tree, o))

\* ConfigV1 also drops an inlined default_runtime running a managed binary.
RevertV1(c, o) ==
    LET t    == WithoutRuntimes(c.tree, o)
        bins == Range(RuntimeBinaries(o.runtimeClass))
    IN DropLoneVersion(
         [t EXCEPT !.defaultRuntime =
             IF @ # NoEntry /\ @.binaryName \in bins THEN NoEntry ELSE @])

\* Seeded fault for RoundTripFromEmpty: the lone version is dropped before
\* the runtimes are removed.
RevertV2VersionFirst(c, o) == WithoutRuntimes(DropLoneVersion(c.tree), o)

RevertV2(c, o) == DropLoneVersion(WithoutRuntimes(c.tree, o))

\* UpdateConfig / RevertConfig on the engine.Interface that build returned.
UpdateConfig(c, o) == IF c.version = 1 THEN UpdateV1(c, o) ELSE UpdateV2(c, o)
RevertConfig(c, o) == IF c.version = 1 THEN RevertV1(c, o) ELSE RevertV2(c, o)

-----------------------------------------------------------------------------
VARIABLES
    disk,    \* the config file at the path: [kind, tree]
    opts,    \* the toolkit's options (fixed for a deployment)
    phase,   \* "idle" or "running" (set up, waiting for shutdown)
    lastOp,  \* the last lifecycle step and its outcome
    before   \* the config the installation started from (history variable)

vars == <<disk, opts, phase, lastOp, before>>

\* No toolkit content: no entry and no default runs a toolkit binary.
ToolkitFree(t) ==
    /\ \A n \in RuntimeNames : t.runtimes[n] = NoEntry
                               \/ t.runtimes[n].binaryName \notin ToolkitBinaries
    /\ t.defaultRuntime = NoEntry \/ t.defaultRuntime.binaryName \notin ToolkitBinaries
    /\ t.defaultName \notin DOMAIN RuntimeBinaries(opts.runtimeClass)

Configure == Build(disk, opts.path, opts.runtimeType, opts.useLegacyConfig)

\* Setup: build, UpdateConfig, save.  A build error leaves the file alone.
Setup ==
    /\ phase = "idle"
    /\ LET c == Configure IN
       IF c.err
       THEN /\ lastOp' = "setupFailed"
            /\ UNCHANGED <<disk, phase, before>>
       ELSE /\ disk' = [kind |-> "file", tree |-> UpdateConfig(c, opts)]
            /\ phase' = "running"
            \* a restarted Setup re-reads its own rewrite: keep the original
            /\ before' = IF ToolkitFree(c.tree) THEN c.tree ELSE before
            /\ lastOp' = "setup"
    /\ UNCHANGED opts

\* Cleanup on shutdown: build, RevertConfig, save.
Cleanup ==
    /\ phase = "running"
    /\ LET c == Configure IN
       IF c.err
       THEN /\ lastOp' = "cleanupFailed"
            /\ UNCHANGED disk
       ELSE /\ disk' = [kind |-> "file", tree |-> RevertConfig(c, opts)]
            /\ lastOp' = "cleanup"
    /\ phase' = "idle"
    /\ UNCHANGED <<opts, before>>

\* The toolkit is killed while set up; its configuration stays in place.
Crash ==
    /\ phase = "running"
    /\ phase' = "idle"
    /\ lastOp' = "crash"
    /\ UNCHANGED <<disk, opts, before>>

\* The deployment is changed while the toolkit is stopped (e.g. a new
\* runtime class), so the next Setup and Cleanup use other options.
Redeploy ==
    /\ Redeploys
    /\ phase = "idle"
    /\ \E o \in Options \ {opts} : opts' = o
    /\ lastOp' = "redeploy"
    /\ UNCHANGED <<disk, phase, before>>

\* Someone else writes the config file at any time: replaces it with another
\* host config, or changes its version key (as a config migration does).
AdminEdit ==
    /\ \/ /\ "replace" \in AdminEdits
          /\ \E d \in InitialDisks \ {disk} : disk' = d
       \/ /\ "retag" \in AdminEdits
          /\ disk.kind = "file"
          /\ \E v \in Versions \ {disk.tree.version} : disk' = [disk EXCEPT !.tree.version = v]
    /\ lastOp' = "adminEdit"
    /\ UNCHANGED <<opts, phase, before>>

Init ==
    /\ disk \in InitialDisks
    /\ opts \in Options
    /\ phase = "idle"
    /\ lastOp = "none"
    /\ before = EmptyTree

Next == Setup \/ Cleanup \/ Crash \/ Redeploy \/ AdminEdit

Spec == Init /\ [][Next]_vars

-----------------------------------------------------------------------------
TypeOK ==
    /\ disk \in [kind : DiskKinds, tree : Trees]
    /\ phase \in {"idle", "running"}
    /\ lastOp \in {"none", "setup", "setupFailed", "cleanup", "cleanupFailed", "crash", "redeploy",
                   "adminEdit"}
    /\ before \in Trees

\* Spec, section 8: Update followed by Revert with the same options on an
\* empty config yields the empty config again, whichever schema version
\* build picked, and also when the toolkit was killed after Setup and a
\* restarted Setup re-read and rewrote its own config (cdi.go:254 then sees
\* a versioned file with content) before the Cleanup.
RoundTripFromEmpty ==
    (lastOp = "cleanup" /\ before = EmptyTree) => disk.tree = EmptyTree

\* After a completed Cleanup no runtime entry, inlined default_runtime or
\* default_runtime_name left in the config refers to a toolkit runtime:
\* the toolkit removes its binaries on shutdown, and containerd must not be
\* left pointing at them.
CleanupLeavesNoToolkitRuntime ==
    lastOp = "cleanup" => ToolkitFree(disk.tree)

\* A default_runtime_name in a saved config always names a runtime entry
\* of that config, through any sequence of setups, crashes and cleanups.
DefaultRuntimeNameResolves ==
    (disk.kind = "file" /\ disk.tree.defaultName # NoName)
        => disk.tree.runtimes[disk.tree.defaultName] # NoEntry

\* A config build cannot read: a directory, bad TOML, or a version that is
\* not 1 or 2 or not an integer.
Unreadable(d) ==
    \/ d.kind \in {"dir", "malformed"}
    \/ d.kind = "file" /\ d.tree.version \notin {NoVersion, 1, 2}

\* loadConfig and parseVersion reject every unreadable config (a directory
\* only because toml.LoadFile fails on it, cdi.go:224-237), so neither
\* Setup nor Cleanup ever saves over a file the toolkit could not read,
\* whoever wrote it and whenever.
UnreadableConfigPreserved ==
    [][(Unreadable(disk) /\ lastOp' # "adminEdit") => disk' = disk]_disk

\* Spec, sections 1 and 4.4: edits are reversible and unrelated content is
\* preserved: a Cleanup after a Setup that found no toolkit content restores
\* the config Setup loaded.
RevertRestoresConfig ==
    (lastOp = "cleanup" /\ ToolkitFree(before)) => disk.tree = before

\* Spec, section 4.4: with setAsDefault "V1 instead inlines a full copy of
\* the selected runtime's entry under default_runtime (no name field)": a
\* Setup that wrote a version 1 config points no default_runtime_name at a
\* toolkit runtime.
V1DefaultIsInlined ==
    (lastOp = "setup" /\ disk.tree.version = 1)
        => disk.tree.defaultName \notin DOMAIN RuntimeBinaries(opts.runtimeClass)

\* Refinement mapping: the config is "installed" when every toolkit binary
\* is the BinaryName of a runtime entry, "clean" when
\* none is, and neither in between; a toolkit default is a name pointer to
\* a toolkit runtime or an inlined default running a toolkit binary.
ConfiguredBinaries(t) ==
    {t.runtimes[n].binaryName : n \in {m \in RuntimeNames : t.runtimes[m] # NoEntry}}

AbstractStatus(t) ==
    CASE ToolkitBinaries \subseteq ConfiguredBinaries(t)          -> "installed"
      [] ToolkitBinaries \cap ConfiguredBinaries(t) = {}          -> "clean"
      [] OTHER                                                    -> "partial"

HasToolkitDefault(t) ==
    \/ /\ t.defaultName # NoName
       /\ t.runtimes[t.defaultName] # NoEntry
       /\ t.runtimes[t.defaultName].binaryName \in ToolkitBinaries
    \/ t.defaultRuntime # NoEntry /\ t.defaultRuntime.binaryName \in ToolkitBinaries

Abstract == INSTANCE AbstractToolkitConfig
    WITH status <- AbstractStatus(disk.tree), toolkitDefault <- HasToolkitDefault(disk.tree)

\* Setup, Cleanup and crashes implement AbstractToolkitConfig: every Setup
\* installs all toolkit runtimes, every Cleanup removes all of them and a
\* toolkit default with them, and no step leaves a half-installed config.
RefinesAbstractToolkitConfig == Abstract!Spec
====
