---------------------------- MODULE CDIModifier ----------------------------
(***************************************************************************)
(* The CDI device-injection modifier of internal/modifier/cdi.go.          *)
(*                                                                         *)
(* One container creation is modelled: NewCDIModifier resolves the        *)
(* requested devices from the OCI spec (getDevicesFromSpec) and builds a   *)
(* cdiModifier, or returns a nil modifier or an error; Modify refreshes    *)
(* the CDI registry from the configured spec directories and injects the   *)
(* devices.  An external generator (nvidia-ctk cdi generate, a device      *)
(* plugin) rewrites the CDI spec files on disk at any moment, so a file    *)
(* can be absent, half written or valid when Modify refreshes.             *)
(*                                                                         *)
(* Device names are records [kind, id]: a qualified name vendor/class=id   *)
(* has a kind, a bare name has kind NoKind.                                *)
(***************************************************************************)
EXTENDS Naturals, Sequences, SequencesExt, Functions

CONSTANTS
    Kinds,             \* CDI kinds (vendor/class), one spec file per kind
    DefaultKind,       \* cfg...Modes.CDI.DefaultKind, e.g. nvidia.com/gpu
    NoKind,            \* the kind of a bare (unqualified) device name
    Ids,               \* device names within a kind: "0", "1", ...
    EnvNames,          \* names that may appear in NVIDIA_VISIBLE_DEVICES
    AnnotationNames,   \* qualified names that may appear in cdi.k8s.io/ annotations
    MaxEnv,            \* bound on the length of the NVIDIA_VISIBLE_DEVICES list
    Dirs,              \* directories that may hold CDI spec files
    DefaultSpecDirs,   \* cdi.DefaultSpecDirs
    ConfiguredSpecDirs,\* values of cfg...Modes.CDI.SpecDirs ({} = not set)
    FileDir            \* FileDir[k]: the directory holding the spec file of kind k

ASSUME DefaultKind \in Kinds /\ NoKind \notin Kinds
ASSUME DefaultSpecDirs \subseteq Dirs /\ FileDir \in [Kinds -> Dirs]

Qualified == [kind : Kinds, id : Ids]
Bare      == [kind : {NoKind}, id : Ids]
ASSUME EnvNames \subseteq Qualified \cup Bare /\ AnnotationNames \subseteq Qualified

\* Where loading the OCI spec or the image can fail: ociSpec.Load,
\* cdi.ParseAnnotations, image.NewCUDAImageFromSpec.
Failures == {"none", "load", "annotations", "image"}

\* States of a CDI spec file on disk while a generator rewrites it.
FileStates == {"absent", "partial", "valid"}

VARIABLES
    ociSpec,    \* the container's OCI spec; .edits = devices injected into it
    cfg,        \* the toolkit config (AcceptEnvvarUnprivileged, CDI.SpecDirs)
    stage,      \* where NewCDIModifier / Modify stand for this container
    modifier,   \* the cdiModifier built by NewCDIModifier
    specFiles,  \* specFiles[k]: state of the spec file of kind k on disk
    refreshed   \* the spec files as the last registry refresh read them

vars == <<ociSpec, cfg, stage, modifier, specFiles, refreshed>>

\* cdiModifier: the spec directories to scan and the devices to inject
\* (the logger is left out).
CdiModifiers == [specDirs : SUBSET Dirs, devices : Seq(Qualified)]

NoModifier == [specDirs |-> {}, devices |-> <<>>]
NoSnapshot == [k \in Kinds |-> "absent"]

Stages == {"start", "error", "nil", "ready", "applied", "failed"}

OCISpecs ==
    [annotations : BoundedSeq(AnnotationNames, 1),
     env         : BoundedSeq(EnvNames, MaxEnv),
     privileged  : BOOLEAN,
     fail        : Failures,
     edits       : {<<>>}]

Configs == [acceptEnvvarUnprivileged : BOOLEAN, specDirs : ConfiguredSpecDirs]

-----------------------------------------------------------------------------
(***************************************************************************)
(* getDevicesFromSpec                                                      *)
(***************************************************************************)

\* cdi.IsQualifiedName
IsQualifiedName(name) == name.kind # NoKind

\* Seeded fault for ResolvedAsRequested: the IsQualifiedName test is lost and
\* every name gets the default kind.
QualifyAlways(name) == [kind |-> DefaultKind, id |-> name.id]

\* A bare name is prefixed with the default kind: "<DefaultKind>=<name>".
Qualify(name) ==
    IF IsQualifiedName(name) THEN name ELSE [kind |-> DefaultKind, id |-> name.id]

\* Seeded fault for TypeOK: the qualified name is bound to a shadowing
\* variable (name := ...) and the bare name is appended.
CollectDeviceShadowed(acc, name) ==
    IF Qualify(name) \in acc.seen THEN acc
    ELSE [acc EXCEPT !.devices = Append(@, name)]

\* One iteration of the loop over envDevices.List(): the name is qualified,
\* skipped if seen[name], else appended.  The loop never writes seen.
CollectDevice(acc, name) ==
    LET q == Qualify(name) IN
    IF q \in acc.seen THEN acc
    ELSE [acc EXCEPT !.devices = Append(@, q)]

CollectDevices(names) ==
    FoldLeft(CollectDevice, [seen |-> {}, devices |-> <<>>], names).devices

\* Seeded fault for UnprivilegedEnvDevicesNotInjected: the
\* AcceptEnvvarUnprivileged || IsPrivileged test is lost.
GetDevicesFromSpecNoPolicy(spec, c) ==
    CASE spec.fail \in {"load", "annotations"} -> [err |-> TRUE, devices |-> <<>>]
      [] spec.annotations # <<>> -> [err |-> FALSE, devices |-> spec.annotations]
      [] spec.fail = "image"     -> [err |-> TRUE, devices |-> <<>>]
      [] OTHER -> [err |-> FALSE, devices |-> CollectDevices(spec.env)]

\* The result of getDevicesFromSpec: an error or a device list.
GetDevicesFromSpec(spec, c) ==
    LET devices == CollectDevices(spec.env) IN
    CASE spec.fail \in {"load", "annotations"} -> [err |-> TRUE, devices |-> <<>>]
      [] spec.annotations # <<>>   -> [err |-> FALSE, devices |-> spec.annotations]
      [] spec.fail = "image"       -> [err |-> TRUE, devices |-> <<>>]
      [] devices = <<>>            -> [err |-> FALSE, devices |-> <<>>]
      [] c.acceptEnvvarUnprivileged \/ spec.privileged
                                   -> [err |-> FALSE, devices |-> devices]
      [] OTHER                     -> [err |-> FALSE, devices |-> <<>>]

-----------------------------------------------------------------------------
(***************************************************************************)
(* The CDI registry (library code outside this repository).                *)
(***************************************************************************)

\* Registry.Refresh: every valid spec file in a scanned directory is loaded;
\* a half-written file is skipped and makes Refresh return an error.
RegistryDevices(files, dirs) ==
    {d \in Qualified : files[d.kind] = "valid" /\ FileDir[d.kind] \in dirs}

\* Seeded fault for AllOrNothingInjection: the resolvable devices are
\* applied before the unresolvable ones are reported.
InjectResolvable(spec, devices, registry) ==
    [err  |-> \E i \in DOMAIN devices : devices[i] \notin registry,
     spec |-> [spec EXCEPT !.edits = @ \o SelectSeq(devices, LAMBDA d : d \in registry)]]

\* Registry.InjectDevices: all devices are resolved first; if any is
\* unresolvable nothing is applied and an error is returned, else the edits
\* of every listed device are applied to the spec in order.
InjectDevices(spec, devices, registry) ==
    IF \E i \in DOMAIN devices : devices[i] \notin registry
    THEN [err |-> TRUE, spec |-> spec]
    ELSE [err |-> FALSE, spec |-> [spec EXCEPT !.edits = @ \o devices]]

-----------------------------------------------------------------------------
(***************************************************************************)
(* Operations                                                              *)
(***************************************************************************)

\* NewCDIModifier: resolve devices; an error or an empty list ends here.
NewCDIModifier ==
    /\ stage = "start"
    /\ LET r == GetDevicesFromSpec(ociSpec, cfg) IN
       CASE r.err              -> stage' = "error" /\ UNCHANGED modifier
         [] r.devices = <<>>   -> stage' = "nil" /\ UNCHANGED modifier
         [] OTHER ->
              /\ stage' = "ready"
              /\ modifier' = [specDirs |-> IF cfg.specDirs # {} THEN cfg.specDirs
                                                                ELSE DefaultSpecDirs,
                              devices  |-> r.devices]
    /\ UNCHANGED <<ociSpec, cfg, specFiles, refreshed>>

\* Seeded fault for RefreshErrorNotFatal: a refresh error aborts Modify.
ModifyRefreshFatal ==
    /\ stage = "ready"
    /\ LET registry == RegistryDevices(specFiles, modifier.specDirs)
           r        == InjectDevices(ociSpec, modifier.devices, registry)
           refreshErr == \E k \in Kinds : specFiles[k] = "partial"
                                          /\ FileDir[k] \in modifier.specDirs
       IN /\ ociSpec' = IF refreshErr THEN ociSpec ELSE r.spec
          /\ stage' = IF refreshErr \/ r.err THEN "failed" ELSE "applied"
    /\ refreshed' = specFiles
    /\ UNCHANGED <<cfg, modifier, specFiles>>

\* cdiModifier.Modify: refresh (its error is only logged), then inject.
Modify ==
    /\ stage = "ready"
    /\ LET registry == RegistryDevices(specFiles, modifier.specDirs)
           r        == InjectDevices(ociSpec, modifier.devices, registry)
       IN /\ ociSpec' = r.spec
          /\ stage' = IF r.err THEN "failed" ELSE "applied"
    /\ refreshed' = specFiles
    /\ UNCHANGED <<cfg, modifier, specFiles>>

\* An external generator creates, starts rewriting, finishes or deletes a
\* CDI spec file.
WriteSpecFile(k, s) ==
    /\ s # specFiles[k]
    /\ specFiles' = [specFiles EXCEPT ![k] = s]
    /\ UNCHANGED <<ociSpec, cfg, stage, modifier, refreshed>>

Init ==
    /\ ociSpec \in OCISpecs
    /\ cfg \in Configs
    /\ stage = "start"
    /\ modifier = NoModifier
    /\ specFiles \in [Kinds -> FileStates]
    /\ refreshed = NoSnapshot

Next ==
    \/ NewCDIModifier
    \/ Modify
    \/ \E k \in Kinds, s \in FileStates : WriteSpecFile(k, s)

Spec == Init /\ [][Next]_vars

-----------------------------------------------------------------------------
(***************************************************************************)
(* Properties                                                              *)
(***************************************************************************)

TypeOK ==
    /\ ociSpec \in [annotations : Seq(Qualified), env : Seq(Qualified \cup Bare),
                    privileged : BOOLEAN, fail : Failures, edits : Seq(Qualified)]
    /\ cfg \in Configs
    /\ stage \in Stages
    /\ modifier \in CdiModifiers
    /\ specFiles \in [Kinds -> FileStates]
    /\ refreshed \in [Kinds -> FileStates]

\* Security policy of getDevicesFromSpec (cdi.go:97-107): devices requested
\* only through NVIDIA_VISIBLE_DEVICES by an unprivileged container are never
\* injected unless AcceptEnvvarUnprivileged is set, whatever the spec files do.
UnprivilegedEnvDevicesNotInjected ==
    (/\ ociSpec.annotations = <<>>
     /\ ~ociSpec.privileged
     /\ ~cfg.acceptEnvvarUnprivileged) => ociSpec.edits = <<>>

\* Reference resolution of the spec (section 4.1): annotation devices win
\* verbatim; otherwise the environment names, a bare name taking the default
\* kind.  A modifier is built exactly for the devices this resolution names.
SpecQualified(n) == [kind |-> IF n.kind = NoKind THEN DefaultKind ELSE n.kind, id |-> n.id]

ResolvedAsRequested ==
    stage \in {"ready", "applied", "failed"} =>
        IF ociSpec.annotations # <<>>
        THEN modifier.devices = ociSpec.annotations
        ELSE ToSet(modifier.devices) = {SpecQualified(ociSpec.env[i]) : i \in DOMAIN ociSpec.env}

\* Modify (cdi.go:111-127) injects all devices or none: after a successful
\* Modify the spec carries exactly the modifier's devices, in order; after a
\* failed one, or when no modifier was built, the spec is untouched.
AllOrNothingInjection ==
    IF stage = "applied" THEN ociSpec.edits = modifier.devices
                         ELSE ociSpec.edits = <<>>

\* A registry refresh error is only logged (cdi.go:116-118): Modify fails
\* only if a requested device was not in a valid spec file inside the
\* scanned directories when it refreshed; a half-written file of another
\* kind never fails the container.
RefreshErrorNotFatal ==
    stage = "failed" =>
        \E i \in DOMAIN modifier.devices :
            LET k == modifier.devices[i].kind IN
            refreshed[k] # "valid" \/ FileDir[k] \notin modifier.specDirs

\* Spec, section 3: after resolution all entries are unique.  The loop of
\* getDevicesFromSpec (cdi.go:85-95) tests seen[name] but never sets it.
DevicesUnique ==
    stage \in {"ready", "applied", "failed"} => IsInjective(modifier.devices)

====
