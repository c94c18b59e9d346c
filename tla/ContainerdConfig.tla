-------------------------- MODULE ContainerdConfig --------------------------
(***************************************************************************)
(* The containerd config builder (package containerd: builder.build,       *)
(* loadConfig, Config.parseVersion) over an abstract config tree.          *)
(*                                                                         *)
(* The TOML tree is abstracted to what the migrator reads and writes:      *)
(*   version        the top-level `version` value (NoVersion if absent,    *)
(*                  an integer, or BadVersion for a value of another type) *)
(*   other          whether unrelated top-level sections exist             *)
(*   runtimes[n]    plugins.cri.containerd.runtimes.<n> (NoEntry if none)  *)
(*   defaultName    plugins.cri.containerd.default_runtime_name            *)
(*   defaultRuntime plugins.cri.containerd.default_runtime (inlined, V1)   *)
(* A runtime entry keeps where its runtime_root/runtime_engine/            *)
(* privileged_without_host_devices/extra options came from (`fields`:      *)
(* copied from runc, or the fresh defaults), its runtime_type, its         *)
(* options.BinaryName and options.Runtime, and whether it carries the      *)
(* container_annotations CDI selector.                                     *)
(***************************************************************************)
EXTENDS Integers

CONSTANTS
    RuntimeNames,   \* names a runtime entry may have: runc, nvidia, ...
    Binaries,       \* values of options.BinaryName / options.Runtime
    RuntimeTypes,   \* values of runtime_type
    Versions,       \* integer values the version key may hold
    NoVersion, BadVersion, NoName, NoEntry, NoBinary

ASSUME Versions \subseteq Int

Entries ==
    [fields : {"runc", "fresh"}, type : RuntimeTypes, binaryName : Binaries,
     runtime : Binaries \cup {NoBinary}, annotated : BOOLEAN]

Trees ==
    [version        : Versions \cup {NoVersion, BadVersion},
     other          : BOOLEAN,
     runtimes       : [RuntimeNames -> Entries \cup {NoEntry}],
     defaultName    : RuntimeNames \cup {NoName},
     defaultRuntime : Entries \cup {NoEntry}]

\* The file at the config path: absent, a directory, a file that is not
\* valid TOML, or a TOML file holding a tree.
DiskKinds == {"absent", "dir", "malformed", "file"}

EmptyTree ==
    [version |-> NoVersion, other |-> FALSE, runtimes |-> [n \in RuntimeNames |-> NoEntry],
     defaultName |-> NoName, defaultRuntime |-> NoEntry]

\* toml.Tree.Keys: the top-level keys; plugins exists while anything under
\* it does (emptied tables are pruned).
Keys(t) ==
    (IF t.version # NoVersion THEN {"version"} ELSE {})
    \cup (IF t.other THEN {"other"} ELSE {})
    \cup (IF \/ \E n \in RuntimeNames : t.runtimes[n] # NoEntry
             \/ t.defaultName # NoName
             \/ t.defaultRuntime # NoEntry
          THEN {"plugins"} ELSE {})

\* The builder's fields, as the WithPath, WithRuntimeType and
\* WithUseLegacyConfig options set them.
BuilderConfigs(paths, runtimeTypes) ==
    [path : paths, runtimeType : runtimeTypes, useLegacyConfig : BOOLEAN]

\* const defaultRuntimeType
DefaultRuntimeType == "io.containerd.runc.v2"

\* Seeded fault for UnreadableConfigPreserved: a toml.LoadFile error is
\* dropped and the file read as empty.
LoadConfigLenient(disk) ==
    CASE disk.kind = "file" -> [err |-> FALSE, tree |-> disk.tree]
      [] disk.kind = "dir"  -> [err |-> TRUE,  tree |-> EmptyTree]
      [] OTHER              -> [err |-> FALSE, tree |-> EmptyTree]

\* loadConfig: a missing file is read as /dev/null (an empty tree).  The
\* os.IsExist(err) && info.IsDir() test can never hold (Stat returns a nil
\* error for a directory), so a directory fails only in toml.LoadFile.
LoadConfig(disk) ==
    CASE disk.kind = "absent" -> [err |-> FALSE, tree |-> EmptyTree]
      [] disk.kind = "file"   -> [err |-> FALSE, tree |-> disk.tree]
      [] OTHER                -> [err |-> TRUE,  tree |-> EmptyTree]

\* Config.parseVersion
ParseVersion(t, useLegacyConfig) ==
    LET defaultVersion == IF useLegacyConfig THEN 1 ELSE 2 IN
    CASE t.version = NoVersion ->
            [err |-> FALSE, version |-> IF Keys(t) = {} THEN defaultVersion ELSE 1]
      [] t.version \in Versions -> [err |-> FALSE, version |-> t.version]
      [] OTHER             -> [err |-> TRUE, version |-> -1]

\* Seeded fault for TypeOK: the runtimeType default is not applied.
BuildNoDefaultType(disk, path, runtimeType, useLegacyConfig) ==
    LET loaded == LoadConfig(disk)
        parsed == ParseVersion(loaded.tree, useLegacyConfig)
    IN IF loaded.err \/ parsed.err \/ parsed.version \notin {1, 2}
       THEN [err |-> TRUE, version |-> -1, tree |-> EmptyTree,
             runtimeType |-> runtimeType, useDefaultRuntimeName |-> FALSE]
       ELSE [err |-> FALSE, version |-> parsed.version, tree |-> loaded.tree,
             runtimeType |-> runtimeType, useDefaultRuntimeName |-> ~useLegacyConfig]

\* builder.build: the loaded config, tagged with the schema version chosen
\* (1: ConfigV1, 2: Config), its RuntimeType and UseDefaultRuntimeName.
Build(disk, path, runtimeType, useLegacyConfig) ==
    LET loaded == LoadConfig(disk)
        parsed == ParseVersion(loaded.tree, useLegacyConfig)
        fail   == [err |-> TRUE, version |-> -1, tree |-> EmptyTree,
                   runtimeType |-> DefaultRuntimeType, useDefaultRuntimeName |-> FALSE]
    IN CASE path = ""                   -> fail
         [] loaded.err                  -> fail
         [] parsed.err                  -> fail
         [] parsed.version \notin {1, 2} -> fail
         [] OTHER -> [err |-> FALSE, version |-> parsed.version, tree |-> loaded.tree,
                      runtimeType |-> IF runtimeType = "" THEN DefaultRuntimeType
                                                         ELSE runtimeType,
                      useDefaultRuntimeName |-> ~useLegacyConfig]
====
