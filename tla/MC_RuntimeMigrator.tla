-------------------------- MODULE MC_RuntimeMigrator --------------------------
(* Model-checking instance of RuntimeMigrator: every combination of the    *)
(* runtime class (empty, a custom name, one of the suffixed names),        *)
(* set-as-default and legacy mode, against the config files a host may     *)
(* have: none, unreadable ones, empty, versioned, unversioned, with runc.  *)
EXTENDS RuntimeMigrator

MCRuntimeNames ==
    {"runc", "nvidia", "nvidia-experimental", "nvidia-cdi", "nvidia-legacy", "NAME", ""}
MCBinaries == ToolkitBinaries \cup {"/runc-binary"}
MCRuntimeTypes == {DefaultRuntimeType, "runtime_type", "runc_runtime_type"}
MCVersions == {1, 2, 3}

MCOptions ==
    ToolkitOptions({"", "NAME", "nvidia-experimental"},
                   BuilderConfigs({"/etc/containerd/config.toml"}, {"", "runtime_type"}))

\* runcConfigMapV1: a runc runtime with its own root, engine and options.
RuncEntry ==
    [fields |-> "runc", type |-> "runc_runtime_type", binaryName |-> "/runc-binary",
     runtime |-> NoBinary, annotated |-> FALSE]

WithRunc(t) == [t EXCEPT !.runtimes["runc"] = RuncEntry]
File(t) == [kind |-> "file", tree |-> t]

MCInitialDisks ==
    {[kind |-> "absent", tree |-> EmptyTree],
     [kind |-> "dir", tree |-> EmptyTree],
     [kind |-> "malformed", tree |-> EmptyTree],
     File(EmptyTree),
     File([EmptyTree EXCEPT !.version = 1]),
     File([EmptyTree EXCEPT !.version = 3]),
     File([EmptyTree EXCEPT !.version = BadVersion]),
     File([EmptyTree EXCEPT !.version = 2, !.other = TRUE]),
     File(WithRunc(EmptyTree)),
     File([WithRunc(EmptyTree) EXCEPT !.version = 2, !.other = TRUE, !.defaultName = "runc"]),
     File([WithRunc(EmptyTree) EXCEPT !.version = 1,
                                      !.defaultRuntime = InlineDefault(RuncEntry)])}
====
