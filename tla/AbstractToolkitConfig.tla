------------------------ MODULE AbstractToolkitConfig ------------------------
(***************************************************************************)
(* What the toolkit promises about the containerd config, without the      *)
(* tree: the config is either clean of the toolkit or has all of its       *)
(* runtimes installed, and a default runtime pointing at a toolkit runtime *)
(* exists only while the toolkit is installed.  Setup installs (and may    *)
(* make a toolkit runtime the default); Cleanup uninstalls and takes the   *)
(* default with it.  Any other step leaves the config as it is.            *)
(***************************************************************************)

VARIABLES
    status,          \* "clean" or "installed"
    toolkitDefault   \* a default runtime runs a toolkit binary

vars == <<status, toolkitDefault>>

Init ==
    /\ status = "clean"
    /\ toolkitDefault = FALSE

Install ==
    /\ status' = "installed"
    /\ toolkitDefault' \in {toolkitDefault, TRUE}

Uninstall ==
    /\ status = "installed"
    /\ status' = "clean"
    /\ toolkitDefault' = FALSE

Next == Install \/ Uninstall

Spec == Init /\ [][Next]_vars

\* A toolkit default never outlives the installation.
DefaultOnlyWhileInstalled == toolkitDefault => status = "installed"
====
