--------------------------- MODULE MC_CDIModifier ---------------------------
(* Model-checking instance of CDIModifier: two kinds (the default           *)
(* nvidia.com/gpu and another vendor's), two device ids, an env list of up *)
(* to two names, so a bare name and its qualified form can both appear.    *)
EXTENDS CDIModifier

CONSTANTS GPU, VENDOR, BARE, EtcCDI, RunCDI, CustomCDI

MCKinds == {GPU, VENDOR}
MCIds == {"0", "1"}
\* "0", "1", "nvidia.com/gpu=0", "other.com/x=1"
MCEnvNames == {[kind |-> BARE, id |-> "0"], [kind |-> BARE, id |-> "1"],
               [kind |-> GPU, id |-> "0"], [kind |-> VENDOR, id |-> "1"]}
MCAnnotationNames == {[kind |-> GPU, id |-> "1"], [kind |-> VENDOR, id |-> "0"]}
MCDirs == {EtcCDI, RunCDI, CustomCDI}
MCDefaultSpecDirs == {EtcCDI, RunCDI}
\* SpecDirs unset, or set to a custom directory plus /var/run/cdi.
MCConfiguredSpecDirs == {{}, {CustomCDI, RunCDI}}
\* The GPU spec is generated into /var/run/cdi, the other vendor's into
\* /etc/cdi: a configured SpecDirs hides the latter.
MCFileDir == [k \in MCKinds |-> IF k = GPU THEN RunCDI ELSE EtcCDI]
====
