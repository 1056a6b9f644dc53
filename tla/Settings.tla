------------------------------ MODULE Settings ------------------------------
(***************************************************************************)
(* How the settings of a run are layered (config.py, _resolve_settings of  *)
(* main.py): built-in defaults, the settings file, the profile chosen in   *)
(* it, the command line. A layer says a value for some of the settings; a  *)
(* budget, and a threshold, is a setting of its own inside its table.      *)
(***************************************************************************)
EXTENDS Naturals, FiniteSets

CONSTANTS
    Plain,          \* settings that are one value; "timeout" and "warmup" among them
    Tabled,         \* the entries of the budgets
    Layers          \* what a layer may say: a function from some settings to values

ASSUME SettingsAssumption ==
    /\ {"timeout", "warmup"} \subseteq Plain /\ "budgets" \notin Plain \cup Tabled
    /\ \A layer \in Layers : DOMAIN layer \subseteq Plain \cup Tabled

VARIABLES
    named,          \* the profile asked for: "flag", "default" of the file, "none", "unknown"
    present,        \* there is a settings file
    base, profile, flags,
    layering,
    settings,       \* setting -> value, 0 where it has none
    origins         \* setting, or "budgets" -> the layer it is said to come from

settingsVars == <<named, present, base, profile, flags, layering, settings, origins>>

All == Plain \cup Tabled

SettingsInit ==
    /\ named \in {"flag", "default", "none", "unknown"} /\ present \in BOOLEAN
    /\ base \in Layers /\ profile \in Layers /\ flags \in Layers
    /\ ~present => base = <<>> /\ profile = <<>>
    /\ layering = "defaults"
    /\ settings = [s \in All |-> 0] /\ origins = [s \in All \cup {"budgets"} |-> "default"]

\* Mutation: a layer replaces the whole table.
Apply_WholeTable(layer, name) ==
    LET said == DOMAIN layer
        tables == IF said \cap Tabled = {} THEN {} ELSE {"budgets"}
    IN  /\ settings' = [s \in All |-> IF s \in said THEN layer[s]
                                      ELSE IF s \in Tabled /\ tables # {} THEN 0 ELSE settings[s]]
        /\ origins' = [s \in DOMAIN origins |-> IF s \in said \cup tables THEN name ELSE origins[s]]

(***************************************************************************)
(* One layer over what there is: a plain setting is replaced, a table only *)
(* in the entries the layer names; where each comes from is kept.          *)
(***************************************************************************)
Apply(layer, name) ==
    LET said == DOMAIN layer
        tables == IF said \cap Tabled = {} THEN {} ELSE {"budgets"}
    IN  /\ settings' = [s \in All |-> IF s \in said THEN layer[s] ELSE settings[s]]
        /\ origins' = [s \in DOMAIN origins |-> IF s \in said \cup tables THEN name ELSE origins[s]]

KeepLayers == UNCHANGED <<named, present, base, profile, flags>>
Refused == layering' = "refused" /\ UNCHANGED <<settings, origins>>
\* A file that is no TOML, or a layer with an unknown setting or a wrong value.
Invalid == present /\ Refused

\* A profile needs a settings file that defines it.
ReadFile ==
    /\ layering = "defaults" /\ KeepLayers
    /\ \/ ~present /\ named \in {"flag", "unknown"} /\ Refused
       \/ ~present /\ named \notin {"flag", "unknown"} /\ layering' = "flags" /\ UNCHANGED <<settings, origins>>
       \/ present /\ Apply(base, "file") /\ layering' = "profile"
       \/ Invalid

ChooseProfile ==
    /\ layering = "profile" /\ KeepLayers
    /\ \/ named = "unknown" /\ Refused
       \/ named = "none" /\ layering' = "flags" /\ UNCHANGED <<settings, origins>>
       \/ named \in {"flag", "default"} /\ Apply(profile, "profile") /\ layering' = "flags"
       \/ Invalid

Override == layering = "flags" /\ KeepLayers /\ Apply(flags, "flags") /\ layering' = "check"

\* A time limit that ends before the warm-up would never judge anything.
Consistent == settings["timeout"] # 0 /\ settings["warmup"] # 0 => settings["timeout"] > settings["warmup"]
CheckConsistency ==
    /\ layering = "check" /\ KeepLayers
    /\ IF Consistent THEN layering' = "resolved" /\ UNCHANGED <<settings, origins>> ELSE Refused

SettingsNext == ReadFile \/ ChooseProfile \/ Override \/ CheckConsistency

SettingsSpec == SettingsInit /\ [][SettingsNext]_settingsVars

-----------------------------------------------------------------------------
(***************************************************************************)
(* The settings a run uses: each is the one of the highest layer that says *)
(* it, a budget of a lower layer stays where a higher one names another,   *)
(* and doctor's account of where each comes from is true.                  *)
(***************************************************************************)
Used(s) ==
    IF s \in DOMAIN flags THEN <<"flags", flags[s]>>
    ELSE IF present /\ named \in {"flag", "default"} /\ s \in DOMAIN profile THEN <<"profile", profile[s]>>
    ELSE IF s \in DOMAIN base THEN <<"file", base[s]>> ELSE <<"default", 0>>
SettingsAreLayered ==
    layering = "resolved" => \A s \in All : <<origins[s], settings[s]>> = Used(s)
=============================================================================
