----------------------------- MODULE MCMachines -----------------------------
(***************************************************************************)
(* The smaller state machines side by side.  They share no state: `part`   *)
(* says which of them a behaviour is of, and the others rest.              *)
(***************************************************************************)
EXTENDS SessionRecord, Detector, HeadlessRun, Dashboard, Picker, Launch, Settings, Exercise

VARIABLE part

Sample == [kind |-> "ok", rank |-> 0, live |-> 2, seen |-> 2, value |-> 2, warming |-> FALSE,
           alive |-> TRUE, judged |-> TRUE, reset |-> FALSE]

MCSamples ==
    {[Sample EXCEPT !.warming = TRUE, !.judged = FALSE],
     Sample,
     [Sample EXCEPT !.rank = 1, !.value = 3],
     [Sample EXCEPT !.rank = 2, !.seen = 1, !.value = 4],
     [Sample EXCEPT !.seen = 0, !.value = 0, !.judged = FALSE, !.reset = TRUE],
     [Sample EXCEPT !.kind = "paused"],
     [Sample EXCEPT !.kind = "failed", !.live = 0, !.seen = 0, !.value = 0, !.judged = FALSE],
     [Sample EXCEPT !.live = 0, !.seen = 0, !.value = 0, !.judged = FALSE, !.alive = FALSE]}

MCWindows == <<4, 6>>

\* PIDs of which one is the beginning of another, and a name likewise.
MCDigits == 1 :> <<"1">> @@ 12 :> <<"1", "2">> @@ 2 :> <<"2">>
MCNames == <<<<"a">>, <<"a">>, <<"a", "b">>, <<"a">>>>
MCTyped == {"a", "1", "2", "0", "/refresh", "/next"}
MCLines ==
    {<<>>, <<"a">>, <<"1">>, <<"0", "2">>, <<"/refresh">>, <<"/next">>, <<"/prev">>, <<"/clear">>,
     <<"/search", "2">>, <<"/other">>, <<"/quit">>, <<"q">>}

MCLayers ==
    [{} -> {1}] \cup [{"timeout"} -> {1, 2}] \cup [{"warmup"} -> {1}] \cup [{"private"} -> {1}]
        \cup [{"private", "handles"} -> {2}] \cup [{"timeout", "warmup", "handles"} -> {1}]

startVars == <<pickerVars, launchVars, settingsVars, exerciseVars>>
machinesVars == <<part, recordVars, detectorVars, runVars, dashboardVars, startVars>>

\* A machine that rests starts in one state.
MachinesInit ==
    /\ part \in {"record", "detector", "run", "screen", "picker", "launch", "settings", "exercise"}
    /\ IF part = "launch" THEN TRUE
       ELSE /\ place = "packaged" /\ required = {"manifest", "main", "view"} /\ index = required
            /\ disk = [f \in required |-> "there"]
    /\ IF part = "settings" THEN TRUE ELSE named = "none" /\ present = FALSE /\ flags = <<>>
    /\ IF part = "picker" THEN TRUE ELSE keyed = TRUE
    /\ IF part = "exercise" THEN TRUE ELSE parts = {}
    /\ RecordInit /\ DetectorInit /\ RunInit /\ DashboardInit
    /\ part # "run" => \A option \in DOMAIN policy : policy[option]
    /\ part # "screen" => attached /\ hosts
    /\ PickerInit /\ LaunchInit /\ SettingsInit /\ ExerciseInit

Only(p) ==
    /\ part = p /\ UNCHANGED part
    /\ p # "record" => UNCHANGED recordVars
    /\ p # "detector" => UNCHANGED detectorVars
    /\ p # "run" => UNCHANGED runVars
    /\ p # "screen" => UNCHANGED dashboardVars
    /\ p # "picker" => UNCHANGED pickerVars
    /\ p # "launch" => UNCHANGED launchVars
    /\ p # "settings" => UNCHANGED settingsVars
    /\ p # "exercise" => UNCHANGED exerciseVars

MachinesNext ==
    \/ Only("record") /\ RecordNext
    \/ Only("detector") /\ DetectorNext
    \/ Only("run") /\ RunNext
    \/ Only("screen") /\ DashboardNext
    \/ Only("picker") /\ PickerNext
    \/ Only("launch") /\ LaunchNext
    \/ Only("settings") /\ SettingsNext
    \/ Only("exercise") /\ ExerciseNext

MachinesSpec == MachinesInit /\ [][MachinesNext]_machinesVars
=============================================================================
