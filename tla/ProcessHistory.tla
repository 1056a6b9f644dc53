--------------------------- MODULE ProcessHistory ---------------------------
(***************************************************************************)
(* The histories the detector keeps of the processes of one tree           *)
(* (src/src/process_history.py), as operators on a record: the live tracks *)
(* by PID, the departed tracks that still hold points, the exits a later   *)
(* start may replace, and the counts.                                      *)
(*                                                                         *)
(* A tree is a function from the live PIDs to records: created (which      *)
(* process has the PID), value (of the one metric modelled) and readable.  *)
(* Children have one name and one parent.  An unreadable value is None.    *)
(***************************************************************************)
EXTENDS Integers, Sequences, FiniteSets, SequencesExt, Selection

CONSTANTS
    Root,            \* the PID of the target itself
    MaxTracked,      \* MAX_TRACKED_PROCESSES: live tracks that hold points
    MaxExited,       \* MAX_EXITED: departed tracks, and exits that may be replaced
    MaxPoints,       \* MAX_POINTS: points of a track
    RestartSeconds   \* RESTART_SECONDS

None == -1

EmptyHistory ==
    [live |-> << >>, departed |-> << >>, candidates |-> << >>,
     observed |-> FALSE, started |-> 0, exited |-> 0, restarted |-> 0]

Live(h) == DOMAIN h.live
WithPoints(h) == {p \in Live(h) : h.live[p].kept}

\* Forget what depends on timing; identities and counts stay.
RestartWindows(h) ==
    [h EXCEPT !.live = [p \in Live(h) |-> [h.live[p] EXCEPT !.points = <<>>, !.existed = TRUE]],
              !.departed = <<>>, !.candidates = <<>>]

SameProcess(track, process) == track.created = process.created

\* What a deque with a maxlen keeps of what was appended to it.
Latest(list, limit) == Selected(list, {i \in DOMAIN list : i > Len(list) - limit})

Reading(process) == IF process.readable THEN process.value ELSE None

Record(track, now, process, maxAge) ==
    LET points == Latest(Append(track.points, [at |-> now, value |-> Reading(process)]), MaxPoints) IN
    [track EXCEPT !.last = now,
                  !.points = IF track.kept THEN Selected(points, {i \in DOMAIN points : points[i].at >= now - maxAge})
                             ELSE <<>>]

NewTrack(now, pid, process) ==
    [pid |-> pid, created |-> process.created, first |-> now, last |-> now, points |-> <<>>,
     kept |-> FALSE, existed |-> FALSE, exited |-> None]

\* PIDs in ascending order.
InOrder(S) == IF S = {} THEN <<>> ELSE Selected([n \in 1..Max(S) |-> n], S)

GoesOn(h, tree, p) == p \in Live(h) /\ p \in DOMAIN tree /\ SameProcess(h.live[p], tree[p])

\* Tracks whose process is missing, then those whose PID another process has.
Ended(h, tree) ==
    InOrder(Live(h) \ DOMAIN tree) \o InOrder({p \in Live(h) \cap DOMAIN tree : ~GoesOn(h, tree, p)})

Gone(h, now, tree) ==
    LET ended == Ended(h, tree) IN [i \in DOMAIN ended |-> [h.live[ended[i]] EXCEPT !.exited = now]]

\* The tracks with points, as one process after another is followed: a new
\* one takes a free slot, and so does one that had to do without.
Tracked(h, tree) ==
    LET pids == InOrder(DOMAIN tree)
        upTo[n \in 0..Len(pids)] ==
          IF n = 0 THEN WithPoints(h) \cap DOMAIN tree
          ELSE LET had == IF GoesOn(h, tree, pids[n]) THEN upTo[n - 1] ELSE upTo[n - 1] \ {pids[n]} IN
               IF Cardinality(had) < MaxTracked THEN had \cup {pids[n]} ELSE had
    IN upTo[Len(pids)]

Followed(h, now, tree, maxAge) ==
    [p \in DOMAIN tree |->
        LET track == IF GoesOn(h, tree, p) THEN h.live[p] ELSE NewTrack(now, p, tree[p]) IN
        Record([track EXCEPT !.kept = p \in Tracked(h, tree)], now, tree[p], maxAge)]

\* A departed track stays at hand for the windows that still cover it.
Departed(h, now, tree, maxAge) ==
    LET gone == Gone(h, now, tree)
        departed == Latest(h.departed \o Selected(gone, {i \in DOMAIN gone : gone[i].kept}), MaxExited) IN
    Selected(departed, {i \in DOMAIN departed : departed[i].exited >= now - maxAge})

\* The exits within RestartSeconds of a process with the same name and parent.
Replaced(candidates, pid) == {i \in DOMAIN candidates : (candidates[i].pid = Root) = (pid = Root)}

Replaceable(h, now, tree) ==
    LET exits == Latest(h.candidates \o Gone(h, now, tree), MaxExited) IN
    Selected(exits, {i \in DOMAIN exits : now - exits[i].exited <= RestartSeconds})

\* Each start uses up the latest exit it may replace.
Remaining(candidates, starts) ==
    LET after[n \in 0..Len(starts)] ==
          IF n = 0 THEN candidates
          ELSE LET replaced == Replaced(after[n - 1], starts[n]) IN
               Selected(after[n - 1], {i \in DOMAIN after[n - 1] : i \notin replaced \/ \E j \in replaced : i < j})
    IN after[Len(starts)]

\* One sample of the tree; the first one only sets it.
Observe(h, now, tree, maxAge) ==
    LET pids == InOrder(DOMAIN tree)
        starts == Selected(pids, {i \in DOMAIN pids : h.observed /\ ~GoesOn(h, tree, pids[i])})
        candidates == Replaceable(h, now, tree)
        remaining == Remaining(candidates, starts) IN
    [live |-> Followed(h, now, tree, maxAge), departed |-> Departed(h, now, tree, maxAge),
     candidates |-> remaining, observed |-> TRUE,
     started |-> h.started + Len(starts), exited |-> h.exited + Len(Ended(h, tree)),
     restarted |-> h.restarted + (Len(candidates) - Len(remaining))]

\* One of the limits drops something an attribution would need: more
\* processes than tracks with points, more exits, or more points.
Overflows(h, tree) ==
    \/ Cardinality(DOMAIN tree) > MaxTracked
    \/ Len(h.departed) + Len(Ended(h, tree)) > MaxExited
    \/ \E p \in Live(h) : Len(h.live[p].points) >= MaxPoints

-----------------------------------------------------------------------------
(* Growth over [since, until] *)

\* The measured values of [since, until], in their order.
Within(track, since, until) ==
    LET points == track.points IN
    Selected(points, {i \in DOMAIN points : since <= points[i].at /\ points[i].at <= until /\ points[i].value # None})

IsNew(track, since) == ~track.existed /\ track.first > since

\* Mutation: a process that left the total keeps what it had in it.
Change_ExitIgnored(track, since, until) ==
    LET values == Within(track, since, until) IN
    IF values = <<>> THEN 0
    ELSE Last(values).value - (IF IsNew(track, since) THEN 0 ELSE values[1].value)

\* What a process did to the total: one that started adds its whole value by
\* arriving, one that exited takes what it had with it.
Change(track, since, until) ==
    LET values == Within(track, since, until)
        baseline == IF IsNew(track, since) THEN 0 ELSE values[1].value
        exited == track.exited # None /\ track.exited <= until IN
    IF values = <<>> THEN 0 ELSE (IF exited THEN 0 ELSE Last(values).value) - baseline

Kind(track, since, until) ==
    IF Change(track, since, until) <= 0 THEN "lost" ELSE IF IsNew(track, since) THEN "new" ELSE "existing"

\* What a track adds to the sum over the tracks of a kind.
Share(track, since, until, kind) ==
    IF Kind(track, since, until) = kind THEN Change(track, since, until) ELSE 0

\* The sum over the live tracks and the departed ones.
GrowthIn(h, since, until, kind) ==
    SumOver([p \in Live(h) |-> Share(h.live[p], since, until, kind)])
      + SumOver([i \in DOMAIN h.departed |-> Share(h.departed[i], since, until, kind)])

Attribute(h, since, until) ==
    [fromNew |-> GrowthIn(h, since, until, "new"),
     fromExisting |-> GrowthIn(h, since, until, "existing"),
     lost |-> GrowthIn(h, since, until, "lost"),
     newProcesses |-> Cardinality({p \in Live(h) : Kind(h.live[p], since, until) = "new"})
                        + Cardinality({i \in DOMAIN h.departed : Kind(h.departed[i], since, until) = "new"})]
=============================================================================
