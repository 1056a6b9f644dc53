------------------------------- MODULE Picker -------------------------------
(***************************************************************************)
(* What DrainTracer is told to watch when no target and no PID are given   *)
(* (startup.py, process_picker.py, running_processes.py and the selection  *)
(* in main.py): open a file, or hook to a process of a list that may be    *)
(* old when a row of it is taken.                                          *)
(*                                                                         *)
(* A text is a sequence of characters, a command one character; a process  *)
(* is its birth, an unreadable creation time is 0.                         *)
(***************************************************************************)
EXTENDS Naturals, Sequences, FiniteSets, SequencesExt, Selection

CONSTANTS
    Own,            \* the PID of DrainTracer
    Digits,         \* PID -> its digits
    Names,          \* birth -> the name of the process
    Veiled,         \* the births whose creation time cannot be read
    PageRows,       \* rows of a page on this terminal
    Typed,          \* the characters typed
    Lines,          \* the lines entered where there is no keyboard
    MaxBirths, MaxHappened, MaxKeys

ASSUME PickerAssumption ==
    /\ Own \in DOMAIN Digits /\ IsFiniteSet(DOMAIN Digits)
    /\ PageRows \in Nat \ {0} /\ MaxBirths \in Nat \ {0} /\ MaxHappened \in Nat /\ MaxKeys \in Nat

VARIABLES
    keyed,          \* keys are read one by one
    held,           \* PID -> birth of the process that has it, or 0
    zombies,        \* births that ended and were not collected
    born, happened, \* processes started so far, events of the host so far
    readable,       \* the list on screen was read
    rows,           \* that list
    query, page, cursor, buffer,
    drawn,          \* the rows of the page drawn last
    entered,        \* the text entered last
    pressed,        \* keys so far
    stage, action,  \* of the startup, and the choice of the menu
    picked          \* the row taken

hostVars == <<held, zombies, born, happened>>
screenVars == <<readable, rows, query, page, cursor, buffer, drawn, entered>>
pickerVars == <<keyed, hostVars, screenVars, pressed, stage, action, picked>>

Candidates == DOMAIN Digits
Births == 1 .. MaxBirths
NoRow == [pid |-> 0, birth |-> 0, name |-> <<>>]
Commands == {"/refresh", "/next", "/prev", "/clear", "/search", "/quit", "/other"}

IsCommand(text) == text # <<>> /\ text[1] \in Commands
IsDecimal(text) == text # <<>> /\ \A i \in DOMAIN text : text[i] \in {"0", "1", "2"}
BeginsWith(part, text) ==
    \E from \in 0 .. Len(text) - Len(part) : SubSeq(text, from + 1, from + Len(part)) = part

\* Leading zeros of a typed number are dropped.
Stripped(text) ==
    LET start == SelectInSeq(text, LAMBDA c : c # "0")
    IN  IF start = 0 THEN <<>> ELSE SubSeq(text, start, Len(text))

LiveQuery(text, current) ==
    CASE IsCommand(text) -> IF text[1] = "/search" THEN Tail(text) ELSE current
      [] IsDecimal(text) -> IF Stripped(text) = <<>> THEN <<"0">> ELSE Stripped(text)
      [] OTHER -> text

FilterProcesses(list, text) ==
    Selected(list, {i \in DOMAIN list : BeginsWith(text, list[i].name) \/ BeginsWith(text, Digits[list[i].pid])})

RowOf(p) == [pid |-> p, birth |-> IF held[p] \in Veiled THEN 0 ELSE held[p], name |-> Names[held[p]]]

\* By name, then by PID.  Of two names of the model one begins the other, and
\* sorts before it.
SortsBefore(r, s) == Len(r.name) < Len(s.name) \/ (r.name = s.name /\ r.pid < s.pid)

\* A process that ended or is DrainTracer is left out.
Running == {RowOf(p) : p \in {q \in Candidates : held[q] # 0 /\ held[q] \notin zombies /\ q # Own}}

ListsRunning(list) ==
    /\ ToSet(list) = Running
    /\ \A i, j \in DOMAIN list : i < j => ~SortsBefore(list[j], list[i])

Matches == IF readable THEN FilterProcesses(rows, query) ELSE <<>>

LowerOf(m, n) == IF m < n THEN m ELSE n
PageOf(list, number) == SubSeq(list, number * PageRows + 1, LowerOf((number + 1) * PageRows, Len(list)))
LastPage(list) == IF list = <<>> THEN 0 ELSE (Len(list) - 1) \div PageRows

(***************************************************************************)
(* The top of the loop: the cursor stays on a row, and the page drawn is   *)
(* that of the cursor, or the page asked for where there is no keyboard.   *)
(***************************************************************************)
Draw(known, list, text, number, position) ==
    LET matches == IF known THEN FilterProcesses(list, text) ELSE <<>>
        row == LowerOf(position, IF matches = <<>> THEN 0 ELSE Len(matches) - 1)
        turned == IF keyed THEN row \div PageRows
                  ELSE IF known THEN LowerOf(number, LastPage(matches)) ELSE number
    IN  /\ readable' = known /\ rows' = list /\ query' = text
        /\ cursor' = row /\ page' = turned /\ drawn' = PageOf(matches, turned)

\* The list is read again; that may fail.
ReadAgain ==
    \/ Draw(FALSE, <<>>, query, 0, 0)
    \/ \E list \in [1..Cardinality(Running) -> Running] :
           ListsRunning(list) /\ Draw(TRUE, list, query, 0, 0)

PickerInit ==
    /\ keyed \in BOOLEAN
    /\ held = [p \in Candidates |-> IF p = Own THEN 1 ELSE 0] /\ zombies = {} /\ born = 1 /\ happened = 0
    /\ readable = FALSE /\ rows = <<>> /\ query = <<>> /\ page = 0 /\ cursor = 0
    /\ buffer = <<>> /\ drawn = <<>> /\ entered = <<>> /\ pressed = 0
    /\ stage = "menu" /\ action = "open" /\ picked = NoRow

-----------------------------------------------------------------------------
(***************************************************************************)
(* The host: a process starts under a free PID, ends, is collected.        *)
(***************************************************************************)
HostEvent == happened < MaxHappened /\ happened' = happened + 1
         /\ UNCHANGED <<keyed, screenVars, pressed, stage, action, picked>>

Starts(p) ==
    /\ HostEvent /\ held[p] = 0 /\ born < MaxBirths
    /\ born' = born + 1 /\ held' = [held EXCEPT ![p] = born + 1] /\ UNCHANGED zombies
Ends(p) ==
    /\ HostEvent /\ p # Own /\ held[p] \notin zombies \cup {0}
    /\ \/ zombies' = zombies \cup {held[p]} /\ UNCHANGED held
       \/ held' = [held EXCEPT ![p] = 0] /\ UNCHANGED zombies
    /\ UNCHANGED born
ParentCollects(p) ==
    /\ HostEvent /\ held[p] \in zombies /\ held' = [held EXCEPT ![p] = 0] /\ UNCHANGED <<zombies, born>>

Host == stage \in {"menu", "picking"} /\ \E p \in Candidates : Starts(p) \/ Ends(p) \/ ParentCollects(p)

-----------------------------------------------------------------------------
Pressed == pressed < MaxKeys /\ pressed' = pressed + 1 /\ UNCHANGED <<keyed, hostVars>>
Over(why) == stage' = why /\ UNCHANGED <<screenVars, action, picked>>

(***************************************************************************)
(* The menu: open a program, or hook to one (choose_startup_action). There *)
(* are two choices; arrows move, Enter or Space takes, Q or Escape leaves. *)
(***************************************************************************)
MoveChoice ==
    /\ stage = "menu" /\ keyed /\ Pressed
    /\ action' \in {"open", "hook"} /\ UNCHANGED <<stage, screenVars, picked>>
Choose ==
    /\ stage = "menu" /\ Pressed
    /\ IF keyed THEN UNCHANGED action ELSE action' \in {"open", "hook"}
    /\ UNCHANGED <<query, buffer, entered, picked>>
    /\ \/ action' = "open" /\ stage' = "file" /\ UNCHANGED <<readable, rows, page, cursor, drawn>>
       \/ action' = "hook" /\ stage' = "picking" /\ ReadAgain
Leave == stage \in {"menu", "picking"} /\ Pressed /\ Over("cancelled")

(***************************************************************************)
(* The file dialog: one that fails hands over to the next, then to a typed *)
(* path on Linux; elsewhere DrainTracer gives up (select_target_file).     *)
(***************************************************************************)
OpenFile ==
    /\ stage = "file" /\ UNCHANGED <<keyed, hostVars, pressed>>
    /\ \E told \in {"opened", "cancelled", "failed", "typing"} : Over(told)
TypePath ==
    /\ stage = "typing" /\ UNCHANGED <<keyed, hostVars, pressed>>
    /\ \E told \in {"opened", "cancelled"} : Over(told)

-----------------------------------------------------------------------------
Picking == stage = "picking" /\ UNCHANGED action

Up == keyed /\ Draw(readable, rows, query, page, IF cursor = 0 THEN 0 ELSE cursor - 1)
Down == keyed /\ Draw(readable, rows, query, page, cursor + 1)
Arrow ==
    /\ Picking /\ Pressed /\ (Up \/ Down)
    /\ buffer' = <<>> /\ UNCHANGED <<entered, stage, picked>>

Edit(text) ==
    /\ Picking /\ keyed /\ Pressed /\ buffer' = text
    /\ LET filter == LiveQuery(text, query)
       IN  IF filter = query THEN Draw(readable, rows, query, page, cursor)
           ELSE Draw(readable, rows, filter, 0, 0)
    /\ UNCHANGED <<entered, stage, picked>>
\* A command replaces a name; anything else is added to what is typed.
Type(c) == Edit(IF c \in Commands /\ ~IsCommand(buffer) THEN <<c>> ELSE Append(buffer, c))
Backspace ==
    LET text == IF buffer = <<>> THEN query ELSE buffer
    IN  Edit(IF text = <<>> THEN <<>> ELSE Front(text))

\* Mutation: the PID alone is looked at.
IsProcessCurrent_PidOnly(row) ==
    row.birth # 0 /\ held[row.pid] # 0 /\ held[row.pid] \notin zombies

(***************************************************************************)
(* Creation time, running and state of the process that has the PID now.   *)
(***************************************************************************)
IsProcessCurrent(row) ==
    row.birth # 0 /\ held[row.pid] = row.birth /\ row.birth \notin zombies

\* The row a value means: the highlighted one, or the PID that was typed.
Chosen(value) ==
    IF value = <<>> THEN {Matches[cursor + 1] : i \in {1} \cap DOMAIN Matches}
    ELSE {row \in ToSet(Matches) : Digits[row.pid] = Stripped(value)}

Take(value) ==
    \/ \E row \in Chosen(value) :
           /\ IsProcessCurrent(row)
           /\ picked' = row /\ stage' = "hooked"
           /\ UNCHANGED <<readable, rows, query, page, cursor, drawn>>
    \/ /\ \E row \in Chosen(value) : row.birth # 0 /\ ~IsProcessCurrent(row)
       /\ ReadAgain /\ UNCHANGED <<stage, picked>>
    \/ /\ \A row \in Chosen(value) : row.birth = 0
       /\ Draw(readable, rows, query, page, cursor) /\ UNCHANGED <<stage, picked>>

Command(value) ==
    /\ picked' = picked
    /\ \/ value = <<"/quit">> /\ stage' = "cancelled" /\ UNCHANGED <<readable, rows, query, page, cursor, drawn>>
       \/ /\ value # <<"/quit">> /\ UNCHANGED stage
          /\ CASE value = <<"/refresh">> -> ReadAgain
               [] value = <<"/next">> ->
                    LET next == LowerOf(page + 1, LastPage(Matches))
                    IN  Draw(readable, rows, query, page + 1, next * PageRows)
               [] value = <<"/prev">> ->
                    LET previous == IF page = 0 THEN 0 ELSE page - 1
                    IN  Draw(readable, rows, query, previous, previous * PageRows)
               [] value = <<"/clear">> -> Draw(readable, rows, <<>>, 0, 0)
               [] value[1] = "/search" -> Draw(readable, rows, Tail(value), 0, 0)
               [] OTHER -> Draw(readable, rows, query, page, cursor)

(***************************************************************************)
(* A line, or Enter: a name typed at the keyboard has already filtered the *)
(* list, so Enter takes the highlighted row of it.                         *)
(***************************************************************************)
Enter(text) ==
    LET value == IF keyed /\ ~IsCommand(text) /\ ~IsDecimal(text) /\ text # <<"q">> THEN <<>> ELSE text
    IN  /\ Picking /\ Pressed /\ buffer' = <<>> /\ entered' = text
        /\ \/ IsCommand(value) /\ Command(value)
           \/ value = <<"q">> /\ stage' = "cancelled"
              /\ UNCHANGED <<readable, rows, query, page, cursor, drawn, picked>>
           \/ (IsDecimal(value) \/ (keyed /\ value = <<>>)) /\ Take(value)
           \/ /\ ~keyed /\ ~IsCommand(value) /\ ~IsDecimal(value) /\ value # <<"q">>
              /\ IF value = <<>> THEN Draw(readable, rows, query, page, cursor) ELSE Draw(readable, rows, value, 0, 0)
              /\ UNCHANGED <<stage, picked>>

Person ==
    \/ MoveChoice \/ Choose \/ Leave \/ OpenFile \/ TypePath \/ Arrow \/ Backspace
    \/ \E c \in Typed : Len(buffer) < 2 /\ Type(c)
    \/ keyed /\ Enter(buffer)
    \/ ~keyed /\ \E text \in Lines : Enter(text)

PickerNext == Host \/ Person

PickerSpec == PickerInit /\ [][PickerNext]_pickerVars

-----------------------------------------------------------------------------
(***************************************************************************)
(* However old the list, and whatever was typed, searched and moved before *)
(* it: the process hooked is alive, is not DrainTracer, is the very one    *)
(* that had this PID when the list was read, and is the one the person     *)
(* meant: the PID entered, or a row that was on screen.                    *)
(***************************************************************************)
HookIsMeant ==
    stage = "hooked" =>
        /\ picked.pid # Own
        /\ held[picked.pid] = picked.birth /\ picked.birth \notin zombies
        /\ IF IsDecimal(entered) THEN Digits[picked.pid] = Stripped(entered)
           ELSE keyed /\ picked \in ToSet(drawn)
=============================================================================
