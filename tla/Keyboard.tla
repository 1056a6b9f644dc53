------------------------------ MODULE Keyboard ------------------------------
(***************************************************************************)
(* Keys between a terminal and the dashboard (src/src/keys.py).  A key is  *)
(* one character or several; on POSIX they arrive in pieces and are read   *)
(* whatever has arrived, on Windows one key is read with its scan code.    *)
(*                                                                         *)
(* Characters are strings of the model ("semi" is the semicolon); UTF-8 is *)
(* left out.  Time is the age of a character held back, in ticks up to     *)
(* Patience.                                                               *)
(***************************************************************************)
EXTENDS Naturals, SequencesExt

CONSTANTS
    Patience,   \* ticks after which a bare Escape is the Escape key (50 ms)
    MaxPresses  \* bound: keys pressed

ASSUME KeyboardAssumption == Patience \in Nat \ {0} /\ MaxPresses \in Nat

VARIABLES
    windows,  \* the platform
    inside,   \* between __enter__ and __exit__
    mode,     \* of the terminal: "line" or "cbreak"
    presses,  \* the keys pressed, in order
    arrived,  \* characters that reached the input buffer
    got,      \* characters the reader took from it
    held,     \* _ansi: characters that may be the start of a key
    age,      \* since _ansi_since, in ticks
    queued,   \* _pending
    keys,     \* what read() returned so far
    gone,     \* the terminal hung up
    eof

keyboardVars == <<windows, inside, mode, presses, arrived, got, held, age, queued, keys, gone, eof>>

-----------------------------------------------------------------------------
(* What terminals send, and what it means *)

WindowsKeys == {"Up", "F5", "a-grave", "H", "Esc"}
PosixKeys == {"Up", "Ctrl+Up", "PgUp", "F5", "Esc", "[", "K"}

WindowsSends ==
    [k \in WindowsKeys |->
        CASE k = "Up" -> <<"e0", "H">> [] k = "F5" -> <<"00", "?">> [] k = "a-grave" -> <<"e0">>
          [] k = "H" -> <<"H">> [] k = "Esc" -> <<"esc">>]

PosixSends ==
    [k \in PosixKeys |->
        CASE k = "Up" -> <<"esc", "[", "A">> [] k = "Ctrl+Up" -> <<"esc", "[", "1", "semi", "5", "A">>
          [] k = "PgUp" -> <<"esc", "[", "5", "~">> [] k = "F5" -> <<"esc", "[", "1", "5", "~">>
          [] k = "Esc" -> <<"esc">> [] k = "[" -> <<"[">> [] k = "K" -> <<"K">>]

Sends == IF windows THEN WindowsSends ELSE PosixSends

Means ==
    [k \in WindowsKeys \cup PosixKeys |->
        CASE k \in {"Up", "Ctrl+Up"} -> <<"up">> [] k = "PgUp" -> <<"pgup">> [] k \in {"F5", "a-grave"} -> <<>>
          [] k = "Esc" -> <<"escape">> [] k \in {"[", "K", "H"} -> <<k>>]

\* What a table has for each of some keys, one after the other.
Spelled(table, names) ==
    LET upTo[n \in 0..Len(names)] == IF n = 0 THEN <<>> ELSE upTo[n - 1] \o table[names[n]]
    IN upTo[Len(names)]

Stream == Spelled(Sends, presses)
Meant == Spelled(Means, presses)

-----------------------------------------------------------------------------
(* Decoding *)

ScanCodes == [H |-> <<"up">>]
Finals == [A |-> <<"up">>]
Tildes == [d \in {"5"} |-> <<"pgup">>]
Parameters == {"1", "5", "semi", "?"}

DecodePlain(c) == IF c = "esc" THEN <<"escape">> ELSE IF c \in {"e0", "00"} THEN <<>> ELSE <<c>>

\* The scan code is read only if there is one.
DecodeWindows(first, next) ==
    IF first \notin {"e0", "00"} THEN DecodePlain(first)
    ELSE IF next \in DOMAIN ScanCodes THEN ScanCodes[next] ELSE <<>>

\* The key a whole sequence names; an unknown one names none.
Named(data, end) ==
    LET last == data[end]
    IN IF last = "~" THEN IF data[3] \in DOMAIN Tildes /\ (end = 4 \/ data[4] = "semi") THEN Tildes[data[3]] ELSE <<>>
       ELSE IF last \in DOMAIN Finals THEN Finals[last] ELSE <<>>

\* What the characters x at the end of the data say, of which "left" has what
\* its own last characters say.
Decode(left, x, final) ==
    LET Then(names, n) == [left[Len(x) - n] EXCEPT !.keys = names \o @]
        Kept == [keys |-> <<>>, rest |-> IF final THEN <<>> ELSE x]
        ends == {i \in 3..Len(x) : x[i] \notin Parameters}
        end == CHOOSE i \in ends : \A j \in ends : i <= j
    IN IF x = <<>> THEN [keys |-> <<>>, rest |-> <<>>]
       ELSE IF x[1] # "esc" THEN Then(DecodePlain(x[1]), 1)
       ELSE IF Len(x) = 1 THEN IF final THEN [keys |-> <<"escape">>, rest |-> <<>>] ELSE Kept
       ELSE IF x[2] \notin {"[", "O"} THEN Then(<<"escape">>, 1)
       ELSE IF ends = {} THEN Kept ELSE Then(Named(x, end), end)

DecodeAnsi(data, final) ==
    LET left[n \in 0..Len(data)] == Decode(left, SubSeq(data, Len(data) - n + 1, Len(data)), final)
    IN left[Len(data)]

-----------------------------------------------------------------------------
KeyboardInit ==
    /\ windows \in BOOLEAN /\ inside = FALSE /\ mode = "line"
    /\ presses = <<>> /\ arrived = 0 /\ got = 0
    /\ held = <<>> /\ age = 0 /\ queued = <<>> /\ keys = <<>> /\ gone = FALSE /\ eof = FALSE

(* The terminal.  A person does not press [ in the moment after Escape, nor *)
(* anything in the moment after a letter that is also a prefix.             *)
Ambiguous(k) ==
    LET last == presses[Len(presses)]
    IN /\ presses # <<>> /\ (got < Len(Stream) \/ held # <<>>)
       /\ last = "a-grave" \/ (last = "Esc" /\ k = "[")

Press(k) ==
    /\ inside /\ ~gone /\ k \in DOMAIN Sends /\ Len(presses) < MaxPresses /\ ~Ambiguous(k)
    /\ presses' = Append(presses, k)
    /\ UNCHANGED <<windows, inside, mode, arrived, got, held, age, queued, keys, gone, eof>>

\* The Escape that starts a sequence has arrived, and nothing else of it.
AfterEscape ==
    \E i \in DOMAIN presses :
        LET before == Len(Spelled(Sends, SubSeq(presses, 1, i - 1)))
        IN arrived = before + 1 /\ Len(Sends[presses[i]]) > 1

\* A Windows console has the scan code in its buffer with the prefix.
Arrive ==
    /\ inside /\ ~gone /\ arrived < Len(Stream)
    /\ arrived' = IF windows /\ Stream[arrived + 1] \in {"e0", "00"} /\ arrived + 2 <= Len(Stream)
                  THEN arrived + 2 ELSE arrived + 1
    /\ UNCHANGED <<windows, inside, mode, presses, got, held, age, queued, keys, gone, eof>>

HangUp ==
    /\ inside /\ ~windows /\ ~gone /\ gone' = TRUE
    /\ UNCHANGED <<windows, inside, mode, presses, arrived, got, held, age, queued, keys, eof>>

\* A terminal does not pause for long after the Escape of a sequence, it
\* may anywhere else.
Pass ==
    /\ held # <<>> /\ age < Patience /\ ~(AfterEscape /\ age = Patience - 1)
    /\ age' = age + 1
    /\ UNCHANGED <<windows, inside, mode, presses, arrived, got, held, queued, keys, gone, eof>>

-----------------------------------------------------------------------------
(* The reader *)

Enter ==
    /\ ~inside /\ presses = <<>> /\ inside' = TRUE /\ mode' = IF windows THEN mode ELSE "cbreak"
    /\ UNCHANGED <<windows, presses, arrived, got, held, age, queued, keys, gone, eof>>

\* A terminal that is gone has no attributes to restore.
Exit ==
    /\ inside /\ presses # <<>> /\ inside' = FALSE /\ mode' = IF gone THEN mode ELSE "line"
    /\ UNCHANGED <<windows, presses, arrived, got, held, age, queued, keys, gone, eof>>

Pending ==
    /\ inside /\ queued # <<>>
    /\ keys' = Append(keys, Head(queued)) /\ queued' = Tail(queued)
    /\ UNCHANGED <<windows, inside, mode, presses, arrived, got, held, age, gone, eof>>

ReadWindows ==
    /\ inside /\ windows /\ queued = <<>> /\ got < arrived
    /\ LET first == Stream[got + 1]
           scans == first \in {"e0", "00"} /\ got + 1 < arrived
       IN /\ got' = IF scans THEN got + 2 ELSE got + 1
          /\ keys' = keys \o DecodeWindows(first, IF scans THEN Stream[got + 2] ELSE "")
    /\ UNCHANGED <<windows, inside, mode, presses, arrived, held, age, queued, gone, eof>>

\* Mutation: what is held back is taken for whole at the next read.
Expired_AtOnce(data) == data = <<>>
Expired(data) == held = <<"esc">> /\ age >= Patience /\ data = <<>>

ReadPosix ==
    /\ inside /\ ~windows /\ queued = <<>>
    /\ LET data == SubSeq(Stream, got + 1, arrived)
           decoded == DecodeAnsi(held \o data, Expired(data))
       IN /\ got' = arrived
          /\ held' = decoded.rest
          /\ age' = IF held # <<>> /\ decoded.rest = held \o data THEN age ELSE 0
          /\ keys' = IF decoded.keys = <<>> THEN keys ELSE Append(keys, Head(decoded.keys))
          /\ queued' = IF decoded.keys = <<>> THEN <<>> ELSE Tail(decoded.keys)
          /\ eof' = (eof \/ (gone /\ data = <<>>))
    /\ UNCHANGED <<windows, inside, mode, presses, arrived, gone>>

KeyboardNext ==
    \/ \E k \in DOMAIN Sends : Press(k)
    \/ Arrive \/ HangUp \/ Pass \/ Enter \/ Exit \/ Pending \/ ReadWindows \/ ReadPosix

KeyboardSpec == KeyboardInit /\ [][KeyboardNext]_keyboardVars

-----------------------------------------------------------------------------
(* The dashboard gets the keys that were pressed, in order: an arrow never *)
(* arrives as the letters that end its sequence, wherever the terminal     *)
(* pauses in it, and none is lost once all of it was read                  *)
(* (KeyReader.read).  The terminal is as it was when nobody reads it.      *)
KeysAreTyped ==
    /\ IsPrefix(keys \o queued, Meant)
    /\ got = Len(Stream) /\ held = <<>> => keys \o queued = Meant
    /\ ~inside /\ ~gone => mode = "line"
=============================================================================
