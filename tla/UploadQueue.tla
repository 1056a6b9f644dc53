----------------------------- MODULE UploadQueue -----------------------------
(***************************************************************************)
(* UploadQueue (src/src/team_queue.py) and the retry ledger of the team    *)
(* server (src/src/team_evidence.py): a private file of entries that       *)
(* explicit commands add to, inspect and flush to a server over a          *)
(* connection that may fail, answer late or lose the answer.               *)
(*                                                                         *)
(* A command holds the file lock, works on a copy of the file in memory    *)
(* and replaces the file atomically when it saves; it may crash, or fail   *)
(* to save, between any two steps.  Every step below that ends in a save   *)
(* is the work up to that save.  An entry's UUID and bytes are the entry   *)
(* itself, so an entry is enqueued once.  "expired" and "cooling" stand    *)
(* for the clock: the entries whose expires_at, and whose next_at, lies    *)
(* before and after now.                                                   *)
(***************************************************************************)
EXTENDS Naturals, Sequences, FiniteSets, Selection

CONSTANTS
    Items,        \* the entries
    NoItem,       \* nothing is being sent
    MaxEntries,   \* entries in the queue (64)
    MaxAttempts,  \* attempts before an entry is blocked (20)
    MaxLimit,     \* attempts of one flush (8)
    MaxSends      \* bound: requests sent for one entry

ASSUME ItemsAssumption == NoItem \notin Items
ASSUME LimitAssumption ==
    {MaxEntries, MaxAttempts, MaxLimit, MaxSends} \subseteq Nat \ {0}

VARIABLES
    disk,     \* the contents of queue.json
    mem,      \* the copy of the command that holds the lock
    flush,    \* "idle", "scan", "intent", "flying", "answered"
    todo,     \* entries the flush has not looked at
    limit,    \* attempts it may still make
    force,    \* retry_blocked
    current,  \* the entry that is being sent
    answer,   \* what the client was told about it
    late,     \* requests abandoned by the client that may still arrive
    expired,  \* entries past their lifetime
    cooling,  \* entries whose backoff has not passed
    ledger,   \* the server's requests: "none", "committed" or "deleted"
    stored,   \* history: how often the server stored the entry
    sends     \* history: requests sent for the entry

fileVars == <<disk, mem>>
flushVars == <<flush, todo, limit, force, current, answer>>
clockVars == <<expired, cooling>>
serverVars == <<late, ledger, stored>>
uploadVars == <<fileVars, flushVars, clockVars, serverVars, sends>>

\* The error codes a failed attempt ends with; "busy" also stands for
\* "storage", "invalid" for every refusal that is not retried.
Retry == {"unavailable", "busy"}
Refusals == {"invalid", "busy"}

Files ==
    [entries : Seq(Items), attempts : [Items -> 0..MaxAttempts], blocked : SUBSET Items,
     observed : Nat, delivered : Nat, expired : Nat,
     fate : [Items -> {"none", "delivered", "expired"}]]

UploadTypeOK ==
    /\ disk \in Files /\ mem \in Files
    /\ Len(disk.entries) <= MaxEntries
    /\ flush \in {"idle", "scan", "intent", "flying", "answered"}
    /\ todo \in Seq(Items) /\ limit \in 0..MaxLimit /\ force \in BOOLEAN
    /\ current \in Items \cup {NoItem}
    /\ answer \in {"none", "stored", "conflict"} \cup Retry \cup Refusals
    /\ late \in [Items -> 0..MaxSends]
    /\ expired \subseteq Items /\ cooling \subseteq Items
    /\ ledger \in [Items -> {"none", "committed", "deleted"}]
    /\ stored \in [Items -> Nat]
    /\ sends \in [Items -> 0..MaxSends]

Empty ==
    [entries |-> <<>>, attempts |-> [i \in Items |-> 0], blocked |-> {},
     observed |-> 0, delivered |-> 0, expired |-> 0, fate |-> [i \in Items |-> "none"]]

UploadInit ==
    /\ disk = Empty /\ mem = Empty
    /\ flush = "idle" /\ todo = <<>> /\ limit = 0 /\ force = FALSE
    /\ current = NoItem /\ answer = "none"
    /\ late = [i \in Items |-> 0]
    /\ expired = {} /\ cooling = {}
    /\ ledger = [i \in Items |-> "none"] /\ stored = [i \in Items |-> 0]
    /\ sends = [i \in Items |-> 0]

-----------------------------------------------------------------------------
(* What commands do to their copy of the file *)

Queued(f) == {f.entries[n] : n \in 1..Len(f.entries)}

\* The entries "gone" leave the queue.
Without(f, gone) == Selected(f.entries, {n \in DOMAIN f.entries : f.entries[n] \notin gone})

\* Mutation: an expired entry leaves no trace.
ExpireAll_Uncounted(f, gone) ==
    [f EXCEPT !.entries = Without(f, gone)]

\* _expire and _expire_item, for the entries of "gone" that are queued.
ExpireAll(f, gone) ==
    LET out == gone \cap Queued(f)
    IN [f EXCEPT !.entries = Without(f, out),
                 !.expired = @ + Cardinality(out),
                 !.fate = [i \in Items |-> IF i \in out THEN "expired" ELSE @[i]]]

Delivered(f, i) ==
    [f EXCEPT !.entries = Without(f, {i}),
              !.delivered = @ + 1,
              !.fate = [@ EXCEPT ![i] = "delivered"]]

\* The attempt is counted before it is made; the last one blocks the entry.
Attempted(f, i) ==
    LET n == IF f.attempts[i] = MaxAttempts THEN MaxAttempts ELSE f.attempts[i] + 1
    IN [f EXCEPT !.attempts = [@ EXCEPT ![i] = n],
                 !.blocked = IF n = MaxAttempts THEN @ \cup {i} ELSE @]

Failed(f, i, code) ==
    [f EXCEPT !.blocked = IF code \in Retry /\ f.attempts[i] < MaxAttempts
                          THEN @ \ {i} ELSE @ \cup {i}]

Save(f) == disk' = f /\ mem' = f

-----------------------------------------------------------------------------
(* enqueue and inspect: one save each *)

Enqueue(i) ==
    /\ flush = "idle" /\ i \notin Queued(disk) /\ disk.fate[i] = "none" /\ i \notin expired
    /\ LET f == ExpireAll(disk, expired)
       IN /\ Len(f.entries) < MaxEntries
          /\ Save([f EXCEPT !.entries = Append(@, i), !.observed = @ + 1])
    /\ UNCHANGED <<flushVars, clockVars, serverVars, sends>>

Inspect ==
    /\ flush = "idle"
    /\ Save(ExpireAll(disk, expired))
    /\ UNCHANGED <<flushVars, clockVars, serverVars, sends>>

-----------------------------------------------------------------------------
(* flush *)

FlushBegin ==
    /\ flush = "idle"
    /\ mem' = ExpireAll(disk, expired)
    /\ todo' = mem'.entries
    /\ flush' = "scan"
    /\ limit' \in 1..MaxLimit /\ force' \in BOOLEAN
    /\ UNCHANGED <<disk, current, answer, clockVars, serverVars, sends>>

\* An entry that expired meanwhile is removed, or one is passed over.
Pass ==
    /\ flush = "scan" /\ todo # <<>> /\ limit > 0
    /\ LET i == Head(todo)
       IN \/ i \in expired /\ Save(ExpireAll(mem, {i}))
          \/ /\ i \notin expired /\ ~force /\ i \in mem.blocked \cup cooling
             /\ UNCHANGED fileVars
    /\ todo' = Tail(todo)
    /\ UNCHANGED <<flush, limit, force, current, answer, clockVars, serverVars, sends>>

\* The intent to send is saved first.
BeginAttempt ==
    /\ flush = "scan" /\ todo # <<>> /\ limit > 0
    /\ LET i == Head(todo)
       IN /\ i \notin expired
          /\ force \/ i \notin mem.blocked \cup cooling
          /\ Save(Attempted(mem, i))
          /\ current' = i
          /\ cooling' = cooling \cup {i}
    /\ todo' = Tail(todo) /\ limit' = limit - 1 /\ flush' = "intent"
    /\ UNCHANGED <<force, answer, expired, serverVars, sends>>

\* The entry's lifetime ended while the intent was saved.
IntentExpired ==
    /\ flush = "intent" /\ current \in expired
    /\ Save(ExpireAll(mem, {current}))
    /\ flush' = "scan" /\ current' = NoItem
    /\ UNCHANGED <<todo, limit, force, answer, clockVars, serverVars, sends>>

Send ==
    /\ flush = "intent" /\ current \notin expired
    /\ sends[current] < MaxSends
    /\ sends' = [sends EXCEPT ![current] = @ + 1]
    /\ flush' = "flying"
    /\ UNCHANGED <<fileVars, todo, limit, force, current, answer, clockVars, serverVars>>

\* The connection fails, or its deadline passes: the request is lost, or
\* the server handles it later.
NoAnswer ==
    /\ flush = "flying"
    /\ flush' = "answered" /\ answer' = "unavailable"
    /\ late' \in {late, [late EXCEPT ![current] = @ + 1]}
    /\ UNCHANGED <<fileVars, todo, limit, force, current, clockVars, ledger, stored, sends>>

\* The answer is evaluated.  An entry that is past its lifetime by now is
\* removed after an error, without a claim of delivery.
TakeAnswer ==
    /\ flush = "answered"
    /\ Save(IF answer = "stored" THEN Delivered(mem, current)
            ELSE IF current \in expired THEN ExpireAll(mem, {current})
            ELSE Failed(mem, current, answer))
    /\ cooling' = IF answer = "stored" THEN cooling ELSE cooling \cup {current}
    /\ flush' = "scan" /\ current' = NoItem /\ answer' = "none"
    /\ UNCHANGED <<todo, limit, force, expired, serverVars, sends>>

Stop ==
    /\ flush' = "idle" /\ todo' = <<>> /\ limit' = 0 /\ force' = FALSE
    /\ current' = NoItem /\ answer' = "none"
    /\ UNCHANGED <<clockVars, serverVars, sends>>

\* The list or the limit is used up, or the deadline of the flush passes
\* before the next entry or after an intent; then the last save.
FlushEnd ==
    /\ flush \in {"scan", "intent"}
    /\ Save(mem)
    /\ Stop

\* The command crashes or cannot save: the file stays as it was, and a
\* request under way may still arrive.
Crash ==
    /\ flush # "idle"
    /\ mem' = disk /\ UNCHANGED disk
    /\ flush' = "idle" /\ todo' = <<>> /\ limit' = 0 /\ force' = FALSE
    /\ current' = NoItem /\ answer' = "none"
    /\ late' \in IF flush = "flying" THEN {late, [late EXCEPT ![current] = @ + 1]} ELSE {late}
    /\ UNCHANGED <<clockVars, ledger, stored, sends>>

-----------------------------------------------------------------------------
(* The server: the retry ledger decides what a request is *)

\* Mutation: the ledger is not consulted.
Handle_LedgerIgnored(i, reply) ==
    /\ reply = "stored"
    /\ ledger' = [ledger EXCEPT ![i] = "committed"]
    /\ stored' = [stored EXCEPT ![i] = @ + 1]

\* One request for "i": refused, replayed, or stored and remembered in one
\* transaction.
Handle(i, reply) ==
    \/ /\ reply \in Refusals /\ UNCHANGED <<ledger, stored>>
    \/ /\ reply = "conflict" /\ ledger[i] = "deleted" /\ UNCHANGED <<ledger, stored>>
    \/ /\ reply = "stored" /\ ledger[i] = "committed" /\ UNCHANGED <<ledger, stored>>
    \/ /\ reply = "stored" /\ ledger[i] = "none"
       /\ ledger' = [ledger EXCEPT ![i] = "committed"]
       /\ stored' = [stored EXCEPT ![i] = @ + 1]

\* Its answer reaches the client, or is lost.
HandleCurrent ==
    /\ flush = "flying"
    /\ \E reply \in {"stored", "conflict"} \cup Refusals :
         /\ Handle(current, reply)
         /\ answer' \in {reply, "unavailable"}
    /\ flush' = "answered"
    /\ UNCHANGED <<fileVars, todo, limit, force, current, clockVars, late, sends>>

HandleLate(i) ==
    /\ late[i] > 0
    /\ late' = [late EXCEPT ![i] = @ - 1]
    /\ \E reply \in {"stored", "conflict"} \cup Refusals : Handle(i, reply)
    /\ UNCHANGED <<fileVars, flushVars, clockVars, sends>>

\* An administrator deletes the report, or its retention ends.
Delete(i) ==
    /\ ledger[i] = "committed"
    /\ ledger' = [ledger EXCEPT ![i] = "deleted"]
    /\ UNCHANGED <<fileVars, flushVars, clockVars, late, stored, sends>>

-----------------------------------------------------------------------------
(* The clock *)

LifetimeEnds(i) ==
    /\ i \notin expired
    /\ expired' = expired \cup {i}
    /\ UNCHANGED <<fileVars, flushVars, cooling, serverVars, sends>>

BackoffEnds(i) ==
    /\ i \in cooling
    /\ cooling' = cooling \ {i}
    /\ UNCHANGED <<fileVars, flushVars, expired, serverVars, sends>>

UploadNext ==
    \/ \E i \in Items : Enqueue(i)
    \/ Inspect \/ FlushBegin \/ Pass \/ BeginAttempt \/ IntentExpired \/ Send
    \/ NoAnswer \/ TakeAnswer \/ FlushEnd \/ Crash
    \/ HandleCurrent
    \/ \E i \in Items : HandleLate(i) \/ Delete(i) \/ LifetimeEnds(i) \/ BackoffEnds(i)

UploadSpec == UploadInit /\ [][UploadNext]_uploadVars

-----------------------------------------------------------------------------
(* Correctness *)

\* The file accounts for every entry it ever accepted: it is queued once,
\* or counted as delivered or as expired, after any crash or failed save.
\* (_enqueue 180-187, _expire_item 159-162, flush 252-256)
AllAccounted ==
    /\ disk.observed = Len(disk.entries) + disk.delivered + disk.expired
    /\ Cardinality(Queued(disk)) = Len(disk.entries)
    /\ \A i \in Queued(disk) : disk.fate[i] = "none"

\* Every request that may have reached the server is counted in the file,
\* as long as attempts are counted at all: a crash after sending cannot
\* give an entry more attempts.
\* (flush 220-228)
SentIsCounted ==
    \A i \in Queued(disk) :
        disk.attempts[i] = MaxAttempts \/ sends[i] <= disk.attempts[i]

\* Both: the file of the queue accounts for every report it accepted, and for
\* every attempt that may have reached the server.
EveryEntryAccounted == AllAccounted /\ SentIsCounted

\* Queue and server together implement UploadDelivery.
\* (flush 215-257, team_evidence _request 103-115)
Status ==
    [i \in Items |-> IF i \in Queued(disk) THEN "queued"
                     ELSE IF disk.fate[i] = "none" THEN "new" ELSE disk.fate[i]]
Delivery == INSTANCE UploadDelivery WITH status <- Status
ImplementsDelivery == Delivery!Spec

=============================================================================
