----------------------------- MODULE Persistence -----------------------------
(***************************************************************************)
(* How the counters survive a restart: internal/stats/persist.go, SaveFile, *)
(* LoadFile and atomicWriteFile, called by cmd/anekbot/main.go on shutdown  *)
(* and on startup.  The counters are one number that only grows, how many  *)
(* events the process knows of; which counters exportState catches of an   *)
(* event in flight is module Stats.                                        *)
(*                                                                         *)
(* The file system is external: every call may fail, and the machine may   *)
(* lose power, which spoils what was written without fsync and may undo a   *)
(* rename whose directory had not reached the disk.                        *)
(***************************************************************************)
EXTENDS Integers, FiniteSets

CONSTANTS
    MaxEvents,   \* bound: events a process knows of
    MaxStarts    \* bound: processes started

ASSUME PersistenceAssumption == MaxEvents \in Nat /\ MaxStarts \in Nat

VARIABLES
    path,       \* the stats file, or Absent
    onDisk,     \* the files that path may name after a loss of power
    tmp,        \* the temp file of the save under way, or Absent
    strays,     \* how many temp files earlier saves left behind
    pc,         \* what the process does next, "down" when there is none
    mem,        \* the events the process knows of
    data,       \* what SaveFile marshalled
    atSignal,   \* history: mem when shutdown began
    loadFailed, \* history: whether LoadFile returned an error in this process
    starts, deaths, \* how many processes were started, how many died
    saves, notRemoved \* history: saves that reached path, temp files os.Remove left

fileVars == <<path, onDisk, tmp, strays, saves, notRemoved>>
vars == <<fileVars, pc, mem, data, atSignal, loadFailed, starts, deaths>>

\* parses: json.Unmarshal accepts it; whole: all of it was written; synced: all
\* of it has reached the disk.
Files == [value : 0 .. MaxEvents, parses : BOOLEAN, whole : BOOLEAN, synced : BOOLEAN]
\* No file: there is nothing to parse and nothing to spoil.
Absent == [value |-> 0, parses |-> FALSE, whole |-> TRUE, synced |-> TRUE, absent |-> TRUE]
\* What an operator may have put there: not JSON (persist_test.go:152).
Foreign == [value |-> 0, parses |-> FALSE, whole |-> TRUE, synced |-> TRUE]

SaveSteps == {"create", "write", "sync", "close", "rename", "remove"}
Steps == {"down", "running", "draining"} \union SaveSteps

Init ==
    /\ path \in {Absent, Foreign}
    /\ onDisk = {path}
    /\ tmp = Absent
    /\ strays = 0
    /\ pc = "down"
    /\ mem = 0 /\ data = 0 /\ atSignal = 0
    /\ loadFailed = FALSE
    /\ starts = 0 /\ deaths = 0
    /\ saves = 0 /\ notRemoved = 0

Goto(from, to) == pc = from /\ pc' = to

-----------------------------------------------------------------------------
\* Mutant of Imported: parsed, and not stored.
ImportedNothing(f) == 0

\* importState: what a process knows of after LoadFile.
Imported(f) == f.value

Restored(f) == f # Absent /\ f.parses /\ f.whole

\* main calls LoadFile: a missing file is no error; after a read or parse error
\* the process logs it and runs on from nothing (main.go:56-58).
Start(readable) ==
    /\ starts < MaxStarts
    /\ Goto("down", "running")
    /\ mem' = IF readable /\ Restored(path) THEN Imported(path) ELSE 0
    /\ loadFailed' = (path # Absent /\ ~(readable /\ Restored(path)))
    /\ starts' = starts + 1
    /\ data' = 0 /\ atSignal' = 0
    /\ UNCHANGED <<fileVars, deaths>>

\* A handler records an event. Nothing stops handlers before the process ends.
Record ==
    /\ pc # "down"
    /\ mem < MaxEvents
    /\ mem' = mem + 1
    /\ UNCHANGED <<fileVars, pc, data, atSignal, loadFailed, starts, deaths>>

\* SIGTERM or SIGINT: ctx is done; a webhook server drains for up to 5 s.
Signal ==
    /\ Goto("running", "draining")
    /\ atSignal' = mem
    /\ UNCHANGED <<fileVars, mem, data, loadFailed, starts, deaths>>

-----------------------------------------------------------------------------
\* Mutant of Export: what was exported before, at startup.
ExportStale ==
    /\ Goto("draining", "create")
    /\ UNCHANGED <<data, fileVars, mem, atSignal, loadFailed, starts, deaths>>

\* SaveFile: json.MarshalIndent(s.exportState()).
Export ==
    /\ Goto("draining", "create")
    /\ data' = mem
    /\ UNCHANGED <<fileVars, mem, atSignal, loadFailed, starts, deaths>>

InSave == <<mem, data, atSignal, loadFailed, starts, deaths>>

CreateTemp ==
    /\ \/ /\ Goto("create", "write")
          /\ tmp' = [value |-> data, parses |-> FALSE, whole |-> FALSE, synced |-> FALSE]
       \/ Goto("create", "down") /\ UNCHANGED tmp
    /\ UNCHANGED <<path, onDisk, strays, saves, notRemoved, InSave>>

\* A failed Write, Sync or Close leaves the rest to the deferred os.Remove.
Write ==
    /\ \/ Goto("write", "sync") /\ tmp' = [tmp EXCEPT !.whole = TRUE, !.parses = TRUE]
       \/ Goto("write", "remove") /\ UNCHANGED tmp
    /\ UNCHANGED <<path, onDisk, strays, saves, notRemoved, InSave>>

\* Mutant of Sync: its error is ignored.
SyncUnchecked ==
    /\ Goto("sync", "close")
    /\ tmp' \in {tmp, [tmp EXCEPT !.synced = TRUE]}
    /\ UNCHANGED <<path, onDisk, strays, saves, notRemoved, InSave>>

Sync ==
    /\ \/ Goto("sync", "close") /\ tmp' = [tmp EXCEPT !.synced = TRUE]
       \/ Goto("sync", "remove") /\ UNCHANGED tmp
    /\ UNCHANGED <<path, onDisk, strays, saves, notRemoved, InSave>>

Close ==
    /\ Goto("close", "rename") \/ Goto("close", "remove")
    /\ UNCHANGED <<fileVars, InSave>>

\* The file at path is replaced in one step; the temp file's name is gone.
Rename ==
    /\ \/ /\ Goto("rename", "remove")
          /\ path' = tmp
          /\ onDisk' = onDisk \union {tmp}
          /\ tmp' = Absent
          /\ saves' = saves + 1
       \/ Goto("rename", "remove") /\ UNCHANGED <<path, onDisk, tmp, saves>>
    /\ UNCHANGED <<strays, notRemoved, InSave>>

\* Mutant of Remove: only a successful save cleans up.
RemoveOnSuccess ==
    /\ Goto("remove", "down")
    /\ tmp' = Absent
    /\ strays' = IF tmp = Absent THEN strays ELSE strays + 1
    /\ UNCHANGED <<path, onDisk, saves, notRemoved, InSave>>

\* Mutant of Remove: retried until there was a file to remove.
RemoveRetried ==
    /\ tmp # Absent
    /\ Goto("remove", "down")
    /\ tmp' = Absent
    /\ UNCHANGED <<path, onDisk, strays, saves, notRemoved, InSave>>

\* The deferred os.Remove, which finds no file after the rename; then main
\* returns. Its error is ignored, so that the temp file of a failed save stays.
Remove ==
    /\ Goto("remove", "down")
    /\ tmp' = Absent
    /\ \/ UNCHANGED <<strays, notRemoved>>
       \/ /\ tmp # Absent
          /\ strays' = strays + 1
          /\ notRemoved' = notRemoved + 1
    /\ UNCHANGED <<path, onDisk, saves, InSave>>

Stray == IF tmp = Absent THEN strays ELSE strays + 1

\* SIGKILL, log.Fatalf or a panic: the files stay as they are.
Crash ==
    /\ pc # "down"
    /\ pc' = "down"
    /\ deaths' = deaths + 1
    /\ tmp' = Absent /\ strays' = Stray
    /\ UNCHANGED <<path, onDisk, saves, notRemoved, mem, data, atSignal, loadFailed, starts>>

\* What a file may be after the power is back.
AfterPowerLoss(f) ==
    IF f.synced THEN {f} ELSE {[f EXCEPT !.whole = w, !.synced = TRUE] : w \in BOOLEAN}

\* The machine may go down while no process runs, too.
PowerLoss ==
    /\ pc' = "down"
    /\ deaths' = IF pc = "down" THEN deaths ELSE deaths + 1
    /\ \E f \in onDisk : path' \in AfterPowerLoss(f)
    /\ onDisk' = {path'}
    /\ tmp' = Absent /\ strays' \in {strays, Stray}
    /\ UNCHANGED <<saves, notRemoved, mem, data, atSignal, loadFailed, starts>>

SaveStep == Export \/ CreateTemp \/ Write \/ Sync \/ Close \/ Rename \/ Remove

Next ==
    \/ \E readable \in BOOLEAN : Start(readable)
    \/ Record
    \/ Signal
    \/ SaveStep
    \/ Crash
    \/ PowerLoss

Spec == Init /\ [][Next]_vars

\* main runs on once ctx is done, and its file operations return.
FairSpec == Spec /\ WF_vars(SaveStep)

-----------------------------------------------------------------------------
TypeOK ==
    /\ path \in Files \union {Absent}
    /\ onDisk \subseteq Files \union {Absent}
    /\ tmp \in Files \union {Absent}
    /\ strays \in Nat
    /\ pc \in Steps
    /\ {mem, data, atSignal} \subseteq 0 .. MaxEvents
    /\ loadFailed \in BOOLEAN
    /\ {starts, deaths, saves, notRemoved} \subseteq Nat

\* "A crash mid-write, or a concurrent read of path, never observes a corrupt or
\* partial file" (persist.go:42-44): in every state, after a crash or a loss of
\* power at any step of a save, path holds all of some export, or what was
\* there before the bot.
PathWhole == path.whole /\ \A f \in onDisk : f.whole

\* A process that could read the file never replaces it by one that knows of
\* fewer events; only a loss of power may bring an older save back.
SavedNeverShrinks ==
    [][\/ path' = path
       \/ path'.value >= path.value
       \/ loadFailed
       \/ pc' = "down"]_vars

\* The process has a save behind it that failed nowhere.
Saved == pc = "remove" /\ tmp = Absent

\* A shutdown whose save succeeds keeps every event from before the signal, and
\* the next process starts from it, events that came while draining included.
ShutdownKeeps == Saved => path.value >= atSignal /\ path.parses

\* What the next process can read of a file.
Readable(f) == IF Restored(f) THEN <<f.value>> ELSE <<>>

Phase == CASE pc \in {"down", "running"} -> pc
           [] Saved                      -> "saved"
           [] OTHER                      -> "stopping"

Ideal == INSTANCE AtomicSave
    WITH stored <- Readable(path), recoverable <- {Readable(f) : f \in onDisk},
         phase <- Phase, known <- mem, since <- atSignal

\* Whatever fails, and whenever the process or the machine goes down, a save is
\* one step or did not happen, as Stats takes it to be: all of what the process
\* knew at one moment since the signal, there for the next process to read.
ImplementsAtomicSave == Ideal!Spec

\* "defer os.Remove(tmpName)" (persist.go:152): a process leaves its save or at
\* most one temp file, never both and never a second one, wherever it fails or
\* dies; and a save that fails cleans up after itself, unless the process dies
\* before that or os.Remove fails, whose error nobody sees.
TempFilesAccounted ==
    /\ strays + saves + (IF tmp = Absent THEN 0 ELSE 1) <= starts
    /\ strays <= deaths + notRemoved

\* Whatever the file system answers, once the web server has drained, the save
\* ends and with it the process: no answer makes it wait or start again.
ShutdownEnds == pc = "draining" ~> pc = "down"

\* "A SIGKILL or crash loses stats recorded since the last save" (main.go:131):
\* what was saved stays saved as long as the machine keeps running.
SavedStaysSaved == [][path'.value >= path.value \/ pc' = "down"]_vars
=============================================================================
