-------------------------- MODULE PersistenceProofs --------------------------
(***************************************************************************)
(* For any number of events, processes, crashes and losses of power: the   *)
(* stats file is never partial, a process that could read the file never   *)
(* replaces it by less, a save is one step, as AtomicSave has it, which     *)
(* keeps what came before the signal, and temp files stay only where a      *)
(* process died or os.Remove failed.                                        *)
(*                                                                         *)
(* The strengthening says what each step of a save has already secured: the *)
(* temp file is whole before it is synced, both before it is renamed, and   *)
(* what it holds is no less than what the file held when the process began. *)
(***************************************************************************)
EXTENDS Persistence, TLAPS

Typed ==
    /\ path \in Files \union {Absent}
    /\ onDisk \subseteq Files \union {Absent}
    /\ tmp \in Files \union {Absent}
    /\ pc \in Steps
    /\ mem \in 0 .. MaxEvents /\ data \in 0 .. MaxEvents /\ atSignal \in 0 .. MaxEvents
    /\ loadFailed \in BOOLEAN
    /\ starts \in Nat /\ deaths \in Nat /\ strays \in Nat

\* All that a power loss can bring back has reached the disk.
Durable ==
    /\ path.whole /\ path.synced
    /\ \A f \in onDisk : f.whole /\ f.synced

TempStages ==
    /\ pc \in {"down", "running", "draining", "create"} => tmp = Absent
    /\ pc \in {"write", "sync", "close", "rename"} => tmp \in Files /\ tmp.value = data
    /\ pc \in {"sync", "close", "rename"} => tmp.whole /\ tmp.parses
    /\ pc \in {"close", "rename"} => tmp.synced

Knows ==
    /\ pc \notin {"down", "running"} => mem >= atSignal
    /\ pc \in SaveSteps => mem >= data /\ data >= atSignal
    /\ pc # "down" /\ ~loadFailed => mem >= path.value
    /\ pc \in SaveSteps /\ ~loadFailed => data >= path.value

Inv == Typed /\ Durable /\ TempStages /\ Knows /\ ShutdownKeeps

LEMMA AbsentIsNoFile == Absent \notin Files
BY DEF Absent, Files

LEMMA FileValue == \A f \in Files \union {Absent} : f.value \in Nat
BY PersistenceAssumption DEF Files, Absent

LEMMA InitInv == Init => Inv
<1> SUFFICES ASSUME Init PROVE Inv
  OBVIOUS
<1>1. path \in Files \union {Absent} /\ path.whole /\ path.synced /\ path.value = 0
  <2>1. Absent.whole /\ Absent.synced /\ Absent.value = 0
    BY DEF Absent
  <2>2. Foreign \in Files /\ Foreign.whole /\ Foreign.synced /\ Foreign.value = 0
    BY PersistenceAssumption DEF Foreign, Files
  <2> QED BY <2>1, <2>2 DEF Init
<1>2. /\ onDisk = {path} /\ tmp = Absent /\ strays = 0 /\ pc = "down"
      /\ mem = 0 /\ data = 0 /\ atSignal = 0
      /\ loadFailed = FALSE /\ starts = 0 /\ deaths = 0
  BY DEF Init
<1>3. Typed
  <2>1. 0 \in 0 .. MaxEvents
    BY PersistenceAssumption
  <2>2. pc \in Steps /\ loadFailed \in BOOLEAN
    BY <1>2 DEF Steps
  <2> QED BY <1>1, <1>2, <2>1, <2>2 DEF Typed
<1>4. Durable
  BY <1>1, <1>2 DEF Durable
<1> QED BY <1>2, <1>3, <1>4 DEF Inv, TempStages, Knows, ShutdownKeeps, Saved, SaveSteps

LEMMA StartInv ==
  ASSUME Inv, NEW readable \in BOOLEAN, Start(readable)
  PROVE  Inv'
<1>1. /\ pc' = "running" /\ pc = "down"
      /\ UNCHANGED <<path, onDisk, tmp, strays, deaths>>
      /\ data' = 0 /\ atSignal' = 0
      /\ starts' = starts + 1
  BY DEF Start, Goto, fileVars
<1>2. \/ mem' = path.value /\ path \in Files
      \/ mem' = 0 /\ (loadFailed' \/ path = Absent)
  BY DEF Start, Imported, Restored, Inv, Typed
<1>3. mem' \in 0 .. MaxEvents /\ (~loadFailed' => mem' >= path.value)
  BY <1>2, FileValue, PersistenceAssumption DEF Files, Absent, Inv, Typed
<1>4. loadFailed' \in BOOLEAN
  BY DEF Start
<1>5. Typed'
  BY <1>1, <1>3, <1>4, PersistenceAssumption DEF Inv, Typed, Steps
<1> QED BY <1>1, <1>3, <1>5 DEF Inv, Durable, TempStages, Knows, ShutdownKeeps, Saved, SaveSteps

LEMMA RecordInv == ASSUME Inv, Record PROVE Inv'
<1>1. /\ mem' = mem + 1 /\ mem < MaxEvents
      /\ UNCHANGED <<path, onDisk, tmp, strays, pc, data, atSignal, loadFailed, starts, deaths>>
  BY DEF Record, fileVars
<1>2. Typed'
  BY <1>1, PersistenceAssumption DEF Inv, Typed
<1>3. path.value \in Nat
  BY FileValue DEF Inv, Typed
<1>4. Knows'
  BY <1>1, <1>3, PersistenceAssumption DEF Inv, Typed, Knows
<1> QED BY <1>1, <1>2, <1>4 DEF Inv, Durable, TempStages, ShutdownKeeps, Saved

LEMMA SignalInv == ASSUME Inv, Signal PROVE Inv'
<1>1. /\ pc = "running" /\ pc' = "draining" /\ atSignal' = mem
      /\ UNCHANGED <<path, onDisk, tmp, strays, mem, data, loadFailed, starts, deaths>>
  BY DEF Signal, Goto, fileVars
<1>2. Typed'
  BY <1>1 DEF Inv, Typed, Steps
<1>3. Knows'
  BY <1>1, PersistenceAssumption DEF Inv, Typed, Knows, SaveSteps
<1> QED BY <1>1, <1>2, <1>3 DEF Inv, Durable, TempStages, ShutdownKeeps, Saved

LEMMA ExportInv == ASSUME Inv, Export PROVE Inv'
<1>1. /\ pc = "draining" /\ pc' = "create" /\ data' = mem
      /\ UNCHANGED <<path, onDisk, tmp, strays, mem, atSignal, loadFailed, starts, deaths>>
  BY DEF Export, Goto, fileVars
<1>2. Typed'
  BY <1>1 DEF Inv, Typed, Steps, SaveSteps
<1>3. Knows'
  BY <1>1, PersistenceAssumption DEF Inv, Typed, Knows
<1> QED BY <1>1, <1>2, <1>3 DEF Inv, Durable, TempStages, ShutdownKeeps, Saved

\* A step of a save that touches only the temp file.
LEMMA TempStepInv ==
  ASSUME Inv, CreateTemp \/ Write \/ Sync \/ Close
  PROVE  Inv'
<1>1. UNCHANGED <<path, onDisk, strays, mem, data, atSignal, loadFailed, starts, deaths>>
  BY DEF CreateTemp, Write, Sync, Close, InSave, fileVars
<1>2. pc \in SaveSteps /\ pc # "remove" /\ pc' \in SaveSteps \union {"down"} /\ pc' \in Steps
  BY DEF CreateTemp, Write, Sync, Close, Goto, SaveSteps, Steps
<1>3. tmp' \in Files \union {Absent} /\ TempStages' /\ (pc' = "remove" => tmp' # Absent)
  <2>1. CASE CreateTemp
    <3>1. data' = data /\ data \in 0 .. MaxEvents /\ tmp \in Files \union {Absent}
      BY <1>1 DEF Inv, Typed
    <3>2. CASE pc' = "write" /\ tmp' = [value |-> data, parses |-> FALSE, whole |-> FALSE, synced |-> FALSE]
      <4>1. tmp' \in Files /\ tmp'.value = data
        BY <3>1, <3>2 DEF Files
      <4> QED BY <3>1, <3>2, <4>1 DEF TempStages
    <3>3. CASE pc = "create" /\ pc' = "down" /\ tmp' = tmp
      BY <3>1, <3>3 DEF Inv, TempStages
    <3> QED BY <2>1, <3>2, <3>3 DEF CreateTemp, Goto
  <2>2. CASE Write
    BY <2>2, <1>1, AbsentIsNoFile DEF Write, Goto, Inv, Typed, TempStages, Files
  <2>3. CASE Sync
    BY <2>3, <1>1, AbsentIsNoFile DEF Sync, Goto, Inv, Typed, TempStages, Files
  <2>4. CASE Close
    BY <2>4, <1>1, AbsentIsNoFile DEF Close, Goto, Inv, Typed, TempStages, fileVars
  <2> QED BY <2>1, <2>2, <2>3, <2>4
<1>4. Typed'
  BY <1>1, <1>2, <1>3 DEF Inv, Typed
<1>5. Knows'
  BY <1>1, <1>2 DEF Inv, Knows, SaveSteps
<1> QED BY <1>1, <1>2, <1>3, <1>4, <1>5 DEF Inv, Durable, ShutdownKeeps, Saved

LEMMA RenameInv == ASSUME Inv, Rename PROVE Inv'
<1>1. /\ pc = "rename" /\ pc' = "remove"
      /\ UNCHANGED <<strays, mem, data, atSignal, loadFailed, starts, deaths>>
  BY DEF Rename, Goto, InSave
<1>2. tmp \in Files /\ tmp.value = data /\ tmp.whole /\ tmp.parses /\ tmp.synced
  BY <1>1 DEF Inv, TempStages
<1>3. mem >= data /\ data >= atSignal
  BY <1>1 DEF Inv, Knows, SaveSteps
<1>4. CASE path' = tmp /\ onDisk' = onDisk \union {tmp} /\ tmp' = Absent
  <2>1. Typed'
    BY <1>1, <1>2, <1>4 DEF Inv, Typed, Steps, SaveSteps
  <2>2. Knows'
    BY <1>1, <1>2, <1>3, <1>4 DEF Inv, Typed, Knows, SaveSteps
  <2>3. Durable' /\ TempStages' /\ ShutdownKeeps'
    BY <1>1, <1>2, <1>3, <1>4 DEF Inv, Durable, TempStages, ShutdownKeeps
  <2> QED BY <1>1, <2>1, <2>2, <2>3 DEF Inv
<1>5. CASE UNCHANGED <<path, onDisk, tmp>>
  <2>1. Typed'
    BY <1>1, <1>5 DEF Inv, Typed, Steps, SaveSteps
  <2>2. Knows'
    BY <1>1, <1>5 DEF Inv, Knows, SaveSteps
  <2> QED BY <1>1, <1>2, <1>5, <2>1, <2>2, AbsentIsNoFile
          DEF Inv, Durable, TempStages, ShutdownKeeps, Saved
<1> QED BY <1>4, <1>5 DEF Rename

\* The process ends, by itself or not, and leaves the file to the next one.
LEMMA EndInv ==
  ASSUME Inv, Remove \/ Crash \/ PowerLoss
  PROVE  Inv'
<1>1. pc' = "down" /\ tmp' = Absent /\ UNCHANGED <<mem, data, atSignal, loadFailed, starts>>
  BY DEF Remove, Crash, PowerLoss, Goto, InSave
<1>2. path' \in Files \union {Absent} /\ onDisk' \subseteq Files \union {Absent} /\ Durable'
  <2>1. CASE UNCHANGED <<path, onDisk>>
    BY <2>1 DEF Inv, Typed, Durable
  <2>2. CASE PowerLoss
    <3>1. PICK f \in onDisk : path' \in AfterPowerLoss(f)
      BY <2>2 DEF PowerLoss
    <3>2. f.synced /\ f.whole /\ f \in Files \union {Absent}
      BY DEF Inv, Durable, Typed
    <3>3. path' = f /\ onDisk' = {f}
      BY <2>2, <3>1, <3>2 DEF AfterPowerLoss, PowerLoss
    <3> QED BY <3>2, <3>3 DEF Durable
  <2> QED BY <2>1, <2>2 DEF Remove, Crash
<1>3. strays' \in Nat /\ deaths' \in Nat
  <2>1. strays \in Nat /\ deaths \in Nat
    BY DEF Inv, Typed
  <2>2. Stray \in {strays, strays + 1}
    BY DEF Stray
  <2> QED BY <2>1, <2>2 DEF Remove, Crash, PowerLoss, InSave
<1>4. Typed'
  BY <1>1, <1>2, <1>3 DEF Inv, Typed, Steps
<1> QED BY <1>1, <1>2, <1>3, <1>4 DEF Inv, TempStages, Knows, ShutdownKeeps, Saved, SaveSteps

LEMMA StepInv == Inv /\ [Next]_vars => Inv'
<1> SUFFICES ASSUME Inv, [Next]_vars PROVE Inv'
  OBVIOUS
<1>1. CASE UNCHANGED vars
  BY <1>1 DEF vars, fileVars, Inv, Typed, Durable, TempStages, Knows, ShutdownKeeps, Saved
<1> QED BY <1>1, StartInv, RecordInv, SignalInv, ExportInv, TempStepInv, RenameInv, EndInv
        DEF Next, SaveStep

LEMMA Invariance == Spec => []Inv
<1> QED BY InitInv, StepInv, PTL DEF Spec

\* Whatever crashes and losses of power do, the stats file is never partial
\* (persist.go:42-44).
THEOREM FileNeverPartial == Spec => []PathWhole
<1>1. Inv => PathWhole
  BY DEF Inv, Durable, PathWhole
<1> QED BY <1>1, Invariance, PTL

\* A shutdown whose save succeeds keeps every event from before the signal.
THEOREM ShutdownLosesNothing == Spec => []ShutdownKeeps
<1>1. Inv => ShutdownKeeps
  BY DEF Inv
<1> QED BY <1>1, Invariance, PTL

\* A process that could read the file never replaces it by one that knows less.
THEOREM SavesOnlyGrow == Spec => SavedNeverShrinks
<1>1. ASSUME Inv, [Next]_vars
      PROVE  [\/ path' = path
              \/ path'.value >= path.value
              \/ loadFailed
              \/ pc' = "down"]_vars
  <2>1. CASE Rename
    <3>1. pc = "rename" /\ (path' = tmp \/ path' = path)
      BY <2>1 DEF Rename, Goto
    <3>2. tmp.value = data /\ (~loadFailed => data >= path.value)
      BY <1>1, <3>1 DEF Inv, TempStages, Knows, SaveSteps
    <3> QED BY <3>1, <3>2 DEF Inv, Typed
  <2>2. CASE PowerLoss
    BY <2>2 DEF PowerLoss
  <2>3. CASE UNCHANGED path
    BY <2>3
  <2>4. CASE UNCHANGED vars
    BY <2>4
  <2> QED BY <1>1, <2>1, <2>2, <2>3, <2>4
          DEF Next, SaveStep, Start, Record, Signal, Export, CreateTemp, Write, Sync, Close, Remove, Crash,
              fileVars
<1> QED BY <1>1, Invariance, PTL DEF Spec, SavedNeverShrinks

-----------------------------------------------------------------------------
(* The temp files.                                                         *)

\* Until it creates its temp file a process has left nothing behind.
Accounted ==
    /\ saves \in Nat /\ notRemoved \in Nat
    /\ TempFilesAccounted
    /\ pc \in {"running", "draining", "create"} => strays + saves < starts

\* What the process holds: its temp file, or nothing.
Held == IF tmp = Absent THEN 0 ELSE 1

LEMMA HeldAt ==
  ASSUME Inv
  PROVE  /\ pc \in {"down", "running", "draining", "create"} => Held = 0
         /\ pc \in {"write", "sync", "close", "rename"} => Held = 1
         /\ Held \in {0, 1}
         /\ Stray = strays + Held
BY AbsentIsNoFile DEF Held, Stray, Inv, Typed, TempStages

LEMMA AccountedStep ==
  ASSUME Inv, Inv', Accounted, [Next]_vars
  PROVE  Accounted'
<1>1. /\ strays \in Nat /\ saves \in Nat /\ starts \in Nat /\ deaths \in Nat /\ notRemoved \in Nat
      /\ Held = 0 \/ Held = 1
      /\ Held' = 0 \/ Held' = 1
      /\ strays + saves + Held <= starts /\ strays <= deaths + notRemoved
      /\ pc \in {"running", "draining", "create"} => strays + saves < starts
  BY DEF Inv, Typed, Accounted, TempFilesAccounted, Held
<1>2. SUFFICES /\ saves' \in Nat /\ notRemoved' \in Nat
               /\ strays' + saves' + Held' <= starts' /\ strays' <= deaths' + notRemoved'
               /\ pc' \in {"running", "draining", "create"} => strays' + saves' < starts'
  BY DEF Accounted, TempFilesAccounted, Held
<1>3. ASSUME NEW readable \in BOOLEAN, Start(readable) PROVE Accounted'
  BY <1>1, <1>3 DEF Start, Goto, fileVars, Accounted, TempFilesAccounted, Held
<1>4. CASE Record \/ UNCHANGED vars
  BY <1>1, <1>4 DEF Record, vars, fileVars, Held
<1>5. CASE Signal \/ Export
  BY <1>1, <1>5, HeldAt DEF Signal, Export, Goto, fileVars, Held
<1>6. CASE CreateTemp
  <2>1. pc = "create" /\ pc' \in {"write", "down"}
    BY <1>6 DEF CreateTemp, Goto
  <2>2. /\ strays' = strays /\ saves' = saves /\ starts' = starts
        /\ deaths' = deaths /\ notRemoved' = notRemoved
    BY <1>6 DEF CreateTemp, InSave
  <2>3. strays + saves < starts
    BY <1>1, <2>1
  <2>4. strays + saves + Held' <= starts
    BY <1>1, <2>3
  <2>5. pc' \notin {"running", "draining", "create"}
    BY <2>1
  <2> QED BY <1>1, <2>2, <2>4, <2>5
<1>7. CASE Write \/ Sync \/ Close
  <2>1. pc \in {"write", "sync", "close"} /\ pc' \notin {"running", "draining", "create"}
    BY <1>7 DEF Write, Sync, Close, Goto
  <2>2. /\ strays' = strays /\ saves' = saves /\ starts' = starts
        /\ deaths' = deaths /\ notRemoved' = notRemoved
    BY <1>7 DEF Write, Sync, Close, InSave, fileVars
  <2>3. Held = 1
    BY <2>1, HeldAt
  <2>4. strays + saves + Held' <= starts
    BY <1>1, <2>3
  <2> QED BY <1>1, <2>1, <2>2, <2>4
<1>8. CASE Rename
  <2>1. pc = "rename" /\ pc' = "remove" /\ UNCHANGED <<strays, starts, deaths, notRemoved>>
    BY <1>8 DEF Rename, Goto, InSave
  <2>2. Held = 1
    BY <2>1, HeldAt
  <2>3. \/ saves' = saves + 1 /\ Held' = 0
        \/ saves' = saves /\ Held' = Held
    BY <1>8 DEF Rename, Held
  <2> QED BY <1>1, <2>1, <2>2, <2>3
<1>9. CASE Remove \/ Crash \/ PowerLoss
  <2>1. pc' = "down" /\ Held' = 0 /\ UNCHANGED <<saves, starts>>
    BY <1>9 DEF Remove, Crash, PowerLoss, Goto, InSave, Held
  <2>2. Held \in {0, 1} /\ Stray = strays + Held /\ (pc = "down" => Held = 0)
    BY HeldAt
  <2>3. tmp # Absent => Held = 1
    BY DEF Held
  <2>4. CASE Remove
    <3>1. deaths' = deaths
      BY <2>4 DEF Remove, InSave
    <3>2. \/ strays' = strays /\ notRemoved' = notRemoved
          \/ Held = 1 /\ strays' = strays + 1 /\ notRemoved' = notRemoved + 1
      BY <2>3, <2>4 DEF Remove
    <3> QED BY <1>1, <2>1, <2>2, <3>1, <3>2
  <2>5. CASE Crash \/ PowerLoss
    <3>1. notRemoved' = notRemoved /\ (strays' = strays \/ strays' = strays + Held)
      BY <2>2, <2>5 DEF Crash, PowerLoss
    <3>2. deaths' = IF pc = "down" THEN deaths ELSE deaths + 1
      BY <2>5 DEF Crash, PowerLoss
    <3> QED BY <1>1, <2>1, <2>2, <3>1, <3>2
  <2> QED BY <1>9, <2>4, <2>5
<1> QED BY <1>2, <1>3, <1>4, <1>5, <1>6, <1>7, <1>8, <1>9
        DEF Next, SaveStep, Accounted, TempFilesAccounted, Held

LEMMA AccountedAlways == Spec => []Accounted
<1>1. Init => Accounted
  BY DEF Init, Accounted, TempFilesAccounted
<1> QED BY <1>1, Invariance, AccountedStep, PTL DEF Spec

\* A process leaves its save or one temp file, and the file only if the process
\* died or os.Remove failed.
THEOREM TempFilesBounded == Spec => []TempFilesAccounted
<1>1. Accounted => TempFilesAccounted
  BY DEF Accounted
<1> QED BY <1>1, AccountedAlways, PTL

\* Every variable stays within its range.
THEOREM PersistenceTypes == Spec => []TypeOK
<1>1. Inv /\ Accounted => TypeOK
  BY DEF Inv, Typed, Accounted, TypeOK
<1> QED BY <1>1, Invariance, AccountedAlways, PTL

-----------------------------------------------------------------------------
\* At first there is nothing to read.
LEMMA InitIsIdeal == Init => Ideal!Init
<1> SUFFICES ASSUME Init PROVE Ideal!Init
  OBVIOUS
<1>1. Readable(path) = <<>>
  BY DEF Init, Readable, Restored, Absent, Foreign
<1>2. {Readable(f) : f \in onDisk} = {<<>>}
  BY <1>1 DEF Init
<1>3. Phase = "down" /\ mem = 0 /\ atSignal = 0
  BY DEF Init, Phase, Saved
<1> QED BY <1>1, <1>2, <1>3 DEF Ideal!Init

\* The phase at each step of the process.
LEMMA PhaseIs ==
  ASSUME Inv
  PROVE  /\ pc = "down" <=> Phase = "down"
         /\ pc = "running" <=> Phase = "running"
         /\ pc \in {"draining", "create", "write", "sync", "close", "rename"} => Phase = "stopping"
         /\ pc = "remove" /\ tmp = Absent => Phase = "saved"
         /\ pc = "remove" /\ tmp # Absent => Phase = "stopping"
  BY DEF Phase, Saved, Inv, Typed, Steps, SaveSteps

\* As long as the files that path names or may name stay, so does what can be read.
LEMMA FilesKept ==
  ASSUME UNCHANGED <<path, onDisk>>
  PROVE  UNCHANGED <<Readable(path), {Readable(f) : f \in onDisk}>>
  BY DEF Readable, Restored

\* The rename is the save: the temp file holds all of an export made since the
\* signal.
LEMMA RenameIsSave ==
  ASSUME Inv, Inv', Rename
  PROVE  Ideal!Save \/ UNCHANGED Ideal!vars
<1>1. pc = "rename" /\ pc' = "remove" /\ UNCHANGED <<mem, atSignal>> /\ Phase = "stopping"
  BY PhaseIs DEF Rename, Goto, InSave
<1>2. tmp \in Files /\ tmp.whole /\ tmp.parses /\ tmp.value = data
  BY <1>1 DEF Inv, TempStages
<1>3. data \in atSignal .. mem
  BY <1>1 DEF Inv, Typed, Knows, SaveSteps
<1>4. CASE path' = tmp /\ onDisk' = onDisk \union {tmp} /\ tmp' = Absent
  <2>1. Readable(tmp) = <<data>>
    BY <1>2, AbsentIsNoFile DEF Readable, Restored
  <2>2. Readable(path)' = <<data>>
    BY <1>4, <2>1 DEF Readable, Restored
  <2>3. {Readable(f) : f \in onDisk}' = {Readable(f) : f \in onDisk} \union {Readable(path)'}
    BY <1>4 DEF Readable, Restored
  <2>4. Phase' = "saved"
    BY <1>1, <1>4 DEF Phase, Saved
  <2>5. \E events \in atSignal .. mem : Readable(path)' = <<events>>
    BY <1>3, <2>2
  <2> QED BY <1>1, <2>3, <2>4, <2>5 DEF Ideal!Save
<1>5. CASE UNCHANGED <<path, onDisk, tmp>>
  <2>1. Phase' = "stopping"
    BY <1>1, <1>2, <1>5, AbsentIsNoFile DEF Phase, Saved
  <2> QED BY <1>1, <1>5, <2>1, FilesKept DEF Ideal!vars
<1> QED BY <1>4, <1>5 DEF Rename

\* What has reached the disk is there after a loss of power as it was.
LEMMA PowerLossIsIdeal ==
  ASSUME Inv, PowerLoss
  PROVE  Ideal!LosePower
<1>1. PICK f \in onDisk : path' \in AfterPowerLoss(f)
  BY DEF PowerLoss
<1>2. path' = f
  BY <1>1 DEF AfterPowerLoss, Inv, Durable
<1>3. Readable(path)' \in {Readable(g) : g \in onDisk}
  BY <1>2 DEF Readable, Restored
<1>4. {Readable(g) : g \in onDisk}' = {Readable(path)'}
  BY DEF PowerLoss, Readable, Restored
<1>5. Phase' = "down" /\ UNCHANGED <<mem, atSignal>>
  BY DEF PowerLoss, Phase, Saved
<1> QED BY <1>3, <1>4, <1>5 DEF Ideal!LosePower

\* Every other step of a save and of the process leaves what is stored alone.
LEMMA StepIsIdeal ==
  ASSUME Inv, Inv', [Next]_vars
  PROVE  [Ideal!Next]_(Ideal!vars)
<1>1. ASSUME NEW readable \in BOOLEAN, Start(readable) PROVE Ideal!Start
  <2>1. /\ pc = "down" /\ pc' = "running" /\ UNCHANGED <<path, onDisk>> /\ atSignal' = 0
        /\ mem' = IF readable /\ Restored(path) THEN path.value ELSE 0
    BY <1>1 DEF Start, Goto, fileVars, Imported
  <2>2. Phase = "down" /\ Phase' = "running"
    BY <2>1 DEF Phase, Saved
  <2>3. mem' = 0 \/ Readable(path) = <<mem'>>
    BY <2>1 DEF Readable
  <2> QED BY <2>1, <2>2, <2>3, FilesKept DEF Ideal!Start
<1>2. CASE Record
  <2>1. pc # "down" /\ mem' = mem + 1 /\ UNCHANGED <<path, onDisk, tmp, pc, atSignal>>
    BY <1>2 DEF Record, fileVars
  <2>2. Phase' = Phase /\ Phase # "down"
    BY <2>1, PhaseIs DEF Phase, Saved
  <2> QED BY <2>1, <2>2, FilesKept DEF Ideal!Next, Ideal!Learn
<1>3. CASE Signal
  <2>1. pc = "running" /\ pc' = "draining" /\ atSignal' = mem /\ UNCHANGED <<path, onDisk, mem>>
    BY <1>3 DEF Signal, Goto, fileVars
  <2>2. Phase = "running" /\ Phase' = "stopping"
    BY <2>1 DEF Phase, Saved
  <2> QED BY <2>1, <2>2, FilesKept DEF Ideal!Next, Ideal!Stop
<1>4. CASE Export \/ CreateTemp \/ Write \/ Sync \/ Close
  <2>1. UNCHANGED <<path, onDisk, mem, atSignal>>
    BY <1>4 DEF Export, CreateTemp, Write, Sync, Close, InSave, fileVars
  <2>2. pc \in {"draining", "create", "write", "sync", "close"}
    BY <1>4 DEF Export, CreateTemp, Write, Sync, Close, Goto
  <2>3. Phase = "stopping"
    BY <2>2, PhaseIs
  <2>4. CASE pc' = "down"
    <3>1. Phase' = "down"
      BY <2>4 DEF Phase, Saved
    <3> QED BY <2>1, <2>3, <3>1, FilesKept DEF Ideal!Next, Ideal!End
  <2>5. CASE pc' # "down"
    <3>1. \/ pc' \in {"create", "write", "sync", "close", "rename"}
          \/ pc' = "remove" /\ tmp' # Absent
      <4>1. pc \in {"write", "sync", "close"} => tmp \in Files
        BY DEF Inv, TempStages
      <4>2. pc' = "remove" => tmp' \in Files
        BY <1>4, <4>1 DEF Export, CreateTemp, Write, Sync, Close, Goto, fileVars
      <4>3. pc' \in {"create", "write", "sync", "close", "rename", "remove"}
        BY <1>4, <2>5 DEF Export, CreateTemp, Write, Sync, Close, Goto
      <4> QED BY <4>2, <4>3, AbsentIsNoFile
    <3>2. Phase' = "stopping"
      BY <3>1 DEF Phase, Saved
    <3> QED BY <2>1, <2>3, <3>2, FilesKept DEF Ideal!vars
  <2> QED BY <2>4, <2>5
<1>5. CASE Rename
  BY <1>5, RenameIsSave DEF Ideal!Next
<1>6. CASE Remove \/ Crash
  <2>1. pc # "down" /\ pc' = "down" /\ UNCHANGED <<path, onDisk, mem, atSignal>>
    BY <1>6 DEF Remove, Crash, Goto, InSave
  <2>2. Phase # "down" /\ Phase' = "down"
    BY <2>1, PhaseIs DEF Phase, Saved
  <2> QED BY <2>1, <2>2, FilesKept DEF Ideal!Next, Ideal!End
<1>7. CASE PowerLoss
  BY <1>7, PowerLossIsIdeal DEF Ideal!Next
<1>8. CASE UNCHANGED vars
  <2>1. UNCHANGED <<path, onDisk, tmp, pc, mem, atSignal>>
    BY <1>8 DEF vars, fileVars
  <2>2. Phase' = Phase
    BY <2>1 DEF Phase, Saved
  <2> QED BY <2>1, <2>2, FilesKept DEF Ideal!vars
<1> QED BY <1>1, <1>2, <1>3, <1>4, <1>5, <1>6, <1>7, <1>8 DEF Next, SaveStep, Ideal!Next

\* A save is one step, whatever fails and whenever the process or the machine goes
\* down: the rename is that step, and all of it was on the disk before.
THEOREM SavingIsAtomic == Spec => ImplementsAtomicSave
<1>1. Inv /\ Inv' /\ [Next]_vars => [Ideal!Next]_(Ideal!vars)
  BY StepIsIdeal
<1> QED BY <1>1, InitIsIdeal, Invariance, PTL DEF Spec, ImplementsAtomicSave, Ideal!Spec
=============================================================================
