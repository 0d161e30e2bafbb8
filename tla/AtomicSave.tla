------------------------------ MODULE AtomicSave ------------------------------
(***************************************************************************)
(* What the rest of the bot may think that saving is: one step of a        *)
(* process that was told to stop, which leaves what the process knew at    *)
(* one moment since then, or nothing new.  There are no temp files, no     *)
(* calls of the file system between that step and the next, and no file    *)
(* that is there in part.                                                   *)
(***************************************************************************)
EXTENDS Integers

VARIABLES
    stored,       \* what the next process can read: <<>>, or <<the events of a save>>
    recoverable,  \* what a loss of power may make of it
    phase,        \* of the process: "down", "running", "stopping" or "saved"
    known,        \* the events the process knows of
    since         \* what they were when it was told to stop

vars == <<stored, recoverable, phase, known, since>>

Init ==
    /\ stored = <<>> /\ recoverable = {<<>>}
    /\ phase = "down"
    /\ known = 0 /\ since = 0

\* From what is stored, or from nothing if it cannot be read.
Start ==
    /\ phase = "down" /\ phase' = "running"
    /\ known' = 0 \/ stored = <<known'>>
    /\ since' = 0
    /\ UNCHANGED <<stored, recoverable>>

Learn ==
    /\ phase # "down"
    /\ known' = known + 1
    /\ UNCHANGED <<stored, recoverable, phase, since>>

Stop ==
    /\ phase = "running" /\ phase' = "stopping"
    /\ since' = known
    /\ UNCHANGED <<stored, recoverable, known>>

\* At most once in a process.
Save ==
    /\ phase = "stopping" /\ phase' = "saved"
    /\ \E events \in since .. known : stored' = <<events>>
    /\ recoverable' = recoverable \union {stored'}
    /\ UNCHANGED <<known, since>>

\* With a save behind it or without, on its own or not.
End ==
    /\ phase # "down" /\ phase' = "down"
    /\ UNCHANGED <<stored, recoverable, known, since>>

LosePower ==
    /\ phase' = "down"
    /\ stored' \in recoverable
    /\ recoverable' = {stored'}
    /\ UNCHANGED <<known, since>>

Next == Start \/ Learn \/ Stop \/ Save \/ End \/ LosePower

Spec == Init /\ [][Next]_vars
=============================================================================
