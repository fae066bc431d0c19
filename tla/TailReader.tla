----------------------------- MODULE TailReader -----------------------------
(***************************************************************************)
(* What ReadFromLog (src/utility/ros-log-utility.go) promises about a log  *)
(* that its node goes on writing: a call behaves as if it read the end of  *)
(* the file at one moment, not before its size was taken.  The lines of a  *)
(* reply are known by the newlines that end them.                          *)
(***************************************************************************)
EXTENDS Integers

CONSTANTS
    Wanted,     \* lines to return
    MaxSize     \* bound: bytes in the file

VARIABLES
    size, newlines,     \* the file
    phase,              \* "idle", "open", "reading", "returned", "failed"
    since,              \* the size of the file when reading began
    reply               \* the newlines that end the lines returned

vars == <<size, newlines, phase, since, reply>>

Init ==
    /\ size = 0
    /\ newlines = {}
    /\ phase = "idle"
    /\ since = 0
    /\ reply = {}

\* Some file is opened.
Open ==
    /\ phase = "idle"
    /\ size' \in 0 .. MaxSize
    /\ newlines' \in SUBSET (0 .. size' - 1)
    /\ phase' = "open"
    /\ UNCHANGED <<since, reply>>

\* The node writes a byte.
Write ==
    /\ phase # "idle"
    /\ size < MaxSize
    /\ size' = size + 1
    /\ newlines' \in {newlines, newlines \cup {size}}
    /\ UNCHANGED <<phase, since, reply>>

Begin ==
    /\ phase = "open"
    /\ since' = size
    /\ phase' = "reading"
    /\ UNCHANGED <<size, newlines, reply>>

\* The set has at least n elements.
AtLeast(n, S) ==
    \E f \in [1 .. n -> S] : \A i, j \in 1 .. n : i # j => f[i] # f[j]

\* The reply is what a reader of the bytes at first .. end - 1 sees: enough
\* lines, or all there are; and what was there when reading began.
Return(first, end) ==
    /\ phase = "reading"
    /\ since <= end /\ end <= size
    /\ reply' = {n \in newlines : first <= n /\ n < end}
    /\ AtLeast(Wanted, reply') \/ first = 0
    /\ phase' = "returned"
    /\ UNCHANGED <<size, newlines, since>>

\* There is no file, or it cannot be read.
Fail ==
    /\ phase \in {"idle", "open", "reading"}
    /\ phase' = "failed"
    /\ since' = 0
    /\ UNCHANGED <<size, newlines, reply>>

\* The next call may be about another file.
Again ==
    /\ phase \in {"returned", "failed"}
    /\ size' = 0 /\ newlines' = {} /\ phase' = "idle" /\ since' = 0 /\ reply' = {}

Next ==
    \/ Open \/ Write \/ Begin \/ Fail \/ Again
    \/ \E first, end \in 0 .. MaxSize : Return(first, end)

Spec == Init /\ [][Next]_vars
=============================================================================
