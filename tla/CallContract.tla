----------------------------- MODULE CallContract -----------------------------
(***************************************************************************)
(* What spawn and spawn_local promise to their callers, with no task, no   *)
(* queue and no waker in it: a call's closure runs at most once, it does   *)
(* not start once the handle is gone, an answer tells how the closure      *)
(* ended, and the handle of a closure that borrows from its caller does    *)
(* not go while the closure may still run.  TaskLife implements this.      *)
(***************************************************************************)
CONSTANTS Calls, None

VARIABLES
    handle,   \* handle[c]: "none", "held", "answered", "dropped"
    borrows,  \* calls made with spawn_local
    closure,  \* closure[c]: "unasked", "asked", "running", "ended", "never"
    outcome,  \* outcome[c]: how the closure ended, or None
    answer    \* answer[c]: what the caller was told, or None

vars == <<handle, borrows, closure, outcome, answer>>

Outcomes == {"value", "panic"}

\* A closure that is over does not run any more.  (Dropping its output is no part
\* of this contract.)
Over(c) == closure[c] \in {"ended", "never"}

Init ==
    /\ handle = [c \in Calls |-> "none"]
    /\ borrows = {}
    /\ closure = [c \in Calls |-> "unasked"]
    /\ outcome = [c \in Calls |-> None]
    /\ answer = [c \in Calls |-> None]

\* The call: spawn asks for the closure at once, spawn_local when first polled.
Call(c) ==
    /\ handle[c] = "none"
    /\ handle' = [handle EXCEPT ![c] = "held"]
    /\ \/ borrows' = borrows \cup {c} /\ UNCHANGED closure
       \/ closure' = [closure EXCEPT ![c] = "asked"] /\ UNCHANGED borrows
    /\ UNCHANGED <<outcome, answer>>

Ask(c) ==
    /\ handle[c] = "held" /\ closure[c] = "unasked"
    /\ closure' = [closure EXCEPT ![c] = "asked"]
    /\ UNCHANGED <<handle, borrows, outcome, answer>>

Start(c) ==
    /\ handle[c] = "held" /\ closure[c] = "asked"
    /\ closure' = [closure EXCEPT ![c] = "running"]
    /\ UNCHANGED <<handle, borrows, outcome, answer>>

End(c) ==
    /\ closure[c] = "running"
    /\ closure' = [closure EXCEPT ![c] = "ended"]
    /\ \E how \in Outcomes : outcome' = [outcome EXCEPT ![c] = how]
    /\ UNCHANGED <<handle, borrows, answer>>

\* A closure that was asked for is dropped without running.
Cancel(c) ==
    /\ closure[c] = "asked"
    /\ closure' = [closure EXCEPT ![c] = "never"]
    /\ UNCHANGED <<handle, borrows, outcome, answer>>

Answer(c) ==
    /\ handle[c] = "held" /\ Over(c)
    /\ handle' = [handle EXCEPT ![c] = "answered"]
    /\ answer' = [answer EXCEPT ![c] =
                    IF closure[c] = "ended" THEN outcome[c] ELSE "lost"]
    /\ UNCHANGED <<borrows, closure, outcome>>

\* The caller drops the handle: of a borrowing closure, only when that is over
\* or was never asked for.
Drop(c) ==
    /\ handle[c] = "held"
    /\ handle' = [handle EXCEPT ![c] = "dropped"]
    /\ \/ (c \notin borrows \/ Over(c)) /\ UNCHANGED closure
       \/ closure[c] = "unasked"
          /\ closure' = [closure EXCEPT ![c] = "never"]
    /\ UNCHANGED <<borrows, outcome, answer>>

Next ==
    \E c \in Calls :
        \/ Call(c) \/ Ask(c) \/ Start(c) \/ End(c) \/ Cancel(c)
        \/ Answer(c) \/ Drop(c)

Spec == Init /\ [][Next]_vars
===============================================================================
