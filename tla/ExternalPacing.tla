--------------------------- MODULE ExternalPacing ---------------------------
(***************************************************************************)
(* The turns in which tool runs send requests to one host of another       *)
(* service (core/external_pacing.py).  Every run is a process of its own:  *)
(* the last turn is kept in a file that they lock.                         *)
(*                                                                         *)
(* Time is real time, and the system's clock, which time.time reads, may   *)
(* be set.  A process may be killed at any step, which frees its lock.     *)
(*                                                                         *)
(* Unlocked and WaitUntilRecorded stand beside Lock and Wait: mistakes     *)
(* that a change could make.                                               *)
(***************************************************************************)
EXTENDS Integers, Sequences, FiniteSetsExt

CONSTANTS Processes,
          SECONDS_BETWEEN_REQUESTS,
          MaxReal,  \* bounds real time
          MaxSet    \* bounds how far the clock is from real time

VARIABLES real,      \* real time
          offset,    \* of the system's clock
          lock,      \* the process that holds the lock, or nobody
          recorded,  \* what the file holds: a time, or nothing
          proc,      \* where a process is, and until when it sleeps
          turn,      \* history: when the last turn was, in real time
          misled,    \* history: the record of that turn was lost, or the clock has
                     \* been put forward since
          gap        \* history: the shortest time between two turns

vars == <<real, offset, lock, recorded, proc, turn, misled, gap>>

Nobody == "nobody"
Empty == <<>>

Clock == real + offset

-----------------------------------------------------------------------------
(* wait_for_turn                                                           *)

Goes(p, pc) == proc' = [proc EXCEPT ![p].pc = pc]

Unlocked(p) ==
    /\ proc[p].pc = "idle"
    /\ lock' = p
    /\ Goes(p, "locked")
    /\ UNCHANGED <<real, offset, recorded, turn, misled, gap>>

Lock(p) == lock = Nobody /\ Unlocked(p)

\* Clocks count from long before any turn, so with nothing recorded there is no wait.
WaitUntilRecorded ==
    IF recorded = Empty THEN 0 ELSE recorded[1] + SECONDS_BETWEEN_REQUESTS - Clock

Wait ==
    IF recorded = Empty THEN 0
    ELSE Min({SECONDS_BETWEEN_REQUESTS, recorded[1] + SECONDS_BETWEEN_REQUESTS - Clock})

Sleep(p) ==
    /\ proc[p].pc = "locked"
    /\ proc' = [proc EXCEPT ![p] = [pc |-> "sleeps", until |-> real + Max({0, Wait})]]
    /\ UNCHANGED <<real, offset, lock, recorded, turn, misled, gap>>

Truncate(p) ==
    /\ proc[p].pc = "sleeps"
    /\ real >= proc[p].until
    /\ recorded' = Empty
    /\ Goes(p, "truncated")
    /\ UNCHANGED <<real, offset, lock, turn, misled, gap>>

\* The turn is recorded and the file closed, which unlocks it.
Record(p) ==
    /\ proc[p].pc = "truncated"
    /\ recorded' = <<Clock>>
    /\ lock' = Nobody
    /\ Goes(p, "idle")
    /\ turn' = real
    /\ misled' = FALSE
    /\ gap' = IF misled THEN gap ELSE Min({gap, real - turn})
    /\ UNCHANGED <<real, offset>>

Kill(p) ==
    /\ proc[p].pc # "idle"
    /\ lock' = Nobody
    /\ Goes(p, "idle")
    /\ misled' = (misled \/ proc[p].pc = "truncated")
    /\ UNCHANGED <<real, offset, recorded, turn, gap>>

-----------------------------------------------------------------------------

Tick ==
    /\ real < MaxReal
    /\ real' = real + 1
    /\ UNCHANGED <<offset, lock, recorded, proc, turn, misled, gap>>

SetClock ==
    /\ offset' \in -MaxSet..MaxSet \ {offset}
    /\ misled' = (misled \/ offset' > offset)
    /\ UNCHANGED <<real, lock, recorded, proc, turn, gap>>

Init ==
    /\ real = 0 /\ offset = 0
    /\ lock = Nobody
    /\ recorded = Empty
    /\ proc = [p \in Processes |-> [pc |-> "idle", until |-> 0]]
    /\ turn = -SECONDS_BETWEEN_REQUESTS
    /\ misled = FALSE
    /\ gap = SECONDS_BETWEEN_REQUESTS

Next ==
    \/ \E p \in Processes : Lock(p) \/ Sleep(p) \/ Truncate(p) \/ Record(p) \/ Kill(p)
    \/ Tick \/ SetClock

Spec == Init /\ [][Next]_vars

-----------------------------------------------------------------------------

\* Two turns are the spacing apart, unless the record of the first one was lost to a
\* kill or the clock was put forward since, and however the clock is set no run is
\* held for longer than the spacing at a time (wait_for_turn).
TurnsApart ==
    /\ gap >= SECONDS_BETWEEN_REQUESTS
    /\ \A p \in Processes :
          proc[p].pc = "sleeps" => proc[p].until - real <= SECONDS_BETWEEN_REQUESTS
=============================================================================
