----------------------------- MODULE SharedParts -----------------------------
(***************************************************************************)
(* What several of them share: the callers' directories of their uploads   *)
(* and a sweep, the QGIS session of the tool threads, the shares' files of *)
(* the service's restarts, the file that paces the runs' requests, and     *)
(* sibyl, which the people who use it share with another sweep.            *)
(***************************************************************************)
EXTENDS Integers

CONSTANTS Callers, Anonymous, Uploads, SentFiles,
          ToolThreads,
          ShareIds, OldKeys,
          Processes, SECONDS_BETWEEN_REQUESTS, MaxReal, MaxSet,
          Chats, Profiles, Cloud, Runs, MaxEvents, MaxSwitches

\* What stands for nobody and for no file is none of the names that are given.
\* Whoever has no token is anonymous: without a secret everybody, and with one
\* nobody who is known.  What is sent under a name with nothing before the
\* extension is refused.
ASSUME SharedAssumption ==
    /\ Anonymous \in Callers => Callers = {Anonymous}
    /\ "server" \notin Uploads
    /\ \A f \in SentFiles : f.stem = "" => f.flaw = "stem"
    /\ "nobody" \notin ToolThreads \cup Processes
    /\ "gone" \notin ShareIds \cup OldKeys
    /\ \A s \in Chats : s \notin Nat  \* a sweep numbers its own sessions
    /\ SECONDS_BETWEEN_REQUESTS \in Nat
    /\ MaxReal \in Nat /\ MaxSet \in Nat

VARIABLES retention, disk, made, upload, stored, sweeping,
          lock, session, failure, built, qgisCall,
          server, old, left, saving, partial, step, file, owed,
          real, offset, turnLock, recorded, proc, turn, misled, gap,
          sessions, active, profile, pc, viewer, named, allowCloud, pinned,
          reported, user, evalSessions, run, calls, pending, accepted, followUps, measured,
          refused, switches, found

fileVars == <<retention, disk, made, upload, stored, sweeping>>
qgisVars == <<lock, session, failure, built, qgisCall>>
shareVars == <<server, old, left, saving, partial, step, file, owed>>
pacingVars == <<real, offset, turnLock, recorded, proc, turn, misled, gap>>
sweepVars == <<sessions, active, profile, pc, viewer, named, allowCloud, pinned,
               reported, user, evalSessions, run, calls, pending, accepted, followUps,
               measured, refused, switches, found>>

Files == INSTANCE CallerFiles WITH Files <- SentFiles
Qgis == INSTANCE QgisSession WITH call <- qgisCall, Threads <- ToolThreads
Links == INSTANCE Shares
Pacing == INSTANCE ExternalPacing WITH lock <- turnLock
Sweep == INSTANCE EvalSweep
             WITH Sessions <- Chats
=============================================================================
