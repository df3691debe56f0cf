------------------------------- MODULE Daemon -------------------------------
(***************************************************************************)
(* The daemon (supysonic/daemon/server.py): a thread that carries out one  *)
(* command after the other, the watcher and the scans of the library, the  *)
(* jukebox, the jobs of its scheduler, and terminate, which ends and joins *)
(* them one after the other.                                               *)
(***************************************************************************)
EXTENDS Watcher, Jukebox

CONSTANTS Jobs       \* the jobs of the scheduler (scheduler.py)

VARIABLES
    part,            \* bound: what a behaviour is about, the library or the jukebox
    listening,       \* the thread that accepts commands is alive
    ending,          \* how far terminate has come
    jobs             \* the threads of the scheduler

daemonVars == <<part, listening, ending, jobs>>
allVars == <<watcherVars, jukeboxVars, daemonVars>>

-----------------------------------------------------------------------------
InitDaemon ==
    /\ part \in {"library", "jukebox"}
    /\ listening = TRUE /\ ending = "no"
    /\ jobs = [j \in Jobs |-> "waiting"]
    /\ InitWatcher /\ InitJukebox

\* Nothing catches what a command raises: a skip beyond the list is the last
\* command that is carried out.
BadSkip ==
    /\ part = "jukebox" /\ listening /\ command = <<>> /\ commands < MaxCommands
    /\ listening' = FALSE
    /\ UNCHANGED <<watcherVars, jukeboxVars, part, ending, jobs>>

JobStarts(j) ==
    /\ jobs[j] = "waiting"
    /\ jobs' = [jobs EXCEPT ![j] = IF ending \in {"no", "scan", "watch"} THEN "running"
                                   ELSE "ended"]
    /\ UNCHANGED <<watcherVars, jukeboxVars, part, listening, ending>>

JobEnds(j) ==
    /\ jobs[j] = "running" /\ jobs' = [jobs EXCEPT ![j] = "waiting"]
    /\ UNCHANGED <<watcherVars, jukeboxVars, part, listening, ending>>

-----------------------------------------------------------------------------
\* terminate connects to the listener, which has to answer.
Terminate ==
    /\ ending = "no" /\ listening /\ command = <<>>
    /\ ending' = "scan" /\ listening' = FALSE
    /\ stopped' = TRUE
    /\ UNCHANGED <<diskVars, trackVars, watchVars, worker, scan, scans, astray,
                   jukeboxVars, part, jobs>>

\* The scan has ended: the observer is stopped, then the queue.
StopWatcher ==
    /\ ending = "scan" /\ scan.phase = "off"
    /\ ending' = "watch"
    /\ open' = FALSE /\ notes' = <<>>
    /\ astray' = astray \cup UNION {{e.path, e.src} : e \in ToSet(notes)}
    /\ UNCHANGED <<diskVars, trackVars, watched, queue, worker, scan, scans, stopped,
                   jukeboxVars, part, listening, jobs>>

StopScheduler ==
    /\ ending = "watch" /\ worker.phase = "ended"
    /\ ending' = "jobs"
    /\ UNCHANGED <<watcherVars, jukeboxVars, part, listening, jobs>>

StopJukebox ==
    /\ ending = "jobs" /\ \A j \in Jobs : jobs[j] = "ended"
    /\ ending' = "jukebox" /\ stopping' = TRUE
    /\ UNCHANGED <<watcherVars, list, index, skipping, thread, player, command,
                   commands, mixedUp, part, listening, jobs>>

Terminated ==
    /\ ending = "jukebox" /\ thread = "none"
    /\ ending' = "done"
    /\ UNCHANGED <<watcherVars, jukeboxVars, part, listening, jobs>>

NextDaemon ==
    \/ NextWatcher /\ (changes' # changes => part = "library")
       /\ UNCHANGED <<jukeboxVars, daemonVars>>
    \/ listening /\ part = "library" /\ StartScan /\ UNCHANGED <<jukeboxVars, daemonVars>>
    \/ /\ NextJukebox /\ (commands' # commands => listening /\ part = "jukebox")
       /\ UNCHANGED <<watcherVars, daemonVars>>
    \/ BadSkip
    \/ \E j \in Jobs : JobStarts(j) \/ JobEnds(j)
    \/ Terminate \/ StopWatcher \/ StopScheduler \/ StopJukebox \/ Terminated

SpecDaemon == InitDaemon /\ [][NextDaemon]_allVars

=============================================================================
