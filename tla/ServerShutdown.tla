--------------------------- MODULE ServerShutdown ---------------------------
(***************************************************************************)
(* Stopping the server (zbx_on_exit of src/zabbix_server/server.c, the     *)
(* signal handlers of src/libs/zbxnix/daemon.c) while the history cache is *)
(* in use.  The parent process signals every child and a child exits where *)
(* it stands: its batch dies with it, and so does the semaphore if it is   *)
(* between LOCK_CACHE and UNLOCK_CACHE, because semop is called without    *)
(* SEM_UNDO (src/libs/zbxsys/mutexs.c).  The parent then writes what is    *)
(* left in the cache (DCsync_all) and frees it (free_database_cache).      *)
(***************************************************************************)
EXTENDS HistoryCache

CONSTANT Parent         \* the main process, the only one that calls DCsync_all

ASSUME ShutdownAssumption == FullSyncers = {Parent}

VARIABLES
    server,             \* "up", "stopping" or "stopped"
    dead                \* the processes that have exited; their memory is theirs no more

allVars == <<vars, server, dead>>

Children == Procs \ {Parent}

ShutdownInit ==
    /\ Init
    /\ server = "up"
    /\ dead = {}

(* A step of a process that has not exited.                                *)
ProcessStep(p) ==
    /\ p \notin dead
    /\ \/ p \in Producers /\ Report(p)
       \/ p \in Syncers /\ Syslog(p)
       \/ AddStep(p)
       \/ p \in Syncers /\ SyncStep(p)
    /\ UNCHANGED <<server, dead>>

(* SIGTERM for the main process, or SIGCHLD because a child has died.      *)
Stop ==
    /\ server = "up"
    /\ server' = "stopping"
    /\ UNCHANGED <<vars, dead>>

(* child_signal_handler: exit(FAIL), wherever the process is.  What it was *)
(* adding is gone, its database transaction is rolled back, and a          *)
(* semaphore it holds stays taken.                                         *)
Terminate(p) ==
    /\ server = "stopping"
    /\ p \notin dead
    /\ dead' = dead \cup {p}
    /\ UNCHANGED <<vars, server>>

(* The two seconds of zbx_sleep(2) have passed and the children are gone:  *)
(* free_database_cache calls DCsync_all.                                   *)
DCsync_all ==
    /\ server = "stopping"
    /\ pc[Parent] = "off"
    /\ Children \subseteq dead
    /\ pc' = [pc EXCEPT ![Parent] = "sync_start"]
    /\ UNCHANGED <<ring, arena, cache_lock, pend, scan, added, db, server, dead>>

(* The rest of free_database_cache: it waits for the semaphore, removes    *)
(* the shared memory and the semaphores.                                   *)
free_database_cache ==
    /\ pc[Parent] = "done"
    /\ server = "stopping"
    /\ cache_lock = None
    /\ server' = "stopped"
    /\ UNCHANGED <<vars, dead>>

ShutdownNext ==
    \/ \E p \in Procs : ProcessStep(p)
    \/ Stop
    \/ \E p \in Children : Terminate(p)
    \/ DCsync_all
    \/ free_database_cache
    \/ server = "stopped" /\ UNCHANGED allVars

(* A signalled child exits; the parent, alone, carries on.                 *)
ShutdownSpec ==
    /\ ShutdownInit
    /\ [][ShutdownNext]_allVars
    /\ \A p \in Children : WF_allVars(Terminate(p))
    /\ WF_allVars(DCsync_all)
    /\ WF_allVars(free_database_cache)
    /\ WF_allVars((AddStep(Parent) \/ SyncStep(Parent)) /\ UNCHANGED <<server, dead>>)

-----------------------------------------------------------------------------
(* The values that were in the batch of a syncer that exited.              *)
Lost == UNION {Ids(batch[s]) : s \in Syncers \cap dead}

(* DCsync_all, "writes updates and new data from pool and cache data to    *)
(* database": when the server has stopped, every value that entered the    *)
(* cache is in the database, but for the batches of syncers that were      *)
(* stopped before their commit, of which no part is.                       *)
DrainedWhenStopped ==
    server = "stopped" => stored \cup Lost = 1 .. added /\ stored \cap Lost = {}

(* The same comment, as the promise that the write takes place: a server   *)
(* that is told to stop gets the cached values written and stops.          *)
ShutdownCompletes == server = "stopping" ~> server = "stopped"
=============================================================================
