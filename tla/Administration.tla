---------------------------- MODULE Administration ----------------------------
(***************************************************************************)
(* Cameras at run time: the config file, the configuration in memory, and  *)
(* the workers of the RecordingManager, changed by handle_add_camera and   *)
(* handle_remove_camera of src/src/api.rs, loaded by run_record of         *)
(* src/src/main.rs.                                                        *)
(*                                                                         *)
(* The manager's mutex orders the changes; the config's RwLock (std: a     *)
(* waiting writer keeps new readers out) is taken under it, and by status  *)
(* requests without it. The handlers run without an await between their    *)
(* locks. A camera's other settings are left out; a config file is the     *)
(* sequence of its cameras, empty when it can not be loaded: unreadable,   *)
(* cut within a table, or without a camera.                                *)
(***************************************************************************)
EXTENDS Integers, FiniteSets, SequencesExt

CONSTANTS
    Cameras,       \* camera ids
    Limited,       \* those with max_reconnect_attempts > 0
    Clients,       \* clients of the HTTP API, one request each at a time
    InitialFiles   \* the config files the operator may have written

ASSUME AdminAssumption ==
    Limited \subseteq Cameras /\ InitialFiles \subseteq Seq(Cameras)

VARIABLES
    file,     \* the cameras of the config file
    pools,    \* the pool files: "absent", "short" (not all at full length), "ready"
    up,       \* whether the process runs
    config,   \* the cameras of the Config in memory
    workers,  \* the manager's map: the task of each camera
    running,  \* the tasks that run and have not been aborted
    client,   \* each request: its stage, what it asks for, and the camera
    \* History, read by no action:
    hidden,   \* tasks of earlier entries of the file with the id of a later one
    kept,     \* the cameras after the last change that was saved
    unsaved,  \* the last change is in memory only
    damaged   \* the file was left cut

memory == <<up, config, workers, running>>
history == <<hidden, kept, unsaved, damaged>>
adminVars == <<file, pools, memory, client, history>>

Task == [cam : Cameras, n : Nat]
CamsOf(tasks) == {t.cam : t \in tasks}
Idle == [at |-> "idle", op |-> "none", cam |-> <<>>]

AdminTypeOK ==
    /\ file \in Seq(Cameras) /\ config \in Seq(Cameras)
    /\ pools \in {"absent", "short", "ready"}
    /\ {up, unsaved, damaged} \subseteq BOOLEAN
    /\ workers \subseteq Task /\ running \subseteq Task /\ hidden \subseteq Task
    /\ \A t, s \in workers : t.cam = s.cam => t = s
    /\ kept \subseteq Cameras
    /\ client \in [Clients ->
            [at : {"idle", "asked", "changed", "queued", "saving", "writing",
                   "status", "first", "between", "second"},
             op : {"none", "add", "remove", "status"}, cam : Cameras \cup {<<>>}]]

AdminInit ==
    /\ file \in InitialFiles
    /\ pools = "absent"
    /\ up = FALSE
    /\ config = <<>> /\ workers = {} /\ running = {}
    /\ client = [a \in Clients |-> Idle]
    /\ hidden = {} /\ kept = Range(file)
    /\ unsaved = FALSE /\ damaged = FALSE

At(stages) == {a \in Clients : client[a].at \in stages}
Changing == {"changed", "queued", "saving", "writing"}
Goto(a, stage) == client' = [client EXCEPT ![a].at = stage]
Done(a) == client' = [client EXCEPT ![a] = Idle]

-----------------------------------------------------------------------------
\* Start and end of the process.

\* One task per entry of the file; of those with one id the map keeps the last.
Spawned ==
    {[cam |-> file[i], n |-> Cardinality({j \in 1 .. i : file[j] = file[i]})] :
        i \in 1 .. Len(file)}

\* Mutant: an entry with a known id is registered beside the first.
RegisteredAll == Spawned

Registered == {t \in Spawned : \A s \in Spawned : s.cam = t.cam => s.n <= t.n}

Start ==
    /\ ~up
    /\ file # <<>> /\ pools # "short"
    /\ up' = TRUE
    /\ pools' = "ready"
    /\ config' = file
    /\ running' = Spawned
    /\ workers' = Registered
    /\ hidden' = Spawned \ Registered
    /\ unsaved' = FALSE
    /\ UNCHANGED <<file, client, kept, damaged>>

\* Killed after the creation of a pool file and before its set_len: from then on
\* open fails to read the header of that file.
StartKilled ==
    /\ ~up
    /\ file # <<>> /\ pools = "absent"
    /\ pools' = "short"
    /\ UNCHANGED <<file, memory, client, history>>

Gone ==
    /\ up' = FALSE
    /\ config' = <<>> /\ workers' = {} /\ running' = {}
    /\ client' = [a \in Clients |-> Idle]
    /\ UNCHANGED <<pools, hidden, unsaved>>

\* CTRL+C: tasks are dropped where they wait; a handler between its locks ends
\* first.
Shutdown ==
    /\ up
    /\ At(Changing) = {}
    /\ Gone
    /\ UNCHANGED <<file, kept, damaged>>

\* A kill also hits a handler that is writing: the file keeps what has got there.
Kill ==
    /\ up
    /\ Gone
    /\ IF At({"writing"}) = {} THEN UNCHANGED <<file, kept, damaged>>
       ELSE \E n \in 0 .. Len(config) :
                /\ file' = SubSeq(config, 1, n)
                /\ damaged' = (n < Len(config))
                /\ kept' = IF damaged' THEN kept ELSE CamsOf(workers)

\* supervised_connect has used up its attempts: the task ends, its entry stays.
GiveUp(t) ==
    /\ t \in running
    /\ t.cam \in Limited
    /\ running' = running \ {t}
    /\ UNCHANGED <<file, pools, up, config, workers, client, history>>

-----------------------------------------------------------------------------
\* Requests that change the cameras.

Ask(a, op, cam) ==
    /\ up
    /\ client[a].at = "idle"
    /\ client' = [client EXCEPT ![a] = [at |-> "asked", op |-> op, cam |-> cam]]
    /\ UNCHANGED <<file, pools, memory, history>>

\* Mutant: the mutex is given back before the configuration is changed.
ManagerFreeEarly == At(Changing \ {"changed"}) = {}

ManagerFree == At(Changing) = {}

Worker(cam) == {t \in workers : t.cam = cam}

\* A task number that is not in use for the camera.
FreshTask(cam) ==
    LET used == {t.n : t \in {s \in workers \cup running : s.cam = cam}}
    IN  [cam |-> cam, n |-> CHOOSE n \in 1 .. Cardinality(used) + 1 : n \notin used]

\* Mutant: the id is not looked up.
AddCameraAgain(a) ==
    /\ client[a].at = "asked" /\ client[a].op = "add"
    /\ ManagerFree
    /\ LET t == FreshTask(client[a].cam)
       IN  /\ workers' = (workers \ Worker(client[a].cam)) \cup {t}
           /\ running' = running \cup {t}
    /\ Goto(a, "changed")
    /\ UNCHANGED <<file, pools, up, config, history>>

AddCamera(a) ==
    /\ client[a].at = "asked" /\ client[a].op = "add"
    /\ ManagerFree
    /\ Worker(client[a].cam) = {}
    /\ LET t == FreshTask(client[a].cam)
       IN  workers' = workers \cup {t} /\ running' = running \cup {t}
    /\ Goto(a, "changed")
    /\ UNCHANGED <<file, pools, up, config, history>>

\* Mutant: the entry stays in the map.
RemoveCameraKeeps(a) ==
    /\ client[a].at = "asked" /\ client[a].op = "remove"
    /\ ManagerFree
    /\ Worker(client[a].cam) # {}
    /\ running' = running \ Worker(client[a].cam)
    /\ Goto(a, "changed")
    /\ UNCHANGED <<file, pools, up, config, workers, history>>

RemoveCamera(a) ==
    /\ client[a].at = "asked" /\ client[a].op = "remove"
    /\ ManagerFree
    /\ Worker(client[a].cam) # {}
    /\ workers' = workers \ Worker(client[a].cam)
    /\ running' = running \ Worker(client[a].cam)
    /\ Goto(a, "changed")
    /\ UNCHANGED <<file, pools, up, config, history>>

\* 409 for an id that is there, 404 for one that is not.
Refuse(a) ==
    /\ client[a].at = "asked" /\ client[a].op # "status"
    /\ ManagerFree
    /\ (client[a].op = "add") <=> (Worker(client[a].cam) # {})
    /\ Done(a)
    /\ UNCHANGED <<file, pools, memory, history>>

ConfigFree == At({"saving", "writing", "first", "second"}) = {}

\* Vec::retain of the entries with another id, one after the other.
Retain(entries, cam) ==
    LET keep[i \in 0 .. Len(entries)] ==
            IF i = 0 THEN <<>>
            ELSE IF entries[i] = cam THEN keep[i - 1]
            ELSE Append(keep[i - 1], entries[i])
    IN  keep[Len(entries)]

\* config.write() is called: from here on no new reader is let in.
WaitForConfig(a) ==
    /\ client[a].at = "changed"
    /\ Goto(a, "queued")
    /\ UNCHANGED <<file, pools, memory, history>>

UpdateConfig(a) ==
    /\ client[a].at = "queued"
    /\ ConfigFree
    /\ config' = IF client[a].op = "add" THEN Append(config, client[a].cam)
                 ELSE Retain(config, client[a].cam)
    /\ Goto(a, "saving")
    /\ UNCHANGED <<file, pools, up, workers, running, history>>

\* The file can not be opened for writing: logged, and answered like a success.
SaveFails(a) ==
    /\ client[a].at = "saving"
    /\ unsaved' = TRUE
    /\ Done(a)
    /\ UNCHANGED <<file, pools, memory, hidden, kept, damaged>>

\* std::fs::write empties the file ...
Truncate(a) ==
    /\ client[a].at = "saving"
    /\ file' = <<>>
    /\ Goto(a, "writing")
    /\ UNCHANGED <<pools, memory, history>>

\* Mutant: the camera's change is left out.
WriteFileOld(a) ==
    /\ client[a].at = "writing"
    /\ file' = Retain(config, client[a].cam)
    /\ kept' = CamsOf(workers)
    /\ unsaved' = FALSE /\ damaged' = FALSE
    /\ Done(a)
    /\ UNCHANGED <<pools, memory, hidden>>

\* ... and writes it.
WriteFile(a) ==
    /\ client[a].at = "writing"
    /\ file' = config
    /\ kept' = CamsOf(workers)
    /\ unsaved' = FALSE /\ damaged' = FALSE
    /\ Done(a)
    /\ UNCHANGED <<pools, memory, hidden>>

\* The disk is full: logged, and answered like a success.
WriteFails(a) ==
    /\ client[a].at = "writing"
    /\ \E n \in 0 .. Len(config) - 1 : file' = SubSeq(config, 1, n)
    /\ unsaved' = TRUE /\ damaged' = TRUE
    /\ Done(a)
    /\ UNCHANGED <<pools, memory, hidden, kept>>

Change(a) ==
    \/ AddCamera(a) \/ RemoveCamera(a) \/ Refuse(a)
    \/ WaitForConfig(a) \/ UpdateConfig(a)
    \/ SaveFails(a) \/ Truncate(a) \/ WriteFile(a) \/ WriteFails(a)

-----------------------------------------------------------------------------
\* handle_status: the mutex for a moment, the config twice.

CanReadConfig == At({"queued", "saving", "writing"}) = {}

TouchManager(a) ==
    /\ client[a].at = "asked" /\ client[a].op = "status"
    /\ ManagerFree
    /\ Goto(a, "status")
    /\ UNCHANGED <<file, pools, memory, history>>

ReadConfig(a) ==
    /\ client[a].at \in {"status", "between"}
    /\ CanReadConfig
    /\ Goto(a, IF client[a].at = "status" THEN "first" ELSE "second")
    /\ UNCHANGED <<file, pools, memory, history>>

\* Mutant: the first read lock is kept for the second reading.
LeaveConfigHeld(a) ==
    /\ client[a].at \in {"first", "second"}
    /\ client[a].at = "first" => CanReadConfig
    /\ IF client[a].at = "first" THEN Goto(a, "second") ELSE Done(a)
    /\ UNCHANGED <<file, pools, memory, history>>

LeaveConfig(a) ==
    /\ client[a].at \in {"first", "second"}
    /\ IF client[a].at = "first" THEN Goto(a, "between") ELSE Done(a)
    /\ UNCHANGED <<file, pools, memory, history>>

StatusStep(a) == TouchManager(a) \/ ReadConfig(a) \/ LeaveConfig(a)

-----------------------------------------------------------------------------
AdminNext ==
    \/ Start \/ StartKilled \/ Shutdown \/ Kill
    \/ \E t \in running : GiveUp(t)
    \/ \E a \in Clients :
        \/ Ask(a, "status", <<>>)
        \/ \E op \in {"add", "remove"}, cam \in Cameras : Ask(a, op, cam)
        \/ Change(a) \/ StatusStep(a)

AdminSpec == AdminInit /\ [][AdminNext]_adminVars

\* A request that was let in is worked on; a lock that keeps becoming free is
\* had in the end. Nobody has to ask, to fail or to die.
AdminFairness ==
    \A a \in Clients :
        /\ SF_adminVars(AddCamera(a) \/ RemoveCamera(a) \/ Refuse(a) \/ TouchManager(a))
        /\ SF_adminVars(ReadConfig(a))
        /\ WF_adminVars(WaitForConfig(a) \/ UpdateConfig(a) \/ SaveFails(a)
                        \/ Truncate(a) \/ WriteFile(a) \/ WriteFails(a) \/ LeaveConfig(a))

FairAdminSpec == AdminSpec /\ AdminFairness

-----------------------------------------------------------------------------
\* Properties.

\* Between changes manager, configuration and file name the same cameras, also
\* when several clients change them at once; after a failed save at least the
\* manager and the configuration do (handle_add_camera, handle_remove_camera).
FileFollowsMemory ==
    up /\ At(Changing) = {} =>
        /\ CamsOf(workers) = Range(config)
        /\ ~unsaved => file = config

\* Every task that records is the one the manager has for its camera, so it can
\* be removed, but for those that RecordingManager::new itself has left behind, of
\* a file with one id twice: no request, and no two of them together, hide another
\* one, also where they add and remove the very camera of a hidden task.
EveryWorkerListed ==
    running \ workers \subseteq hidden

\* A process that is started records exactly the cameras of the last change that
\* was saved; a change that could not be saved, or was cut short by a kill before
\* it reached the file, is undone as a whole. A cut file is left out.
RestartRestores ==
    [][Start /\ ~damaged => CamsOf(running') = kept /\ CamsOf(workers') = kept]_adminVars

\* Every request is answered or dies with the process: the manager's mutex and
\* the config's lock are never waited for in a circle.
RequestsAnswered == \A a \in Clients : client[a].at # "idle" ~> client[a].at = "idle"

\* list_cameras: the cameras GET /api/cameras calls "active".
ListCameras == CamsOf(workers)

\* A listed camera has a task that runs, unless its reconnects are limited: then
\* the worker may have given up, and its camera is still called active.
ListedAreActive == \A cam \in ListCameras \ Limited : Worker(cam) \cap running # {}

==============================================================================
