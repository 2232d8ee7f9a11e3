------------------------------ MODULE Startup -------------------------------
(***************************************************************************)
(* How the program of a user (the frontend, one process for each rank of   *)
(* the server) and the backend of the server meet: the shared memory with  *)
(* the name "netccl", which a rank removes and creates in init and removes *)
(* in finalize, and which the backend opens once.  Programs run one after  *)
(* the other, may be killed, and then leave the name behind.               *)
(*                                                                         *)
(* A program may have several ranks on the server (README.md has them use  *)
(* the GPU of their LOCAL_RANK), and all of them use the same name.        *)
(*                                                                         *)
(* A segment is a number; without a name it lives on for those who map it. *)
(* A call is one operation: OpPipeline has the rest of its way.  The user  *)
(* follows README.md: program first, then the backend, here when the       *)
(* program's init is over, and a new backend for every program.            *)
(***************************************************************************)
EXTENDS Integers, Sequences

CONSTANTS
    Ranks,      \* the ranks a program may have on this server
    NRuns       \* bound of the model: programs started

\* What is assumed of the constants.
StartupAssumption == NRuns \in Nat

VARIABLES
    runs,           \* programs started so far
    started,        \* the ranks of the program started last
    pc,             \* pc[r]: next step of rank r's main thread
    segment,        \* segment[r]: the segment r has mapped, or 0
    daemon,         \* daemon[r]: is r's daemon thread in daemon_loop?
    daemon_quit,
    py_qp,          \* py_qp[r]: the operation between main and daemon thread
    named,          \* the segment with the name, or 0
    made,           \* segments created so far
    queue_pair,     \* segments that have the object "queue_pair"
    qp,             \* qp[s]: the operation in segment s
    backend, shm_qp \* the backend, and the segment it has opened

ranks == <<pc, segment, daemon, daemon_quit, py_qp>>
shared == <<named, made, queue_pair, qp>>
back == <<backend, shm_qp>>
startup_vars == <<runs, started, ranks, shared, back>>

StartupInit ==
    /\ runs = 0 /\ started = {}
    /\ pc = [r \in Ranks |-> "none"]
    /\ segment = [r \in Ranks |-> 0]
    /\ daemon = [r \in Ranks |-> FALSE] /\ daemon_quit = [r \in Ranks |-> FALSE]
    /\ py_qp = [r \in Ranks |-> "empty"]
    /\ named = 0 /\ made = 0 /\ queue_pair = {} /\ qp = <<>>
    /\ backend = "off" /\ shm_qp = 0

Goto(r, from, to) == pc[r] = from /\ pc' = [pc EXCEPT ![r] = to]

-----------------------------------------------------------------------------
\* The user starts a program: every rank of it calls init.
StartProgram ==
    /\ runs < NRuns
    /\ backend = "off" /\ \A r \in Ranks : pc[r] = "none"
    /\ runs' = runs + 1
    /\ started' \in SUBSET Ranks \ {{}}
    /\ pc' = [r \in Ranks |-> IF r \in started' THEN "remove" ELSE "none"]
    /\ daemon_quit' = [r \in Ranks |-> FALSE]
    /\ py_qp' = [r \in Ranks |-> "empty"]
    /\ UNCHANGED <<segment, daemon, shared, back>>

\* Mutation of Remove: the name of an earlier segment stays.
Remove_not(r) ==
    /\ Goto(r, "remove", "create")
    /\ UNCHANGED <<runs, started, segment, daemon, daemon_quit, py_qp, shared, back>>

\* shm_init: remove what has the name, create, construct the queue pair.
Remove(r) ==
    /\ Goto(r, "remove", "create")
    /\ named' = 0
    /\ UNCHANGED <<runs, started, segment, daemon, daemon_quit, py_qp, made, queue_pair, qp, back>>

\* create_only: when the name is taken, an exception ends the program.
Create(r) ==
    /\ IF named = 0
       THEN /\ Goto(r, "create", "construct")
            /\ made' = made + 1
            /\ named' = made'
            /\ segment' = [segment EXCEPT ![r] = made']
            /\ qp' = Append(qp, "empty")
       ELSE Goto(r, "create", "failed") /\ UNCHANGED <<made, named, segment, qp>>
    /\ UNCHANGED <<runs, started, daemon, daemon_quit, py_qp, queue_pair, back>>

Construct(r) ==
    /\ Goto(r, "construct", "threads")
    /\ queue_pair' = queue_pair \cup {segment[r]}
    /\ UNCHANGED <<runs, started, segment, daemon, daemon_quit, py_qp, named, made, qp, back>>

\* Mutation of thread_init: no daemon thread.
thread_init_not(r) ==
    /\ Goto(r, "threads", "idle")
    /\ UNCHANGED <<runs, started, segment, daemon, daemon_quit, py_qp, shared, back>>

thread_init(r) ==
    /\ Goto(r, "threads", "idle")
    /\ daemon' = [daemon EXCEPT ![r] = TRUE]
    /\ UNCHANGED <<runs, started, segment, daemon_quit, py_qp, shared, back>>

-----------------------------------------------------------------------------
\* A collective call, and its way through the queues.
post_sub_collective(r) ==
    /\ Goto(r, "idle", "call")
    /\ py_qp' = [py_qp EXCEPT ![r] = "req"]
    /\ UNCHANGED <<runs, started, segment, daemon, daemon_quit, shared, back>>

try_post(r) ==
    /\ daemon[r]
    /\ py_qp[r] = "req"
    /\ py_qp' = [py_qp EXCEPT ![r] = "posted"]
    /\ qp' = [qp EXCEPT ![segment[r]] = "req"]
    /\ UNCHANGED <<runs, started, pc, segment, daemon, daemon_quit, named, made, queue_pair, back>>

try_complete(r) ==
    /\ daemon[r]
    /\ py_qp[r] = "posted" /\ qp[segment[r]] = "resp"
    /\ py_qp' = [py_qp EXCEPT ![r] = "resp"]
    /\ qp' = [qp EXCEPT ![segment[r]] = "empty"]
    /\ UNCHANGED <<runs, started, pc, segment, daemon, daemon_quit, named, made, queue_pair, back>>

recv_all_resp(r) ==
    /\ py_qp[r] = "resp"
    /\ Goto(r, "call", "idle")
    /\ py_qp' = [py_qp EXCEPT ![r] = "empty"]
    /\ UNCHANGED <<runs, started, segment, daemon, daemon_quit, shared, back>>

-----------------------------------------------------------------------------
\* The program ends, or init has failed: exit_handler calls finalize, which
\* tells the daemon thread to quit and joins it.
Exit(r) ==
    /\ pc[r] \in {"idle", "failed"} /\ Goto(r, pc[r], "join")
    /\ daemon_quit' = [daemon_quit EXCEPT ![r] = TRUE]
    /\ UNCHANGED <<runs, started, segment, daemon, py_qp, shared, back>>

DaemonQuit(r) ==
    /\ daemon[r] /\ daemon_quit[r]
    /\ daemon' = [daemon EXCEPT ![r] = FALSE]
    /\ UNCHANGED <<runs, started, pc, segment, daemon_quit, py_qp, shared, back>>

Join(r) ==
    /\ ~daemon[r]
    /\ Goto(r, "join", "unmap")
    /\ UNCHANGED <<runs, started, segment, daemon, daemon_quit, py_qp, shared, back>>

\* shm_finalize, in two steps.
Unmap(r) ==
    /\ Goto(r, "unmap", "unlink")
    /\ segment' = [segment EXCEPT ![r] = 0]
    /\ UNCHANGED <<runs, started, daemon, daemon_quit, py_qp, shared, back>>

Unlink(r) ==
    /\ Goto(r, "unlink", "none")
    /\ named' = 0
    /\ UNCHANGED <<runs, started, segment, daemon, daemon_quit, py_qp, made, queue_pair, qp, back>>

\* The program is killed.
Kill ==
    /\ \E r \in Ranks : pc[r] # "none"
    /\ pc' = [r \in Ranks |-> "none"]
    /\ segment' = [r \in Ranks |-> 0]
    /\ daemon' = [r \in Ranks |-> FALSE]
    /\ UNCHANGED <<runs, started, daemon_quit, py_qp, shared, back>>

-----------------------------------------------------------------------------
\* The user starts the backend, and stops it when the program is over.
StartBackend ==
    /\ backend = "off"
    /\ \E r \in Ranks : pc[r] \in {"idle", "call"}
    /\ \A r \in Ranks : pc[r] \in {"none", "idle", "call"}
    /\ backend' = "launched"
    /\ UNCHANGED <<runs, started, ranks, shared, shm_qp>>

StopBackend ==
    /\ backend # "off"
    /\ \A r \in Ranks : pc[r] = "none"
    /\ backend' = "off" /\ shm_qp' = 0
    /\ UNCHANGED <<runs, started, ranks, shared>>

\* shm_init of the backend: no segment, or none with a queue pair, ends it.
shm_init ==
    /\ backend = "launched"
    /\ IF named \in queue_pair
       THEN backend' = "on" /\ shm_qp' = named
       ELSE backend' = "failed" /\ UNCHANGED shm_qp
    /\ UNCHANGED <<runs, started, ranks, shared>>

\* The load balancer takes the operation from the queue, and answers it.
load_balancer ==
    /\ backend = "on"
    /\ \/ qp[shm_qp] = "req" /\ qp' = [qp EXCEPT ![shm_qp] = "work"]
       \/ qp[shm_qp] = "work" /\ qp' = [qp EXCEPT ![shm_qp] = "resp"]
    /\ UNCHANGED <<runs, started, ranks, named, made, queue_pair, back>>

init(r) == Remove(r) \/ Create(r) \/ Construct(r) \/ thread_init(r)
finalize(r) == Join(r) \/ Unmap(r) \/ Unlink(r)
daemon_loop(r) == try_complete(r) \/ try_post(r) \/ DaemonQuit(r)

StartupNext ==
    \/ \E r \in Ranks :
         \/ init(r) \/ post_sub_collective(r) \/ recv_all_resp(r)
         \/ Exit(r) \/ finalize(r) \/ daemon_loop(r)
    \/ StartProgram \/ Kill
    \/ StartBackend \/ StopBackend \/ shm_init \/ load_balancer

\* Processes and threads run, and the user starts a backend for the program.
StartupFairness ==
    /\ \A r \in Ranks :
         /\ WF_startup_vars(init(r)) /\ WF_startup_vars(recv_all_resp(r))
         /\ WF_startup_vars(try_complete(r) \/ try_post(r))
         /\ WF_startup_vars(DaemonQuit(r)) /\ WF_startup_vars(finalize(r))
    /\ WF_startup_vars(StartBackend) /\ WF_startup_vars(shm_init) /\ WF_startup_vars(load_balancer)

StartupSpec == StartupInit /\ [][StartupNext]_startup_vars /\ StartupFairness

-----------------------------------------------------------------------------
\* init of rank r finds the name free, or taken by another rank of its program.
NameFree(r) ==
    /\ pc[r] = "failed" => started # {r}
    /\ pc[r] = "create" /\ named # 0 =>
         \E s \in started \ {r} : segment[s] = named \/ pc[s] = "unlink"

\* The daemon thread never polls a segment that finalize has unmapped.
DaemonMapped == \A r \in Ranks : daemon[r] => segment[r] # 0

(***************************************************************************)
(* Starting and stopping are in order, also after a program was killed:    *)
(* nothing that an earlier program has left behind makes init (shm_init of *)
(* api.cpp, with create_only) fail, only another rank of the same program  *)
(* can, and the daemon thread has ended before finalize unmaps the segment *)
(* it polls.                                                               *)
(***************************************************************************)
StartAndStopSafe == (\A r \in Ranks : NameFree(r)) /\ DaemonMapped

(***************************************************************************)
(* Every call of the only rank of a program returns, unless the program is *)
(* killed, and so does, whatever other ranks there are, every call of the  *)
(* rank whose segment the backend has found (shm_init of the backend).     *)
(***************************************************************************)
EveryCallServed ==
    \A r \in Ranks :
        (pc[r] = "call" /\ (started = {r} \/ (backend = "on" /\ segment[r] = shm_qp)))
            ~> pc[r] # "call"

(***************************************************************************)
(* Every call of every rank on the server returns, unless the program is   *)
(* killed: programs with several ranks on a server, each with the GPU of   *)
(* its LOCAL_RANK, are what README.md:71 prepares for.                     *)
(***************************************************************************)
EveryLocalRankServed == \A r \in Ranks : pc[r] = "call" ~> pc[r] # "call"
=============================================================================
