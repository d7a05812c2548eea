--------------------------- MODULE NetbootManager ---------------------------
(***************************************************************************)
(* The one PXE server the fleet server runs as a child process             *)
(* (internal/netbootmgr and the netboot endpoints).  Start and Stop are    *)
(* critical sections of Manager.mu; each process has a goroutine that      *)
(* waits for it and then takes the mutex.  Processes end when they like    *)
(* (a port still held by the previous one ends them at once) and a kill    *)
(* takes effect later.                                                     *)
(***************************************************************************)
CONSTANTS Process,    \* processes, each started once
          NoProcess

ASSUME NetbootAssumption == NoProcess \notin Process

VARIABLES
    cmd,        \* Manager.cmd
    running,    \* Manager.status.Running
    proc,       \* the state of each process
    waiter,     \* where the goroutine that waits for it stands
    killed,     \* processes that were sent a kill
    orphans     \* processes of an earlier run of the server

netbootVars == <<cmd, running, proc, waiter, killed, orphans>>

NetbootTypeOK ==
    /\ cmd \in Process \union {NoProcess}
    /\ running \in BOOLEAN
    /\ proc \in [Process -> {"none", "up", "exited"}]
    /\ waiter \in [Process -> {"none", "wait", "clear", "gone"}]
    /\ killed \subseteq Process /\ orphans \subseteq Process

NetbootInit ==
    /\ cmd = NoProcess
    /\ running = FALSE
    /\ proc = [p \in Process |-> "none"]
    /\ waiter = [p \in Process |-> "none"]
    /\ killed = {} /\ orphans = {}

\* Refused while one is running or when the artifact has no netboot files.
Start(p) ==
    /\ ~running
    /\ proc[p] = "none"
    /\ proc' = [proc EXCEPT ![p] = "up"]
    /\ waiter' = [waiter EXCEPT ![p] = "wait"]
    /\ cmd' = p
    /\ running' = TRUE
    /\ UNCHANGED <<killed, orphans>>

\* A process that has been waited for cannot be killed: the error leaves the state.
Stop ==
    /\ running /\ cmd # NoProcess
    /\ waiter[cmd] = "wait"
    /\ killed' = killed \union {cmd}
    /\ cmd' = NoProcess
    /\ running' = FALSE
    /\ UNCHANGED <<proc, waiter, orphans>>

Exit(p) ==
    /\ proc[p] = "up"
    /\ proc' = [proc EXCEPT ![p] = "exited"]
    /\ UNCHANGED <<cmd, running, waiter, killed, orphans>>

WaitReturns(p) ==
    /\ waiter[p] = "wait" /\ proc[p] = "exited"
    /\ waiter' = [waiter EXCEPT ![p] = "clear"]
    /\ UNCHANGED <<cmd, running, proc, killed, orphans>>

\* Slip: any process that ends clears the status.
AnyIsActive(p) == TRUE

\* Only the process that is still the active one clears the status.
IsActive(p) == cmd = p

ClearStatus(p) ==
    /\ waiter[p] = "clear"
    /\ waiter' = [waiter EXCEPT ![p] = "gone"]
    /\ IF IsActive(p) THEN cmd' = NoProcess /\ running' = FALSE ELSE UNCHANGED <<cmd, running>>
    /\ UNCHANGED <<proc, killed, orphans>>

\* Children survive the server: nothing stops them when it ends.
ServerRestarts ==
    /\ cmd' = NoProcess
    /\ running' = FALSE
    /\ waiter' = [p \in Process |-> IF waiter[p] = "none" THEN "none" ELSE "gone"]
    /\ orphans' = orphans \union {p \in Process : proc[p] = "up" /\ p \notin killed}
    /\ UNCHANGED <<proc, killed>>

Waiter(p) == WaitReturns(p) \/ ClearStatus(p)

NetbootNext == \/ \E p \in Process : Start(p) \/ Exit(p) \/ Waiter(p)
               \/ Stop \/ ServerRestarts

\* The goroutines that wait for the processes are scheduled.
NetbootFairness == \A p \in Process : WF_netbootVars(Waiter(p))

-----------------------------------------------------------------------------
\* A server that is up and was not told to stop is the one the status shows and
\* Stop would kill, whatever earlier ones' goroutines still do, except for one an
\* earlier run of the fleet server left behind.
RunningServerIsManaged ==
    \A p \in Process \ (killed \union orphans) : proc[p] = "up" => cmd = p /\ running

\* Why it holds, as an inductive invariant: the status is on exactly while there is
\* an active command, and a waiter that is about to clear it has seen its process
\* exit.
NetbootInv ==
    /\ RunningServerIsManaged
    /\ running <=> cmd # NoProcess
    /\ \A p \in Process : waiter[p] = "clear" => proc[p] = "exited"

\* The status follows the process: a server that has ended is not shown as running
\* for ever.
ExitIsNoticed == \A p \in Process : (cmd = p /\ proc[p] = "exited") ~> cmd # p
=============================================================================
