---------------------------- MODULE RedfishClient ----------------------------
(***************************************************************************)
(* One machine, its BMC and the Redfish client that installs it            *)
(* (pkg/redfish/deployer.go, probe.go, ping.go), with the callers that     *)
(* open and close a session around each operation: runRedfishDeploy,       *)
(* runFinalize and InspectHardware of the server, "redfish deploy" and     *)
(* "redfish probe" of the command line.                                    *)
(*                                                                         *)
(* A step is one request to the BMC with the code up to the next one.  The *)
(* context may end between any two requests; every request of the client   *)
(* runs under it, the logout too.  The BMC is external: it may refuse any  *)
(* request or never answer it, answer at once or with a task that ends     *)
(* later or fails, hide a media collection from one discovery and show it  *)
(* to the next, and apply a graceful shutdown late or never; somebody else *)
(* may switch the machine on or off at any time.                           *)
(***************************************************************************)
EXTENDS RedfishQuirks

CONSTANTS Envs,         \* the BMCs, each with the configuration used for it
          Percents,     \* PercentComplete values a task reports
          MaxOps,       \* bound: operations on the machine
          MaxToggles    \* bound: times somebody else uses the power button

ASSUME ClientAssumption ==
    /\ MaxOps \in Nat /\ MaxToggles \in Nat
    /\ Percents \subseteq Int
    /\ \A e \in Envs : /\ e.layout \in Seq([loc : STRING, types : SUBSET STRING])
                       /\ e.quirks.search \in Seq(STRING)
                       /\ e.power \in {"On", "Off"} /\ e.liveEject \in BOOLEAN

VARIABLES
    env,        \* the one at hand
    op,         \* the operation under way
    pc,         \* the client's next step
    client,     \* Deployer.client and usedBasicAuth
    ctx,        \* the operation's context
    timed,      \* it has a deadline
    snap,       \* system.PowerState as selectSystem read it
    dev,        \* the candidate findCDMedia chose
    tasks,      \* the requests the BMC answered with a task
    pct,        \* the percentage last reported
    ret,        \* what the operation returns
    \* the BMC
    power, shutting, boot, sessions,
    drive,      \* a candidate is "pulling" while the task of its insert runs
    \* history
    did,        \* writes the BMC accepted in this operation, in order
    ops, toggles,
    partial,    \* some discovery did not see every media candidate
    stale,      \* the power state changed under a snapshot in use
    sure,       \* the power-off was seen to land
    booted,     \* a boot was started from the inserted media
    overtaken,  \* the eject came while the image was still being fetched
    lost        \* logouts the BMC did not get

cliVars == <<env, op, pc, client, ctx, timed, snap, dev, tasks, pct, ret>>
bmcVars == <<power, shutting, drive, boot, sessions>>
histVars == <<did, ops, toggles, partial, stale, sure, booted, overtaken, lost>>
vars == <<cliVars, bmcVars, histVars>>

Ops == {"inspect", "probe", "deploy", "clideploy", "finalize", "cycle"}
Steps == {"idle", "connect", "inspect", "probe", "discover", "insert", "setboot", "reset",
          "poll", "poweroff", "polloff", "pollforced", "eject", "todisk", "poweron", "finish",
          "return", "revoke"}
Candidates == 1 .. Len(env.layout)

TypeOK ==
    /\ env \in Envs /\ pc \in Steps
    /\ op \in Ops \cup {"none"} /\ ret \in {"none", "ok", "error"}
    /\ client \in {"none", "session", "basic"} /\ ctx \in {"live", "done"}
    /\ timed \in BOOLEAN /\ overtaken \in BOOLEAN
    /\ snap \in {"On", "Off"} /\ dev \in 0 .. Len(env.layout)
    /\ tasks \subseteq {"insert", "reset"} /\ pct \in 0 .. 100
    /\ power \in {"On", "Off"} /\ shutting \in BOOLEAN
    /\ drive \in [Candidates -> {"empty", "pulling", "iso"}]
    /\ boot \in {"none", "cd", "hdd"}
    /\ sessions \in Nat /\ lost \in 0 .. MaxOps /\ ops \in 0 .. MaxOps
    /\ toggles \in 0 .. MaxToggles
    /\ partial \in BOOLEAN /\ stale \in BOOLEAN /\ sure \in BOOLEAN /\ booted \in BOOLEAN

Init ==
    /\ env \in Envs
    /\ op = "none" /\ pc = "idle" /\ client = "none" /\ ctx = "live" /\ timed = FALSE
    /\ snap = "On" /\ dev = 0 /\ tasks = {} /\ pct = 0 /\ ret = "none"
    /\ power = env.power /\ shutting = FALSE
    /\ drive = [i \in Candidates |-> "empty"]
    /\ boot = "none" /\ sessions = 0 /\ overtaken = FALSE
    /\ did = <<>> /\ ops = 0 /\ toggles = 0 /\ partial = FALSE
    /\ stale = FALSE /\ sure = FALSE /\ booted = FALSE /\ lost = 0

Goto(from, to) == pc = from /\ pc' = to
Fail == pc' = "return" /\ ret' = "error"

-----------------------------------------------------------------------------
\* The contexts of an operation: a deploy's has a deadline, and so has the one of a
\* finalize after a phone-home and of EjectBMCTarget; FinalizeDeployment and
\* InspectHardware pass the request's own, the command line one that never ends.
\* Config.Timeout is read by nobody, and the HTTP client has none.
Deadlines(k) ==
    CASE k = "deploy" -> {TRUE}
      [] k \in {"finalize", "cycle"} -> BOOLEAN
      [] OTHER -> {FALSE}

\* The caller builds a Deployer; a deploy has registered a one-shot token before.
NewDeployer(k) ==
    /\ Goto("idle", "connect") /\ ops < MaxOps
    /\ op' = k /\ ops' = ops + 1 /\ timed' \in Deadlines(k)
    /\ UNCHANGED <<env, client, ctx, snap, dev, tasks, pct, ret, bmcVars, did,
                   toggles, partial, stale, sure, booted, overtaken, lost>>

\* resolveBasicAuth: for "auto" the ServiceRoot decides, and must be readable.
resolveBasicAuth(rootRead) ==
    CASE env.auth = "session" -> "session"
      [] env.auth = "basic"   -> "basic"
      [] env.auth = "auto" /\ rootRead -> IF env.sessionService THEN "session" ELSE "basic"
      [] OTHER -> "none"

Connect ==
    /\ pc = "connect"
    /\ \/ \E rootRead \in BOOLEAN :
            /\ ctx = "live" /\ resolveBasicAuth(rootRead) # "none"
            /\ client' = resolveBasicAuth(rootRead)
            /\ sessions' = IF client' = "session" THEN sessions + 1 ELSE sessions
            /\ pc' = IF op \in {"inspect", "clideploy"} THEN "inspect"
                     ELSE IF op = "probe" THEN "probe" ELSE "discover"
            /\ UNCHANGED ret
       \/ Fail /\ UNCHANGED <<client, sessions>>
    /\ UNCHANGED <<env, op, ctx, timed, snap, dev, tasks, pct, power, shutting, drive,
                   boot, histVars>>

\* selectSystem: the pinned system, or the only one; it never guesses.
selectSystem == IF env.pinned THEN env.pinFound ELSE env.systems = 1

Inspect ==
    /\ pc = "inspect"
    /\ \/ /\ ctx = "live" /\ selectSystem
          /\ \/ op = "inspect" /\ pc' = "return" /\ ret' = "ok"
             \/ /\ op = "clideploy"
                /\ ValidateRequirements(env.fw, env.enough, {"UEFI"})
                /\ pc' = "discover" /\ UNCHANGED ret
             \/ op = "clideploy" /\ ~ValidateRequirements(env.fw, env.enough, {"UEFI"}) /\ Fail
       \/ Fail
    /\ UNCHANGED <<env, op, client, ctx, timed, snap, dev, tasks, pct, bmcVars,
                   histVars>>

\* Probe reads like Inspect, but describes the first of several systems.
Probe ==
    /\ pc = "probe"
    /\ \/ ctx = "live" /\ env.systems > 0 /\ (env.pinned => env.pinFound)
          /\ pc' = "return" /\ ret' = "ok"
       \/ Fail
    /\ UNCHANGED <<env, op, client, ctx, timed, snap, dev, tasks, pct, bmcVars,
                   histVars>>

\* mediaCandidates leaves out a collection whose read fails.
Visible(hidden) ==
    {i \in Candidates : ~\E h \in hidden : locationMatches(h, env.layout[i].loc)}

\* Slip: Finalize looks for the drive without the vendor's profile.
chooseGeneric(hidden) ==
    findCDMedia(IF op \in {"finalize", "cycle"} THEN Generic("generic") ELSE env.quirks,
                env.layout, Visible(hidden))

choose(hidden) == findCDMedia(env.quirks, env.layout, Visible(hidden))

\* Deploy and Finalize start alike: selectSystem, then findCDMedia.
Discover ==
    /\ pc = "discover"
    /\ \/ /\ ctx = "live" /\ selectSystem
          /\ \E hidden \in {{}, {"system"}, {"manager"}} :
                /\ partial' = (partial \/ Visible(hidden) # Candidates)
                /\ dev' = choose(hidden)
                /\ IF dev' = 0 THEN Fail /\ UNCHANGED <<snap, pct>>
                   ELSE /\ snap' = power
                        /\ pc' = CASE op = "finalize" -> "eject"
                                   [] op = "cycle" -> "poweroff"
                                   [] OTHER -> "insert"
                        /\ pct' = IF op \in {"finalize", "cycle"} THEN 20 ELSE 10
                        /\ UNCHANGED ret
       \/ Fail /\ UNCHANGED <<snap, dev, pct, partial>>
    /\ UNCHANGED <<env, op, client, ctx, timed, tasks, bmcVars, did, ops, toggles,
                   stale, sure, booted, overtaken, lost>>

-----------------------------------------------------------------------------
\* Slip: a failed insert is logged and the deploy goes on.
insertBestEffort ==
    /\ pc = "insert"
    /\ \/ /\ ctx = "live" /\ pct' = 30
          /\ \/ /\ \/ tasks' = tasks \cup {"insert"} /\ drive' = [drive EXCEPT ![dev] = "pulling"]
                   \/ UNCHANGED tasks /\ drive' = [drive EXCEPT ![dev] = "iso"]
                /\ did' = Append(did, "insert")
                /\ pc' = "setboot" /\ UNCHANGED ret
             \/ pc' = "setboot" /\ UNCHANGED <<ret, drive, did, tasks>>
       \/ ctx = "done" /\ Fail /\ UNCHANGED <<pct, drive, did, tasks>>
    /\ UNCHANGED <<env, op, client, ctx, timed, snap, dev, power, shutting, boot,
                   sessions, ops, toggles, partial, stale, sure, booted, overtaken,
                   lost>>

\* Deploy.  The image is in the drive when the BMC says so: at once, or when the task
\* it answered with has ended.  Nothing below waits for that task.
insertMedia ==
    /\ pc = "insert"
    /\ \/ /\ ctx = "live" /\ pct' = 30
          /\ \/ /\ \/ tasks' = tasks \cup {"insert"} /\ drive' = [drive EXCEPT ![dev] = "pulling"]
                   \/ UNCHANGED tasks /\ drive' = [drive EXCEPT ![dev] = "iso"]
                /\ did' = Append(did, "insert")
                /\ pc' = "setboot" /\ UNCHANGED ret
             \/ Fail /\ UNCHANGED <<drive, did, tasks>>
       \/ ctx = "done" /\ Fail /\ UNCHANGED <<pct, drive, did, tasks>>
    /\ UNCHANGED <<env, op, client, ctx, timed, snap, dev, power, shutting, boot,
                   sessions, ops, toggles, partial, stale, sure, booted, overtaken,
                   lost>>

setOneTimeBoot ==
    /\ pc = "setboot"
    /\ \/ /\ ctx = "live" /\ pct' = 50
          /\ \/ boot' = "cd" /\ did' = Append(did, "boot") /\ pc' = "reset" /\ UNCHANGED ret
             \/ Fail /\ UNCHANGED <<boot, did>>
       \/ ctx = "done" /\ Fail /\ UNCHANGED <<pct, boot, did>>
    /\ UNCHANGED <<env, op, client, ctx, timed, snap, dev, tasks, power, shutting,
                   drive, sessions, ops, toggles, partial, stale, sure, booted,
                   overtaken, lost>>

\* What a reset type does to the machine (external): it is refused when it does not
\* fit, restarts a running machine, starts one that is off, or stops it.
Restarts == {"ForceRestart", "GracefulRestart", "PowerCycle"}
Starts(rt, state) == rt \in Restarts \/ (state = "Off" /\ rt \in {"On", "ForceOn"})
Accepts(rt) ==
    /\ env.allowed # {} => rt \in env.allowed
    /\ rt \in Restarts \cup {"GracefulShutdown"} => power = "On"

reset ==
    /\ pc = "reset"
    /\ LET rt == resetType(env.quirks, snap, env.allowed) IN
       \/ /\ ctx = "live" /\ Accepts(rt) /\ pct' = 70
          /\ booted' = (Starts(rt, power) /\ boot = "cd" /\ drive[dev] = "iso")
          /\ power' = IF Starts(rt, power) THEN "On" ELSE IF rt = "ForceOff" THEN "Off" ELSE power
          /\ shutting' = /\ rt \notin Restarts \cup {"ForceOff"}
                         /\ shutting \/ rt = "GracefulShutdown"
          /\ boot' = IF Starts(rt, power) THEN "none" ELSE boot
          /\ did' = Append(did, "reset")
          /\ tasks' \in {tasks, tasks \cup {"reset"}}
          /\ pc' = "poll" /\ UNCHANGED ret
       \/ /\ ctx = "live" /\ pct' = 70 /\ Fail
          /\ UNCHANGED <<booted, power, shutting, boot, did, tasks>>
       \/ ctx = "done" /\ Fail /\ UNCHANGED <<pct, booted, power, shutting, boot, did, tasks>>
    /\ UNCHANGED <<env, op, client, ctx, timed, snap, dev, drive, sessions, ops,
                   toggles, partial, stale, sure, overtaken, lost>>

\* pickTaskURI: the reset's task before the insert's.
pickTaskURI == IF "reset" \in tasks THEN "reset" ELSE IF "insert" \in tasks THEN "insert" ELSE "none"

\* The task states a poll tells apart; an insert's task completes
\* when the image is in the drive.
PollAnswers == {"Running", "Completed", "Exception", "Killed", "Cancelled", "garbage"}

\* Slip: the loop forgets its context.
pollForever ==
    /\ pc = "poll"
    /\ \/ pickTaskURI = "none" /\ pc' = "return" /\ ret' = "ok" /\ pct' = 100
       \/ /\ pickTaskURI # "none"
          /\ \E s \in PollAnswers, p \in Percents :
                /\ s = "Completed" /\ pickTaskURI = "insert" => drive[dev] = "iso"
                /\ CASE s \notin taskStates -> Fail /\ UNCHANGED pct
                     [] s \in taskStates /\ ~isTerminalTaskState(s) ->
                            pct' = taskPollPercent(p) /\ UNCHANGED <<pc, ret>>
                     [] s = "Completed" -> pct' = 100 /\ pc' = "return" /\ ret' = "ok"
                     [] OTHER -> pct' = taskPollPercent(p) /\ Fail
    /\ UNCHANGED <<env, op, client, ctx, timed, snap, dev, tasks, bmcVars, histVars>>

pollTask ==
    /\ pc = "poll"
    /\ \/ pickTaskURI = "none" /\ pc' = "return" /\ ret' = "ok" /\ pct' = 100
       \/ /\ pickTaskURI # "none" /\ ctx = "live"
          /\ \E s \in PollAnswers, p \in Percents :
                /\ s = "Completed" /\ pickTaskURI = "insert" => drive[dev] = "iso"
                /\ CASE s \notin taskStates -> Fail /\ UNCHANGED pct
                     [] s \in taskStates /\ ~isTerminalTaskState(s) ->
                            pct' = taskPollPercent(p) /\ UNCHANGED <<pc, ret>>
                     [] s = "Completed" -> pct' = 100 /\ pc' = "return" /\ ret' = "ok"
                     [] OTHER -> pct' = taskPollPercent(p) /\ Fail
       \/ pickTaskURI # "none" /\ Fail /\ UNCHANGED pct
    /\ UNCHANGED <<env, op, client, ctx, timed, snap, dev, tasks, bmcVars, histVars>>

-----------------------------------------------------------------------------
\* Finalize.  powerOff: nothing to do for a system seen Off; graceful first.
graceful == firstSupported(env.allowed, <<"GracefulShutdown", "ForceOff">>)

powerOff ==
    /\ pc = "poweroff"
    /\ IF ctx = "done" THEN Fail /\ UNCHANGED <<pct, did, shutting, power, boot, sure>>
       ELSE /\ pct' = 40 /\ UNCHANGED ret
            /\ \/ snap = "Off" /\ pc' = "eject" /\ sure' = (power = "Off")
                  /\ UNCHANGED <<did, shutting, power>>
               \/ /\ snap = "On" /\ Accepts(graceful) /\ pc' = "polloff"
                  /\ did' = Append(did, "off")
                  /\ shutting' = (graceful = "GracefulShutdown")
                  /\ power' = IF graceful = "ForceOff" THEN "Off" ELSE power
                  /\ UNCHANGED sure
               \/ snap = "On" /\ pc' = "eject" /\ UNCHANGED <<did, shutting, power, sure>>
            /\ UNCHANGED boot
    /\ UNCHANGED <<env, op, client, ctx, timed, snap, dev, tasks, drive, sessions,
                   ops, toggles, partial, stale, booted, overtaken, lost>>

\* pollPowerOff: off, or powerOffTimeout, or the context.  The first time-out
\* escalates to ForceOff; whatever comes of that, the eject follows.
pollPowerOff ==
    /\ pc \in {"polloff", "pollforced"}
    /\ \/ ctx = "done" /\ Fail /\ UNCHANGED <<did, shutting, power, sure>>
       \/ /\ ctx = "live" /\ power = "Off" /\ pc' = "eject" /\ sure' = TRUE
          /\ UNCHANGED <<did, shutting, power, ret>>
       \/ /\ ctx = "live" /\ UNCHANGED <<ret, sure>>
          /\ \/ /\ pc = "polloff" /\ graceful # "ForceOff"
                /\ \/ Accepts("ForceOff") /\ did' = Append(did, "force")
                      /\ shutting' = FALSE /\ power' = "Off" /\ pc' = "pollforced"
                   \/ pc' = "eject" /\ UNCHANGED <<did, shutting, power>>
             \/ /\ pc = "polloff" /\ graceful = "ForceOff" /\ pc' = "pollforced"
                /\ UNCHANGED <<did, shutting, power>>
             \/ pc = "pollforced" /\ pc' = "eject" /\ UNCHANGED <<did, shutting, power>>
    /\ UNCHANGED <<env, op, client, ctx, timed, snap, dev, tasks, pct, drive, boot,
                   sessions, ops, toggles, partial, stale, booted, overtaken, lost>>

\* Some BMCs apply an eject only to a machine that is off.
Applied == env.liveEject \/ power = "Off"

\* Slip: the eject is best effort like the boot override.
EjectBestEffort ==
    /\ pc = "eject"
    /\ \/ /\ ctx = "live" /\ pct' = 60
          /\ \/ /\ did' = Append(did, "eject")
                /\ overtaken' = (drive[dev] = "pulling")
                /\ \/ Applied /\ drive' = [drive EXCEPT ![dev] = "empty"]
                   \/ (~Applied \/ overtaken') /\ UNCHANGED drive
                /\ pc' = "todisk" /\ UNCHANGED ret
             \/ pc' = "todisk" /\ UNCHANGED <<ret, did, drive, overtaken>>
       \/ ctx = "done" /\ Fail /\ UNCHANGED <<pct, did, drive, overtaken>>
    /\ UNCHANGED <<env, op, client, ctx, timed, snap, dev, tasks, power, shutting,
                   boot, sessions, ops, toggles, partial, stale, sure, booted, lost>>

\* The BMC accepts an eject; one that comes while the image is still being fetched may
\* end the fetch or be forgotten when that ends.
EjectMedia ==
    /\ pc = "eject"
    /\ \/ /\ ctx = "live" /\ pct' = 60
          /\ \/ /\ did' = Append(did, "eject")
                /\ overtaken' = (drive[dev] = "pulling")
                /\ \/ Applied /\ drive' = [drive EXCEPT ![dev] = "empty"]
                   \/ (~Applied \/ overtaken') /\ UNCHANGED drive
                /\ pc' = "todisk" /\ UNCHANGED ret
             \/ Fail /\ UNCHANGED <<did, drive, overtaken>>
       \/ ctx = "done" /\ Fail /\ UNCHANGED <<pct, did, drive, overtaken>>
    /\ UNCHANGED <<env, op, client, ctx, timed, snap, dev, tasks, power, shutting,
                   boot, sessions, ops, toggles, partial, stale, sure, booted, lost>>

\* Clear the override, or point it at the disk once, or neither: never an error.
bootToDisk ==
    /\ Goto("todisk", IF op = "cycle" THEN "poweron" ELSE "finish")
    /\ \/ ctx = "live" /\ boot' \in {"none", "hdd"} /\ did' = Append(did, "disk")
       \/ UNCHANGED <<boot, did>>
    /\ pct' = 80
    /\ UNCHANGED <<env, op, client, ctx, timed, snap, dev, tasks, ret, power,
                   shutting, drive, sessions, ops, toggles, partial, stale, sure,
                   booted, overtaken, lost>>

\* Power back on, best effort.
powerOn ==
    /\ pc = "poweron"
    /\ \/ ctx = "done" /\ Fail /\ UNCHANGED <<pct, did, power, boot>>
       \/ /\ ctx = "live" /\ pc' = "finish" /\ pct' = 90 /\ UNCHANGED ret
          /\ \/ /\ Accepts("On") /\ did' = Append(did, "on") /\ power' = "On"
                /\ boot' = IF power = "Off" THEN "none" ELSE boot
             \/ UNCHANGED <<did, power, boot>>
    /\ UNCHANGED <<env, op, client, ctx, timed, snap, dev, tasks, shutting, drive,
                   sessions, ops, toggles, partial, stale, sure, booted, overtaken,
                   lost>>

Completed ==
    /\ Goto("finish", "return") /\ ret' = "ok" /\ pct' = 100
    /\ UNCHANGED <<env, op, client, ctx, timed, snap, dev, tasks, bmcVars, histVars>>

-----------------------------------------------------------------------------
\* Slip: the session is closed on the success path only.
CloseOnSuccess ==
    /\ Goto("return", "revoke")
    /\ client' = "none"
    /\ \/ client = "session" /\ ctx = "live" /\ ret = "ok" /\ sessions' = sessions - 1 /\ UNCHANGED lost
       \/ client = "session" /\ ret = "ok" /\ UNCHANGED sessions /\ lost' = lost + 1
       \/ (client # "session" \/ ret = "error") /\ UNCHANGED <<sessions, lost>>
    /\ UNCHANGED <<env, op, ctx, timed, snap, dev, tasks, pct, ret, power, shutting,
                   drive, boot, did, ops, toggles, partial, stale, sure, booted,
                   overtaken>>

\* Slip: a logout also for Basic auth.
CloseAlways ==
    /\ Goto("return", "revoke")
    /\ client' = "none"
    /\ \/ ctx = "live" /\ sessions' = sessions - 1 /\ UNCHANGED lost
       \/ client = "session" /\ UNCHANGED sessions /\ lost' = lost + 1
       \/ client # "session" /\ UNCHANGED <<sessions, lost>>
    /\ UNCHANGED <<env, op, ctx, timed, snap, dev, tasks, pct, ret, power, shutting,
                   drive, boot, did, ops, toggles, partial, stale, sure, booted,
                   overtaken>>

\* The caller's deferred calls: Close logs a session out, then Revoke ends the token.
\* The client is bound to the context Connect was given: once that has ended the logout
\* is not sent.
Close ==
    /\ Goto("return", "revoke")
    /\ client' = "none"
    /\ \/ client = "session" /\ ctx = "live" /\ sessions' = sessions - 1 /\ UNCHANGED lost
       \/ client = "session" /\ UNCHANGED sessions /\ lost' = lost + 1
       \/ client # "session" /\ UNCHANGED <<sessions, lost>>
    /\ UNCHANGED <<env, op, ctx, timed, snap, dev, tasks, pct, ret, power, shutting,
                   drive, boot, did, ops, toggles, partial, stale, sure, booted,
                   overtaken>>

\* What is local to the operation ends with it.
Revoke ==
    /\ Goto("revoke", "idle") /\ op' = "none"
    /\ ctx' = "live" /\ timed' = FALSE /\ snap' = "On" /\ dev' = 0 /\ tasks' = {} /\ pct' = 0
    /\ ret' = "none" /\ did' = <<>> /\ stale' = FALSE /\ sure' = FALSE
    /\ booted' = FALSE /\ overtaken' = FALSE
    /\ UNCHANGED <<env, client, bmcVars, ops, toggles, partial, lost>>

\* The operation's context ends: its deadline, a cancel, or a caller that hangs up.
ContextEnds ==
    /\ pc \notin {"idle", "revoke"} /\ ctx = "live"
    /\ ctx' = "done"
    /\ UNCHANGED <<env, op, pc, client, timed, snap, dev, tasks, pct, ret, bmcVars,
                   histVars>>

\* The BMC and the world (external).
PullEnds ==
    /\ \E i \in Candidates : /\ drive[i] = "pulling"
                             /\ \/ drive' = [drive EXCEPT ![i] = "iso"]
                                \/ drive' = [drive EXCEPT ![i] = "empty"]
    /\ UNCHANGED <<cliVars, power, shutting, boot, sessions, histVars>>

ShutdownLands ==
    /\ shutting /\ shutting' = FALSE /\ power' = "Off"
    /\ UNCHANGED <<cliVars, drive, boot, sessions, histVars>>

Toggle ==
    /\ toggles < MaxToggles /\ toggles' = toggles + 1
    /\ power' = IF power = "On" THEN "Off" ELSE "On"
    /\ shutting' = FALSE
    /\ boot' = IF power = "Off" THEN "none" ELSE boot
    /\ stale' = (op # "none")
    /\ UNCHANGED <<cliVars, drive, sessions, did, ops, partial, sure, booted,
                   overtaken, lost>>

Client ==
    \/ Connect \/ Inspect \/ Probe \/ Discover
    \/ insertMedia \/ setOneTimeBoot \/ reset \/ pollTask
    \/ powerOff \/ pollPowerOff \/ EjectMedia \/ bootToDisk \/ powerOn \/ Completed
    \/ Close \/ Revoke

Next ==
    \/ \E k \in Ops : NewDeployer(k)
    \/ Client
    \/ ContextEnds
    \/ PullEnds \/ ShutdownLands \/ Toggle

\* Steps that ask the BMC nothing.
Local ==
    \/ pickTaskURI = "none" /\ pollTask
    \/ snap = "Off" /\ powerOff
    \/ client # "session" /\ Close
    \/ Completed \/ Revoke

\* A BMC need not answer.  A deadline passes; a request, a wait and a poll end with the
\* context; what needs no BMC is done.
Fairness ==
    /\ WF_vars(timed /\ ContextEnds)
    /\ WF_vars(ctx = "done" /\ Client)
    /\ WF_vars(Local)

Spec == Init /\ [][Next]_vars /\ Fairness

-----------------------------------------------------------------------------
\* Every session opened on the BMC is logged out when its operation is over, on every
\* return and error path, except where the logout did not get to the BMC: the BMC
\* missed it, or the context had ended, under which it cannot be sent.
SessionsReturned == pc = "idle" => sessions = lost

Deploys == {"deploy", "clideploy"}
Finalizes == {"finalize", "cycle"}
Did(w) == \E i \in DOMAIN did : did[i] = w

\* A deploy that returns success has started a boot from the image it inserted when
\* the BMC inserted it at once, unless somebody else used the power button while it ran
\* (the reset type is chosen from the state read before the image was inserted) or the
\* type the BMC and the profile leave for that state does not start the machine (a BMC
\* that offers a running machine nothing but On, a rule that names ForceOff).  When the
\* insert is the only request the BMC answered with a task, success waits for the task:
\* the image is in the drive.  Nothing is promised when the reset has a task as well,
\* for then nobody looks at the insert's.
InstallBootStarted ==
    op \in Deploys /\ ret = "ok" =>
        /\ /\ "insert" \notin tasks /\ ~stale
           /\ Starts(resetType(env.quirks, snap, env.allowed), snap)
           => booted
        /\ tasks = {"insert"} => drive[dev] = "iso"

\* A finalize that returns success leaves no installer image in any drive, provided
\* no discovery missed a media collection, the image was not still being fetched when
\* the eject came, and the BMC applies an eject to a running machine or the machine was
\* seen off.
MediaOut ==
    /\ op \in Finalizes /\ ret = "ok" /\ ~partial /\ ~overtaken
    /\ env.liveEject \/ (sure /\ ~stale)
    => \A i \in Candidates : drive[i] = "empty"

\* A power-cycle that saw the machine off and had its On accepted leaves it on: no
\* shutdown it asked for is still to land.
CycleLeavesItOn ==
    op = "cycle" /\ ret = "ok" /\ sure /\ ~stale /\ Did("on") => power = "On" /\ ~shutting

\* A finalize that reports success has done what it is for: the installer image is
\* out, and a machine that was power-cycled runs.
FinalizeDelivers == MediaOut /\ CycleLeavesItOn

\* Why these hold, as an inductive invariant.  Every operation has its own way through
\* the steps, and has asked the BMC for certain writes when it gets to one.
Writes == {"insert", "boot", "reset", "eject", "disk", "off", "force", "on"}
Accepted == {did[i] : i \in DOMAIN did}
PathInv ==
    /\ op = "none" <=> pc = "idle"
    /\ ret = "none" <=> pc \notin {"return", "revoke"}
    /\ pc = "inspect" => op \in {"inspect", "clideploy"}
    /\ pc = "probe" => op = "probe"
    /\ pc = "discover" => op \in Deploys \cup Finalizes
    /\ pc \in {"insert", "setboot", "reset", "poll"} => op \in Deploys
    /\ pc \in {"eject", "todisk", "finish"} => op \in Finalizes
    /\ pc \in {"poweroff", "polloff", "pollforced", "poweron"} => op = "cycle"
WriteInv ==
    /\ did \in Seq(Writes)
    /\ pc \in {"idle", "connect", "inspect", "probe", "discover", "insert", "poweroff"}
          => Accepted = {}
    /\ pc = "setboot" => Accepted = {"insert"}
    /\ pc = "reset" => Accepted = {"insert", "boot"}
    /\ pc = "poll" => Accepted = {"insert", "boot", "reset"}
    /\ pc = "polloff" => Accepted = {"off"}
    /\ pc \in {"pollforced", "eject"} => Accepted \subseteq {"off", "force"}
    /\ pc = "todisk" => Accepted \subseteq {"off", "force", "eject"}
    /\ pc = "poweron" => Accepted \subseteq {"off", "force", "eject", "disk"}
    /\ pc = "eject" /\ op = "finalize" => Accepted = {}
    /\ pc = "todisk" /\ op = "finalize" => Accepted = {"eject"}
    /\ pc \in {"todisk", "poweron", "finish"} => "eject" \in Accepted
    /\ ret = "ok" /\ op \in Deploys => {"insert", "boot", "reset"} \subseteq Accepted
    /\ ret = "ok" /\ op \in Finalizes => "eject" \in Accepted

\* A client is open from Connect to Close, and every logout that was lost belongs to an
\* operation that is over.
SessionInv ==
    /\ client # "none" => pc \notin {"idle", "connect", "revoke"}
    /\ sessions = lost + (IF client = "session" THEN 1 ELSE 0)
    /\ lost + (IF pc \in {"idle", "revoke"} THEN 0 ELSE 1) <= ops

\* The percentage reported when a step is reached.
PercentInv ==
    /\ pc \in {"idle", "connect", "inspect", "probe", "discover"} => pct = 0
    /\ pc = "insert" => pct = 10
    /\ pc = "setboot" => pct = 30
    /\ pc = "reset" => pct = 50
    /\ pc = "poll" => pct \in 70 .. taskPollCeil
    /\ pc = "poweroff" => pct = 20
    /\ pc \in {"polloff", "pollforced"} => pct = 40
    /\ pc = "eject" => pct \in 20 .. 40
    /\ pc = "todisk" => pct = 60
    /\ pc = "poweron" => pct = 80
    /\ pc = "finish" => pct \in 80 .. 90

\* A shutdown is only pending on a running machine, and unless somebody else uses the
\* power button a machine that was seen off, or read as off, still is.
PowerInv ==
    /\ shutting => power = "On"
    /\ sure => op = "cycle" /\ pc \in {"eject", "todisk", "poweron", "finish", "return", "revoke"}
    /\ sure /\ ~stale /\ pc \in {"eject", "todisk", "poweron"} => power = "Off"
    /\ sure /\ ~stale /\ "on" \in Accepted => power = "On" /\ ~shutting
    /\ ~stale /\ snap = "Off" /\ pc \in {"insert", "setboot", "reset"} => power = "Off"
    /\ ~stale /\ pc = "reset" => boot = "cd"

\* Every discovery that sees the whole BMC chooses the same candidate, so the image is
\* in no other; the boot was started from it, and the eject emptied it.
Home == findCDMedia(env.quirks, env.layout, Candidates)
AtMedia == pc \in {"insert", "setboot", "reset", "poll", "poweroff", "polloff", "pollforced",
                   "eject", "todisk"}
DeviceInv == AtMedia => dev \in Candidates /\ (~partial => dev = Home)
DriveInv ==
    /\ pc \in {"setboot", "reset"} /\ "insert" \notin tasks => drive[dev] = "iso"
    /\ ~partial => \A i \in Candidates : drive[i] # "empty" => i = Home
StartInv ==
    /\ pc = "poll" \/ (ret = "ok" /\ op \in Deploys)
    /\ "insert" \notin tasks /\ ~stale /\ Starts(resetType(env.quirks, snap, env.allowed), snap)
    => booted
FetchInv ==
    ret = "ok" /\ op \in Deploys /\ tasks = {"insert"} => dev \in Candidates /\ drive[dev] = "iso"
EmptyInv ==
    /\ pc \in {"todisk", "poweron", "finish"} \/ (ret = "ok" /\ op \in Finalizes)
    /\ ~partial /\ ~overtaken /\ (env.liveEject \/ (sure /\ ~stale))
    => \A i \in Candidates : drive[i] = "empty"
MediaInv == DeviceInv /\ DriveInv /\ StartInv /\ FetchInv /\ EmptyInv

\* The reported percentage never falls, except from one poll of a task to the next,
\* and there it stays in the polling window whatever PercentComplete the BMC sends.
ProgressInWindow ==
    [][ op # "none" /\ op' = op /\ pct' < pct
        => pc = "poll" /\ pct' \in taskPollFloor .. taskPollCeil ]_vars

\* Every operation whose context has a deadline ends: also when the BMC's task runs for
\* ever, a power-off never lands, or a request is never answered.
OperationEnds == timed ~> op = "none"

\* The operation refines the promise DeployEject relies on.
Operation == INSTANCE BMCOperation WITH
    kind <- IF op = "clideploy" THEN "deploy" ELSE op, verdict <- ret
KeepsPromise == Operation!Spec
=============================================================================
