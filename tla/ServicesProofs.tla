--------------------------- MODULE ServicesProofs ---------------------------
(***************************************************************************)
(* The netboot server, the one-shot serving of ISOs and the saved BMC      *)
(* targets keep what they promise, for any number of processes, requests   *)
(* and targets.  The theorems are about each service on its own; the       *)
(* last one about their composition.                                       *)
(***************************************************************************)
EXTENDS MCServices, FiniteSetTheorems, TLAPS

-----------------------------------------------------------------------------
(* The netboot server.                                                     *)

NetbootSpec == NetbootInit /\ [][NetbootNext]_netbootVars

\* Every variable of the manager keeps its type (Manager, its processes and their
\* waiting goroutines).
LEMMA NetbootTypeStep == NetbootTypeOK /\ [NetbootNext]_netbootVars => NetbootTypeOK'
<1> SUFFICES ASSUME NetbootTypeOK, [NetbootNext]_netbootVars PROVE NetbootTypeOK'
  OBVIOUS
<1> USE NetbootAssumption
<1>1. ASSUME NEW p \in Process, Start(p) PROVE NetbootTypeOK'
  BY <1>1 DEF NetbootTypeOK, Start
<1>2. ASSUME NEW p \in Process, Exit(p) PROVE NetbootTypeOK'
  BY <1>2 DEF NetbootTypeOK, Exit
<1>3. ASSUME NEW p \in Process, WaitReturns(p) PROVE NetbootTypeOK'
  BY <1>3 DEF NetbootTypeOK, WaitReturns
<1>4. ASSUME NEW p \in Process, ClearStatus(p) PROVE NetbootTypeOK'
  BY <1>4 DEF NetbootTypeOK, ClearStatus
<1>5. CASE Stop
  BY <1>5 DEF NetbootTypeOK, Stop
<1>6. CASE ServerRestarts
  BY <1>6 DEF NetbootTypeOK, ServerRestarts
<1>7. CASE UNCHANGED netbootVars
  BY <1>7 DEF NetbootTypeOK, netbootVars
<1> QED
  BY <1>1, <1>2, <1>3, <1>4, <1>5, <1>6, <1>7 DEF NetbootNext, Waiter

\* Start, Stop, the end of a process, its waiter and a restart of the server all
\* keep the status, the active command and the processes in step.
LEMMA NetbootInvStep ==
    NetbootTypeOK /\ NetbootInv /\ [NetbootNext]_netbootVars => NetbootInv'
<1> SUFFICES ASSUME NetbootTypeOK, NetbootInv, [NetbootNext]_netbootVars PROVE NetbootInv'
  OBVIOUS
<1> USE NetbootAssumption DEF NetbootTypeOK, NetbootInv, RunningServerIsManaged
<1>1. ASSUME NEW p \in Process, Start(p) PROVE NetbootInv'
  BY <1>1 DEF Start
<1>2. ASSUME NEW p \in Process, Exit(p) PROVE NetbootInv'
  BY <1>2 DEF Exit
<1>3. ASSUME NEW p \in Process, WaitReturns(p) PROVE NetbootInv'
  BY <1>3 DEF WaitReturns
<1>4. ASSUME NEW p \in Process, ClearStatus(p) PROVE NetbootInv'
  BY <1>4 DEF ClearStatus, IsActive
<1>5. CASE Stop
  BY <1>5 DEF Stop
<1>6. CASE ServerRestarts
  BY <1>6 DEF ServerRestarts
<1>7. CASE UNCHANGED netbootVars
  BY <1>7 DEF netbootVars
<1> QED
  BY <1>1, <1>2, <1>3, <1>4, <1>5, <1>6, <1>7 DEF NetbootNext, Waiter

LEMMA NetbootInitOK == NetbootInit => NetbootTypeOK /\ NetbootInv
BY DEF NetbootInit, NetbootTypeOK, NetbootInv, RunningServerIsManaged

\* For any number of processes, the netboot server that is up and was not told to
\* stop is the one Manager shows as running and Stop kills, whatever the waiters of
\* earlier ones do, except for one that an earlier run of the fleet server left.
THEOREM NetbootIsManaged == NetbootSpec => []RunningServerIsManaged
<1>2. NetbootTypeOK /\ NetbootInv /\ [NetbootNext]_netbootVars
      => NetbootTypeOK' /\ NetbootInv'
  BY NetbootTypeStep, NetbootInvStep
<1>3. NetbootInv => RunningServerIsManaged
  BY DEF NetbootInv
<1> QED
  BY <1>2, <1>3, NetbootInitOK, PTL DEF NetbootSpec

-----------------------------------------------------------------------------
(* One-shot serving.                                                       *)

ServeSpec == ServeInit /\ [][ServeNext]_serveVars

DepSet == [pc : {"new", "local", "create", "operator", "run", "done"},
           end : 0..(MaxNow + DeployTimeout), lag : 0..(MaxNow + Slack + 1)]

\* A deployment goes on, and the others stay where they are.
LEMMA Goes ==
    ASSUME ServeTypeOK, NEW d \in Deploy,
           NEW pc \in {"new", "local", "create", "operator", "run", "done"}, Goto(d, pc)
    PROVE  /\ dep' \in [Deploy -> DepSet] /\ \A c \in Deploy : c # d => dep'[c] = dep[c]
           /\ dep'[d].pc = pc /\ dep'[d].end = dep[d].end /\ dep'[d].lag = dep[d].lag
<1> DEFINE X == [dep[d] EXCEPT !.pc = pc]
<1>1. dep[d] \in [pc : {"new", "local", "create", "operator", "run", "done"},
                  end : 0..(MaxNow + DeployTimeout), lag : 0..(MaxNow + Slack + 1)]
  BY DEF ServeTypeOK
<1>2. X \in DepSet /\ X.pc = pc /\ X.end = dep[d].end /\ X.lag = dep[d].lag
  BY <1>1 DEF DepSet
<1>3. dep' = [dep EXCEPT ![d] = X] /\ dep \in [Deploy -> DepSet]
  BY DEF Goto, ServeTypeOK, DepSet
<1> HIDE DEF X
<1> QED BY <1>2, <1>3

\* The goroutine starts with a context, and knows how old its token is.
LEMMA StartedIn ==
    ASSUME ServeTypeOK, ServeInv, NEW d \in Deploy, Starts(d)
    PROVE  /\ dep' \in [Deploy -> DepSet] /\ \A c \in Deploy : c # d => dep'[c] = dep[c]
           /\ dep'[d].pc = "run" /\ dep'[d].end = now + DeployTimeout
           /\ dep'[d].lag <= Slack => d \in DOMAIN entries /\ now + DeployTimeout <= entries[d]
<1>a. now \in 0..MaxNow /\ DeployTimeout \in Nat /\ Slack \in Nat /\ MaxNow \in Nat
  BY ServeAssumption DEF ServeTypeOK
<1>e. d \in DOMAIN entries => /\ entries[d] \in (DeployTimeout + Slack)..(MaxNow + DeployTimeout + Slack)
                              /\ entries[d] <= now + DeployTimeout + Slack
  BY <1>a DEF ServeTypeOK, ServeInv, TokenTTL
<1>1. now + DeployTimeout \in 0..(MaxNow + DeployTimeout)
  BY <1>a
<1>2. ASSUME NEW g \in 0..(MaxNow + Slack + 1), g <= Slack => d \in DOMAIN entries /\ now + DeployTimeout <= entries[d],
             dep' = [dep EXCEPT ![d] = [pc |-> "run", end |-> now + DeployTimeout, lag |-> g]]
      PROVE  /\ dep' \in [Deploy -> DepSet] /\ \A c \in Deploy : c # d => dep'[c] = dep[c]
             /\ dep'[d].pc = "run" /\ dep'[d].end = now + DeployTimeout
             /\ dep'[d].lag <= Slack => d \in DOMAIN entries /\ now + DeployTimeout <= entries[d]
  <2> DEFINE X == [pc |-> "run", end |-> now + DeployTimeout, lag |-> g]
  <2>1. X \in DepSet /\ X.pc = "run" /\ X.end = now + DeployTimeout /\ X.lag = g
    BY <1>1 DEF DepSet
  <2>2. dep' = [dep EXCEPT ![d] = X] /\ dep \in [Deploy -> DepSet]
    BY <1>2 DEF ServeTypeOK, DepSet
  <2> HIDE DEF X
  <2> QED BY <1>2, <2>1, <2>2
<1>3. CASE d \in DOMAIN entries
  <2>1. /\ now + TokenTTL - entries[d] \in 0..(MaxNow + Slack + 1)
        /\ now + TokenTTL - entries[d] <= Slack => now + DeployTimeout <= entries[d]
    BY <1>3, <1>a, <1>e DEF TokenTTL
  <2>2. dep' = [dep EXCEPT ![d] = [pc |-> "run", end |-> now + DeployTimeout, lag |-> now + TokenTTL - entries[d]]]
    BY <1>3 DEF Starts
  <2> QED BY <1>2, <1>3, <2>1, <2>2
<1>4. CASE d \notin DOMAIN entries
  <2>1. Slack + 1 \in 0..(MaxNow + Slack + 1) /\ ~(Slack + 1 <= Slack)
    BY <1>a
  <2>2. dep' = [dep EXCEPT ![d] = [pc |-> "run", end |-> now + DeployTimeout, lag |-> Slack + 1]]
    BY <1>4 DEF Starts
  <2> QED BY <1>2, <2>1, <2>2
<1> QED BY <1>3, <1>4

\* What Register, Revoke and the sweeper leave of the registry.
LEMMA Registry ==
    /\ \A d : Register(d) => /\ DOMAIN entries' = DOMAIN entries \union {d} /\ entries'[d] = now + TokenTTL
                             /\ \A c \in DOMAIN entries : c # d => entries'[c] = entries[c]
    /\ \A d : Revoke(d) => /\ DOMAIN entries' = DOMAIN entries \ {d}
                           /\ \A c \in DOMAIN entries' : entries'[c] = entries[c]
    /\ sweep => /\ DOMAIN entries' = {d \in DOMAIN entries : Live(d)}
                /\ \A c \in DOMAIN entries' : entries'[c] = entries[c]
BY DEF Register, Revoke, sweep, Restrict

\* Dep and entries as each step leaves them.
LEMMA ServeSteps ==
    ASSUME ServeTypeOK, ServeInv, [ServeNext]_serveVars
    PROVE  \/ UNCHANGED <<dep, entries>> /\ now' \in {now, now + 1} /\ now' \in 0..MaxNow
           \/ UNCHANGED <<dep, now>> /\ sweep
           \/ /\ dep' \in [Deploy -> DepSet] /\ UNCHANGED now /\ DOMAIN entries' = {}
              /\ \A d \in Deploy : dep'[d].pc # "run"
           \/ \E d \in Deploy :
                 /\ UNCHANGED now /\ dep' \in [Deploy -> DepSet] /\ \A c \in Deploy : c # d => dep'[c] = dep[c]
                 /\ \/ UNCHANGED entries /\ dep'[d].pc # "run" /\ dep[d].pc \notin {"create", "run"}
                    \/ Register(d) /\ dep'[d].pc = "create"
                    \/ Revoke(d) /\ dep'[d].pc = "done"
                    \/ /\ UNCHANGED entries /\ dep'[d].pc = "run" /\ dep'[d].end = now + DeployTimeout
                       /\ dep'[d].lag <= Slack => d \in DOMAIN entries /\ now + DeployTimeout <= entries[d]
<1>a. now \in 0..MaxNow /\ MaxNow \in Nat
  BY ServeAssumption DEF ServeTypeOK
<1>1. CASE UpdateImageSource \/ ArtifactFiles \/ Tick \/ UNCHANGED serveVars
  BY <1>1, <1>a DEF UpdateImageSource, ArtifactFiles, Tick, serveVars
<1>2. CASE sweep BY <1>2 DEF sweep
<1>3. CASE Restart
  <2>1. NotYet \in DepSet /\ NotYet.pc = "new"
    BY ServeAssumption DEF NotYet, DepSet
  <2>2. ASSUME NEW d \in Deploy
        PROVE  [dep[d] EXCEPT !.pc = "done"] \in DepSet /\ [dep[d] EXCEPT !.pc = "done"].pc = "done"
    <3>1. dep[d] \in DepSet
      BY DEF ServeTypeOK, DepSet
    <3> QED BY <3>1 DEF DepSet
  <2>3. dep' = [d \in Deploy |-> IF At(d, "new") THEN NotYet ELSE [dep[d] EXCEPT !.pc = "done"]]
    BY <1>3 DEF Restart
  <2>4. DOMAIN entries' = {} /\ now' = now
    BY <1>3 DEF Restart
  <2> QED BY <2>1, <2>2, <2>3, <2>4
<1>4. ASSUME NEW d \in Deploy, handle(d) \/ FetchEnds(d)
      PROVE  UNCHANGED <<dep, entries>> /\ now' = now
  BY <1>4 DEF handle, FetchEnds
<1>5. ASSUME NEW d \in Deploy, resolveOperatorImageURL(d) \/ localServeEnabled(d) \/ runRedfishDeploy(d)
      PROVE  /\ UNCHANGED now /\ dep' \in [Deploy -> DepSet] /\ \A c \in Deploy : c # d => dep'[c] = dep[c]
             /\ \/ UNCHANGED entries /\ dep'[d].pc # "run" /\ dep[d].pc \notin {"create", "run"}
                \/ Register(d) /\ dep'[d].pc = "create"
                \/ Revoke(d) /\ dep'[d].pc = "done"
  <2>1. CASE resolveOperatorImageURL(d)
    <3>1. Goto(d, "operator") \/ Goto(d, "local")
      BY <2>1 DEF resolveOperatorImageURL
    <3> QED BY <2>1, <3>1, Goes DEF resolveOperatorImageURL, At
  <2>2. CASE localServeEnabled(d)
    BY <2>2, Goes DEF localServeEnabled, At
  <2>3. CASE runRedfishDeploy(d)
    BY <2>3, Goes DEF runRedfishDeploy
  <2> QED BY <1>5, <2>1, <2>2, <2>3
<1>6. ASSUME NEW d \in Deploy, DeployRedfish(d)
      PROVE  /\ UNCHANGED now /\ dep' \in [Deploy -> DepSet] /\ \A c \in Deploy : c # d => dep'[c] = dep[c]
             /\ \/ UNCHANGED entries /\ dep'[d].pc # "run" /\ dep[d].pc \notin {"create", "run"}
                \/ Revoke(d) /\ dep'[d].pc = "done"
                \/ /\ UNCHANGED entries /\ dep'[d].pc = "run" /\ dep'[d].end = now + DeployTimeout
                   /\ dep'[d].lag <= Slack => d \in DOMAIN entries /\ now + DeployTimeout <= entries[d]
  <2>1. CASE Starts(d)
    <3>1. UNCHANGED <<entries, now>>
      BY <1>6, <2>1 DEF DeployRedfish, Starts
    <3> QED BY <2>1, <3>1, StartedIn
  <2>2. CASE CreateFails(d)
    BY <1>6, <2>2, Goes DEF DeployRedfish, CreateFails
  <2>3. CASE At(d, "operator") /\ Goto(d, "done") /\ UNCHANGED entries
    BY <1>6, <2>3, Goes DEF DeployRedfish, At
  <2> QED BY <1>6, <2>1, <2>2, <2>3 DEF DeployRedfish
<1> QED BY <1>1, <1>2, <1>3, <1>4, <1>5, <1>6, <1>a DEF ServeNext

LEMMA ServeTypeStep ==
    ASSUME ServeTypeOK, ServeInv, [ServeNext]_serveVars
    PROVE  ServeTypeOK'
<1>a. now \in 0..MaxNow /\ DeployTimeout \in Nat /\ Slack \in Nat /\ MaxNow \in Nat /\ TokenTTL \in Nat
  BY ServeAssumption DEF ServeTypeOK, TokenTTL
<1>1. settings' \in [url : BOOLEAN, on : BOOLEAN]
  <2>1. settings \in [url : BOOLEAN, on : BOOLEAN]
    BY DEF ServeTypeOK
  <2>2. CASE UpdateImageSource
    <3>1. PICK url \in BOOLEAN, on \in BOOLEAN :
             settings' \in {[settings EXCEPT !.url = url], [settings EXCEPT !.on = on], [url |-> url, on |-> on]}
      BY <2>2 DEF UpdateImageSource
    <3> QED BY <2>1, <3>1
  <2>3. UpdateImageSource \/ UNCHANGED settings
    BY DEF ServeNext, serveVars, sweep, ArtifactFiles, Tick, Restart, resolveOperatorImageURL, localServeEnabled,
           DeployRedfish, runRedfishDeploy, handle, FetchEnds
  <2> QED BY <2>1, <2>2, <2>3
<1>2. listener' \in BOOLEAN /\ disk' \in BOOLEAN /\ fetches' \subseteq Deploy
  BY DEF ServeTypeOK, ServeNext, serveVars, UpdateImageSource, sweep, ArtifactFiles, Tick, Restart,
         resolveOperatorImageURL, localServeEnabled, DeployRedfish, runRedfishDeploy, handle, FetchEnds
<1>3. dep' \in [Deploy -> DepSet] /\ now' \in 0..MaxNow
  BY <1>a, ServeSteps DEF ServeTypeOK, DepSet
<1>4. /\ DOMAIN entries' \subseteq Deploy
      /\ \A d \in DOMAIN entries' : entries'[d] \in TokenTTL..(MaxNow + TokenTTL)
  <2>0. /\ DOMAIN entries \subseteq Deploy
        /\ \A d \in DOMAIN entries : entries[d] \in TokenTTL..(MaxNow + TokenTTL)
    BY DEF ServeTypeOK
  <2>1. CASE UNCHANGED entries BY <2>0, <2>1
  <2>2. ASSUME NEW d \in Deploy, Register(d) \/ Revoke(d)
        PROVE  /\ DOMAIN entries' \subseteq Deploy
               /\ \A c \in DOMAIN entries' : entries'[c] \in TokenTTL..(MaxNow + TokenTTL)
    <3>1. now + TokenTTL \in TokenTTL..(MaxNow + TokenTTL)
      BY <1>a
    <3>2. CASE Register(d)
      <4>1. /\ DOMAIN entries' = DOMAIN entries \union {d} /\ entries'[d] = now + TokenTTL
            /\ \A c \in DOMAIN entries : c # d => entries'[c] = entries[c]
        BY <3>2, Registry
      <4> QED BY <2>0, <3>1, <4>1
    <3>3. CASE Revoke(d)
      <4>1. DOMAIN entries' = DOMAIN entries \ {d} /\ \A c \in DOMAIN entries' : entries'[c] = entries[c]
        BY <3>3, Registry
      <4> QED BY <2>0, <4>1
    <3> QED BY <2>2, <3>2, <3>3
  <2>3. CASE sweep BY <2>0, <2>3, Registry
  <2> QED BY <2>1, <2>2, <2>3, ServeSteps
<1> QED BY <1>1, <1>2, <1>3, <1>4 DEF ServeTypeOK, DepSet

LEMMA ServeInvStep ==
    ASSUME ServeTypeOK, ServeInv, [ServeNext]_serveVars
    PROVE  ServeInv'
<1>a. now \in 0..MaxNow /\ DeployTimeout \in Nat /\ Slack \in Nat /\ MaxNow \in Nat /\ TokenTTL \in Nat
  BY ServeAssumption DEF ServeTypeOK, TokenTTL
<1>e. DOMAIN entries \subseteq Deploy /\ \A d \in DOMAIN entries : entries[d] \in Nat
  BY <1>a DEF ServeTypeOK
<1>d. \A d \in Deploy : dep[d].end \in Nat /\ dep[d].lag \in Nat
  BY <1>a DEF ServeTypeOK
<1>i. /\ \A d \in DOMAIN entries : dep[d].pc \in {"create", "run"}
      /\ \A d \in DOMAIN entries : entries[d] <= now + TokenTTL
      /\ \A d \in Deploy : dep[d].pc = "run" /\ dep[d].lag <= Slack /\ now <= dep[d].end
                              => d \in DOMAIN entries /\ dep[d].end <= entries[d]
  BY DEF ServeInv, NoStrayToken, At
<1> SUFFICES /\ \A d \in DOMAIN entries' : dep'[d].pc \in {"create", "run"}
             /\ \A d \in DOMAIN entries' : entries'[d] <= now' + TokenTTL
             /\ \A d \in Deploy : dep'[d].pc = "run" /\ dep'[d].lag <= Slack /\ now' <= dep'[d].end
                              => d \in DOMAIN entries' /\ dep'[d].end <= entries'[d]
  BY DEF ServeInv, NoStrayToken, At, TokenTTL
<1>1. CASE UNCHANGED <<dep, entries>> /\ now' \in {now, now + 1}
  <2>1. now <= now' /\ now' \in Nat
    BY <1>1, <1>a
  <2>2. \A d \in DOMAIN entries : entries[d] <= now' + TokenTTL
    BY <1>a, <1>e, <1>i, <2>1
  <2>3. ASSUME NEW d \in Deploy, dep[d].pc = "run", dep[d].lag <= Slack, now' <= dep[d].end
        PROVE  now <= dep[d].end
    BY <1>a, <1>d, <2>1, <2>3
  <2> QED BY <1>1, <1>i, <2>2, <2>3
<1>2. CASE UNCHANGED <<dep, now>> /\ sweep
  <2>1. ASSUME NEW d \in Deploy, dep[d].pc = "run", dep[d].lag <= Slack, now <= dep[d].end
        PROVE  d \in DOMAIN entries' /\ dep[d].end <= entries'[d]
    <3>1. d \in DOMAIN entries /\ dep[d].end <= entries[d]
      BY <1>i, <2>1
    <3>2. Live(d)
      BY <1>a, <1>d, <1>e, <2>1, <3>1 DEF Live
    <3> QED BY <1>2, <3>1, <3>2, Registry
  <2> QED BY <1>2, <1>i, <2>1, Registry
<1>3. CASE DOMAIN entries' = {} /\ \A d \in Deploy : dep'[d].pc # "run"
  BY <1>3
<1>4. ASSUME NEW d \in Deploy, now' = now, \A c \in Deploy : c # d => dep'[c] = dep[c]
      PROVE  /\ UNCHANGED entries /\ dep'[d].pc # "run" /\ dep[d].pc \notin {"create", "run"} => ServeInv'
             /\ Register(d) /\ dep'[d].pc = "create" => ServeInv'
             /\ Revoke(d) /\ dep'[d].pc = "done" => ServeInv'
             /\ /\ UNCHANGED entries /\ dep'[d].pc = "run" /\ dep'[d].end = now + DeployTimeout
                /\ dep'[d].lag <= Slack => d \in DOMAIN entries /\ now + DeployTimeout <= entries[d]
                => ServeInv'
  <2> SUFFICES ASSUME \/ UNCHANGED entries /\ dep'[d].pc # "run" /\ dep[d].pc \notin {"create", "run"}
                      \/ Register(d) /\ dep'[d].pc = "create"
                      \/ Revoke(d) /\ dep'[d].pc = "done"
                      \/ /\ UNCHANGED entries /\ dep'[d].pc = "run" /\ dep'[d].end = now + DeployTimeout
                         /\ dep'[d].lag <= Slack => d \in DOMAIN entries /\ now + DeployTimeout <= entries[d]
               PROVE  ServeInv'
    OBVIOUS
  <2>1. \A c \in DOMAIN entries' : dep'[c].pc \in {"create", "run"}
    BY <1>4, <1>e, <1>i, Registry
  <2>2. \A c \in DOMAIN entries' : entries'[c] <= now' + TokenTTL
    <3>1. now + TokenTTL <= now + TokenTTL
      BY <1>a
    <3>2. CASE Register(d)
      <4>1. /\ DOMAIN entries' = DOMAIN entries \union {d} /\ entries'[d] = now + TokenTTL
            /\ \A c \in DOMAIN entries : c # d => entries'[c] = entries[c]
        BY <3>2, Registry
      <4> QED BY <1>4, <1>i, <3>1, <4>1
    <3>3. CASE Revoke(d)
      <4>1. DOMAIN entries' = DOMAIN entries \ {d} /\ \A c \in DOMAIN entries' : entries'[c] = entries[c]
        BY <3>3, Registry
      <4> QED BY <1>4, <1>i, <4>1
    <3>4. CASE UNCHANGED entries BY <1>4, <1>i, <3>4
    <3> QED BY <3>2, <3>3, <3>4
  <2>3. ASSUME NEW c \in Deploy, dep'[c].pc = "run", dep'[c].lag <= Slack, now' <= dep'[c].end
        PROVE  c \in DOMAIN entries' /\ dep'[c].end <= entries'[c]
    BY <1>4, <1>i, <2>3, Registry
  <2> QED BY <2>1, <2>2, <2>3 DEF ServeInv, NoStrayToken, At, TokenTTL
<1> QED BY <1>1, <1>2, <1>3, <1>4, ServeSteps DEF ServeInv, NoStrayToken, At, TokenTTL

LEMMA ServeInitOK == ServeInit => ServeTypeOK /\ ServeInv
<1> SUFFICES ASSUME ServeInit PROVE ServeTypeOK /\ ServeInv
  OBVIOUS
<1>1. NotYet \in DepSet /\ NotYet.pc = "new"
  BY ServeAssumption DEF NotYet, DepSet
<1>2. DOMAIN entries = {} /\ \A d \in Deploy : dep[d] = NotYet
  BY DEF ServeInit
<1>3. ServeInv
  BY <1>1, <1>2 DEF ServeInv, NoStrayToken, At
<1>4. ServeTypeOK
  BY <1>1, <1>2, ServeAssumption DEF ServeInit, ServeTypeOK, DepSet
<1> QED BY <1>3, <1>4

\* For any number of deployments, lifetimes and times of sweeping, a serve token is
\* registered only while its own deployment is created or runs, and a deployment that
\* was started in time finds it live until its context ends.
THEOREM TokensFollowDeployments == ServeSpec => []TokenFollowsDeployment
<1>2. ServeTypeOK /\ ServeInv /\ [ServeNext]_serveVars => ServeTypeOK' /\ ServeInv'
  BY ServeTypeStep, ServeInvStep
<1>3. ServeTypeOK /\ ServeInv => TokenFollowsDeployment
  <2> SUFFICES ASSUME ServeTypeOK, ServeInv,
                      NEW d \in Deploy, At(d, "run"), dep[d].lag <= Slack, now <= dep[d].end
               PROVE  Live(d)
    BY DEF TokenFollowsDeployment, ServedWhileDeploying, ServeInv
  <2>1. d \in DOMAIN entries /\ dep[d].end <= entries[d]
    BY DEF ServeInv
  <2>2. dep[d].end \in Nat /\ entries[d] \in Nat /\ now \in Nat
    BY <2>1, ServeAssumption DEF ServeTypeOK, TokenTTL
  <2> QED BY <2>1, <2>2 DEF Live
<1> QED BY <1>2, <1>3, ServeInitOK, PTL DEF ServeSpec


-----------------------------------------------------------------------------
(* The BMC targets.                                                        *)

TargetSpec == TargetInit /\ [][TargetNext]_targetVars

RowSets == {<<>>} \union {<<r>> : r \in Rows}
WorkSet == [kind : {"idle", "update", "ping", "inspect", "refresh", "list", "failed", "loser"},
            todo : Seq(Copies), live : BOOLEAN]
Handles(k, todo) == k \in {"update", "ping", "inspect"} => todo # <<>>

LEMMA RowFields ==
    ASSUME NEW r \in Rows
    PROVE  /\ r.conf \in 1..MaxEdits /\ r.conf \in Nat \ {0} /\ r.status \in Status
           /\ <<r>> \in RowSets /\ <<r>> # <<>> /\ <<r>>[1] = r
           /\ \A s \in Status : /\ [r EXCEPT !.status = s] \in Rows
                                /\ [r EXCEPT !.status = s].conf = r.conf /\ [r EXCEPT !.status = s].status = s
           /\ \A n \in 1..MaxEdits : /\ [r EXCEPT !.conf = n] \in Rows
                                     /\ [r EXCEPT !.conf = n].conf = n /\ [r EXCEPT !.conf = n].status = r.status
BY TargetAssumption DEF Rows, RowSets

\* The copies a request works on are rows of targets.
LEMMA FirstCopy ==
    ASSUME TargetTypeOK, TargetInv, NEW w \in Worker, work[w].todo # <<>>
    PROVE  LET c == work[w].todo[1]
           IN  c \in Copies /\ c.id \in Target /\ c.data \in Rows /\ Fair(c)
<1>1. work[w].todo \in Seq(Copies)
  BY DEF TargetTypeOK
<1>2. 1 \in 1 .. Len(work[w].todo) /\ work[w].todo[1] \in Copies
  BY <1>1
<1>3. Fair(work[w].todo[1])
  BY <1>2 DEF TargetInv
<1> QED BY <1>2, <1>3 DEF Copies

\* A copy that is made of a row.
LEMMA CopyOf ==
    ASSUME TargetTypeOK, TargetInv, NEW t \in Target, row[t] # <<>>
    PROVE  Copy(t) \in Copies /\ Fair(Copy(t))
<1>1. row[t] \in RowSets
  BY DEF TargetTypeOK, RowSets
<1>2. row[t][1] \in Rows
  BY <1>1 DEF RowSets
<1>3. t \notin checked => row[t][1].status = "unknown"
  BY DEF TargetInv, StatusComesFromChecks
<1>4. t \in used
  BY DEF TargetInv
<1>5. Copy(t) \in Copies /\ Copy(t).id = t /\ Copy(t).data = row[t][1]
  BY <1>2 DEF Copy, Copies
<1> QED BY <1>3, <1>4, <1>5 DEF Fair

\* The upsert of a row read before.
LEMMA Saved ==
    ASSUME TargetTypeOK, TargetInv, NEW c \in Copies, Fair(c), NEW data \in Rows, Save(c, data),
           checked \subseteq checked', used' = used,
           c.id \notin checked' => data.status = c.data.status,
           \/ newest' = newest /\ data.conf = c.data.conf
           \/ newest' = [newest EXCEPT ![c.id] = data.conf]
    PROVE  /\ row' \in [Target -> RowSets] /\ straddled' \subseteq Target
           /\ newest' \in [Target -> 0..MaxEdits]
           /\ AdminEditStands' /\ StatusComesFromChecks'
           /\ \A t \in Target : row'[t] # <<>> => t \in used'
<1>0. c.id \in Target /\ row \in [Target -> RowSets] /\ straddled \subseteq Target /\ newest \in [Target -> 0..MaxEdits]
  BY DEF Copies, TargetTypeOK, RowSets
<1>1. row' = [row EXCEPT ![c.id] = <<data>>]
  BY DEF Save
<1>2. /\ row' \in [Target -> RowSets] /\ row'[c.id] # <<>> /\ row'[c.id][1] = data
      /\ \A t \in Target : t # c.id => row'[t] = row[t]
  BY <1>0, <1>1, RowFields
<1>3. /\ straddled \subseteq straddled' /\ straddled' \subseteq Target
      /\ c.id \notin straddled' => newest[c.id] = c.data.conf
  BY <1>0 DEF Save
<1>4. data.conf \in 1..MaxEdits /\ data.conf # 0 /\ data.conf \in 0..MaxEdits
  <2>1. data.conf \in 1..MaxEdits
    BY RowFields
  <2> QED BY <2>1, TargetAssumption
<1>5. newest' \in [Target -> 0..MaxEdits] /\ \A t \in Target : t # c.id => newest'[t] = newest[t]
  BY <1>0, <1>4
<1>6. c.id \notin straddled' => newest'[c.id] = data.conf
  BY <1>0, <1>3
<1>7. AdminEditStands'
  <2> SUFFICES ASSUME NEW t \in Target \ straddled'
               PROVE  IF newest'[t] = 0 THEN row'[t] = <<>> ELSE row'[t] # <<>> /\ row'[t][1].conf = newest'[t]
    BY DEF AdminEditStands
  <2>1. CASE t = c.id BY <1>2, <1>4, <1>6, <2>1
  <2>2. CASE t # c.id BY <1>2, <1>3, <1>5, <2>2 DEF TargetInv, AdminEditStands
  <2> QED BY <2>1, <2>2
<1>8. StatusComesFromChecks'
  <2> SUFFICES ASSUME NEW t \in Target \ checked', row'[t] # <<>> PROVE row'[t][1].status = "unknown"
    BY DEF StatusComesFromChecks
  <2>1. CASE t = c.id BY <1>2, <2>1 DEF Fair
  <2>2. CASE t # c.id BY <1>2, <2>2 DEF TargetInv, StatusComesFromChecks
  <2> QED BY <2>1, <2>2
<1>9. \A t \in Target : row'[t] # <<>> => t \in used'
  BY <1>2 DEF TargetInv, Fair
<1> QED BY <1>2, <1>3, <1>5, <1>7, <1>8, <1>9

\* What a step must keep of the rows.
RowsKept ==
    /\ row' \in [Target -> RowSets]
    /\ used' \subseteq Target /\ straddled' \subseteq Target /\ checked' \subseteq used'
    /\ used \subseteq used' /\ checked \subseteq checked'
    /\ edits' \in 0..MaxEdits /\ newest' \in [Target -> 0..MaxEdits]
    /\ AdminEditStands' /\ StatusComesFromChecks'
    /\ \A t \in Target : row'[t] # <<>> => t \in used'

LEMMA SameRows ==
    ASSUME TargetTypeOK, TargetInv, UNCHANGED <<row, edits, used, newest, straddled, checked>>
    PROVE  RowsKept
BY DEF RowsKept, TargetTypeOK, RowSets, TargetInv, AdminEditStands, StatusComesFromChecks

LEMMA CreateRows ==
    ASSUME TargetTypeOK, TargetInv, NEW t \in Target, CreateBMCTarget(t) \/ DeleteBMCTarget(t)
    PROVE  RowsKept
<1>0. row \in [Target -> RowSets] /\ newest \in [Target -> 0..MaxEdits] /\ edits \in 0..MaxEdits
  BY DEF TargetTypeOK, RowSets
<1>1. CASE CreateBMCTarget(t)
  <2> DEFINE r == [conf |-> edits + 1, status |-> "unknown"]
  <2>1. edits + 1 \in 1..MaxEdits /\ edits + 1 \in 0..MaxEdits /\ edits + 1 # 0
    BY <1>0, <1>1, TargetAssumption DEF CreateBMCTarget
  <2>2. r \in Rows /\ r.conf = edits + 1 /\ r.status = "unknown"
    BY <2>1 DEF Rows, Status
  <2>3. PICK status \in Status : row' = [row EXCEPT ![t] = <<clearBMCStatusCache([conf |-> edits + 1, status |-> status])>>]
    BY <1>1 DEF CreateBMCTarget
  <2>4. clearBMCStatusCache([conf |-> edits + 1, status |-> status]) = r
    BY DEF clearBMCStatusCache
  <2>5. row' = [row EXCEPT ![t] = <<r>>]
    BY <2>3, <2>4
  <2> HIDE DEF r
  <2>6. /\ row' \in [Target -> RowSets] /\ row'[t] # <<>> /\ row'[t][1] = r
        /\ \A s \in Target : s # t => row'[s] = row[s]
    BY <1>0, <2>2, <2>5, RowFields
  <2>7. /\ newest' \in [Target -> 0..MaxEdits] /\ newest'[t] = edits + 1
        /\ \A s \in Target : s # t => newest'[s] = newest[s]
    BY <1>0, <1>1, <2>1 DEF CreateBMCTarget
  <2>8. /\ edits' = edits + 1 /\ used' = used \union {t} /\ straddled' = straddled /\ checked' = checked
        /\ used \subseteq Target /\ straddled \subseteq Target /\ checked \subseteq used
    BY <1>1 DEF CreateBMCTarget, TargetTypeOK
  <2>9. AdminEditStands'
    <3> SUFFICES ASSUME NEW s \in Target \ straddled'
                 PROVE  IF newest'[s] = 0 THEN row'[s] = <<>> ELSE row'[s] # <<>> /\ row'[s][1].conf = newest'[s]
      BY DEF AdminEditStands
    <3>1. CASE s = t BY <2>1, <2>2, <2>6, <2>7, <3>1
    <3>2. CASE s # t BY <2>6, <2>7, <2>8, <3>2 DEF TargetInv, AdminEditStands
    <3> QED BY <3>1, <3>2
  <2>10. StatusComesFromChecks'
    BY <2>2, <2>6, <2>8 DEF TargetInv, StatusComesFromChecks
  <2>11. \A s \in Target : row'[s] # <<>> => s \in used'
    BY <2>6, <2>8 DEF TargetInv
  <2> QED BY <2>1, <2>6, <2>7, <2>8, <2>9, <2>10, <2>11 DEF RowsKept
<1>2. CASE DeleteBMCTarget(t)
  <2>1. /\ row' \in [Target -> RowSets] /\ row'[t] = <<>> /\ \A s \in Target : s # t => row'[s] = row[s]
    BY <1>0, <1>2 DEF DeleteBMCTarget, RowSets
  <2>2. /\ newest' \in [Target -> 0..MaxEdits] /\ newest'[t] = 0
        /\ \A s \in Target : s # t => newest'[s] = newest[s]
    BY <1>0, <1>2, TargetAssumption DEF DeleteBMCTarget
  <2>3. UNCHANGED <<edits, used, straddled, checked>>
    BY <1>2 DEF DeleteBMCTarget
  <2>4. AdminEditStands'
    BY <2>1, <2>2, <2>3 DEF TargetInv, AdminEditStands
  <2>5. StatusComesFromChecks' /\ \A s \in Target : row'[s] # <<>> => s \in used'
    BY <2>1, <2>3 DEF TargetInv, StatusComesFromChecks
  <2> QED BY <1>0, <2>1, <2>2, <2>3, <2>4, <2>5 DEF RowsKept, TargetTypeOK
<1> QED BY <1>1, <1>2

LEMMA UpdateRows ==
    ASSUME TargetTypeOK, TargetInv, NEW w \in Worker, UpdateBMCTarget(w)
    PROVE  RowsKept
<1> DEFINE c == work[w].todo[1]
           d == [c.data EXCEPT !.conf = edits + 1]
<1>0. c \in Copies /\ c.data \in Rows /\ Fair(c) /\ c.id \in Target
  <2>1. work[w].todo # <<>>
    BY DEF UpdateBMCTarget, TargetTypeOK
  <2> QED BY <2>1, FirstCopy
<1>1. CASE edits < MaxEdits /\ edits' = edits + 1 /\ Save(c, d) /\ newest' = [newest EXCEPT ![c.id] = edits + 1]
  <2>1. edits + 1 \in 1..MaxEdits /\ edits' \in 0..MaxEdits
    BY <1>1, TargetAssumption DEF TargetTypeOK
  <2>2. d \in Rows /\ d.conf = edits + 1 /\ d.status = c.data.status
    <3>1. \A r \in Rows, n \in 1..MaxEdits : /\ [r EXCEPT !.conf = n] \in Rows
                                            /\ [r EXCEPT !.conf = n].conf = n
                                            /\ [r EXCEPT !.conf = n].status = r.status
      BY DEF Rows
    <3> QED BY <1>0, <2>1, <3>1, Zenon
  <2>3. UNCHANGED <<used, checked>>
    BY DEF UpdateBMCTarget
  <2> HIDE DEF c, d
  <2>4. /\ row' \in [Target -> RowSets] /\ straddled' \subseteq Target
        /\ newest' \in [Target -> 0..MaxEdits]
        /\ AdminEditStands' /\ StatusComesFromChecks'
        /\ \A t \in Target : row'[t] # <<>> => t \in used'
    BY <1>0, <1>1, <2>2, <2>3, Saved
  <2> QED BY <2>1, <2>3, <2>4 DEF RowsKept, TargetTypeOK
<1>2. CASE UNCHANGED <<row, edits, newest, straddled>>
  BY <1>2, SameRows DEF UpdateBMCTarget
<1> QED BY <1>1, <1>2 DEF UpdateBMCTarget

\* A check saves the copy it was made with, or nothing.
LEMMA CheckRows ==
    ASSUME TargetTypeOK, TargetInv, NEW w \in Worker,
           PingBMCTarget(w) \/ InspectHardware(w) \/ RefreshNext(w)
    PROVE  RowsKept
<1> DEFINE c == work[w].todo[1]
<1>0. c \in Copies /\ c.data \in Rows /\ Fair(c) /\ c.id \in Target /\ c.id \in used
  <2>1. work[w].todo # <<>>
    BY DEF PingBMCTarget, InspectHardware, RefreshNext, TargetTypeOK
  <2> QED BY <2>1, FirstCopy DEF Fair
<1>1. PICK outcome \in Outcomes, ok \in BOOLEAN : persist(c, [c.data EXCEPT !.status = Found(outcome)], ok)
  <2>1. \A o \in Outcomes : (o # "timeout" /\ work[w].live) \in BOOLEAN /\ (o # "timeout") \in BOOLEAN
    OBVIOUS
  <2> QED BY <2>1 DEF PingBMCTarget, InspectHardware, RefreshNext, pingTarget
<1>2. UNCHANGED <<edits, used, newest>>
  BY DEF PingBMCTarget, InspectHardware, RefreshNext
<1> DEFINE d == [c.data EXCEPT !.status = Found(outcome)]
<1>3. Found(outcome) \in Status
  BY DEF Found, Status
<1>4. d \in Rows /\ d.conf = c.data.conf
  <2>1. \A r \in Rows, s \in Status : [r EXCEPT !.status = s] \in Rows /\ [r EXCEPT !.status = s].conf = r.conf
    BY RowFields
  <2> QED BY <1>0, <1>3, <2>1, Zenon
<1>5. persist(c, d, ok)
  BY <1>1
<1> HIDE DEF c, d
<1>6. CASE Save(c, d) /\ checked' = checked \union {c.id}
  <2>4. /\ row' \in [Target -> RowSets] /\ straddled' \subseteq Target
        /\ newest' \in [Target -> 0..MaxEdits]
        /\ AdminEditStands' /\ StatusComesFromChecks'
        /\ \A t \in Target : row'[t] # <<>> => t \in used'
    BY <1>0, <1>2, <1>4, <1>6, Saved
  <2> QED BY <1>0, <1>2, <1>6, <2>4 DEF RowsKept, TargetTypeOK
<1>7. CASE UNCHANGED <<row, straddled, checked>>
  BY <1>2, <1>7, SameRows
<1> QED BY <1>5, <1>6, <1>7 DEF persist

LEMMA StepRows ==
    ASSUME TargetTypeOK, TargetInv, [TargetNext]_targetVars
    PROVE  RowsKept
<1>1. ASSUME NEW w \in Worker, NEW kind, GetByID(w, kind) PROVE RowsKept
  BY <1>1, SameRows DEF GetByID
<1>2. ASSUME NEW w \in Worker, tryAcquire(w) \/ List(w) \/ RefreshAllBMCTargets(w) \/ ClientGone(w) PROVE RowsKept
  BY <1>2, SameRows DEF tryAcquire, List, RefreshAllBMCTargets, ClientGone
<1>3. CASE UNCHANGED targetVars BY <1>3, SameRows DEF targetVars
<1> QED BY <1>1, <1>2, <1>3, CreateRows, UpdateRows, CheckRows DEF TargetNext, Refresh


\* What a step makes of the work of a request: it is left, it is entered with copies that
\* can be told to be fair, or what is left of it shrinks.
Works(w, v) ==
    /\ v \in WorkSet /\ Handles(v.kind, v.todo)
    /\ \A i \in 1 .. Len(v.todo) : Fair(v.todo[i])
    /\ work' = [work EXCEPT ![w] = v]

LEMMA IdleWorks ==
    ASSUME NEW w \in Worker, Leave(w) PROVE Works(w, Idle)
<1>1. Idle \in WorkSet /\ Idle.kind = "idle" /\ Idle.todo = <<>>
  BY DEF Idle, WorkSet
<1>2. Len(Idle.todo) = 0
  BY <1>1
<1> HIDE DEF Idle
<1>3. \A i \in 1 .. Len(Idle.todo) : Fair(Idle.todo[i])
  BY <1>2
<1> QED BY <1>1, <1>3 DEF Works, Leave, Handles

LEMMA EnterWorks ==
    ASSUME NEW w \in Worker, NEW kind \in {"update", "ping", "inspect", "refresh", "list", "loser"},
           NEW todo \in Seq(Copies), Handles(kind, todo),
           \A i \in 1 .. Len(todo) : Fair(todo[i]), Enter(w, kind, todo)
    PROVE  \E v : Works(w, v) /\ v.kind = kind
<1> DEFINE v == [kind |-> kind, todo |-> todo, live |-> TRUE]
<1>1. v \in WorkSet /\ v.kind = kind /\ v.todo = todo
  BY DEF WorkSet
<1>2. work' = [work EXCEPT ![w] = v]
  BY DEF Enter
<1> HIDE DEF v
<1>3. Works(w, v) /\ v.kind = kind
  BY <1>1, <1>2 DEF Works
<1> QED BY <1>3

LEMMA GetWorks ==
    ASSUME TargetTypeOK, TargetInv, NEW w \in Worker, NEW kind \in {"update", "ping", "inspect"},
           GetByID(w, kind)
    PROVE  \E v : Works(w, v) /\ v.kind = kind
<1>1. PICK t \in Target : row[t] # <<>> /\ Enter(w, kind, <<Copy(t)>>)
  BY DEF GetByID
<1>2. Copy(t) \in Copies /\ Fair(Copy(t))
  BY <1>1, CopyOf
<1> DEFINE c == Copy(t)
<1> HIDE DEF c
<1>3. c \in Copies /\ Fair(c) /\ Enter(w, kind, <<c>>)
  BY <1>1, <1>2 DEF c
<1>4. <<c>> \in Seq(Copies) /\ <<c>> # <<>> /\ Len(<<c>>) = 1 /\ <<c>>[1] = c
  BY <1>3
<1> DEFINE s == <<c>>
<1> HIDE DEF s
<1>5. s \in Seq(Copies) /\ s # <<>> /\ Len(s) = 1 /\ s[1] = c /\ Enter(w, kind, s)
  BY <1>3, <1>4 DEF s
<1>6. \A i \in 1 .. Len(s) : Fair(s[i])
  BY <1>3, <1>5
<1> QED BY <1>5, <1>6, EnterWorks DEF Handles

\* The listing: a copy of each row.
LEMMA ListWorks ==
    ASSUME TargetTypeOK, TargetInv, NEW w \in Worker, List(w)
    PROVE  \E v : Works(w, v) /\ v.kind \in {"refresh", "failed"}
<1>0. work[w] \in WorkSet /\ work[w].kind = "list" /\ \A i \in 1 .. Len(work[w].todo) : Fair(work[w].todo[i])
  BY DEF TargetTypeOK, WorkSet, TargetInv, List
<1>1. ASSUME NEW ids \in SetToSeqs({t \in Target : row[t] # <<>>}),
             Enter(w, "refresh", [i \in DOMAIN ids |-> Copy(ids[i])])
      PROVE  \E v : Works(w, v) /\ v.kind = "refresh"
  <2> DEFINE T == {t \in Target : row[t] # <<>>}
             todo == [i \in DOMAIN ids |-> Copy(ids[i])]
  <2>1. IsFiniteSet(T)
    BY TargetAssumption, FS_Subset, Zenon
  <2>2. Cardinality(T) \in Nat
    BY <2>1, FS_CardinalityType
  <2>3. ids \in [1..Cardinality(T) -> T]
    BY DEF SetToSeqs
  <2>4. \A t \in T : Copy(t) \in Copies /\ Fair(Copy(t))
    BY CopyOf
  <2> DEFINE n == Cardinality(T)
  <2> HIDE DEF n, T
  <2>5. n \in Nat /\ ids \in [1..n -> T]
    BY <2>2, <2>3 DEF n
  <2>6. todo \in [1..n -> Copies] /\ \A i \in 1..n : Fair(todo[i])
    BY <2>4, <2>5
  <2>7. Enter(w, "refresh", todo)
    BY <1>1
  <2> HIDE DEF todo
  <2>8. todo \in Seq(Copies) /\ Len(todo) = n
    BY <2>5, <2>6
  <2> QED BY <2>6, <2>7, <2>8, EnterWorks DEF Handles
<1>2. CASE work' = [work EXCEPT ![w] = [work[w] EXCEPT !.kind = "failed"]]
  <2> DEFINE v == [work[w] EXCEPT !.kind = "failed"]
  <2>1. v \in WorkSet /\ v.kind = "failed" /\ v.todo = work[w].todo
    BY <1>0 DEF WorkSet
  <2>2. work' = [work EXCEPT ![w] = v]
    BY <1>2
  <2> HIDE DEF v
  <2>3. Works(w, v)
    BY <1>0, <2>1, <2>2 DEF Works, Handles
  <2> QED BY <2>1, <2>3
<1> QED BY <1>1, <1>2 DEF List

LEMMA RefreshWorks ==
    ASSUME TargetTypeOK, TargetInv, NEW w \in Worker, RefreshNext(w) \/ ClientGone(w)
    PROVE  \E v : Works(w, v) /\ v.kind = work[w].kind
<1>0. /\ work[w] \in WorkSet /\ work[w].kind \in {"list", "refresh"} /\ work[w].todo \in Seq(Copies)
      /\ \A i \in 1 .. Len(work[w].todo) : Fair(work[w].todo[i])
  BY DEF TargetTypeOK, WorkSet, TargetInv, RefreshNext, ClientGone
<1>1. CASE RefreshNext(w)
  <2> DEFINE v == [work[w] EXCEPT !.todo = Tail(work[w].todo)]
  <2>1. work[w].todo # <<>> /\ work' = [work EXCEPT ![w] = v]
    BY <1>1 DEF RefreshNext
  <2> DEFINE s == work[w].todo
             q == Tail(work[w].todo)
  <2>2. /\ q \in Seq(Copies) /\ Len(q) = Len(s) - 1 /\ Len(s) \in Nat
        /\ \A i \in 1 .. Len(q) : q[i] = s[i + 1]
    BY <1>0, <2>1
  <2>3. \A i \in 1 .. Len(q) : Fair(q[i])
    <3> SUFFICES ASSUME NEW i \in 1 .. Len(q) PROVE Fair(q[i])
      OBVIOUS
    <3>1. i + 1 \in 1 .. Len(s)
      BY <2>2
    <3>2. Fair(s[i + 1])
      BY <1>0, <3>1
    <3> QED BY <2>2, <3>2
  <2>4. v \in WorkSet /\ v.kind = work[w].kind /\ v.todo = q
    <3> HIDE DEF q
    <3>1. [work[w] EXCEPT !.todo = q] \in WorkSet /\ [work[w] EXCEPT !.todo = q].kind = work[w].kind
          /\ [work[w] EXCEPT !.todo = q].todo = q
      BY <1>0, <2>2 DEF WorkSet
    <3> QED BY <3>1 DEF q
  <2> HIDE DEF v, q
  <2>5. Works(w, v)
    BY <1>0, <2>1, <2>3, <2>4 DEF Works, Handles
  <2> QED BY <2>4, <2>5
<1>2. CASE ClientGone(w)
  <2> DEFINE v == [work[w] EXCEPT !.live = FALSE]
  <2>1. v \in WorkSet /\ v.kind = work[w].kind /\ v.todo = work[w].todo
    BY <1>0 DEF WorkSet
  <2>2. work' = [work EXCEPT ![w] = v]
    BY <1>2 DEF ClientGone
  <2> HIDE DEF v
  <2>3. Works(w, v)
    BY <1>0, <2>1, <2>2 DEF Works, Handles
  <2> QED BY <2>1, <2>3
<1> QED BY <1>1, <1>2

\* A copy that is fair stays so: targets are created and checked, never forgotten.
FairNext(c) == c.id \in used' /\ (c.id \notin checked' => c.data.status = "unknown")

LEMMA FairStays ==
    ASSUME RowsKept, NEW c, Fair(c) PROVE FairNext(c)
BY DEF RowsKept, Fair, FairNext

\* What a step must keep of the requests.
WorkKept ==
    /\ work' \in [Worker -> WorkSet]
    /\ \A w \in Worker : Handles(work'[w].kind, work'[w].todo)
    /\ \A w \in Worker : \A i \in 1 .. Len(work'[w].todo) : FairNext(work'[w].todo[i])

LEMMA WorksKept ==
    ASSUME TargetTypeOK, TargetInv, RowsKept, NEW w \in Worker, NEW v, Works(w, v)
    PROVE  WorkKept /\ work'[w] = v /\ \A u \in Worker : u # w => work'[u] = work[u]
<1>1. /\ work \in [Worker -> WorkSet] /\ \A u \in Worker : Handles(work[u].kind, work[u].todo)
      /\ \A u \in Worker : \A i \in 1 .. Len(work[u].todo) : Fair(work[u].todo[i])
  BY DEF TargetTypeOK, WorkSet, TargetInv, Handles
<1>2. /\ work' \in [Worker -> WorkSet] /\ work'[w] = v
      /\ \A u \in Worker : u # w => work'[u] = work[u]
  BY <1>1 DEF Works
<1>3. \A u \in Worker : Handles(work'[u].kind, work'[u].todo)
  BY <1>1, <1>2 DEF Works
<1>4. \A u \in Worker : \A i \in 1 .. Len(work'[u].todo) : Fair(work'[u].todo[i])
  BY <1>1, <1>2 DEF Works
<1>5. \A u \in Worker : \A i \in 1 .. Len(work'[u].todo) : FairNext(work'[u].todo[i])
  <2> SUFFICES ASSUME NEW u \in Worker, NEW i \in 1 .. Len(work'[u].todo) PROVE FairNext(work'[u].todo[i])
    OBVIOUS
  <2>1. Fair(work'[u].todo[i])
    BY <1>4
  <2> QED BY <2>1, FairStays
<1> QED BY <1>2, <1>3, <1>5 DEF WorkKept

LEMMA SameWork ==
    ASSUME TargetTypeOK, TargetInv, RowsKept, work' = work PROVE WorkKept
<1>1. /\ work \in [Worker -> WorkSet] /\ \A u \in Worker : Handles(work[u].kind, work[u].todo)
      /\ \A u \in Worker : \A i \in 1 .. Len(work[u].todo) : Fair(work[u].todo[i])
  BY DEF TargetTypeOK, WorkSet, TargetInv, Handles
<1>2. \A u \in Worker : \A i \in 1 .. Len(work[u].todo) : FairNext(work[u].todo[i])
  BY <1>1, FairStays
<1> QED BY <1>1, <1>2 DEF WorkKept

\* The guard stays with the one refresh that runs.
Refreshes == {"list", "refresh", "failed"}
GuardKept ==
    /\ inflight' \in BOOLEAN
    /\ \A w \in Worker : Refreshing(w)' => inflight'
    /\ \A v, w \in Worker : Refreshing(v)' /\ Refreshing(w)' => v = w

LEMMA GuardStep ==
    ASSUME TargetTypeOK, TargetInv, NEW w \in Worker, NEW k, work'[w].kind = k,
           \A u \in Worker : u # w => work'[u] = work[u],
           \/ inflight' = inflight /\ (k \in Refreshes => Refreshing(w))
           \/ ~inflight /\ inflight' = TRUE
           \/ k = "idle" /\ inflight' = FALSE /\ Refreshing(w)
    PROVE  GuardKept
<1>1. /\ inflight \in BOOLEAN /\ \A u \in Worker : Refreshing(u) => inflight
      /\ \A u, v \in Worker : Refreshing(u) /\ Refreshing(v) => u = v
  BY DEF TargetTypeOK, TargetInv
<1>2. (Refreshing(w)' <=> k \in Refreshes) /\ \A u \in Worker : u # w => (Refreshing(u)' <=> Refreshing(u))
  BY DEF Refreshing, Refreshes
<1>3. inflight' \in BOOLEAN
  BY <1>1
<1>4. CASE inflight' = inflight /\ (k \in Refreshes => Refreshing(w))
  BY <1>1, <1>2, <1>4 DEF GuardKept
<1>5. CASE ~inflight /\ inflight' = TRUE
  BY <1>1, <1>2, <1>5 DEF GuardKept
<1>6. CASE k = "idle" /\ inflight' = FALSE /\ Refreshing(w)
  BY <1>1, <1>2, <1>6 DEF GuardKept, Refreshes
<1> QED BY <1>4, <1>5, <1>6


LEMMA StepWork ==
    ASSUME TargetTypeOK, TargetInv, RowsKept, [TargetNext]_targetVars
    PROVE  WorkKept /\ GuardKept
<1> USE DEF Refreshes
<1>1. CASE UNCHANGED <<work, inflight>>
  <2>1. GuardKept
    BY <1>1 DEF GuardKept, TargetTypeOK, TargetInv, Refreshing
  <2> QED BY <1>1, <2>1, SameWork
<1>2. ASSUME NEW w \in Worker, NEW kind \in {"update", "ping", "inspect"}, GetByID(w, kind)
      PROVE  WorkKept /\ GuardKept
  <2>1. PICK v : Works(w, v) /\ v.kind = kind
    BY <1>2, GetWorks
  <2>2. WorkKept /\ work'[w].kind = kind /\ \A u \in Worker : u # w => work'[u] = work[u]
    BY <2>1, WorksKept
  <2>3. inflight' = inflight
    BY <1>2 DEF GetByID
  <2> QED BY <2>2, <2>3, GuardStep
<1>3. ASSUME NEW w \in Worker, UpdateBMCTarget(w) \/ PingBMCTarget(w) \/ InspectHardware(w)
      PROVE  WorkKept /\ GuardKept
  <2>1. Works(w, Idle) /\ inflight' = inflight
    BY <1>3, IdleWorks DEF UpdateBMCTarget, PingBMCTarget, InspectHardware
  <2>2. WorkKept /\ work'[w].kind = "idle" /\ \A u \in Worker : u # w => work'[u] = work[u]
    BY <2>1, WorksKept DEF Idle
  <2> QED BY <2>1, <2>2, GuardStep
<1>4. ASSUME NEW w \in Worker, tryAcquire(w) PROVE WorkKept /\ GuardKept
  <2> DEFINE s == <<>>
  <2>1. s \in Seq(Copies) /\ Len(s) = 0
    OBVIOUS
  <2>2. PICK kind \in {"list", "loser"} :
          /\ Enter(w, kind, s)
          /\ \/ inflight' = inflight /\ kind = "loser"
             \/ ~inflight /\ inflight' = TRUE
    BY <1>4 DEF tryAcquire
  <2> HIDE DEF s
  <2>3. PICK v : Works(w, v) /\ v.kind = kind
    <3>1. Handles(kind, s) /\ \A i \in 1 .. Len(s) : Fair(s[i])
      BY <2>1 DEF Handles
    <3>2. kind \in {"update", "ping", "inspect", "refresh", "list", "loser"}
      OBVIOUS
    <3>3. s \in Seq(Copies) /\ Enter(w, kind, s)
      BY <2>1, <2>2
    <3> QED BY <3>1, <3>2, <3>3, EnterWorks, Zenon
  <2>4. WorkKept /\ work'[w].kind = kind /\ \A u \in Worker : u # w => work'[u] = work[u]
    BY <2>3, WorksKept
  <2> QED BY <2>2, <2>4, GuardStep
<1>5. ASSUME NEW w \in Worker, List(w) PROVE WorkKept /\ GuardKept
  <2>1. PICK v : Works(w, v) /\ v.kind \in {"refresh", "failed"}
    BY <1>5, ListWorks
  <2>2. WorkKept /\ work'[w].kind \in {"refresh", "failed"} /\ \A u \in Worker : u # w => work'[u] = work[u]
    BY <2>1, WorksKept
  <2>3. inflight' = inflight /\ Refreshing(w)
    BY <1>5 DEF List, Refreshing
  <2> QED BY <2>2, <2>3, GuardStep
<1>6. ASSUME NEW w \in Worker, RefreshNext(w) \/ ClientGone(w) PROVE WorkKept /\ GuardKept
  <2>1. PICK v : Works(w, v) /\ v.kind = work[w].kind
    BY <1>6, RefreshWorks
  <2>2. WorkKept /\ work'[w].kind = work[w].kind /\ \A u \in Worker : u # w => work'[u] = work[u]
    BY <2>1, WorksKept
  <2>3. inflight' = inflight /\ Refreshing(w)
    BY <1>6 DEF RefreshNext, ClientGone, Refreshing
  <2> QED BY <2>2, <2>3, GuardStep
<1>7. ASSUME NEW w \in Worker, RefreshAllBMCTargets(w) PROVE WorkKept /\ GuardKept
  <2>1. Works(w, Idle)
    BY <1>7, IdleWorks DEF RefreshAllBMCTargets
  <2>2. WorkKept /\ work'[w].kind = "idle" /\ \A u \in Worker : u # w => work'[u] = work[u]
    BY <2>1, WorksKept DEF Idle
  <2>3. work[w].kind = "loser" \/ Refreshing(w)
    BY <1>7 DEF RefreshAllBMCTargets, Refreshing
  <2>4. inflight' = (inflight /\ work[w].kind = "loser") /\ inflight \in BOOLEAN
    BY <1>7 DEF RefreshAllBMCTargets, release, TargetTypeOK
  <2>5. CASE work[w].kind = "loser"
    <3>1. inflight' = inflight
      BY <2>4, <2>5
    <3> QED BY <2>2, <3>1, GuardStep
  <2>6. CASE work[w].kind # "loser"
    <3>1. inflight' = FALSE
      BY <2>4, <2>6
    <3> QED BY <2>2, <2>3, <2>6, <3>1, GuardStep
  <2> QED BY <2>5, <2>6
<1>8. ASSUME NEW t \in Target, CreateBMCTarget(t) \/ DeleteBMCTarget(t) PROVE UNCHANGED <<work, inflight>>
  BY <1>8 DEF CreateBMCTarget, DeleteBMCTarget
<1>9. UNCHANGED targetVars => UNCHANGED <<work, inflight>>
  BY DEF targetVars
<1> QED BY <1>1, <1>2, <1>3, <1>4, <1>5, <1>6, <1>7, <1>8, <1>9 DEF TargetNext, Refresh

LEMMA TargetInitOK ==
    TargetInit => TargetTypeOK /\ TargetInv
<1> SUFFICES ASSUME TargetInit PROVE TargetTypeOK /\ TargetInv
  OBVIOUS
<1>1. Idle \in WorkSet /\ Idle.kind = "idle" /\ Idle.todo = <<>> /\ Len(Idle.todo) = 0
  BY DEF Idle, WorkSet
<1> HIDE DEF Idle
<1>2. work \in [Worker -> WorkSet] /\ \A w \in Worker : work[w] = Idle
  BY <1>1 DEF TargetInit
<1>3. TargetTypeOK
  <2>1. row \in [Target -> RowSets] /\ newest \in [Target -> 0..MaxEdits] /\ edits \in 0..MaxEdits
    BY TargetAssumption DEF TargetInit, RowSets
  <2>2. \A w \in Worker : work[w].kind = "idle"
    BY <1>1, <1>2
  <2> QED BY <1>2, <2>1, <2>2 DEF TargetInit, TargetTypeOK, WorkSet, RowSets
<1>4. TargetInv
  BY <1>1, <1>2 DEF TargetInit, TargetInv, AdminEditStands, StatusComesFromChecks, Refreshing
<1> QED BY <1>3, <1>4

LEMMA TargetStep ==
    TargetTypeOK /\ TargetInv /\ [TargetNext]_targetVars => TargetTypeOK' /\ TargetInv'
<1> SUFFICES ASSUME TargetTypeOK, TargetInv, [TargetNext]_targetVars PROVE TargetTypeOK' /\ TargetInv'
  OBVIOUS
<1>1. RowsKept
  BY StepRows
<1>2. WorkKept /\ GuardKept
  BY <1>1, StepWork
<1>3. TargetTypeOK'
  BY <1>1, <1>2 DEF RowsKept, WorkKept, GuardKept, TargetTypeOK, RowSets, WorkSet, Handles
<1>4. TargetInv'
  <2>1. \A w \in Worker : \A i \in 1 .. Len(work'[w].todo) : FairNext(work'[w].todo[i])
    BY <1>2 DEF WorkKept
  <2>2. (\A w \in Worker : \A i \in 1 .. Len(work[w].todo) : Fair(work[w].todo[i]))'
    BY <2>1 DEF Fair, FairNext
  <2> QED BY <1>1, <1>2, <2>2 DEF RowsKept, GuardKept, TargetInv
<1> QED BY <1>3, <1>4

\* Of a set whose members are all the same there is at most one.
LEMMA OneOfThem ==
    ASSUME NEW S, \A x, y \in S : x = y PROVE Cardinality(S) <= 1
<1>1. CASE S = {}
  BY <1>1, FS_EmptySet
<1>2. CASE S # {}
  <2>1. PICK x : x \in S
    BY <1>2
  <2>2. S = {x}
    BY <2>1
  <2> QED BY <2>2, FS_Singleton
<1> QED BY <1>1, <1>2

\* The saved BMC targets, for any number of targets, requests and admin writes: what an
\* admin wrote stands unless a request straddled it, a status comes from a check, and one
\* refresh of all targets runs at a time (deploy.go and bmc_status.go).
THEOREM TargetsStayInOrder == TargetSpec => []TargetsInOrder
<1>1. TargetTypeOK /\ TargetInv => TargetsInOrder
  <2> SUFFICES ASSUME TargetInv PROVE TargetsInOrder
    OBVIOUS
  <2> DEFINE S == {w \in Worker : work[w].kind \in {"list", "refresh", "failed"}}
  <2>1. \A v, w \in S : v = w
    BY DEF TargetInv, Refreshing
  <2>2. Cardinality(S) <= 1
    BY <2>1, OneOfThem
  <2> QED BY <2>2 DEF TargetInv, TargetsInOrder, OneRefresh
<1> QED BY <1>1, TargetInitOK, TargetStep, PTL DEF TargetSpec

-----------------------------------------------------------------------------
(* The three together.                                                     *)

\* The composition of the services, as one specification: every variable of the three
\* keeps its type.
THEOREM ServicesTypeCorrect == Spec => []TypeOK
<1>1. Init => TargetInit /\ ServeInit /\ NetbootInit
  BY DEF Init
<1>2. [Next]_vars => [TargetNext]_targetVars /\ [ServeNext]_serveVars /\ [NetbootNext]_netbootVars
  BY DEF Next, vars, targetVars, serveVars, netbootVars
<1>3. ServeTypeOK /\ ServeInv /\ [ServeNext]_serveVars => ServeTypeOK' /\ ServeInv'
  BY ServeTypeStep, ServeInvStep
<1>4. TypeOK <=> TargetTypeOK /\ ServeTypeOK /\ NetbootTypeOK
  BY DEF TypeOK
<1> QED
  BY <1>1, <1>2, <1>3, <1>4, TargetInitOK, TargetStep, ServeInitOK, NetbootInitOK, NetbootTypeStep, PTL DEF Spec
=============================================================================
