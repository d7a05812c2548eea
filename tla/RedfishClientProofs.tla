------------------------ MODULE RedfishClientProofs ------------------------
(***************************************************************************)
(* Proofs about RedfishClient for every BMC, profile and number of         *)
(* operations: what an operation reports, leaves behind and asks for, and  *)
(* that it implements BMCOperation.                                        *)
(***************************************************************************)
EXTENDS RedfishClient, WellFoundedInduction, TLAPS

USE DEF cliVars, bmcVars, histVars

-----------------------------------------------------------------------------
(* The operators the steps are built from.                                 *)

\* A set of numbers has a least member, and Min is it.
LEMMA MinIsLeast ==
    ASSUME NEW S, S \subseteq Nat, S # {}
    PROVE  Min(S) \in S /\ \A y \in S : Min(S) <= y
<1> DEFINE Less == {ss \in Nat \X Nat : ss[1] < ss[2]}
<1>1. IsWellFoundedOn(Less, Nat)
  BY NatLessThanWellFounded, Zenon DEF OpToRel
<1> HIDE DEF Less
<1>2. PICK x \in S : \A y \in S : ~(<<y, x>> \in Less)
  BY <1>1, WFMin
<1>3. ASSUME NEW y \in S PROVE x <= y
  <2>1. y < x => <<y, x>> \in Less
    BY DEF Less
  <2> QED BY <1>2, <2>1
<1> QED BY <1>3 DEF Min

\* The place of a candidate in a profile's search is a number.
LEMMA PlaceIsNat ==
    ASSUME NEW q, q.search \in Seq(STRING), NEW m
    PROVE  compileMediaSearch(q, m) \in Nat
<1> DEFINE I == {k \in 1 .. Len(q.search) : locationMatches(q.search[k], m.loc)}
<1>1. I \subseteq Nat
  OBVIOUS
<1>2. I # {} => Min(I) \in Nat
  BY <1>1, MinIsLeast
<1>3. compileMediaSearch(q, m) = IF I # {} THEN Min(I) ELSE 0
  BY DEF compileMediaSearch, SelectInSeq
<1> QED BY <1>2, <1>3

\* What the search meets first among some candidates is one of them.
LEMMA FirstIsOneOf ==
    ASSUME NEW q, q.search \in Seq(STRING), NEW media, NEW S, S \subseteq Nat, S # {}
    PROVE  firstMedia(q, media, S) \in S
<1> DEFINE P == {compileMediaSearch(q, media[i]) : i \in S}
           B == {i \in S : compileMediaSearch(q, media[i]) = Min(P)}
<1>1. P \subseteq Nat /\ P # {}
  BY PlaceIsNat
<1>2. Min(P) \in P
  BY <1>1, MinIsLeast
<1>3. B # {} /\ B \subseteq Nat /\ B \subseteq S
  BY <1>2
<1>4. Min(B) \in B
  BY <1>3, MinIsLeast
<1>5. firstMedia(q, media, S) = Min(B)
  BY DEF firstMedia
<1> QED BY <1>3, <1>4, <1>5

\* findCDMedia chooses among the candidates it sees, or reports that there is none.
LEMMA ChosenIsSeen ==
    ASSUME NEW q, q.search \in Seq(STRING), NEW media, NEW seen, seen \subseteq Nat
    PROVE  findCDMedia(q, media, seen) \in seen \cup {0}
<1> DEFINE order == sanitizeMediaOrder(q, media, seen)
           cd == {i \in order : mediaSupportsCD(media[i])}
           blank == {i \in order : media[i].types = {}}
<1>1. order \subseteq seen
  BY DEF sanitizeMediaOrder
<1> HIDE DEF order
<1>2. cd # {} => firstMedia(q, media, cd) \in seen
  BY <1>1, FirstIsOneOf
<1>3. blank # {} => firstMedia(q, media, blank) \in seen
  BY <1>1, FirstIsOneOf
<1>4. findCDMedia(q, media, seen) =
        IF cd # {} THEN firstMedia(q, media, cd)
        ELSE IF blank # {} THEN firstMedia(q, media, blank) ELSE 0
  BY DEF findCDMedia, order
<1> QED BY <1>2, <1>3, <1>4

\* Whatever PercentComplete a BMC sends, what is reported stays in the window.
LEMMA PollPercentInWindow ==
    ASSUME NEW p \in Int
    PROVE  taskPollPercent(p) \in taskPollFloor .. taskPollCeil
BY DEF taskPollPercent, taskPollFloor, taskPollCeil, NoPercent

\* A BMC's description as the assumption gives it.
LEMMA EnvIsTyped ==
    ASSUME TypeOK
    PROVE  /\ Len(env.layout) \in Nat
           /\ env.quirks.search \in Seq(STRING)
           /\ env.power \in {"On", "Off"} /\ env.liveEject \in BOOLEAN
BY ClientAssumption DEF TypeOK

LEMMA ChooseInRange ==
    ASSUME TypeOK, NEW hidden
    PROVE  /\ choose(hidden) \in 0 .. Len(env.layout)
           /\ choose(hidden) # 0 => choose(hidden) \in Candidates
<1>1. Visible(hidden) \subseteq Candidates /\ Candidates \subseteq Nat
  BY EnvIsTyped DEF Visible, Candidates
<1>2. choose(hidden) \in Candidates \cup {0}
  BY <1>1, EnvIsTyped, ChosenIsSeen DEF choose
<1> QED BY <1>2, EnvIsTyped DEF Candidates

-----------------------------------------------------------------------------
(* Type correctness.                                                       *)

\* The candidates are those of the BMC at hand, which does not change.
LEMMA SameBMC ==
    ASSUME TypeOK, Next
    PROVE  env' = env /\ Candidates' = Candidates
<1>1. env' = env
  BY DEF Next, NewDeployer, Client, Connect, Inspect, Probe, Discover, insertMedia,
         setOneTimeBoot, reset, pollTask, powerOff, pollPowerOff, EjectMedia, bootToDisk, powerOn,
         Completed, Close, Revoke, ContextEnds, PullEnds, ShutdownLands, Toggle
<1> QED BY <1>1 DEF Candidates

\* The parts of the type invariant: what the provers take together.
Flags == /\ shutting \in BOOLEAN /\ partial \in BOOLEAN /\ stale \in BOOLEAN
         /\ sure \in BOOLEAN /\ booted \in BOOLEAN /\ timed \in BOOLEAN /\ overtaken \in BOOLEAN
Control == /\ pc \in Steps /\ op \in Ops \cup {"none"} /\ ret \in {"none", "ok", "error"}
           /\ client \in {"none", "session", "basic"} /\ ctx \in {"live", "done"}
           /\ tasks \subseteq {"insert", "reset"} /\ pct \in 0 .. 100
Machine == /\ snap \in {"On", "Off"} /\ power \in {"On", "Off"}
           /\ boot \in {"none", "cd", "hdd"}
Drives == dev \in 0 .. Len(env.layout) /\ drive \in [Candidates -> {"empty", "pulling", "iso"}]
Counts == /\ sessions \in Nat /\ lost \in 0 .. MaxOps /\ ops \in 0 .. MaxOps
          /\ toggles \in 0 .. MaxToggles

LEMMA TypeParts ==
    TypeOK <=> env \in Envs /\ Flags /\ Control /\ Machine /\ Drives /\ Counts
BY DEF TypeOK, Flags, Control, Machine, Drives, Counts

LEMMA StepFlags ==
    ASSUME Flags, [Next]_vars
    PROVE  Flags'
<1> USE DEF Flags
<1>1. ASSUME NEW k \in Ops, NewDeployer(k) PROVE Flags'
  <2>1. timed' \in BOOLEAN BY <1>1 DEF NewDeployer, Deadlines, Ops
  <2> QED BY <1>1, <2>1 DEF NewDeployer
<1>2. CASE Connect \/ Inspect \/ Probe BY <1>2 DEF Connect, Inspect, Probe
<1>3. CASE Discover
  <2>1. partial' \in BOOLEAN BY <1>3 DEF Discover
  <2> QED BY <1>3, <2>1 DEF Discover
<1>4. CASE insertMedia \/ setOneTimeBoot BY <1>4 DEF insertMedia, setOneTimeBoot
<1>5. CASE reset
  <2>1. shutting' \in BOOLEAN /\ booted' \in BOOLEAN BY <1>5 DEF reset
  <2> QED BY <1>5, <2>1 DEF reset
<1>6. CASE pollTask \/ EjectMedia
  <2>1. CASE pollTask BY <2>1 DEF pollTask
  <2>2. CASE EjectMedia
    <3>1. overtaken' \in BOOLEAN BY <2>2 DEF EjectMedia
    <3> QED BY <2>2, <3>1 DEF EjectMedia
  <2> QED BY <1>6, <2>1, <2>2
<1>7. CASE powerOff
  <2>1. sure' \in BOOLEAN /\ shutting' \in BOOLEAN BY <1>7 DEF powerOff
  <2> QED BY <1>7, <2>1 DEF powerOff
<1>8. CASE pollPowerOff
  <2>1. sure' \in BOOLEAN /\ shutting' \in BOOLEAN BY <1>8 DEF pollPowerOff
  <2> QED BY <1>8, <2>1 DEF pollPowerOff
<1>9. CASE bootToDisk \/ powerOn \/ Completed BY <1>9 DEF bootToDisk, powerOn, Completed
<1>10. CASE Close \/ Revoke BY <1>10 DEF Close, Revoke
<1>11. CASE ContextEnds \/ PullEnds \/ ShutdownLands \/ UNCHANGED vars
  BY <1>11 DEF ContextEnds, PullEnds, ShutdownLands, vars
<1>12. CASE Toggle
  <2>1. stale' \in BOOLEAN /\ shutting' \in BOOLEAN BY <1>12 DEF Toggle
  <2> QED BY <1>12, <2>1 DEF Toggle
<1> QED BY <1>1, <1>2, <1>3, <1>4, <1>5, <1>6, <1>7, <1>8, <1>9, <1>10, <1>11, <1>12 DEF Next, Client

LEMMA PercentOfPoll ==
    ASSUME NEW p \in Percents
    PROVE  taskPollPercent(p) \in 80 .. 95
BY PollPercentInWindow, ClientAssumption DEF taskPollFloor, taskPollCeil

\* A poll's outcomes: the deploy is done, has failed, or polls on.
LEMMA PollOutcome ==
    ASSUME pollTask
    PROVE  \/ pc' = "return" /\ ret' = "ok" /\ pct' = 100
           \/ Fail /\ UNCHANGED pct
           \/ Fail /\ pct' \in 80 .. 95
           \/ UNCHANGED <<pc, ret>> /\ pct' \in 80 .. 95
<1>1. CASE pickTaskURI # "none" /\ ctx = "live"
  <2>1. CASE Fail /\ UNCHANGED pct BY <2>1
  <2>2. ASSUME ~(Fail /\ UNCHANGED pct)
        PROVE  \E s \in PollAnswers, p \in Percents :
                /\ CASE s \notin taskStates -> Fail /\ UNCHANGED pct
                     [] s \in taskStates /\ ~isTerminalTaskState(s) ->
                            pct' = taskPollPercent(p) /\ UNCHANGED <<pc, ret>>
                     [] s = "Completed" -> pct' = 100 /\ pc' = "return" /\ ret' = "ok"
                     [] OTHER -> pct' = taskPollPercent(p) /\ Fail
    BY <1>1, <2>2 DEF pollTask
  <2>3. CASE ~(Fail /\ UNCHANGED pct)
    <3>1. PICK s \in PollAnswers, p \in Percents :
                /\ CASE s \notin taskStates -> Fail /\ UNCHANGED pct
                     [] s \in taskStates /\ ~isTerminalTaskState(s) ->
                            pct' = taskPollPercent(p) /\ UNCHANGED <<pc, ret>>
                     [] s = "Completed" -> pct' = 100 /\ pc' = "return" /\ ret' = "ok"
                     [] OTHER -> pct' = taskPollPercent(p) /\ Fail
      BY <2>2, <2>3
    <3>2. taskPollPercent(p) \in 80 .. 95
      BY PercentOfPoll
    <3>3. CASE s \notin taskStates BY <3>1, <3>3
    <3>4. CASE s \in taskStates /\ ~isTerminalTaskState(s) BY <3>1, <3>2, <3>4
    <3>5. CASE s = "Completed"
      BY <3>1, <3>5 DEF taskStates, isTerminalTaskState
    <3>6. CASE s \in taskStates /\ isTerminalTaskState(s) /\ s # "Completed"
      BY <3>1, <3>2, <3>6
    <3> QED BY <3>3, <3>4, <3>5, <3>6
  <2> QED BY <2>1, <2>3
<1>2. CASE ~(pickTaskURI # "none" /\ ctx = "live")
  BY <1>2 DEF pollTask
<1> QED BY <1>1, <1>2

LEMMA StepControl ==
    ASSUME Control, [Next]_vars
    PROVE  Control'
<1> USE DEF Control, Goto, Fail, Steps
<1>1. ASSUME NEW k \in Ops, NewDeployer(k) PROVE Control' BY <1>1 DEF NewDeployer
<1>2. CASE Connect BY <1>2 DEF Connect, resolveBasicAuth
<1>3. CASE Inspect \/ Probe BY <1>3 DEF Inspect, Probe
<1>4. CASE Discover
  <2>1. pc' \in Steps /\ ret' \in {"none", "ok", "error"} /\ pct' \in 0 .. 100
    BY <1>4 DEF Discover
  <2> QED BY <1>4, <2>1 DEF Discover
<1>5. CASE insertMedia
  <2>1. pc' \in Steps /\ ret' \in {ret, "error"} /\ pct' \in {pct, 30}
    BY <1>5 DEF insertMedia
  <2>2. tasks' \subseteq {"insert", "reset"}
    BY <1>5 DEF insertMedia
  <2> QED BY <1>5, <2>1, <2>2 DEF insertMedia
<1>6. CASE setOneTimeBoot
  <2>1. pc' \in Steps /\ ret' \in {ret, "error"} /\ pct' \in {pct, 50}
    BY <1>6 DEF setOneTimeBoot
  <2> QED BY <1>6, <2>1 DEF setOneTimeBoot
<1>7. CASE reset
  <2>1. tasks' \in {tasks, tasks \cup {"reset"}}
    BY <1>7 DEF reset
  <2>2. pct' \in {70, pct}
    BY <1>7 DEF reset
  <2>3. pc' \in {"poll", "return"} /\ ret' \in {ret, "error"}
    BY <1>7 DEF reset
  <2> QED BY <1>7, <2>1, <2>2, <2>3 DEF reset
<1>8. CASE pollTask
  <2>1. UNCHANGED <<op, client, ctx, tasks>>
    BY <1>8 DEF pollTask
  <2> QED BY <1>8, <2>1, PollOutcome
<1>9. CASE powerOff
  <2>1. pc' \in Steps /\ ret' \in {ret, "error"} /\ pct' \in {pct, 40}
    BY <1>9 DEF powerOff
  <2> QED BY <1>9, <2>1 DEF powerOff
<1>10. CASE pollPowerOff
  <2>1. pc' \in Steps /\ ret' \in {ret, "error"}
    BY <1>10 DEF pollPowerOff
  <2> QED BY <1>10, <2>1 DEF pollPowerOff
<1>11. CASE EjectMedia
  <2>1. pc' \in Steps /\ ret' \in {ret, "error"} /\ pct' \in {pct, 60}
    BY <1>11 DEF EjectMedia
  <2> QED BY <1>11, <2>1 DEF EjectMedia
<1>12. CASE bootToDisk BY <1>12 DEF bootToDisk
<1>13. CASE powerOn
  <2>1. pc' \in Steps /\ ret' \in {ret, "error"} /\ pct' \in {pct, 90}
    BY <1>13 DEF powerOn
  <2> QED BY <1>13, <2>1 DEF powerOn
<1>14. CASE Completed \/ Close
  <2>1. CASE Completed BY <2>1 DEF Completed
  <2>2. CASE Close BY <2>2 DEF Close
  <2> QED BY <1>14, <2>1, <2>2
<1>15. CASE Revoke BY <1>15 DEF Revoke
<1>16. CASE ContextEnds \/ PullEnds \/ ShutdownLands \/ Toggle \/ UNCHANGED vars
  BY <1>16 DEF ContextEnds, PullEnds, ShutdownLands, Toggle, vars
<1> QED BY <1>1, <1>2, <1>3, <1>4, <1>5, <1>6, <1>7, <1>8, <1>9, <1>10, <1>11, <1>12, <1>13,
           <1>14, <1>15, <1>16 DEF Next, Client

LEMMA StepMachine ==
    ASSUME Machine, [Next]_vars
    PROVE  Machine'
<1> USE DEF Machine
<1>1. ASSUME NEW k \in Ops, NewDeployer(k) PROVE Machine' BY <1>1 DEF NewDeployer
<1>2. CASE Connect \/ Inspect \/ Probe BY <1>2 DEF Connect, Inspect, Probe
<1>3. CASE Discover BY <1>3 DEF Discover
<1>4. CASE insertMedia BY <1>4 DEF insertMedia
<1>5. CASE setOneTimeBoot BY <1>5 DEF setOneTimeBoot
<1>6. CASE reset
  <2>1. power' \in {"On", "Off"} /\ boot' \in {"none", "cd", "hdd"}
    BY <1>6 DEF reset
  <2> QED BY <1>6, <2>1 DEF reset
<1>7. CASE pollTask BY <1>7 DEF pollTask
<1>8. CASE powerOff
  <2>1. power' \in {"On", "Off"} /\ boot' = boot
    BY <1>8 DEF powerOff
  <2> QED BY <1>8, <2>1 DEF powerOff
<1>9. CASE pollPowerOff BY <1>9 DEF pollPowerOff
<1>10. CASE EjectMedia \/ bootToDisk BY <1>10 DEF EjectMedia, bootToDisk
<1>11. CASE powerOn BY <1>11 DEF powerOn
<1>12. CASE Completed \/ Close \/ Revoke BY <1>12 DEF Completed, Close, Revoke
<1>13. CASE ContextEnds \/ PullEnds \/ ShutdownLands \/ UNCHANGED vars
  BY <1>13 DEF ContextEnds, PullEnds, ShutdownLands, vars
<1>14. CASE Toggle BY <1>14 DEF Toggle
<1> QED BY <1>1, <1>2, <1>3, <1>4, <1>5, <1>6, <1>7, <1>8, <1>9, <1>10, <1>11, <1>12, <1>13,
           <1>14 DEF Next, Client

\* Only an insert, the end of its task and an eject change a drive.
Inserted == \/ drive' = [drive EXCEPT ![dev] = "iso"]
            \/ tasks' = tasks \cup {"insert"} /\ drive' = [drive EXCEPT ![dev] = "pulling"]
Fetched == \E i \in Candidates : /\ drive[i] = "pulling"
                                 /\ \/ drive' = [drive EXCEPT ![i] = "iso"]
                                    \/ drive' = [drive EXCEPT ![i] = "empty"]

LEMMA DriveSteps ==
    ASSUME [Next]_vars
    PROVE  \/ UNCHANGED drive
           \/ insertMedia /\ Inserted
           \/ PullEnds /\ Fetched
           \/ EjectMedia /\ drive' = [drive EXCEPT ![dev] = "empty"]
<1>1. CASE insertMedia BY <1>1 DEF insertMedia, Inserted
<1>2. CASE EjectMedia BY <1>2 DEF EjectMedia
<1>3. CASE PullEnds BY <1>3 DEF PullEnds, Fetched
<1> QED BY <1>1, <1>2, <1>3
        DEF Next, Client, NewDeployer, Connect, Inspect, Probe, Discover, setOneTimeBoot, reset,
            pollTask, powerOff, pollPowerOff, bootToDisk, powerOn, Completed, Close, Revoke,
            ContextEnds, ShutdownLands, Toggle, vars

LEMMA StepDrives ==
    ASSUME TypeOK, [Next]_vars
    PROVE  Drives'
<1>0. env' = env /\ Candidates' = Candidates
  BY SameBMC DEF vars, Candidates
<1>1. drive' \in [Candidates -> {"empty", "pulling", "iso"}]
  BY DriveSteps DEF TypeOK, Inserted, Fetched
<1>2. dev' \in 0 .. Len(env.layout)
  <2>1. CASE Discover BY <2>1, ChooseInRange DEF Discover, TypeOK
  <2>2. CASE Revoke BY <2>2, EnvIsTyped DEF Revoke
  <2> QED BY <2>1, <2>2
        DEF TypeOK, Next, Client, NewDeployer, Connect, Inspect, Probe, insertMedia,
            setOneTimeBoot, reset, pollTask, powerOff, pollPowerOff, EjectMedia, bootToDisk,
            powerOn, Completed, Close, ContextEnds, PullEnds, ShutdownLands, Toggle, vars
<1> QED BY <1>0, <1>1, <1>2 DEF Drives

LEMMA StepCounts ==
    ASSUME Counts, SessionInv, [Next]_vars
    PROVE  Counts'
<1> USE ClientAssumption DEF Counts
<1>1. ASSUME NEW k \in Ops, NewDeployer(k) PROVE Counts' BY <1>1 DEF NewDeployer
<1>2. CASE Connect BY <1>2 DEF Connect
<1>3. CASE Close
  <2>1. lost' \in 0 .. MaxOps /\ sessions' \in Nat
    BY <1>3 DEF Close, SessionInv, Goto
  <2> QED BY <1>3, <2>1 DEF Close
<1>4. CASE Toggle BY <1>4 DEF Toggle
<1>5. CASE UNCHANGED <<sessions, lost, ops, toggles>> BY <1>5
<1> QED BY <1>1, <1>2, <1>3, <1>4, <1>5
        DEF Next, Client, Inspect, Probe, Discover, insertMedia, setOneTimeBoot, reset, pollTask,
            powerOff, pollPowerOff, EjectMedia, bootToDisk, powerOn, Completed, Revoke,
            ContextEnds, PullEnds, ShutdownLands, vars

LEMMA StepTypeOK ==
    ASSUME TypeOK, SessionInv, [Next]_vars
    PROVE  TypeOK'
<1>1. Flags /\ Control /\ Machine /\ Counts
  BY TypeParts
<1>2. env' \in Envs
  BY SameBMC, TypeParts DEF vars
<1>3. Flags' /\ Control' /\ Machine' /\ Drives' /\ Counts'
  BY <1>1, StepFlags, StepControl, StepMachine, StepDrives, StepCounts
<1> QED
  BY <1>2, <1>3 DEF TypeOK, Flags, Control, Machine, Drives, Counts

-----------------------------------------------------------------------------
(* The way through an operation, its sessions and its percentages.         *)

LEMMA StepPath ==
    ASSUME TypeOK, PathInv, [Next]_vars
    PROVE  PathInv'
<1> USE DEF PathInv, Goto, Fail, Deploys, Finalizes
<1>1. ASSUME NEW k \in Ops, NewDeployer(k) PROVE PathInv' BY <1>1 DEF NewDeployer, Ops
<1>2. CASE Connect BY <1>2 DEF Connect, TypeOK, Ops
<1>3. CASE Inspect BY <1>3 DEF Inspect
<1>4. CASE Probe BY <1>4 DEF Probe
<1>5. CASE Discover BY <1>5 DEF Discover
<1>6. CASE insertMedia BY <1>6 DEF insertMedia
<1>7. CASE setOneTimeBoot BY <1>7 DEF setOneTimeBoot
<1>8. CASE reset BY <1>8 DEF reset
<1>9. CASE pollTask BY <1>9 DEF pollTask
<1>10. CASE powerOff BY <1>10 DEF powerOff
<1>11. CASE pollPowerOff BY <1>11 DEF pollPowerOff
<1>12. CASE EjectMedia BY <1>12 DEF EjectMedia
<1>13. CASE bootToDisk BY <1>13 DEF bootToDisk
<1>14. CASE powerOn BY <1>14 DEF powerOn
<1>15. CASE Completed \/ Close \/ Revoke BY <1>15 DEF Completed, Close, Revoke
<1>16. CASE ContextEnds \/ PullEnds \/ ShutdownLands \/ Toggle \/ UNCHANGED vars
  BY <1>16 DEF ContextEnds, PullEnds, ShutdownLands, Toggle, vars
<1> QED BY <1>1, <1>2, <1>3, <1>4, <1>5, <1>6, <1>7, <1>8, <1>9, <1>10, <1>11, <1>12, <1>13,
           <1>14, <1>15, <1>16 DEF Next, Client

LEMMA StepSession ==
    ASSUME TypeOK, SessionInv, PathInv, [Next]_vars
    PROVE  SessionInv'
<1> USE DEF SessionInv, TypeOK, Goto, Fail
<1>1. ASSUME NEW k \in Ops, NewDeployer(k) PROVE SessionInv' BY <1>1 DEF NewDeployer
<1>2. CASE Connect BY <1>2 DEF Connect, resolveBasicAuth
<1>3. CASE Close BY <1>3 DEF Close
<1>4. CASE Revoke BY <1>4 DEF Revoke
<1>5. CASE /\ UNCHANGED <<client, sessions, lost, ops>>
           /\ pc' = pc \/ {pc, pc'} \cap {"idle", "connect", "revoke"} = {}
  BY <1>5
<1>6. CASE Inspect \/ Probe \/ Discover BY <1>5, <1>6 DEF Inspect, Probe, Discover
<1>7. CASE insertMedia \/ setOneTimeBoot \/ reset BY <1>5, <1>7 DEF insertMedia, setOneTimeBoot, reset
<1>8. CASE pollTask BY <1>5, <1>8 DEF pollTask
<1>9. CASE powerOff \/ pollPowerOff BY <1>5, <1>9 DEF powerOff, pollPowerOff
<1>10. CASE EjectMedia \/ bootToDisk \/ powerOn \/ Completed
  BY <1>5, <1>10 DEF EjectMedia, bootToDisk, powerOn, Completed
<1>11. CASE ContextEnds \/ PullEnds \/ ShutdownLands \/ Toggle \/ UNCHANGED vars
  BY <1>5, <1>11 DEF ContextEnds, PullEnds, ShutdownLands, Toggle, vars
<1> QED BY <1>1, <1>2, <1>3, <1>4, <1>6, <1>7, <1>8, <1>9, <1>10, <1>11 DEF Next, Client

LEMMA StepPercent ==
    ASSUME TypeOK, PathInv, PercentInv, [Next]_vars
    PROVE  PercentInv'
<1> USE DEF PercentInv, Goto, Fail, taskPollCeil
<1>1. ASSUME NEW k \in Ops, NewDeployer(k) PROVE PercentInv' BY <1>1 DEF NewDeployer
<1>2. CASE Connect BY <1>2 DEF Connect
<1>3. CASE Inspect BY <1>3 DEF Inspect
<1>4. CASE Probe BY <1>4 DEF Probe
<1>5. CASE Discover BY <1>5 DEF Discover
<1>6. CASE insertMedia BY <1>6 DEF insertMedia
<1>7. CASE setOneTimeBoot BY <1>7 DEF setOneTimeBoot
<1>8. CASE reset
  <2>1. (pc' = "poll" /\ pct' = 70) \/ pc' = "return"
    BY <1>8 DEF reset
  <2> QED BY <2>1
<1>9. CASE pollTask
  <2>1. pc = "poll"
    BY <1>9 DEF pollTask
  <2> QED BY <1>9, <2>1, PollOutcome
<1>10. CASE powerOff BY <1>10 DEF powerOff
<1>11. CASE pollPowerOff BY <1>11 DEF pollPowerOff
<1>12. CASE EjectMedia BY <1>12 DEF EjectMedia
<1>13. CASE bootToDisk BY <1>13 DEF bootToDisk
<1>14. CASE powerOn BY <1>14 DEF powerOn
<1>15. CASE Completed \/ Close \/ Revoke BY <1>15 DEF Completed, Close, Revoke
<1>16. CASE ContextEnds \/ PullEnds \/ ShutdownLands \/ Toggle \/ UNCHANGED vars
  BY <1>16 DEF ContextEnds, PullEnds, ShutdownLands, Toggle, vars
<1> QED BY <1>1, <1>2, <1>3, <1>4, <1>5, <1>6, <1>7, <1>8, <1>9, <1>10, <1>11, <1>12, <1>13,
           <1>14, <1>15, <1>16 DEF Next, Client

\* Every variable keeps its type, and an operation keeps to its way; sessions and
\* percentages follow it.
THEOREM ClientTypeCorrect == Spec => [](TypeOK /\ PathInv /\ SessionInv /\ PercentInv)
<1> DEFINE Inv == TypeOK /\ PathInv /\ SessionInv /\ PercentInv
<1>1. Init => Inv
  <2> SUFFICES ASSUME Init PROVE Inv
    OBVIOUS
  <2>1. Len(env.layout) \in Nat /\ env.power \in {"On", "Off"}
    BY ClientAssumption DEF Init
  <2>2. env \in Envs /\ Flags /\ Machine
    BY <2>1 DEF Init, Flags, Machine
  <2>3. Control
    BY DEF Init, Control, Steps
  <2>4. Drives /\ Counts
    BY <2>1, ClientAssumption DEF Init, Drives, Counts
  <2> QED BY <2>2, <2>3, <2>4, TypeParts DEF Init, PathInv, SessionInv, PercentInv
<1>2. Inv /\ [Next]_vars => Inv'
  BY StepTypeOK, StepPath, StepSession, StepPercent
<1> QED BY <1>1, <1>2, PTL DEF Spec

\* Close runs on every path and logs a session out once: between operations the BMC
\* holds no session but those whose logout it missed.
THEOREM SessionsAreReturned == Spec => []SessionsReturned
<1>1. TypeOK /\ SessionInv => SessionsReturned
  BY DEF TypeOK, SessionInv, SessionsReturned
<1> QED BY <1>1, ClientTypeCorrect, PTL

\* The percentage an operation reports only falls from one poll of a task to the next,
\* and then stays in the polling window.
THEOREM ProgressStaysInWindow == Spec => ProgressInWindow
<1>1. ASSUME TypeOK, PathInv, PercentInv, [Next]_vars, op # "none", op' = op, pct' < pct
      PROVE  pc = "poll" /\ pct' \in taskPollFloor .. taskPollCeil
  <2>0. pct \in 0 .. 100
    BY <1>1 DEF TypeOK
  <2> USE <1>1, <2>0 DEF PercentInv, Goto, Fail
  <2>1. ASSUME NEW k \in Ops, NewDeployer(k) PROVE FALSE BY <2>1 DEF NewDeployer, PathInv
  <2>2. ~(Connect \/ Inspect \/ Probe \/ Discover)
    BY DEF Connect, Inspect, Probe, Discover
  <2>3. ~(insertMedia \/ setOneTimeBoot \/ reset)
    <3>1. pc = "insert" => pct = 10 /\ (insertMedia => pct' \in {10, 30})
      BY DEF insertMedia
    <3>2. pc = "setboot" => pct = 30 /\ (setOneTimeBoot => pct' \in {30, 50})
      BY DEF setOneTimeBoot
    <3>3. pc = "reset" => pct = 50 /\ (reset => pct' \in {50, 70})
      BY DEF reset
    <3>4. insertMedia => pc = "insert"
      BY DEF insertMedia
    <3>5. setOneTimeBoot => pc = "setboot"
      BY DEF setOneTimeBoot
    <3>6. reset => pc = "reset"
      BY DEF reset
    <3> QED BY <3>1, <3>2, <3>3, <3>4, <3>5, <3>6
  <2>4. CASE pollTask
    <3>1. pc = "poll" /\ pct \in 70 .. 95
      BY <2>4 DEF pollTask, taskPollCeil
    <3> QED BY <2>4, <3>1, PollOutcome DEF taskPollFloor, taskPollCeil
  <2>5. ~(powerOff \/ pollPowerOff)
    BY DEF powerOff, pollPowerOff
  <2>6. ~(EjectMedia \/ bootToDisk \/ powerOn \/ Completed)
    BY DEF EjectMedia, bootToDisk, powerOn, Completed
  <2>7. ~(Close \/ Revoke)
    BY DEF Close, Revoke
  <2>8. ~(ContextEnds \/ PullEnds \/ ShutdownLands \/ Toggle \/ UNCHANGED vars)
    BY DEF ContextEnds, PullEnds, ShutdownLands, Toggle, vars
  <2> QED BY <2>1, <2>2, <2>3, <2>4, <2>5, <2>6, <2>7, <2>8 DEF Next, Client
<1> QED BY <1>1, ClientTypeCorrect, PTL DEF Spec, ProgressInWindow

-----------------------------------------------------------------------------
(* The writes an operation has had accepted when it gets to a step.        *)

LEMMA AcceptedAppend ==
    ASSUME did \in Seq(Writes), NEW w \in Writes, did' = Append(did, w)
    PROVE  did' \in Seq(Writes) /\ Accepted' = Accepted \cup {w}
<1>1. did' \in Seq(Writes) /\ Len(did') = Len(did) + 1 /\ Len(did) \in Nat
  OBVIOUS
<1>2. \A i \in 1 .. Len(did) : did'[i] = did[i]
  OBVIOUS
<1>3. did'[Len(did) + 1] = w
  OBVIOUS
<1>4. DOMAIN did = 1 .. Len(did) /\ DOMAIN did' = 1 .. (Len(did) + 1)
  BY <1>1
<1>5. Accepted' \subseteq Accepted \cup {w}
  <2> SUFFICES ASSUME NEW i \in 1 .. (Len(did) + 1)
               PROVE  did'[i] \in Accepted \cup {w}
    BY <1>4 DEF Accepted
  <2>1. i \in 1 .. Len(did) \/ i = Len(did) + 1
    BY <1>1
  <2> QED BY <1>2, <1>3, <1>4, <2>1 DEF Accepted
<1>6. Accepted \cup {w} \subseteq Accepted'
  <2>1. \A i \in 1 .. Len(did) : i \in 1 .. (Len(did) + 1)
    BY <1>1
  <2>2. Len(did) + 1 \in 1 .. (Len(did) + 1)
    BY <1>1
  <2> QED BY <1>2, <1>3, <1>4, <2>1, <2>2 DEF Accepted
<1> QED BY <1>1, <1>5, <1>6

LEMMA AcceptedSame ==
    ASSUME UNCHANGED did
    PROVE  Accepted' = Accepted
BY DEF Accepted

\* What a step of an operation asks for.
Asks(w) == did' = Append(did, w)

LEMMA StepWrite ==
    ASSUME TypeOK, PathInv, WriteInv, [Next]_vars
    PROVE  WriteInv'
<1>0. did \in Seq(Writes)
  BY DEF WriteInv
<1>a. \A w \in Writes : Asks(w) => did' \in Seq(Writes) /\ Accepted' = Accepted \cup {w}
  BY <1>0, AcceptedAppend DEF Asks
<1>b. UNCHANGED did => did' \in Seq(Writes) /\ Accepted' = Accepted
  BY <1>0, AcceptedSame
<1>c. "insert" \in Writes /\ "boot" \in Writes /\ "reset" \in Writes /\ "eject" \in Writes
      /\ "disk" \in Writes /\ "off" \in Writes /\ "force" \in Writes /\ "on" \in Writes
  BY DEF Writes
<1> USE DEF WriteInv, PathInv, Goto, Fail, Deploys, Finalizes
<1>1. ASSUME NEW k \in Ops, NewDeployer(k) PROVE WriteInv'
  BY <1>1, <1>b DEF NewDeployer
<1>2. CASE Connect BY <1>2, <1>b DEF Connect
<1>3. CASE Inspect BY <1>3, <1>b DEF Inspect
<1>4. CASE Probe BY <1>4, <1>b DEF Probe
<1>5. CASE Discover
  <2>1. UNCHANGED <<did, op>> /\ pc = "discover" /\ ret' \in {ret, "error"}
    BY <1>5 DEF Discover
  <2>2. \/ pc' = "return" /\ ret' = "error"
        \/ pc' = "eject" /\ op = "finalize" /\ ret' = ret
        \/ pc' \in {"insert", "poweroff"} /\ ret' = ret
    BY <1>5 DEF Discover
  <2> QED BY <2>1, <2>2, <1>b
<1>6. CASE insertMedia
  <2>1. /\ pc = "insert" /\ op' = op
        /\ \/ Asks("insert") /\ pc' = "setboot" /\ ret' = ret
           \/ UNCHANGED did /\ Fail
    BY <1>6 DEF insertMedia, Asks
  <2> QED BY <2>1, <1>a, <1>b, <1>c
<1>7. CASE setOneTimeBoot
  <2>1. /\ pc = "setboot" /\ op' = op
        /\ \/ Asks("boot") /\ pc' = "reset" /\ ret' = ret
           \/ UNCHANGED did /\ Fail
    BY <1>7 DEF setOneTimeBoot, Asks
  <2> QED BY <2>1, <1>a, <1>b, <1>c
<1>8. CASE reset
  <2>1. /\ pc = "reset" /\ op' = op
        /\ \/ Asks("reset") /\ pc' = "poll" /\ ret' = ret
           \/ UNCHANGED did /\ Fail
    BY <1>8 DEF reset, Asks
  <2> QED BY <2>1, <1>a, <1>b, <1>c
<1>9. CASE pollTask
  <2>1. pc = "poll" /\ op' = op /\ UNCHANGED did
    BY <1>9 DEF pollTask
  <2>2. \/ UNCHANGED <<pc, ret>> \/ Fail
        \/ pc' = "return" /\ ret' = "ok"
    BY <1>9, PollOutcome
  <2> QED BY <2>1, <2>2, <1>b
<1>10. CASE powerOff
  <2>1. /\ pc = "poweroff" /\ op' = op
        /\ \/ Asks("off") /\ pc' = "polloff" /\ ret' = ret
           \/ UNCHANGED did /\ pc' = "eject" /\ ret' = ret
           \/ UNCHANGED did /\ Fail
    BY <1>10 DEF powerOff, Asks
  <2> QED BY <2>1, <1>a, <1>b, <1>c
<1>11. CASE pollPowerOff
  <2>1. /\ pc \in {"polloff", "pollforced"} /\ op' = op
        /\ \/ pc = "polloff" /\ Asks("force") /\ pc' = "pollforced" /\ ret' = ret
           \/ UNCHANGED did /\ pc' \in {"pollforced", "eject"} /\ ret' = ret
           \/ UNCHANGED did /\ Fail
    BY <1>11 DEF pollPowerOff, Asks
  <2> QED BY <2>1, <1>a, <1>b, <1>c
<1>12. CASE EjectMedia
  <2>1. /\ pc = "eject" /\ op' = op
        /\ \/ Asks("eject") /\ pc' = "todisk" /\ ret' = ret
           \/ UNCHANGED did /\ Fail
    BY <1>12 DEF EjectMedia, Asks
  <2> QED BY <2>1, <1>a, <1>b, <1>c
<1>13. CASE bootToDisk
  <2>1. /\ pc = "todisk" /\ op' = op /\ ret' = ret /\ pc' \in {"poweron", "finish"}
        /\ Asks("disk") \/ UNCHANGED did
    BY <1>13 DEF bootToDisk, Asks
  <2> QED BY <2>1, <1>a, <1>b, <1>c
<1>14. CASE powerOn
  <2>1. /\ pc = "poweron" /\ op' = op
        /\ \/ pc' = "finish" /\ ret' = ret /\ (Asks("on") \/ UNCHANGED did)
           \/ UNCHANGED did /\ Fail
    BY <1>14 DEF powerOn, Asks
  <2> QED BY <2>1, <1>a, <1>b, <1>c
<1>15. CASE Completed BY <1>15, <1>b DEF Completed
<1>16. CASE Close BY <1>16, <1>b DEF Close
<1>17. CASE Revoke
  <2>1. did' = <<>> /\ pc' = "idle" /\ ret' = "none"
    BY <1>17 DEF Revoke
  <2>2. did' \in Seq(Writes) /\ Accepted' = {}
    BY <2>1 DEF Accepted
  <2> QED BY <2>1, <2>2
<1>18. CASE ContextEnds \/ PullEnds \/ ShutdownLands \/ Toggle \/ UNCHANGED vars
  <2>1. UNCHANGED <<pc, op, ret, did>>
    BY <1>18 DEF ContextEnds, PullEnds, ShutdownLands, Toggle, vars
  <2> QED BY <2>1, <1>b
<1> QED BY <1>1, <1>2, <1>3, <1>4, <1>5, <1>6, <1>7, <1>8, <1>9, <1>10, <1>11, <1>12, <1>13,
           <1>14, <1>15, <1>16, <1>17, <1>18 DEF Next, Client

-----------------------------------------------------------------------------
(* The machine's power, as the operation reads and leaves it.              *)

LEMMA StepPower ==
    ASSUME TypeOK, PathInv, WriteInv, PowerInv, [Next]_vars
    PROVE  PowerInv'
<1>b. UNCHANGED did => Accepted' = Accepted
  BY AcceptedSame
<1>d. did \in Seq(Writes)
  BY DEF WriteInv
<1>f. Flags /\ power \in {"On", "Off"} /\ snap \in {"On", "Off"}
  BY TypeParts DEF Machine
<1> USE <1>f DEF PowerInv, Goto, Fail, Flags
<1>1. ASSUME NEW k \in Ops, NewDeployer(k) PROVE PowerInv'
  <2>1. UNCHANGED <<did, power, shutting, sure, stale, snap, boot>> /\ pc' = "connect" /\ op = "none"
    BY <1>1 DEF NewDeployer, PathInv
  <2> QED BY <1>b, <2>1
<1>2. CASE Connect \/ Inspect \/ Probe
  <2>1. /\ UNCHANGED <<did, op, power, shutting, sure, stale, snap, boot>>
        /\ pc \in {"connect", "inspect", "probe"}
        /\ pc' \notin {"eject", "todisk", "poweron", "insert", "setboot", "reset"}
    BY <1>2 DEF Connect, Inspect, Probe
  <2> QED BY <1>b, <2>1
<1>3. CASE Discover
  <2>1. /\ UNCHANGED <<did, op, power, shutting, sure, stale, boot>> /\ pc = "discover"
        /\ pc' \in {"insert", "poweroff", "return"} \/ (pc' = "eject" /\ op = "finalize")
        /\ pc' = "insert" => snap' = power
    BY <1>3 DEF Discover
  <2> QED BY <1>b, <2>1
<1>4. CASE insertMedia
  <2>1. /\ UNCHANGED <<op, power, shutting, sure, stale, snap, boot>> /\ pc = "insert"
        /\ pc' \in {"setboot", "return"} /\ op # "cycle"
    BY <1>4 DEF insertMedia, PathInv, Deploys
  <2> QED BY <2>1
<1>5. CASE setOneTimeBoot
  <2>1. /\ UNCHANGED <<op, power, shutting, sure, stale, snap>> /\ pc = "setboot"
        /\ (pc' = "reset" /\ boot' = "cd") \/ pc' = "return"
        /\ op # "cycle"
    BY <1>5 DEF setOneTimeBoot, PathInv, Deploys
  <2> QED BY <2>1
<1>6. CASE reset
  <2>1. /\ UNCHANGED <<op, sure, stale, snap>> /\ pc = "reset" /\ pc' \in {"poll", "return"}
        /\ op # "cycle"
    BY <1>6 DEF reset, PathInv, Deploys
  <2>2. shutting' => power' = "On"
    <3>1. CASE UNCHANGED <<shutting, power>> BY <3>1
    <3>2. CASE ~UNCHANGED <<shutting, power>>
      <4> DEFINE rt == resetType(env.quirks, snap, env.allowed)
      <4>1. /\ Accepts(rt)
            /\ power' = IF Starts(rt, power) THEN "On" ELSE IF rt = "ForceOff" THEN "Off" ELSE power
            /\ shutting' = /\ rt \notin Restarts \cup {"ForceOff"}
                           /\ shutting \/ rt = "GracefulShutdown"
        BY <1>6, <3>2 DEF reset
      <4> HIDE DEF rt
      <4> QED BY <4>1 DEF Accepts, Restarts
    <3> QED BY <3>1, <3>2
  <2> QED BY <2>1, <2>2
<1>7. CASE pollTask
  <2>1. /\ UNCHANGED <<did, op, power, shutting, sure, stale, snap, boot>> /\ pc = "poll"
    BY <1>7 DEF pollTask
  <2>2. pc' \in {"poll", "return"}
    BY <1>7, <2>1, PollOutcome
  <2> QED BY <1>b, <2>1, <2>2
<1>8. CASE powerOff
  <2>1. UNCHANGED <<op, stale, snap, boot>> /\ pc = "poweroff" /\ op = "cycle"
    BY <1>8 DEF powerOff, PathInv
  <2>2. pc' \in {"eject", "polloff", "return"}
    BY <1>8 DEF powerOff
  <2>3. "on" \notin Accepted'
    <3>1. "on" \notin Accepted
      BY <2>1 DEF WriteInv
    <3>2. UNCHANGED did \/ did' = Append(did, "off")
      BY <1>8 DEF powerOff
    <3> QED BY <1>b, <1>d, <3>1, <3>2, AcceptedAppend DEF Writes
  <2>4. shutting' => power' = "On"
    <3>1. CASE UNCHANGED <<shutting, power>> BY <3>1
    <3>2. CASE ~UNCHANGED <<shutting, power>>
      <4>1. /\ Accepts(graceful)
            /\ shutting' = (graceful = "GracefulShutdown")
            /\ power' = IF graceful = "ForceOff" THEN "Off" ELSE power
        BY <1>8, <3>2 DEF powerOff
      <4> QED BY <4>1 DEF Accepts, Restarts
    <3> QED BY <3>1, <3>2
  <2>5. sure' => power' = "Off" /\ pc' = "eject"
    <3>1. ~sure
      BY <2>1
    <3> QED BY <1>8, <3>1 DEF powerOff
  <2> QED BY <2>1, <2>2, <2>3, <2>4, <2>5
<1>9. CASE pollPowerOff
  <2>1. UNCHANGED <<op, stale, snap, boot>> /\ pc \in {"polloff", "pollforced"} /\ op = "cycle"
    BY <1>9 DEF pollPowerOff, PathInv
  <2>2. pc' \in {"pollforced", "eject", "return"}
    BY <1>9 DEF pollPowerOff
  <2>3. ~sure /\ "on" \notin Accepted
    BY <2>1 DEF WriteInv
  <2>4. "on" \notin Accepted'
    <3>1. UNCHANGED did \/ did' = Append(did, "force")
      BY <1>9 DEF pollPowerOff
    <3> QED BY <1>b, <1>d, <2>3, <3>1, AcceptedAppend DEF Writes
  <2>5. shutting' => power' = "On"
    BY <1>9 DEF pollPowerOff
  <2>6. sure' => power' = "Off" /\ pc' = "eject"
    BY <1>9, <2>3 DEF pollPowerOff
  <2> QED BY <2>1, <2>2, <2>4, <2>5, <2>6
<1>10. CASE EjectMedia \/ bootToDisk
  <2>1. /\ UNCHANGED <<op, power, shutting, sure, stale, snap>> /\ pc \in {"eject", "todisk"}
        /\ pc' \in {"todisk", "poweron", "finish", "return"}
    BY <1>10 DEF EjectMedia, bootToDisk
  <2>2. "on" \notin Accepted
    BY <2>1 DEF WriteInv
  <2>3. "on" \notin Accepted'
    <3>1. UNCHANGED did \/ did' = Append(did, "eject") \/ did' = Append(did, "disk")
      BY <1>10 DEF EjectMedia, bootToDisk
    <3> QED BY <1>b, <1>d, <2>2, <3>1, AcceptedAppend DEF Writes
  <2> QED BY <2>1, <2>3
<1>11. CASE powerOn
  <2>1. /\ UNCHANGED <<op, shutting, sure, stale, snap>> /\ pc = "poweron"
        /\ pc' \in {"finish", "return"} /\ op = "cycle"
    BY <1>11 DEF powerOn, PathInv
  <2>2. "on" \notin Accepted
    BY <2>1 DEF WriteInv
  <2>3. \/ UNCHANGED <<did, power>>
        \/ power' = "On"
    BY <1>11 DEF powerOn
  <2>4. sure /\ ~stale => ~shutting
    BY <2>1
  <2> QED BY <1>b, <2>1, <2>2, <2>3, <2>4
<1>12. CASE Completed \/ Close
  <2>1. /\ UNCHANGED <<did, op, power, shutting, sure, stale, snap, boot>>
        /\ pc \in {"finish", "return"} /\ pc' \in {"return", "revoke"}
    BY <1>12 DEF Completed, Close
  <2> QED BY <1>b, <2>1
<1>13. CASE Revoke
  <2>1. pc' = "idle" /\ ~sure' /\ UNCHANGED <<power, shutting>>
    BY <1>13 DEF Revoke
  <2> QED BY <2>1
<1>14. CASE ContextEnds \/ PullEnds \/ UNCHANGED vars
  <2>1. UNCHANGED <<did, pc, op, power, shutting, sure, stale, snap, boot>>
    BY <1>14 DEF ContextEnds, PullEnds, vars
  <2> QED BY <1>b, <2>1
<1>15. CASE ShutdownLands
  <2>1. /\ UNCHANGED <<did, pc, op, sure, stale, snap, boot>>
        /\ shutting /\ ~shutting' /\ power' = "Off"
    BY <1>15 DEF ShutdownLands
  <2> QED BY <1>b, <2>1
<1>16. CASE Toggle
  <2>1. /\ UNCHANGED <<pc, op, sure, snap>>
        /\ ~shutting' /\ (op # "none" => stale')
    BY <1>16 DEF Toggle
  <2>2. op = "none" => pc = "idle"
    BY DEF PathInv
  <2> QED BY <2>1, <2>2
<1> QED BY <1>1, <1>2, <1>3, <1>4, <1>5, <1>6, <1>7, <1>8, <1>9, <1>10, <1>11, <1>12, <1>13,
           <1>14, <1>15, <1>16 DEF Next, Client

-----------------------------------------------------------------------------
(* The drives, the image in them and the boot it was inserted for.         *)

\* Which steps move an operation to or from the drive, and what they leave alone.
LEMMA SameDevice ==
    ASSUME PathInv, [Next]_vars, ~Discover, ~Revoke
    PROVE  UNCHANGED <<dev, partial>> /\ (AtMedia' => AtMedia)
<1>0. UNCHANGED <<dev, partial>>
  BY DEF Next, Client, NewDeployer, Connect, Inspect, Probe, insertMedia, setOneTimeBoot, reset,
         pollTask, powerOff, pollPowerOff, EjectMedia, bootToDisk, powerOn, Completed, Close,
         ContextEnds, PullEnds, ShutdownLands, Toggle, vars
<1> USE DEF AtMedia, Goto, Fail
<1>1. CASE UNCHANGED pc BY <1>0, <1>1
<1>2. ASSUME NEW k \in Ops, NewDeployer(k) PROVE AtMedia' => AtMedia BY <1>2 DEF NewDeployer
<1>3. CASE Connect \/ Inspect \/ Probe BY <1>3 DEF Connect, Inspect, Probe
<1>4. CASE insertMedia \/ setOneTimeBoot \/ reset \/ pollTask
  BY <1>4 DEF insertMedia, setOneTimeBoot, reset, pollTask
<1>5. CASE powerOff \/ pollPowerOff \/ EjectMedia BY <1>5 DEF powerOff, pollPowerOff, EjectMedia
<1>6. CASE bootToDisk \/ powerOn \/ Completed \/ Close
  BY <1>6 DEF bootToDisk, powerOn, Completed, Close
<1>7. CASE ContextEnds \/ PullEnds \/ ShutdownLands \/ Toggle \/ UNCHANGED vars
  BY <1>1, <1>7 DEF ContextEnds, PullEnds, ShutdownLands, Toggle, vars
<1> QED BY <1>0, <1>2, <1>3, <1>4, <1>5, <1>6, <1>7 DEF Next, Client

\* A discovery that sees the whole BMC chooses the candidate every such discovery does.
LEMMA StepDevice ==
    ASSUME TypeOK, PathInv, DeviceInv, [Next]_vars
    PROVE  DeviceInv'
<1>0. env' = env /\ Candidates' = Candidates /\ Home' = Home
  BY SameBMC DEF vars, Candidates, Home
<1>1. CASE Discover
  <2> SUFFICES ASSUME AtMedia' PROVE dev' \in Candidates /\ (~partial' => dev' = Home)
    BY <1>0 DEF DeviceInv
  <2>1. pc' # "return"
    BY DEF AtMedia
  <2>2. PICK hidden \in {{}, {"system"}, {"manager"}} :
           /\ partial' = (partial \/ Visible(hidden) # Candidates)
           /\ dev' = choose(hidden) /\ dev' # 0
    BY <1>1, <2>1 DEF Discover, Fail
  <2>3. dev' \in Candidates
    BY <2>2, ChooseInRange
  <2>4. ~partial' => Visible(hidden) = Candidates
    BY <2>2
  <2>5. ~partial' => choose(hidden) = Home
    BY <2>4 DEF choose, Home
  <2> QED BY <2>2, <2>3, <2>5
<1>2. CASE Revoke BY <1>2 DEF Revoke, Goto, DeviceInv, AtMedia
<1>3. CASE ~Discover /\ ~Revoke
  BY <1>0, <1>3, SameDevice DEF DeviceInv
<1> QED BY <1>1, <1>2, <1>3

LEMMA StepDrive ==
    ASSUME TypeOK, PathInv, DeviceInv, DriveInv, [Next]_vars
    PROVE  DriveInv'
<1>0. env' = env /\ Candidates' = Candidates /\ Home' = Home
  BY SameBMC DEF vars, Candidates, Home
<1>t. drive \in [Candidates -> {"empty", "pulling", "iso"}] /\ partial \in BOOLEAN
  BY DEF TypeOK
<1>p. ~partial' => ~partial
  <2>1. CASE Discover BY <2>1, <1>t DEF Discover
  <2>2. CASE Revoke BY <2>2 DEF Revoke
  <2> QED BY <2>1, <2>2, SameDevice
<1>1. CASE insertMedia /\ Inserted
  <2>1. pc = "insert" /\ UNCHANGED <<dev, partial>>
    BY <1>1 DEF insertMedia
  <2>2. dev \in Candidates /\ (~partial => dev = Home)
    BY <2>1 DEF DeviceInv, AtMedia
  <2>3. /\ drive'[dev] = "iso" \/ "insert" \in tasks'
        /\ \A i \in Candidates : i # dev => drive'[i] = drive[i]
    BY <1>1, <1>t, <2>2 DEF Inserted
  <2> QED BY <1>0, <2>1, <2>2, <2>3 DEF DriveInv
<1>2. CASE EjectMedia /\ drive' = [drive EXCEPT ![dev] = "empty"]
  <2>1. pc = "eject" /\ pc' \in {"todisk", "return"} /\ UNCHANGED <<dev, partial>>
    BY <1>2 DEF EjectMedia, Fail
  <2>2. dev \in Candidates
    BY <2>1 DEF DeviceInv, AtMedia
  <2>3. \A i \in Candidates : drive'[i] # "empty" => drive[i] # "empty"
    BY <1>2, <1>t, <2>2
  <2> QED BY <1>0, <2>1, <2>3 DEF DriveInv
<1>4. CASE PullEnds /\ Fetched
  <2>1. UNCHANGED <<pc, dev, tasks, partial>>
    BY <1>4 DEF PullEnds
  <2>2. \A i \in Candidates : drive[i] = "iso" => drive'[i] = "iso"
    BY <1>4, <1>t DEF Fetched
  <2>6. \A i \in Candidates : drive[i] = "empty" => drive'[i] = "empty"
    BY <1>4, <1>t DEF Fetched
  <2>3. pc \in {"setboot", "reset"} => dev \in Candidates
    BY DEF DeviceInv, AtMedia
  <2>4. pc \in {"setboot", "reset"} /\ "insert" \notin tasks => drive'[dev] = "iso"
    BY <2>2, <2>3 DEF DriveInv
  <2>5. ASSUME ~partial, NEW i \in Candidates, drive'[i] # "empty" PROVE i = Home
    <3>1. drive[i] # "empty" BY <2>5, <2>6
    <3> QED BY <2>5, <3>1 DEF DriveInv
  <2> QED BY <1>0, <2>1, <2>4, <2>5 DEF DriveInv
<1>3. CASE UNCHANGED drive
  <2>1. pc' \in {"setboot", "reset"} =>
           /\ dev' = dev
           /\ \/ pc \in {"setboot", "reset"} /\ tasks' = tasks
              \/ insertMedia /\ Inserted
    <3> USE DEF Goto, Fail
    <3>1. CASE insertMedia BY <3>1 DEF insertMedia, Inserted
    <3>2. CASE setOneTimeBoot BY <3>2 DEF setOneTimeBoot
    <3>3. ASSUME NEW k \in Ops, NewDeployer(k) PROVE pc' \notin {"setboot", "reset"}
      BY <3>3 DEF NewDeployer
    <3>4. CASE Connect \/ Inspect \/ Probe BY <3>4 DEF Connect, Inspect, Probe
    <3>5. CASE Discover BY <3>5 DEF Discover
    <3>6. CASE reset BY <3>6 DEF reset
    <3>7. CASE pollTask BY <3>7, PollOutcome DEF pollTask
    <3>8. CASE powerOff \/ pollPowerOff \/ EjectMedia BY <3>8 DEF powerOff, pollPowerOff, EjectMedia
    <3>9. CASE bootToDisk \/ powerOn \/ Completed \/ Close \/ Revoke
      BY <3>9 DEF bootToDisk, powerOn, Completed, Close, Revoke
    <3>10. CASE ContextEnds \/ PullEnds \/ ShutdownLands \/ Toggle \/ UNCHANGED vars
      BY <3>10 DEF ContextEnds, PullEnds, ShutdownLands, Toggle, vars
    <3> QED BY <3>1, <3>2, <3>3, <3>4, <3>5, <3>6, <3>7, <3>8, <3>9, <3>10 DEF Next, Client
  <2>2. pc' \in {"setboot", "reset"} /\ "insert" \notin tasks' => drive'[dev'] = "iso"
    BY <1>1, <1>3, <2>1 DEF DriveInv
  <2> QED BY <1>0, <1>3, <1>p, <2>2 DEF DriveInv
<1> QED BY <1>1, <1>2, <1>3, <1>4, DriveSteps

\* When a deploy's boot, and a finalize's empty drives, are due.
BootDue == pc = "poll" \/ (ret = "ok" /\ op \in Deploys)
EmptyDue == pc \in {"todisk", "poweron", "finish"} \/ (ret = "ok" /\ op \in Finalizes)

\* Only a reset makes the boot due, only an eject the empty drives; afterwards nothing
\* they rest on changes before the operation is over, but for the power button.
LEMMA DueSteps ==
    ASSUME Control, Flags, PathInv, [Next]_vars
    PROVE  /\ BootDue' /\ ~reset => BootDue /\ UNCHANGED <<snap, booted, tasks>> /\ (~stale' => ~stale)
           /\ EmptyDue' /\ ~EjectMedia =>
                 /\ EmptyDue /\ UNCHANGED <<partial, sure, overtaken>> /\ (~stale' => ~stale)
                 /\ PullEnds \/ UNCHANGED drive
<1> USE DEF BootDue, EmptyDue, Deploys, Finalizes, Goto, Fail
<1>1. ASSUME NEW k \in Ops, NewDeployer(k) PROVE ~BootDue' /\ ~EmptyDue'
  BY <1>1 DEF NewDeployer, PathInv
<1>2. CASE Connect
  <2>1. ~BootDue' /\ ~EmptyDue' BY <1>2 DEF Connect, PathInv
  <2> QED BY <2>1
<1>3. CASE Inspect \/ Probe
  <2>1. ~BootDue' /\ ~EmptyDue' BY <1>3 DEF Inspect, Probe, PathInv
  <2> QED BY <2>1
<1>4. CASE Discover
  <2>1. pc = "discover" /\ pc' \in {"return", "eject", "poweroff", "insert"} /\ ret' \in {ret, "error"}
    BY <1>4 DEF Discover
  <2>2. ~BootDue' /\ ~EmptyDue' BY <2>1 DEF PathInv
  <2> QED BY <2>2
<1>5. CASE insertMedia \/ setOneTimeBoot
  <2>1. pc \in {"insert", "setboot"} /\ pc' \in {"return", "setboot", "reset"} /\ ret' \in {ret, "error"}
    BY <1>5 DEF insertMedia, setOneTimeBoot
  <2>2. ~BootDue' /\ ~EmptyDue' BY <2>1 DEF PathInv
  <2> QED BY <2>2
<1>6. CASE reset
  <2>1. pc = "reset" /\ pc' \in {"return", "poll"} /\ ret' \in {ret, "error"}
    BY <1>6 DEF reset
  <2>2. ~EmptyDue' BY <2>1 DEF PathInv
  <2> QED BY <1>6, <2>2
<1>7. CASE pollTask
  <2>1. pc = "poll" /\ UNCHANGED <<op, snap, booted, stale, tasks>>
    BY <1>7 DEF pollTask
  <2>2. pc' \in {"poll", "return"}
    BY <1>7, <2>1, PollOutcome
  <2>3. ~EmptyDue' BY <2>1, <2>2 DEF PathInv
  <2> QED BY <2>1, <2>3
<1>8. CASE powerOff \/ pollPowerOff
  <2>1. /\ pc \in {"poweroff", "polloff", "pollforced"} /\ ret' \in {ret, "error"}
        /\ pc' \in {"return", "polloff", "pollforced", "eject"}
    BY <1>8 DEF powerOff, pollPowerOff
  <2>2. ~BootDue' /\ ~EmptyDue' BY <2>1 DEF PathInv
  <2> QED BY <2>2
<1>9. CASE EjectMedia
  <2>1. pc = "eject" /\ pc' \in {"return", "todisk"} /\ ret' \in {ret, "error"}
    BY <1>9 DEF EjectMedia
  <2>2. ~BootDue' BY <2>1 DEF PathInv
  <2> QED BY <1>9, <2>2
<1>10. CASE bootToDisk \/ powerOn \/ Completed
  <2>1. /\ UNCHANGED <<op, drive, partial, sure, stale, overtaken>> /\ pc \in {"todisk", "poweron", "finish"}
        /\ pc' \in {"poweron", "finish", "return"}
    BY <1>10 DEF bootToDisk, powerOn, Completed
  <2>2. ~BootDue' BY <2>1 DEF PathInv
  <2> QED BY <2>1, <2>2
<1>11. CASE Close
  <2>1. UNCHANGED <<op, ret, snap, booted, drive, partial, sure, stale, tasks, overtaken>> /\ pc = "return" /\ pc' = "revoke"
    BY <1>11 DEF Close
  <2> QED BY <2>1
<1>12. CASE Revoke
  <2>1. ~BootDue' /\ ~EmptyDue' BY <1>12 DEF Revoke
  <2> QED BY <2>1
<1>13. CASE ContextEnds \/ PullEnds \/ ShutdownLands \/ UNCHANGED vars
  <2>1. /\ UNCHANGED <<pc, op, ret, snap, booted, partial, sure, stale, tasks, overtaken>>
        /\ PullEnds \/ UNCHANGED drive
    BY <1>13 DEF ContextEnds, PullEnds, ShutdownLands, vars
  <2> QED BY <2>1
<1>14. CASE Toggle
  <2>1. UNCHANGED <<pc, op, ret, snap, booted, drive, partial, sure, tasks, overtaken>> /\ (op # "none" => stale')
    BY <1>14 DEF Toggle
  <2>2. BootDue \/ EmptyDue => op # "none"
    BY DEF PathInv
  <2> QED BY <2>1, <2>2
<1> QED BY <1>1, <1>2, <1>3, <1>4, <1>5, <1>6, <1>7, <1>8, <1>9, <1>10, <1>11, <1>12, <1>13,
           <1>14 DEF Next, Client

\* The reset starts the boot: the machine is as the reset type was chosen for, the
\* override points at the image and the image is in the drive.
LEMMA StepStart ==
    ASSUME TypeOK, PathInv, PowerInv, DriveInv, StartInv, [Next]_vars
    PROVE  StartInv'
<1>0. env' = env
  BY SameBMC DEF vars
<1>t. Control /\ Flags /\ power \in {"On", "Off"}
  BY TypeParts DEF Machine
<1> DEFINE rt == resetType(env.quirks, snap, env.allowed)
<1>1. StartInv = (BootDue /\ "insert" \notin tasks /\ ~stale /\ Starts(rt, snap) => booted)
  BY DEF StartInv, BootDue
<1>2. StartInv' = (BootDue' /\ "insert" \notin tasks' /\ ~stale' /\ Starts(resetType(env.quirks, snap', env.allowed), snap') => booted')
  BY <1>0 DEF StartInv, BootDue
<1>3. CASE ~reset
  BY <1>1, <1>2, <1>3, <1>t, DueSteps
<1>4. CASE reset
  <2>1. pc = "reset" /\ UNCHANGED <<snap, stale, op>>
    BY <1>4 DEF reset
  <2>2. CASE pc' # "poll"
    <3>1. ret' = "error" /\ pc' = "return"
      BY <1>4, <2>2 DEF reset, Fail
    <3> QED BY <3>1, <1>2 DEF BootDue
  <2>3. CASE pc' = "poll"
    <3>1. booted' = (Starts(rt, power) /\ boot = "cd" /\ drive[dev] = "iso")
      BY <1>4, <2>3 DEF reset, Fail
    <3>0. "insert" \in tasks => "insert" \in tasks'
      BY <1>4 DEF reset
    <3> SUFFICES ASSUME ~stale, "insert" \notin tasks, Starts(rt, snap) PROVE booted'
      BY <1>2, <2>1, <3>0
    <3>2. boot = "cd" /\ drive[dev] = "iso"
      BY <2>1 DEF PowerInv, DriveInv
    <3>3. Starts(rt, power)
      <4> HIDE DEF rt
      <4>1. snap = "Off" => power = "Off"
        BY <2>1 DEF PowerInv
      <4> QED BY <4>1 DEF Starts
    <3> QED BY <3>1, <3>2, <3>3
  <2> QED BY <2>2, <2>3
<1> QED BY <1>3, <1>4

\* A deploy whose only task is the insert's returns success when that task has ended
\* with the image in the drive.
LEMMA StepFetch ==
    ASSUME TypeOK, PathInv, DeviceInv, FetchInv, [Next]_vars
    PROVE  FetchInv'
<1>0. Candidates' = Candidates
  BY SameBMC DEF vars, Candidates
<1>t. drive \in [Candidates -> {"empty", "pulling", "iso"}]
  BY TypeParts DEF Drives
<1>1. CASE pollTask
  <2> SUFFICES ASSUME ret' = "ok", tasks' = {"insert"}
               PROVE  dev' \in Candidates /\ drive'[dev'] = "iso"
    BY <1>0 DEF FetchInv
  <2>1. pc = "poll" /\ ret = "none" /\ UNCHANGED <<tasks, drive, dev>>
    BY <1>1 DEF pollTask, PathInv
  <2>2. pickTaskURI = "insert"
    BY <2>1 DEF pickTaskURI
  <2>3. PICK s \in PollAnswers, p \in Percents :
           /\ s = "Completed" /\ pickTaskURI = "insert" => drive[dev] = "iso"
           /\ CASE s \notin taskStates -> Fail /\ UNCHANGED pct
                [] s \in taskStates /\ ~isTerminalTaskState(s) ->
                       pct' = taskPollPercent(p) /\ UNCHANGED <<pc, ret>>
                [] s = "Completed" -> pct' = 100 /\ pc' = "return" /\ ret' = "ok"
                [] OTHER -> pct' = taskPollPercent(p) /\ Fail
    BY <1>1, <2>1, <2>2 DEF pollTask, Fail
  <2>4. s = "Completed"
    <3>1. CASE s \notin taskStates BY <2>3, <3>1 DEF Fail
    <3>2. CASE s \in taskStates /\ ~isTerminalTaskState(s) BY <2>1, <2>3, <3>2
    <3>3. CASE s \in taskStates /\ isTerminalTaskState(s) /\ s # "Completed"
      BY <2>3, <3>3 DEF Fail
    <3> QED BY <3>1, <3>2, <3>3
  <2>5. dev \in Candidates
    BY <2>1 DEF DeviceInv, AtMedia
  <2> QED BY <2>1, <2>2, <2>3, <2>4, <2>5
<1>2. CASE PullEnds
  <2>1. UNCHANGED <<ret, op, tasks, dev>> /\ Fetched
    BY <1>2 DEF PullEnds, Fetched
  <2>2. dev \in Candidates /\ drive[dev] = "iso" => drive'[dev] = "iso"
    BY <1>t, <2>1 DEF Fetched
  <2> QED BY <1>0, <2>1, <2>2 DEF FetchInv
<1>3. CASE UNCHANGED <<ret, op, tasks, dev, drive>>
  BY <1>0, <1>3 DEF FetchInv
<1>4. CASE ret' # "ok" \/ op' \notin Deploys
  BY <1>4 DEF FetchInv
<1>5. ASSUME NEW k \in Ops, NewDeployer(k) PROVE ret' # "ok"
  BY <1>5 DEF NewDeployer, Goto, PathInv
<1>6. CASE Connect \/ Inspect \/ Probe
  <2>1. ret' # "ok" \/ op' \notin Deploys
    BY <1>6 DEF Connect, Inspect, Probe, Fail, PathInv, Deploys
  <2> QED BY <1>4, <2>1
<1>7. CASE Discover \/ insertMedia \/ setOneTimeBoot \/ reset
  <2>1. ret' # "ok"
    BY <1>7 DEF Discover, insertMedia, setOneTimeBoot, reset, Fail, PathInv
  <2> QED BY <1>4, <2>1
<1>8. CASE powerOff \/ pollPowerOff \/ EjectMedia \/ bootToDisk \/ powerOn \/ Completed
  <2>1. op \notin Deploys /\ op' = op
    BY <1>8 DEF powerOff, pollPowerOff, EjectMedia, bootToDisk, powerOn, Completed, Goto, PathInv,
                Finalizes, Deploys
  <2> QED BY <1>4, <2>1
<1>9. CASE Close BY <1>3, <1>9 DEF Close
<1>10. CASE Revoke
  <2>1. ret' # "ok" BY <1>10 DEF Revoke
  <2> QED BY <1>4, <2>1
<1>11. CASE ContextEnds \/ ShutdownLands \/ Toggle \/ UNCHANGED vars
  BY <1>3, <1>11 DEF ContextEnds, ShutdownLands, Toggle, vars
<1> QED BY <1>1, <1>2, <1>4, <1>5, <1>6, <1>7, <1>8, <1>9, <1>10, <1>11 DEF Next, Client

\* The eject empties the drive the image is in, and it is in no other.
LEMMA StepEmpty ==
    ASSUME TypeOK, PathInv, PowerInv, DeviceInv, DriveInv, EmptyInv, [Next]_vars
    PROVE  EmptyInv'
<1>0. env' = env /\ Candidates' = Candidates
  BY SameBMC DEF vars, Candidates
<1>t. Control /\ Flags /\ drive \in [Candidates -> {"empty", "pulling", "iso"}]
  BY TypeParts DEF Drives
<1>1. CASE ~EjectMedia
  <2>1. PullEnds => ~\A i \in Candidates : drive[i] = "empty"
    BY DEF PullEnds
  <2> QED BY <1>0, <1>1, <1>t, <2>1, DueSteps DEF EmptyInv, EmptyDue
<1>2. CASE EjectMedia
  <2>1. pc = "eject" /\ UNCHANGED <<sure, stale, partial, dev, op>>
    BY <1>2 DEF EjectMedia
  <2>2. CASE pc' # "todisk"
    <3>1. ret' = "error" /\ pc' = "return"
      BY <1>2, <2>2 DEF EjectMedia, Fail
    <3> QED BY <3>1 DEF EmptyInv
  <2>3. CASE pc' = "todisk"
    <3> SUFFICES ASSUME ~partial, ~overtaken', env.liveEject \/ (sure /\ ~stale),
                        NEW i \in Candidates
                 PROVE  drive'[i] = "empty"
      BY <1>0, <2>1 DEF EmptyInv
    <3>1. drive' = [drive EXCEPT ![dev] = "empty"] \/ ~Applied
      BY <1>2, <2>3 DEF EjectMedia, Fail
    <3>2. sure /\ ~stale => power = "Off"
      BY <2>1 DEF PowerInv
    <3>3. dev \in Candidates /\ dev = Home
      BY <2>1 DEF DeviceInv, AtMedia
    <3>4. i # dev => drive[i] = "empty"
      BY <1>t, <3>3 DEF DriveInv
    <3>5. drive' = [drive EXCEPT ![dev] = "empty"]
      BY <3>1, <3>2 DEF Applied
    <3> QED BY <1>t, <3>3, <3>4, <3>5
  <2> QED BY <2>2, <2>3
<1> QED BY <1>1, <1>2

\* The invariant the promises rest on: the way of an operation, its writes, the
\* machine's power and its drives.
THEOREM OperationInvariant == Spec => [](WriteInv /\ PowerInv /\ MediaInv)
<1> DEFINE Typed == TypeOK /\ PathInv
           Inv == WriteInv /\ PowerInv /\ MediaInv
<1>1. Init /\ Typed => Inv
  <2> SUFFICES ASSUME Init, Typed PROVE Inv
    OBVIOUS
  <2>1. Accepted = {} /\ did \in Seq(Writes)
    BY DEF Init, Accepted
  <2>2. WriteInv /\ PowerInv
    BY <2>1 DEF Init, WriteInv, PowerInv
  <2>3. \A i \in Candidates : drive[i] = "empty"
    BY DEF Init
  <2>4. pc = "idle" /\ ret = "none"
    BY DEF Init
  <2>5. DeviceInv /\ DriveInv /\ StartInv /\ FetchInv /\ EmptyInv
    BY <2>3, <2>4 DEF DeviceInv, DriveInv, StartInv, FetchInv, EmptyInv, AtMedia
  <2> QED BY <2>2, <2>5 DEF MediaInv
<1>2. Typed /\ Inv /\ [Next]_vars => Inv'
  BY StepWrite, StepPower, StepDevice, StepDrive, StepStart, StepFetch, StepEmpty DEF MediaInv
<1> QED BY <1>1, <1>2, ClientTypeCorrect, PTL DEF Spec

\* A deploy that returns success has started a boot from the image when the BMC inserted
\* it at once; when the insert was the one request with a task, the task was waited for
\* and the image is in the drive (Deploy and pickTaskURI in deployer.go).
THEOREM InstallBootIsStarted == Spec => []InstallBootStarted
<1>1. MediaInv => InstallBootStarted
  BY DEF MediaInv, StartInv, FetchInv, InstallBootStarted
<1> QED BY <1>1, OperationInvariant, PTL

\* A finalize that returns success leaves no image in a drive, and a machine it
\* power-cycled running.
THEOREM FinalizeDoesDeliver == Spec => []FinalizeDelivers
<1>1. MediaInv => MediaOut
  BY DEF MediaInv, EmptyInv, MediaOut
<1>2. TypeOK /\ PowerInv => CycleLeavesItOn
  <2>1. Did("on") => "on" \in Accepted
    BY DEF Did, Accepted
  <2> QED BY <2>1 DEF PowerInv, CycleLeavesItOn
<1> QED BY <1>1, <1>2, OperationInvariant, ClientTypeCorrect, PTL DEF FinalizeDelivers

-----------------------------------------------------------------------------
(* An operation keeps the promise of BMCOperation.                         *)

kind == IF op = "clideploy" THEN "deploy" ELSE op

\* The place of every write in its operation's plan.
LEMMA DeployPlan ==
    /\ \A w \in {"insert", "boot", "reset"} :
          \E i \in DOMAIN Operation!Plan["deploy"] : Operation!Plan["deploy"][i] = w
    /\ Operation!Place("deploy", "insert") = 1
    /\ Operation!Place("deploy", "boot") = 2
    /\ Operation!Place("deploy", "reset") = 3
<1>1. Operation!Plan["deploy"] = <<"insert", "boot", "reset">>
  BY DEF Operation!Plan
<1>2. DOMAIN <<"insert", "boot", "reset">> = {1, 2, 3}
  OBVIOUS
<1> QED BY <1>1, <1>2 DEF Operation!Place

LEMMA FinalizePlan ==
    /\ \A w \in {"eject", "disk"} :
          \E i \in DOMAIN Operation!Plan["finalize"] : Operation!Plan["finalize"][i] = w
    /\ Operation!Place("finalize", "eject") = 1
    /\ Operation!Place("finalize", "disk") = 2
<1>1. Operation!Plan["finalize"] = <<"eject", "disk">>
  BY DEF Operation!Plan
<1>2. DOMAIN <<"eject", "disk">> = {1, 2}
  OBVIOUS
<1> QED BY <1>1, <1>2 DEF Operation!Place

LEMMA CyclePlan ==
    /\ \A w \in {"off", "force", "eject", "disk", "on"} :
          \E i \in DOMAIN Operation!Plan["cycle"] : Operation!Plan["cycle"][i] = w
    /\ Operation!Place("cycle", "off") = 1
    /\ Operation!Place("cycle", "force") = 2
    /\ Operation!Place("cycle", "eject") = 3
    /\ Operation!Place("cycle", "disk") = 4
    /\ Operation!Place("cycle", "on") = 5
<1>1. Operation!Plan["cycle"] = <<"off", "force", "eject", "disk", "on">>
  BY DEF Operation!Plan
<1>2. DOMAIN <<"off", "force", "eject", "disk", "on">> = {1, 2, 3, 4, 5}
  OBVIOUS
<1> QED BY <1>1, <1>2 DEF Operation!Place

LEMMA NeededWrites ==
    /\ Operation!Needed["inspect"] = {} /\ Operation!Needed["probe"] = {}
    /\ Operation!Needed["deploy"] = {"insert", "boot", "reset"}
    /\ Operation!Needed["finalize"] = {"eject"} /\ Operation!Needed["cycle"] = {"eject"}
BY DEF Operation!Needed

\* A step that has one write accepted, after those before it in the plan.
LEMMA WriteStep ==
    ASSUME NEW w \in Writes, Asks(w), UNCHANGED <<op, ret>>, op # "none", ret = "none",
           \E i \in DOMAIN Operation!Plan[kind] : Operation!Plan[kind][i] = w,
           \A a \in Accepted : Operation!Place(kind, a) < Operation!Place(kind, w)
    PROVE  Operation!Next
<1>1. kind # "none" /\ UNCHANGED kind
  BY DEF kind
<1>2. \A i \in DOMAIN did : did[i] \in Accepted
  BY DEF Accepted
<1>3. Operation!Write(w)
  BY <1>1, <1>2 DEF Operation!Write, Asks, kind
<1> QED BY <1>3 DEF Operation!Next, Writes

\* A step that decides what the caller is told.
LEMMA ReportStep ==
    ASSUME UNCHANGED <<op, did>>, op # "none", ret = "none", ret' \in {"ok", "error"},
           ret' = "ok" => Operation!Needed[kind] \subseteq Accepted
    PROVE  Operation!Next
<1>1. kind # "none" /\ UNCHANGED kind
  BY DEF kind
<1>2. Operation!Report(ret')
  BY <1>1 DEF Operation!Report, kind, Operation!Accepted, Accepted
<1> QED BY <1>2 DEF Operation!Next

LEMMA StutterStep ==
    ASSUME UNCHANGED <<op, did, ret>>
    PROVE  UNCHANGED Operation!vars
BY DEF Operation!vars

LEMMA ErrorStep ==
    ASSUME UNCHANGED <<op, did>>, op # "none", ret = "none", Fail
    PROVE  Operation!Next
BY ReportStep DEF Fail

LEMMA StepPromise ==
    ASSUME TypeOK, PathInv, WriteInv, [Next]_vars
    PROVE  [Operation!Next]_(Operation!vars)
<1>a. pc \notin {"idle", "return", "revoke"} => op # "none" /\ ret = "none"
  BY DEF PathInv
<1>b. op \in Deploys => kind = "deploy"
  BY DEF Deploys, kind
<1>c. op = "finalize" => kind = "finalize"
  BY DEF kind
<1>d. op = "cycle" => kind = "cycle"
  BY DEF kind
<1>w. /\ "insert" \in Writes /\ "boot" \in Writes /\ "reset" \in Writes /\ "eject" \in Writes
      /\ "disk" \in Writes /\ "off" \in Writes /\ "force" \in Writes /\ "on" \in Writes
  BY DEF Writes
<1>1. ASSUME NEW k \in Ops, NewDeployer(k) PROVE Operation!Next
  <2>1. op = "none" /\ op' = k /\ UNCHANGED <<did, ret>>
    BY <1>1 DEF NewDeployer, Goto, PathInv
  <2>2. kind = "none" /\ kind' \in Operation!Kinds
    BY <2>1 DEF kind, Ops, Operation!Kinds
  <2>3. Operation!Begin(kind')
    BY <2>1, <2>2 DEF Operation!Begin, kind
  <2> QED BY <2>2, <2>3 DEF Operation!Next
<1>2. CASE Connect
  <2>1. pc = "connect" /\ UNCHANGED <<op, did>> /\ (Fail \/ UNCHANGED ret)
    BY <1>2 DEF Connect
  <2> QED BY <1>a, <2>1, ErrorStep, StutterStep
<1>3. CASE Inspect
  <2>1. /\ pc = "inspect" /\ UNCHANGED <<op, did>>
        /\ Fail \/ UNCHANGED ret \/ (op = "inspect" /\ ret' = "ok")
    BY <1>3 DEF Inspect
  <2>2. op = "inspect" => kind = "inspect"
    BY DEF kind
  <2> QED BY <1>a, <2>1, <2>2, ErrorStep, StutterStep, ReportStep, NeededWrites
<1>4. CASE Probe
  <2>1. /\ pc = "probe" /\ UNCHANGED <<op, did>> /\ (Fail \/ ret' = "ok")
    BY <1>4 DEF Probe
  <2>2. kind = "probe"
    BY <2>1 DEF kind, PathInv
  <2> QED BY <1>a, <2>1, <2>2, ErrorStep, ReportStep, NeededWrites
<1>5. CASE Discover
  <2>1. pc = "discover" /\ UNCHANGED <<op, did>> /\ (Fail \/ UNCHANGED ret)
    BY <1>5 DEF Discover
  <2> QED BY <1>a, <2>1, ErrorStep, StutterStep
<1>6. CASE insertMedia
  <2>1. pc = "insert" /\ op' = op /\ ((Asks("insert") /\ ret' = ret) \/ (UNCHANGED did /\ Fail))
    BY <1>6 DEF insertMedia, Asks
  <2>2. kind = "deploy" /\ Accepted = {}
    BY <1>b, <2>1 DEF PathInv, WriteInv
  <2> QED BY <1>a, <1>w, <2>1, <2>2, DeployPlan, WriteStep, ErrorStep
<1>7. CASE setOneTimeBoot
  <2>1. pc = "setboot" /\ op' = op /\ ((Asks("boot") /\ ret' = ret) \/ (UNCHANGED did /\ Fail))
    BY <1>7 DEF setOneTimeBoot, Asks
  <2>2. kind = "deploy" /\ Accepted = {"insert"}
    BY <1>b, <2>1 DEF PathInv, WriteInv
  <2> QED BY <1>a, <1>w, <2>1, <2>2, DeployPlan, WriteStep, ErrorStep
<1>8. CASE reset
  <2>1. pc = "reset" /\ op' = op /\ ((Asks("reset") /\ ret' = ret) \/ (UNCHANGED did /\ Fail))
    BY <1>8 DEF reset, Asks
  <2>2. kind = "deploy" /\ Accepted = {"insert", "boot"}
    BY <1>b, <2>1 DEF PathInv, WriteInv
  <2> QED BY <1>a, <1>w, <2>1, <2>2, DeployPlan, WriteStep, ErrorStep
<1>9. CASE pollTask
  <2>1. pc = "poll" /\ UNCHANGED <<op, did>>
    BY <1>9 DEF pollTask
  <2>2. ret' = "ok" \/ Fail \/ UNCHANGED ret
    BY <1>9, PollOutcome
  <2>3. kind = "deploy" /\ Accepted = {"insert", "boot", "reset"}
    BY <1>b, <2>1 DEF PathInv, WriteInv
  <2> QED BY <1>a, <2>1, <2>2, <2>3, NeededWrites, ReportStep, ErrorStep, StutterStep
<1>10. CASE powerOff
  <2>1. /\ pc = "poweroff" /\ op' = op
        /\ (Asks("off") /\ ret' = ret) \/ UNCHANGED <<did, ret>> \/ (UNCHANGED did /\ Fail)
    BY <1>10 DEF powerOff, Asks
  <2>2. kind = "cycle" /\ Accepted = {}
    BY <1>d, <2>1 DEF PathInv, WriteInv
  <2> QED BY <1>a, <1>w, <2>1, <2>2, CyclePlan, WriteStep, ErrorStep, StutterStep
<1>11. CASE pollPowerOff
  <2>1. /\ pc \in {"polloff", "pollforced"} /\ op' = op
        /\ \/ pc = "polloff" /\ Asks("force") /\ ret' = ret
           \/ UNCHANGED <<did, ret>> \/ (UNCHANGED did /\ Fail)
    BY <1>11 DEF pollPowerOff, Asks
  <2>2. kind = "cycle" /\ (pc = "polloff" => Accepted = {"off"})
    BY <1>d, <2>1 DEF PathInv, WriteInv
  <2> QED BY <1>a, <1>w, <2>1, <2>2, CyclePlan, WriteStep, ErrorStep, StutterStep
<1>12. CASE EjectMedia
  <2>1. pc = "eject" /\ op' = op /\ ((Asks("eject") /\ ret' = ret) \/ (UNCHANGED did /\ Fail))
    BY <1>12 DEF EjectMedia, Asks
  <2>2. \/ kind = "finalize" /\ Accepted = {}
        \/ kind = "cycle" /\ Accepted \subseteq {"off", "force"}
    BY <1>c, <1>d, <2>1 DEF PathInv, WriteInv, Finalizes
  <2>3. \A a \in Accepted : Operation!Place(kind, a) < Operation!Place(kind, "eject")
    BY <2>2, CyclePlan
  <2>4. \E i \in DOMAIN Operation!Plan[kind] : Operation!Plan[kind][i] = "eject"
    BY <2>2, CyclePlan, FinalizePlan
  <2> QED BY <1>a, <1>w, <2>1, <2>3, <2>4, WriteStep, ErrorStep
<1>13. CASE bootToDisk
  <2>1. pc = "todisk" /\ op' = op /\ ret' = ret /\ (Asks("disk") \/ UNCHANGED did)
    BY <1>13 DEF bootToDisk, Asks, Goto
  <2>2. \/ kind = "finalize" /\ Accepted = {"eject"}
        \/ kind = "cycle" /\ Accepted \subseteq {"off", "force", "eject"}
    BY <1>c, <1>d, <2>1 DEF PathInv, WriteInv, Finalizes
  <2>3. \A a \in Accepted : Operation!Place(kind, a) < Operation!Place(kind, "disk")
    BY <2>2, CyclePlan, FinalizePlan
  <2>4. \E i \in DOMAIN Operation!Plan[kind] : Operation!Plan[kind][i] = "disk"
    BY <2>2, CyclePlan, FinalizePlan
  <2> QED BY <1>a, <1>w, <2>1, <2>3, <2>4, WriteStep, StutterStep
<1>14. CASE powerOn
  <2>1. /\ pc = "poweron" /\ op' = op
        /\ (Asks("on") /\ ret' = ret) \/ UNCHANGED <<did, ret>> \/ (UNCHANGED did /\ Fail)
    BY <1>14 DEF powerOn, Asks
  <2>2. kind = "cycle" /\ Accepted \subseteq {"off", "force", "eject", "disk"}
    BY <1>d, <2>1 DEF PathInv, WriteInv
  <2>3. \A a \in Accepted : Operation!Place(kind, a) < Operation!Place(kind, "on")
    BY <2>2, CyclePlan
  <2> QED BY <1>a, <1>w, <2>1, <2>2, <2>3, CyclePlan, WriteStep, ErrorStep, StutterStep
<1>15. CASE Completed
  <2>1. pc = "finish" /\ UNCHANGED <<op, did>> /\ ret' = "ok"
    BY <1>15 DEF Completed, Goto
  <2>2. kind \in {"finalize", "cycle"} /\ "eject" \in Accepted
    BY <1>c, <1>d, <2>1 DEF PathInv, WriteInv, Finalizes
  <2> QED BY <1>a, <2>1, <2>2, NeededWrites, ReportStep
<1>16. CASE Close BY <1>16, StutterStep DEF Close
<1>17. CASE Revoke
  <2>1. op # "none" /\ op' = "none" /\ did' = <<>> /\ ret # "none" /\ ret' = "none"
    BY <1>17 DEF Revoke, Goto, PathInv
  <2>2. kind # "none"
    BY <2>1 DEF kind
  <2>3. Operation!End
    BY <2>1, <2>2 DEF Operation!End, kind
  <2> QED BY <2>3 DEF Operation!Next
<1>18. CASE ContextEnds \/ PullEnds \/ ShutdownLands \/ Toggle \/ UNCHANGED vars
  <2>1. UNCHANGED <<op, did, ret>>
    BY <1>18 DEF ContextEnds, PullEnds, ShutdownLands, Toggle, vars
  <2> QED BY <2>1, StutterStep
<1> QED BY <1>1, <1>2, <1>3, <1>4, <1>5, <1>6, <1>7, <1>8, <1>9, <1>10, <1>11, <1>12, <1>13,
           <1>14, <1>15, <1>16, <1>17, <1>18 DEF Next, Client

\* The client implements what an operation on a BMC promises: its writes come in the
\* order of their plan, none twice, and success stands for the ones that matter.
THEOREM ClientKeepsPromise == Spec => KeepsPromise
<1>1. Init => Operation!Init
  BY DEF Init, Operation!Init
<1>2. TypeOK /\ PathInv /\ WriteInv /\ [Next]_vars => [Operation!Next]_(Operation!vars)
  BY StepPromise
<1> QED BY <1>1, <1>2, ClientTypeCorrect, OperationInvariant, PTL
        DEF Spec, KeepsPromise, Operation!Spec
=============================================================================
