---------------------------- MODULE RedfishQuirks ----------------------------
(***************************************************************************)
(* The decisions of the Redfish client that depend on the BMC it talks to  *)
(* (pkg/redfish: helpers.go, quirks*.go, quirkprofile.go, registry.go,     *)
(* features.go), as operators over what the BMC advertises.                *)
(*                                                                         *)
(* A quirk profile is a record; an empty section is a nil hook.  A media   *)
(* candidate has the location that hosts it ("system" or a manager) and    *)
(* the set of MediaTypes it advertises.  Indexes start at 1.               *)
(***************************************************************************)
EXTENDS Integers, Sequences, FiniteSets, SequencesExt

knownResetTypes ==
    {"On", "ForceOn", "ForceOff", "GracefulShutdown", "ForceRestart",
     "GracefulRestart", "Nmi", "Pause", "Resume", "Suspend", "PowerCycle"}

Generic(name) == [name |-> name, search |-> <<>>, rules |-> <<>>, tune |-> {}]

\* The in-tree profiles.  ilo looks under the managers first.
builtinQuirks ==
    [generic    |-> Generic("generic"),
     ilo        |-> [Generic("ilo") EXCEPT !.search = <<"manager", "system">>],
     supermicro |-> Generic("supermicro")]

\* Profile sections an operator file may carry; Image is core-owned.
insertParamAllowlist == {"MediaType", "TransferProtocolType", "Inserted", "WriteProtected"}

validate(p) ==
    /\ \A i \in DOMAIN p.rules : /\ p.rules[i].when \in {"On", "Off", "*"}
                                 /\ p.rules[i].then \in knownResetTypes
    /\ p.tune \subseteq insertParamAllowlist

-----------------------------------------------------------------------------
\* The registry.  An entry keeps where it came from, which decides its tier.
deriveTier(name, origin, hasMockup) ==
    IF origin = "operator" THEN "C"
    ELSE IF hasMockup THEN "B"
    ELSE IF name = "generic" THEN "A" ELSE "C"

newRegistry(mockups) ==
    [n \in DOMAIN builtinQuirks |->
        [quirks |-> builtinQuirks[n], origin |-> "builtin",
         tier |-> deriveTier(n, "builtin", n \in mockups)]]

add(reg, p) ==
    [n \in DOMAIN reg \cup {p.name} |->
        IF n = p.name THEN [quirks |-> p, origin |-> "operator",
                            tier |-> deriveTier(n, "operator", FALSE)]
        ELSE reg[n]]

\* Files in the order of their names.  One that cannot be read or decoded (an unknown
\* key, no name, a selector outside the schema) or does not validate is skipped, the
\* others still load.
LoadProfileDir(files, mockups) ==
    FoldLeft(LAMBDA reg, f : IF f.readable /\ validate(f) THEN add(reg, f) ELSE reg,
             newRegistry(mockups), files)

\* By name, else by VendorType, else generic: a typo never enables a workaround.
quirksForName(reg, name) ==
    IF name \in DOMAIN reg THEN reg[name].quirks
    ELSE IF name \in DOMAIN builtinQuirks THEN builtinQuirks[name]
    ELSE builtinQuirks["generic"]

-----------------------------------------------------------------------------
\* Virtual media.
mediaSupportsCD(m) == m.types \cap {"CD", "DVD"} # {}

locationMatches(sel, loc) ==
    CASE sel = "system"  -> loc = "system"
      [] sel = "manager" -> loc # "system"
      [] OTHER           -> loc = sel

\* Where the profile's search puts a candidate: by the first selector that matches
\* its location; 0: none does.
compileMediaSearch(q, m) == SelectInSeq(q.search, LAMBDA sel : locationMatches(sel, m.loc))

\* The candidates searched, of those seen (by their place in the BMC's own order): the
\* ones some selector matches, each once, or all of them when none is matched.
sanitizeMediaOrder(q, media, seen) ==
    LET found == {i \in seen : compileMediaSearch(q, media[i]) # 0}
    IN  IF found = {} THEN seen ELSE found

\* The one of S that the search meets first.
firstMedia(q, media, S) ==
    LET place(i) == compileMediaSearch(q, media[i])
        best == Min({place(i) : i \in S})
    IN  Min({i \in S : place(i) = best})

\* The first candidate that takes a CD, else the first that says nothing; 0: none.
findCDMedia(q, media, seen) ==
    LET order == sanitizeMediaOrder(q, media, seen)
        cd    == {i \in order : mediaSupportsCD(media[i])}
        blank == {i \in order : media[i].types = {}}
    IN  IF cd # {} THEN firstMedia(q, media, cd)
        ELSE IF blank # {} THEN firstMedia(q, media, blank) ELSE 0

-----------------------------------------------------------------------------
\* Reset types.  An empty set of allowed types means the BMC advertises none.
firstSupported(allowed, preferences) ==
    LET k == SelectInSeq(preferences, LAMBDA t : t \in allowed)
    IN  preferences[IF k = 0 THEN 1 ELSE k]

chooseResetType(power, allowed) ==
    IF power = "Off" THEN firstSupported(allowed, <<"On", "ForceOn">>)
    ELSE firstSupported(allowed, <<"ForceRestart", "GracefulRestart", "On">>)

\* The first rule for the power state, else the core's choice.
compileResetType(q, power, default) ==
    LET k == SelectInSeq(q.rules, LAMBDA r : r.when \in {"*", power})
    IN  IF k = 0 THEN default ELSE q.rules[k].then

\* A profile prefers, it never forces a type the BMC does not advertise.
resetType(q, power, allowed) ==
    LET rt == chooseResetType(power, allowed)
    IN  IF q.rules = <<>> THEN rt
        ELSE firstSupported(allowed, <<compileResetType(q, power, rt), rt>>)

-----------------------------------------------------------------------------
\* Tasks.
taskStates == {"New", "Starting", "Running", "Suspended", "Interrupted", "Pending",
               "Stopping", "Completed", "Killed", "Exception", "Service",
               "Cancelling", "Cancelled"}
isTerminalTaskState(s) == s \in {"Completed", "Exception", "Killed", "Cancelled"}

taskPollFloor == 80
taskPollCeil == 95

\* NoPercent: the BMC does not report PercentComplete.
NoPercent == -1000
\* Slip: a negative percentage is not clamped.
taskPollPercentRaw(p) ==
    IF p = NoPercent THEN taskPollFloor
    ELSE LET q == IF p > 100 THEN 100 ELSE p
         IN  taskPollFloor + ((taskPollCeil - taskPollFloor) * q) \div 100

taskPollPercent(p) ==
    IF p = NoPercent THEN taskPollFloor
    ELSE LET q == IF p < 0 THEN 0 ELSE IF p > 100 THEN 100 ELSE p
         IN  taskPollFloor + ((taskPollCeil - taskPollFloor) * q) \div 100

-----------------------------------------------------------------------------
\* Features.  modes is the allowable-values annotation ({}: absent), mode the
\* current override mode, targets the allowable boot targets.
detectUEFI(fw) ==
    IF fw.modes # {} THEN "UEFI" \in fw.modes
    ELSE \/ fw.mode = "UEFI"
         \/ fw.targets \cap {"UefiTarget", "UefiHttp", "UefiShell", "UefiBootNext"} # {}

detectFeatures(fw) ==
    {f \in {"UEFI", "SecureBoot"} : IF f = "UEFI" THEN detectUEFI(fw) ELSE fw.secureBoot}

\* hardware.ValidateRequirements: an unknown feature is refused, not passed over.
ValidateRequirements(fw, enough, required) ==
    enough /\ required \subseteq {"UEFI", "SecureBoot"} /\ required \subseteq detectFeatures(fw)
=============================================================================
