----------------------------- MODULE ImageServe -----------------------------
(***************************************************************************)
(* Where a Redfish deployment's BMC gets its ISO from: the URL an operator *)
(* gave, or a one-shot URL of the server's own, whose token lives in the   *)
(* registry of isoserve until the deployment ends (DeployRedfish, the      *)
(* image-source settings, pkg/isoserve).                                   *)
(*                                                                         *)
(* A step is one statement or one critical section of Server.mu.  Time is  *)
(* a coarse clock, and nothing happens by itself when a deadline passes.   *)
(* What the deployment does is RedfishClient's matter.                     *)
(***************************************************************************)
EXTENDS Naturals, Functions

CONSTANTS Deploy,         \* deploy requests; each registers its own token
          DeployTimeout,  \* redfishDeployTimeout
          Slack,          \* what the token's lifetime adds to it
          MaxNow          \* bound: the clock

ASSUME ServeAssumption == DeployTimeout \in Nat /\ Slack \in Nat /\ MaxNow \in Nat

VARIABLES
    settings,   \* the image-source settings: a default URL, local serving enabled
    listener,   \* was --redfish-serve-addr given at launch?
    disk,       \* is the artifact's ISO there?
    dep,        \* where each request and the goroutine it starts stand, when its
                \* context ends, how old its token was when it was started
    entries,    \* Server.entries: the expiry of each token
    fetches,    \* tokens whose file a BMC is downloading
    now

serveVars == <<settings, listener, disk, dep, entries, fetches, now>>

TokenTTL == DeployTimeout + Slack

NotYet == [pc |-> "new", end |-> 0, lag |-> 0]

ServeTypeOK ==
    /\ settings \in [url : BOOLEAN, on : BOOLEAN]
    /\ listener \in BOOLEAN /\ disk \in BOOLEAN
    /\ dep \in [Deploy -> [pc : {"new", "local", "create", "operator", "run", "done"},
                           end : 0..(MaxNow + DeployTimeout), lag : 0..(MaxNow + Slack + 1)]]
    /\ DOMAIN entries \subseteq Deploy
    /\ \A d \in DOMAIN entries : entries[d] \in TokenTTL..(MaxNow + TokenTTL)
    /\ fetches \subseteq Deploy
    /\ now \in 0..MaxNow

ServeInit ==
    /\ settings = [url |-> FALSE, on |-> FALSE]
    /\ listener \in BOOLEAN
    /\ disk = TRUE
    /\ dep = [d \in Deploy |-> NotYet]
    /\ entries = <<>>
    /\ fetches = {}
    /\ now = 0

(***************************************************************************)
(* isoserve.Server.                                                        *)
(***************************************************************************)
\* The file must exist when the token is made.
Register(d) ==
    /\ disk
    /\ entries' = [t \in DOMAIN entries \union {d} |->
                     IF t = d THEN now + TokenTTL ELSE entries[t]]

\* An unknown token is no error.
Revoke(d) == entries' = Restrict(entries, DOMAIN entries \ {d})

Live(d) == d \in DOMAIN entries /\ now <= entries[d]

\* A GET of the BMC: once the file is open, nothing ends the download but itself.
handle(d) ==
    /\ Live(d) /\ disk
    /\ fetches' = fetches \union {d}
    /\ UNCHANGED <<settings, listener, disk, dep, entries, now>>

FetchEnds(d) ==
    /\ d \in fetches
    /\ fetches' = fetches \ {d}
    /\ UNCHANGED <<settings, listener, disk, dep, entries, now>>

sweep ==
    /\ \E d \in DOMAIN entries : ~Live(d)
    /\ entries' = Restrict(entries, {d \in DOMAIN entries : Live(d)})
    /\ UNCHANGED <<settings, listener, disk, dep, fetches, now>>

(***************************************************************************)
(* Settings: a request may set both, one after the other; a store error    *)
(* after the first leaves it set.                                          *)
(***************************************************************************)
UpdateImageSource ==
    /\ \E url \in BOOLEAN, on \in BOOLEAN :
         /\ on => listener
         /\ settings' \in {[settings EXCEPT !.url = url], [settings EXCEPT !.on = on],
                           [url |-> url, on |-> on]}
    /\ UNCHANGED <<listener, disk, dep, entries, fetches, now>>

(***************************************************************************)
(* A deployment.                                                           *)
(***************************************************************************)
At(d, pc) == dep[d].pc = pc
Goto(d, pc) == dep' = [dep EXCEPT ![d] = [dep[d] EXCEPT !.pc = pc]]

\* A URL of the request, of its BMC target or of the settings, in that order.
resolveOperatorImageURL(d) ==
    /\ At(d, "new")
    /\ \E given \in BOOLEAN : Goto(d, IF given \/ settings.url THEN "operator" ELSE "local")
    /\ UNCHANGED <<settings, listener, disk, entries, fetches, now>>

\* Local serving, when it is there and enabled: 503 otherwise, also when the
\* setting cannot be read, and 500 when the file is gone.
localServeEnabled(d) ==
    /\ At(d, "local")
    /\ \/ listener /\ settings.on /\ Register(d) /\ Goto(d, "create")
       \/ Goto(d, "done") /\ UNCHANGED entries
    /\ UNCHANGED <<settings, listener, disk, fetches, now>>

\* Slip: the error is answered and the token left.
CreateFailsOnly(d) == At(d, "create") /\ Goto(d, "done") /\ UNCHANGED entries

\* The row is created and the goroutine started, or the token given back.
CreateFails(d) == At(d, "create") /\ Revoke(d) /\ Goto(d, "done")

Starts(d) ==
    /\ At(d, "create") \/ At(d, "operator")
    /\ dep' = [dep EXCEPT ![d] =
                 [pc |-> "run", end |-> now + DeployTimeout,
                  lag |-> IF d \in DOMAIN entries THEN now + TokenTTL - entries[d] ELSE Slack + 1]]
    /\ UNCHANGED entries

DeployRedfish(d) ==
    /\ Starts(d) \/ CreateFails(d) \/ (At(d, "operator") /\ Goto(d, "done") /\ UNCHANGED entries)
    /\ UNCHANGED <<settings, listener, disk, fetches, now>>

\* It ends when Connect or Deploy does, at any time, and always revokes.
runRedfishDeploy(d) ==
    /\ At(d, "run")
    /\ Revoke(d)
    /\ Goto(d, "done")
    /\ UNCHANGED <<settings, listener, disk, fetches, now>>

(***************************************************************************)
(* The surroundings: the artifact is deleted or rebuilt, time passes, the  *)
(* server is restarted, perhaps with other flags.                          *)
(***************************************************************************)
ArtifactFiles ==
    /\ disk' = ~disk
    /\ UNCHANGED <<settings, listener, dep, entries, fetches, now>>

Tick ==
    /\ now < MaxNow /\ now' = now + 1
    /\ UNCHANGED <<settings, listener, disk, dep, entries, fetches>>

Restart ==
    /\ listener' \in BOOLEAN
    /\ dep' = [d \in Deploy |-> IF At(d, "new") THEN NotYet ELSE [dep[d] EXCEPT !.pc = "done"]]
    /\ entries' = <<>>
    /\ fetches' = {}
    /\ UNCHANGED <<settings, disk, now>>

ServeNext ==
    \/ UpdateImageSource \/ sweep \/ ArtifactFiles \/ Tick \/ Restart
    \/ \E d \in Deploy : \/ resolveOperatorImageURL(d) \/ localServeEnabled(d)
                         \/ DeployRedfish(d) \/ runRedfishDeploy(d)
                         \/ handle(d) \/ FetchEnds(d)

-----------------------------------------------------------------------------
\* A token is registered only while its own request is creating the deployment or
\* its goroutine runs: "Don't leak a live serve token for a deployment that never
\* started", and none outlives the one that did.
NoStrayToken == \A d \in DOMAIN entries : At(d, "create") \/ At(d, "run")

\* While a deployment served locally has time left, its BMC finds the token, also
\* after the sweeper and other deployments' ends, provided the row was created
\* within the slack that the token's lifetime leaves.
ServedWhileDeploying ==
    \A d \in Deploy : At(d, "run") /\ dep[d].lag <= Slack /\ now <= dep[d].end => Live(d)

\* A token of the one-shot server lives exactly as long as its deployment needs it.
TokenFollowsDeployment == NoStrayToken /\ ServedWhileDeploying

\* Why it holds, as an inductive invariant: a token that started its deployment in time
\* expires no earlier than the deployment's context.
ServeInv ==
    /\ NoStrayToken
    /\ \A d \in DOMAIN entries : entries[d] <= now + TokenTTL
    /\ \A d \in Deploy : At(d, "run") /\ dep[d].lag <= Slack /\ now <= dep[d].end
                            => d \in DOMAIN entries /\ dep[d].end <= entries[d]
=============================================================================
