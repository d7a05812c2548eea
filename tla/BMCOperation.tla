----------------------------- MODULE BMCOperation -----------------------------
(***************************************************************************)
(* What one operation on a BMC promises its caller, however the client     *)
(* gets there: the writes it asks of the BMC come in the order of its      *)
(* plan, none is asked twice, and it reports success only when the writes  *)
(* that matter were accepted.  DeployEject relies on this when it takes a  *)
(* whole session for one step.                                             *)
(***************************************************************************)
EXTENDS Naturals, Sequences

VARIABLES kind,     \* the operation under way, "none" between operations
          did,      \* the writes the BMC accepted, in order
          verdict   \* what the last operation told its caller

vars == <<kind, did, verdict>>

Kinds == {"inspect", "probe", "deploy", "finalize", "cycle"}

\* The order of the writes of an operation, and those success stands for.
Plan == [inspect  |-> <<>>,
         probe    |-> <<>>,
         deploy   |-> <<"insert", "boot", "reset">>,
         finalize |-> <<"eject", "disk">>,
         cycle    |-> <<"off", "force", "eject", "disk", "on">>]

Needed == [inspect |-> {}, probe |-> {}, deploy |-> {"insert", "boot", "reset"},
           finalize |-> {"eject"}, cycle |-> {"eject"}]

Place(k, w) == CHOOSE i \in DOMAIN Plan[k] : Plan[k][i] = w
Accepted == {did[i] : i \in DOMAIN did}

Init == kind = "none" /\ did = <<>> /\ verdict = "none"

Begin(k) ==
    /\ kind = "none"
    /\ kind' = k
    /\ UNCHANGED <<did, verdict>>

Write(w) ==
    /\ kind # "none" /\ verdict = "none"
    /\ \E i \in DOMAIN Plan[kind] : Plan[kind][i] = w
    /\ \A i \in DOMAIN did : Place(kind, did[i]) < Place(kind, w)
    /\ did' = Append(did, w)
    /\ UNCHANGED <<kind, verdict>>

Report(v) ==
    /\ kind # "none" /\ verdict = "none"
    /\ v = "ok" => Needed[kind] \subseteq Accepted
    /\ verdict' = v
    /\ UNCHANGED <<kind, did>>

End ==
    /\ kind # "none" /\ verdict # "none"
    /\ kind' = "none" /\ did' = <<>> /\ verdict' = "none"

Next ==
    \/ \E k \in Kinds : Begin(k)
    \/ \E w \in {"insert", "boot", "reset", "eject", "disk", "off", "force", "on"} : Write(w)
    \/ \E v \in {"ok", "error"} : Report(v)
    \/ End

Spec == Init /\ [][Next]_vars
=============================================================================
