--------------------------- MODULE MCRedfishClient ---------------------------
(* Small BMCs for TLC: where the CD drive hangs, what the BMC advertises, and *)
(* which profile is in force.                                                 *)
EXTENDS RedfishClient

Cd(loc) == [loc |-> loc, types |-> {"CD", "USBStick"}]
Usb(loc) == [loc |-> loc, types |-> {"USBStick"}]
Blank(loc) == [loc |-> loc, types |-> {}]

UefiFw == [modes |-> {"UEFI", "Legacy"}, mode |-> "Legacy", targets |-> {}, secureBoot |-> TRUE]
BiosFw == [modes |-> {"Legacy"}, mode |-> "UEFI", targets |-> {"UefiTarget"}, secureBoot |-> FALSE]

\* Operator files: one overrides ilo, one repeats a manager, one is broken.
Files == << [Generic("ilo") EXCEPT !.search = <<"m2", "manager">>] @@ [readable |-> TRUE],
            [Generic("acme") EXCEPT !.rules = <<[when |-> "On", then |-> "PowerCycle"]>>] @@ [readable |-> TRUE],
            [Generic("bad") EXCEPT !.tune = {"Image"}] @@ [readable |-> TRUE] >>
Reg == LoadProfileDir(Files, {})

Base == [auth |-> "auto", sessionService |-> TRUE, systems |-> 1, pinned |-> FALSE,
         pinFound |-> FALSE, quirks |-> Reg["generic"].quirks,
         layout |-> <<Usb("system"), Cd("system")>>, allowed |-> {}, fw |-> UefiFw,
         enough |-> TRUE, liveEject |-> TRUE, power |-> "On"]

MCPercents == {NoPercent, -5, 250}

MCEnvs ==
    { Base,
      [Base EXCEPT !.sessionService = FALSE, !.liveEject = FALSE, !.power = "Off"],
      [Base EXCEPT !.quirks = quirksForName(newRegistry({}), "ilo"), !.auth = "session",
                   !.layout = <<Cd("system"), Cd("m1")>>],
      [Base EXCEPT !.quirks = quirksForName(Reg, "ilo"), !.layout = <<Cd("m1"), Cd("m2")>>,
                   !.allowed = {"On", "ForceOff", "ForceRestart"}, !.liveEject = FALSE],
      [Base EXCEPT !.quirks = quirksForName(Reg, "acme"), !.systems = 2, !.pinned = TRUE,
                   !.pinFound = TRUE, !.allowed = {"On", "GracefulShutdown", "PowerCycle"},
                   !.layout = <<Blank("system"), Usb("m1")>>, !.power = "Off"],
      [Base EXCEPT !.quirks = quirksForName(Reg, "typo"), !.systems = 2, !.auth = "basic",
                   !.fw = BiosFw],
      [Base EXCEPT !.fw = BiosFw, !.auth = "unknown"] }
=============================================================================
