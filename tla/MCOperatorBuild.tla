-------------------------- MODULE MCOperatorBuild --------------------------
(***************************************************************************)
(* Small instances of OperatorBuild.                                       *)
(***************************************************************************)
EXTENDS OperatorBuild

CONSTANTS h1, h2, o1

MCFiles == <<"iso", "raw">>

Plain == [base |-> FALSE, dockerfile |-> FALSE, hadron |-> FALSE, version |-> TRUE, init |-> FALSE,
          arch |-> "amd64", flags |-> {}, outputs |-> {"iso"}, cc |-> FALSE, url |-> TRUE]

\* A Hadron build with everything inlined, an image taken as it is with nothing
\* to read, and two that are refused.
MCJobs == {[Plain EXCEPT !.dockerfile = TRUE, !.hadron = TRUE, !.cc = TRUE, !.flags = {"fips"},
                         !.outputs = {"iso", "raw", "tar"}],
           [Plain EXCEPT !.base = TRUE, !.version = FALSE, !.url = FALSE, !.arch = "none"],
           [Plain EXCEPT !.base = TRUE, !.version = FALSE, !.flags = {"fips"}],
           [Plain EXCEPT !.arch = "riscv64"]}
=============================================================================
