----------------------------- MODULE MCCollection -----------------------------
(* Collection with one and two targets and names, on a Mac with one APFS    *)
(* container and a second disk, on Linux, on Windows and elsewhere.         *)
EXTENDS Collection, TLC

Web    == [host |-> "github.com", port |-> 443]
Dns    == [host |-> "1.1.1.1", port |-> 53]
WebTwo == [host |-> "github.com", port |-> 22]

Targets == {<<Web>>, <<Web, Dns>>, <<Web, WebTwo>>}
Names   == {<<"github.com">>, <<"github.com", "python.org">>}

Paths ==
  [macos   |-> <<"/", "/System/Volumes/Data", "/System/Volumes/VM", "/Volumes/Disk">>,
   linux   |-> <<"/", "/home", "/srv">>,
   windows |-> <<"C:", "D:">>,
   other   |-> <<>>]

\* The first container holds the primary volumes, the second one the others.
Layout ==
  [path \in {"/", "/System/Volumes/Data", "/System/Volumes/VM", "C:"} |-> 1]
    @@ [path \in {"/Volumes/Disk", "/home", "/srv", "D:"} |-> 2]
=============================================================================
