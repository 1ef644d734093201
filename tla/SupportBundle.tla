---------------------------- MODULE SupportBundle ----------------------------
(***************************************************************************)
(* The export of a support bundle into a directory or a zip archive        *)
(* (support_bundle.py), file by file, and the verdict of the validator     *)
(* (bundle_validator.py) on whatever is on disk: during an export, after   *)
(* it, after one that was aborted, and after several into the same path.   *)
(* A file is what it was made from; SHA-256 tells any two files apart.     *)
(***************************************************************************)
EXTENDS Naturals, Sequences

CONSTANTS Result,    \* results of diagnostics runs
          Captured,  \* those with a raw command capture
          Absent,    \* no such file
          Partial    \* a file that was opened and not written to its end

ASSUME CapturedAssumption == Captured \subseteq Result

VARIABLES
  destination,  \* what the output path names: a directory or a zip archive
  bundle,       \* the member files on disk
  sealed,       \* can the path be read? An archive is sealed by its directory
  export,       \* the request that is, or was last, exported
  pending,      \* members still to write
  opened,       \* is the first of them open?
  outcome       \* of that export: "none", "writing", "written", "aborted"

vars == <<destination, bundle, sealed, export, pending, opened, outcome>>

Level == {"none", "safe", "strict"}
Artifacts == {"result.json", "report.txt", "redaction-report.txt", "raw-commands.json"}
Member == Artifacts \cup {"manifest.json"}

\* Arguments of write_support_bundle
Request == [result: Result, level: Level, includeRaw: BOOLEAN]

RawIncluded(e) == e.includeRaw /\ e.result \in Captured

\* The artifacts of a bundle
Listed(e) == Artifacts \ (IF RawIncluded(e) THEN {} ELSE {"raw-commands.json"})

\* The artifacts whose replacements the redaction summary counts: those
\* redacted before it is taken
Counted(e) == IF e.level = "none" THEN {} ELSE {"result.json", "report.txt"}

\* An artifact: what it was made from and, for the redaction report, what it
\* accounts for
Artifact(f, e) ==
  [result |-> e.result, level |-> e.level,
   counts |-> IF f = "redaction-report.txt" THEN Counted(e) ELSE {}]

\* Mutant: the manifest is built before the raw commands are added.
ManifestTooEarly(e) ==
  [level |-> e.level, rawIncluded |-> RawIncluded(e),
   files |-> [f \in Artifacts \ {"raw-commands.json"} |-> Artifact(f, e)]]

\* manifest.json; the hash of a file stands for the file
Manifest(e) ==
  [level |-> e.level, rawIncluded |-> RawIncluded(e),
   files |-> [f \in Listed(e) |-> Artifact(f, e)]]

\* build_support_bundle_contents
Contents(e) ==
  [f \in Member |-> CASE f = "manifest.json" -> Manifest(e)
                      [] f \in Listed(e)     -> Artifact(f, e)
                      [] OTHER               -> Absent]

\* A file is neither absent nor partial.
ASSUME FileAssumption ==
  \A e \in Request : /\ Manifest(e) \notin {Absent, Partial}
                     /\ \A f \in Artifacts : Artifact(f, e) \notin {Absent, Partial}

\* The members in the order in which they are written: an archive takes them
\* sorted by name, a directory as they were built, the manifest last.
Order(e) ==
  IF destination = "zip"
  THEN IF RawIncluded(e)
       THEN <<"manifest.json", "raw-commands.json", "redaction-report.txt", "report.txt",
              "result.json">>
       ELSE <<"manifest.json", "redaction-report.txt", "report.txt", "result.json">>
  ELSE IF RawIncluded(e)
       THEN <<"result.json", "report.txt", "redaction-report.txt", "raw-commands.json",
              "manifest.json">>
       ELSE <<"result.json", "report.txt", "redaction-report.txt", "manifest.json">>

NoFiles == [f \in Member |-> Absent]

Init ==
  /\ destination \in {"directory", "zip"}
  /\ bundle = NoFiles
  /\ sealed = (destination = "directory")
  /\ export \in Request
  /\ pending = <<>>
  /\ opened = FALSE
  /\ outcome = "none"
-----------------------------------------------------------------------------
(* write_support_bundle.                                                   *)

\* An archive is truncated; a directory keeps the files that are in it.
Begin(e) ==
  /\ outcome # "writing"
  /\ export' = e
  /\ pending' = Order(e)
  /\ outcome' = "writing"
  /\ bundle' = IF destination = "zip" THEN NoFiles ELSE bundle
  /\ sealed' = (destination = "directory")
  /\ UNCHANGED <<destination, opened>>

\* write_bytes or writestr opens, and truncates, the next member ...
OpenMember ==
  /\ outcome = "writing" /\ pending # <<>> /\ ~opened
  /\ opened' = TRUE
  /\ bundle' = [bundle EXCEPT ![Head(pending)] = Partial]
  /\ UNCHANGED <<destination, sealed, export, pending, outcome>>

\* Mutant: every member gets the payload of the first one.
WriteFirstPayload ==
  /\ outcome = "writing" /\ opened
  /\ opened' = FALSE
  /\ bundle' = [bundle EXCEPT ![Head(pending)] = Contents(export)[Order(export)[1]]]
  /\ pending' = Tail(pending)
  /\ UNCHANGED <<destination, sealed, export, outcome>>

\* ... and writes it.
WriteMember ==
  /\ outcome = "writing" /\ opened
  /\ opened' = FALSE
  /\ bundle' = [bundle EXCEPT ![Head(pending)] = Contents(export)[Head(pending)]]
  /\ pending' = Tail(pending)
  /\ UNCHANGED <<destination, sealed, export, outcome>>

\* All members are written; an archive is closed.
Finish ==
  /\ outcome = "writing" /\ pending = <<>>
  /\ outcome' = "written"
  /\ sealed' = TRUE
  /\ UNCHANGED <<destination, bundle, export, pending, opened>>

\* An exception (the disk is full, the operator interrupts) or a kill. On an
\* exception the with statement still closes the archive, if it can.
Abort ==
  /\ outcome = "writing"
  /\ outcome' = "aborted"
  /\ sealed' \in {sealed, TRUE}
  /\ opened' = FALSE
  /\ pending' = <<>>
  /\ UNCHANGED <<destination, bundle, export>>

Next == (\E e \in Request : Begin(e)) \/ OpenMember \/ WriteMember \/ Finish \/ Abort

Spec == Init /\ [][Next]_vars
-----------------------------------------------------------------------------
(* validate_support_bundle, on what is on disk.                            *)

Members == {f \in Member : bundle[f] # Absent}

\* Mutant: a listed file only has to be there.
PresentOnly(f, m) == f \in Members

\* size_bytes and sha256 of a listed file
Matches(f, m) == bundle[f] = m.files[f]

\* No unexpected members, and raw_command_capture_included agrees with them.
NothingElse(m) ==
  /\ Members \subseteq DOMAIN m.files \cup {"manifest.json"}
  /\ m.rawIncluded <=> "raw-commands.json" \in Members

\* The path is a directory or a proper archive with a manifest that parses.
\* A manifest without its last byte, a newline, parses too; it is complete.
Readable == sealed /\ bundle["manifest.json"] \notin {Absent, Partial}

\* Loading result.json at the end reports a file missing from a directory;
\* from an archive it raises KeyError.
Verdict ==
  LET m == bundle["manifest.json"] IN
  IF ~Readable THEN "rejected"
  ELSE IF destination = "zip" /\ "result.json" \notin Members THEN "raised"
  ELSE IF NothingElse(m) /\ \A f \in DOMAIN m.files : Matches(f, m) THEN "accepted"
  ELSE "rejected"
-----------------------------------------------------------------------------
(* Properties.                                                             *)

TypeOK ==
  /\ destination \in {"directory", "zip"}
  /\ bundle = [f \in Member |-> bundle[f]]
  /\ \A f \in Member : bundle[f] \in {Absent, Partial} \cup {Contents(e)[f] : e \in Request}
  /\ sealed \in BOOLEAN
  /\ export \in Request
  /\ pending \in Seq(Member)
  /\ opened \in BOOLEAN
  /\ outcome \in {"none", "writing", "written", "aborted"}

\* A bundle the validator accepts is one whole export: all its files come
\* from one result, redacted at one level, and nothing else lies beside
\* them, whatever was aborted and however often the path was written.
AcceptedIsWhole == Verdict = "accepted" => \E e \in Request : bundle = Contents(e)

\* Left from an earlier export into the same directory
StaleRaw == ~RawIncluded(export) /\ "raw-commands.json" \in Members

\* An export that was written to its end is the bundle on disk, and the
\* validator accepts it, unless an older raw-commands.json lies beside it.
WrittenIsAccepted ==
  outcome = "written" /\ ~StaleRaw => Verdict = "accepted" /\ bundle = Contents(export)

\* The validator answers with issues for every bundle it is given; it does
\* not fail itself.
ValidatorAnswers == Verdict # "raised"
=============================================================================
