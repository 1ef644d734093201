------------------------- MODULE SupportBundle_proofs -------------------------
(***************************************************************************)
(* Proofs about SupportBundle, for any set of results and captures.        *)
(***************************************************************************)
EXTENDS SupportBundle, TLAPS

\* What is known of the contents of an export: which members it has, and
\* that they are files.
LEMMA ContentsOf ==
  ASSUME NEW e \in Request
  PROVE  /\ Contents(e) = [f \in Member |-> Contents(e)[f]]
         /\ Contents(e)["manifest.json"] = Manifest(e)
         /\ Listed(e) \subseteq Artifacts
         /\ \A f \in Listed(e) : Contents(e)[f] = Artifact(f, e)
         /\ \A f \in Artifacts \ Listed(e) : Contents(e)[f] = Absent
         /\ \A f \in Listed(e) \cup {"manifest.json"} : Contents(e)[f] \notin {Absent, Partial}
<1>1. Listed(e) \subseteq Artifacts /\ "manifest.json" \notin Artifacts
  BY DEF Listed, Artifacts
<1>2. Contents(e)["manifest.json"] = Manifest(e)
  BY <1>1 DEF Contents, Member
<1>3. \A f \in Listed(e) : Contents(e)[f] = Artifact(f, e)
  BY <1>1 DEF Contents, Member
<1>4. \A f \in Artifacts \ Listed(e) : Contents(e)[f] = Absent
  BY <1>1 DEF Contents, Member
<1>5. Contents(e) = [f \in Member |-> Contents(e)[f]]
  BY DEF Contents
<1>6. QED
  BY <1>1, <1>2, <1>3, <1>4, <1>5, FileAssumption

\* The manifest lists the artifacts of its export, as they are in it.
LEMMA ManifestOf ==
  ASSUME NEW e \in Request
  PROVE  /\ DOMAIN Manifest(e).files = Listed(e)
         /\ \A f \in Listed(e) : Manifest(e).files[f] = Artifact(f, e)
         /\ Manifest(e).rawIncluded = RawIncluded(e)
  BY DEF Manifest

LEMMA Tuple4 ==
  ASSUME NEW S, NEW a \in S, NEW b \in S, NEW c \in S, NEW d \in S
  PROVE  <<a, b, c, d>> \in Seq(S) /\ Len(<<a, b, c, d>>) = 4
  OBVIOUS

LEMMA Tuple5 ==
  ASSUME NEW S, NEW a \in S, NEW b \in S, NEW c \in S, NEW d \in S, NEW g \in S
  PROVE  <<a, b, c, d, g>> \in Seq(S) /\ Len(<<a, b, c, d, g>>) = 5
  OBVIOUS

\* Every member of an export is written, and nothing that is not one.
LEMMA OrderOf ==
  ASSUME NEW e \in Request
  PROVE  /\ Order(e) \in Seq(Member)
         /\ \A i \in 1..Len(Order(e)) : Order(e)[i] \in Listed(e) \cup {"manifest.json"}
         /\ \A f \in Listed(e) \cup {"manifest.json"} :
              \E i \in 1..Len(Order(e)) : Order(e)[i] = f
<1> DEFINE s == Order(e)
<1>1. CASE RawIncluded(e)
  <2>1. Listed(e) = {"result.json", "report.txt", "redaction-report.txt", "raw-commands.json"}
    BY <1>1 DEF Listed, Artifacts
  <2>2. s \in Seq(Member) /\ Len(s) = 5
    BY <1>1, Tuple5 DEF Order, Member, Artifacts
  <2>3. \/ /\ s[1] = "manifest.json" /\ s[2] = "raw-commands.json"
           /\ s[3] = "redaction-report.txt" /\ s[4] = "report.txt" /\ s[5] = "result.json"
        \/ /\ s[1] = "result.json" /\ s[2] = "report.txt" /\ s[3] = "redaction-report.txt"
           /\ s[4] = "raw-commands.json" /\ s[5] = "manifest.json"
    BY <1>1 DEF Order
  <2> HIDE DEF s
  <2>4. \A f \in Listed(e) \cup {"manifest.json"} : \E i \in 1..5 : s[i] = f
    BY <2>1, <2>3
  <2>5. \A i \in 1..5 : s[i] \in Listed(e) \cup {"manifest.json"}
    BY <2>1, <2>3
  <2>6. QED
    BY <2>2, <2>4, <2>5 DEF s
<1>2. CASE ~RawIncluded(e)
  <2>1. Listed(e) = {"result.json", "report.txt", "redaction-report.txt"}
    BY <1>2 DEF Listed, Artifacts
  <2>2. s \in Seq(Member) /\ Len(s) = 4
    BY <1>2, Tuple4 DEF Order, Member, Artifacts
  <2>3. \/ /\ s[1] = "manifest.json" /\ s[2] = "redaction-report.txt"
           /\ s[3] = "report.txt" /\ s[4] = "result.json"
        \/ /\ s[1] = "result.json" /\ s[2] = "report.txt"
           /\ s[3] = "redaction-report.txt" /\ s[4] = "manifest.json"
    BY <1>2 DEF Order
  <2> HIDE DEF s
  <2>4. \A f \in Listed(e) \cup {"manifest.json"} : \E i \in 1..4 : s[i] = f
    BY <2>1, <2>3
  <2>5. \A i \in 1..4 : s[i] \in Listed(e) \cup {"manifest.json"}
    BY <2>1, <2>3
  <2>6. QED
    BY <2>2, <2>4, <2>5 DEF s
<1>3. QED
  BY <1>1, <1>2

LEMMA HeadAndTail ==
  ASSUME TypeOK, pending # <<>>
  PROVE  /\ Head(pending) \in Member /\ Tail(pending) \in Seq(Member)
         /\ Head(pending) = pending[1] /\ 1 \in 1..Len(pending)
         /\ Len(Tail(pending)) = Len(pending) - 1 /\ Len(pending) \in Nat
         /\ \A i \in 1..Len(pending) - 1 : Tail(pending)[i] = pending[i + 1]
  BY DEF TypeOK

-----------------------------------------------------------------------------
(* The inductive invariant.                                                *)

\* A member of the export under way is on disk or still to be written; one
\* it does not have is absent from an archive.
Written ==
  outcome \in {"writing", "written"} =>
    /\ \A f \in Listed(export) \cup {"manifest.json"} :
         \/ bundle[f] = Contents(export)[f]
         \/ \E i \in 1..Len(pending) : pending[i] = f
    /\ destination = "zip" => \A f \in Artifacts \ Listed(export) : bundle[f] = Absent
    /\ \A i \in 1..Len(pending) : pending[i] \in Listed(export) \cup {"manifest.json"}

\* A written export has nothing left to write, and can be read; only an
\* export under way has a file open.
Done ==
  /\ outcome = "written" => pending = <<>> /\ sealed
  /\ destination = "directory" => sealed
  /\ opened => outcome = "writing" /\ pending # <<>>

Inv == TypeOK /\ Written /\ Done

LEMMA InitInv == Init => Inv
<1> SUFFICES ASSUME Init PROVE Inv
  OBVIOUS
<1>1. TypeOK
  <2>1. bundle = [f \in Member |-> bundle[f]] /\ \A f \in Member : bundle[f] = Absent
    BY DEF Init, NoFiles
  <2>2. <<>> \in Seq(Member)
    OBVIOUS
  <2>3. QED
    BY <2>1, <2>2 DEF Init, TypeOK
<1>2. Written /\ Done
  BY DEF Init, Written, Done
<1>3. QED
  BY <1>1, <1>2 DEF Inv

LEMMA NextInv == Inv /\ [Next]_vars => Inv'
<1> SUFFICES ASSUME Inv, [Next]_vars PROVE Inv'
  OBVIOUS
<1>1. TypeOK /\ Written /\ Done
  BY DEF Inv
<1>2. ASSUME NEW e \in Request, Begin(e) PROVE Inv'
  <2>1. /\ export' = e /\ pending' = Order(e) /\ outcome' = "writing"
        /\ destination' = destination /\ opened' = opened
        /\ sealed' = (destination = "directory")
        /\ bundle' = IF destination = "zip" THEN NoFiles ELSE bundle
    BY <1>2 DEF Begin
  <2>2. ~opened
    BY <1>1, <1>2 DEF Begin, Done
  <2>3. TypeOK'
    BY <1>1, <2>1, OrderOf DEF TypeOK, NoFiles
  <2>4. destination = "zip" => \A f \in Artifacts \ Listed(e) : bundle'[f] = Absent
    BY <2>1 DEF NoFiles, Member
  <2>5. Written'
    BY <2>1, <2>4, OrderOf DEF Written
  <2>6. Done'
    BY <1>1, <2>1, <2>2 DEF Done, TypeOK
  <2>7. QED
    BY <2>3, <2>5, <2>6 DEF Inv
<1>3. ASSUME OpenMember PROVE Inv'
  <2>1. /\ pending # <<>> /\ outcome = "writing"
        /\ bundle' = [bundle EXCEPT ![Head(pending)] = Partial]
        /\ opened' = TRUE
        /\ UNCHANGED <<destination, sealed, export, pending, outcome>>
    BY <1>3 DEF OpenMember
  <2>2. TypeOK'
    BY <1>1, <2>1, HeadAndTail DEF TypeOK
  <2>3. Head(pending) = pending[1] /\ 1 \in 1..Len(pending)
    BY <1>1, <2>1, HeadAndTail
  <2>4. \A f \in Member : f # Head(pending) => bundle'[f] = bundle[f]
    BY <1>1, <2>1 DEF TypeOK
  <2>5. pending[1] \in Listed(export) \cup {"manifest.json"}
    BY <1>1, <2>1, <2>3 DEF Written
  <2>6. \A f \in Listed(export) \cup {"manifest.json"} :
          bundle'[f] = Contents(export)[f] \/ \E i \in 1..Len(pending) : pending[i] = f
    <3>1. \A f \in Listed(export) \cup {"manifest.json"} : f \in Member
      BY DEF Listed, Member, Artifacts
    <3>2. \A f \in Listed(export) \cup {"manifest.json"} :
            bundle[f] = Contents(export)[f] \/ \E i \in 1..Len(pending) : pending[i] = f
      BY <1>1, <2>1 DEF Written
    <3>3. QED
      BY <2>3, <2>4, <3>1, <3>2
  <2>7. destination = "zip" => \A f \in Artifacts \ Listed(export) : bundle'[f] = Absent
    <3>1. \A f \in Artifacts \ Listed(export) : f \in Member /\ f # Head(pending)
      BY <2>3, <2>5 DEF Member, Artifacts
    <3>2. QED
      BY <1>1, <2>1, <2>4, <3>1 DEF Written
  <2>8. Written'
    BY <1>1, <2>1, <2>6, <2>7 DEF Written
  <2>9. QED
    BY <1>1, <2>1, <2>2, <2>8 DEF Inv, Done
<1>4. ASSUME WriteMember PROVE Inv'
  <2> DEFINE h == Head(pending)
  <2>1. /\ opened /\ outcome = "writing" /\ opened' = FALSE
        /\ bundle' = [bundle EXCEPT ![h] = Contents(export)[h]]
        /\ pending' = Tail(pending)
        /\ UNCHANGED <<destination, sealed, export, outcome>>
    BY <1>4 DEF WriteMember
  <2>2. pending # <<>>
    BY <1>1, <2>1 DEF Done
  <2>3. /\ h \in Member /\ h = pending[1] /\ pending' \in Seq(Member) /\ 1 \in 1..Len(pending)
        /\ Len(pending') = Len(pending) - 1 /\ Len(pending) \in Nat
        /\ \A i \in 1..Len(pending) - 1 : pending'[i] = pending[i + 1]
    BY <1>1, <2>1, <2>2, HeadAndTail
  <2> HIDE DEF h
  <2>4. /\ \A f \in Member : f # h => bundle'[f] = bundle[f]
        /\ bundle'[h] = Contents(export)[h]
    BY <1>1, <2>1, <2>3 DEF TypeOK
  <2>5. TypeOK'
    BY <1>1, <2>1, <2>3 DEF TypeOK
  <2>6. h \in Listed(export) \cup {"manifest.json"}
    BY <1>1, <2>1, <2>3 DEF Written
  <2>7. ASSUME NEW f \in Listed(export) \cup {"manifest.json"}
        PROVE  bundle'[f] = Contents(export)[f] \/ \E i \in 1..Len(pending') : pending'[i] = f
    <3>1. f \in Member
      BY DEF Listed, Member, Artifacts
    <3>2. CASE f = h
      BY <2>4, <3>2
    <3>3. CASE f # h /\ bundle[f] = Contents(export)[f]
      BY <2>4, <3>1, <3>3
    <3>4. CASE f # h /\ \E i \in 1..Len(pending) : pending[i] = f
      <4>1. PICK i \in 1..Len(pending) : pending[i] = f
        BY <3>4
      <4>2. i # 1 /\ i - 1 \in 1..Len(pending) - 1 /\ (i - 1) + 1 = i
        BY <2>3, <3>4, <4>1
      <4>3. pending'[i - 1] = f
        BY <2>3, <4>1, <4>2
      <4>4. QED
        BY <2>3, <4>2, <4>3
    <3>5. QED
      BY <1>1, <2>1, <3>2, <3>3, <3>4 DEF Written
  <2>8. destination = "zip" => \A f \in Artifacts \ Listed(export) : bundle'[f] = Absent
    <3>1. \A f \in Artifacts \ Listed(export) : f \in Member /\ f # h
      BY <2>6 DEF Member, Artifacts
    <3>2. QED
      BY <1>1, <2>1, <2>4, <3>1 DEF Written
  <2>9. \A i \in 1..Len(pending') : pending'[i] \in Listed(export) \cup {"manifest.json"}
    <3>1. \A i \in 1..Len(pending) - 1 : i + 1 \in 1..Len(pending)
      BY <2>3
    <3>2. QED
      BY <1>1, <2>1, <2>3, <3>1 DEF Written
  <2>10. Written'
    BY <2>1, <2>7, <2>8, <2>9 DEF Written
  <2>11. Done'
    BY <1>1, <2>1 DEF Done
  <2>12. QED
    BY <2>5, <2>10, <2>11 DEF Inv
<1>5. ASSUME Finish PROVE Inv'
  BY <1>1, <1>5 DEF Finish, Inv, TypeOK, Written, Done
<1>6. ASSUME Abort PROVE Inv'
  <2>1. /\ outcome' = "aborted" /\ sealed' \in {sealed, TRUE} /\ opened' = FALSE
        /\ pending' = <<>>
        /\ UNCHANGED <<destination, bundle, export>>
    BY <1>6 DEF Abort
  <2>2. <<>> \in Seq(Member)
    OBVIOUS
  <2>3. TypeOK'
    BY <1>1, <2>1, <2>2 DEF TypeOK
  <2>4. QED
    BY <1>1, <2>1, <2>3 DEF Inv, Written, Done
<1>7. CASE UNCHANGED vars
  BY <1>1, <1>7 DEF vars, Inv, TypeOK, Written, Done
<1>8. QED
  BY <1>2, <1>3, <1>4, <1>5, <1>6, <1>7 DEF Next

LEMMA InvHolds == Spec => []Inv
  BY InitInv, NextInv, PTL DEF Spec

\* Every file on disk is absent, partial, or one of some export.
THEOREM TypeCorrect == Spec => []TypeOK
<1>1. Inv => TypeOK
  BY DEF Inv
<1>2. QED
  BY InvHolds, <1>1, PTL

-----------------------------------------------------------------------------
(* The verdict.                                                            *)

\* The validator's checks together leave room for one export only.
LEMMA AcceptedFollows == TypeOK => AcceptedIsWhole
<1> SUFFICES ASSUME TypeOK, Verdict = "accepted"
             PROVE  \E e \in Request : bundle = Contents(e)
  BY DEF AcceptedIsWhole
<1> DEFINE m == bundle["manifest.json"]
<1>1. Readable /\ NothingElse(m) /\ \A f \in DOMAIN m.files : Matches(f, m)
  BY DEF Verdict
<1>2. PICK e \in Request : m = Manifest(e)
  <2>1. m \notin {Absent, Partial}
    BY <1>1 DEF Readable
  <2>2. \E e \in Request : m = Contents(e)["manifest.json"]
    BY <2>1 DEF TypeOK, Member
  <2>3. QED
    BY <2>2, ContentsOf
<1>3. \A f \in Listed(e) : bundle[f] = Contents(e)[f]
  BY <1>1, <1>2, ManifestOf, ContentsOf DEF Matches
<1>4. \A f \in Artifacts \ Listed(e) : bundle[f] = Contents(e)[f]
  <2>1. Members \subseteq Listed(e) \cup {"manifest.json"}
    BY <1>1, <1>2, ManifestOf DEF NothingElse
  <2>2. \A f \in Artifacts \ Listed(e) : f \in Member /\ f # "manifest.json"
    BY DEF Member, Artifacts
  <2>3. \A f \in Artifacts \ Listed(e) : bundle[f] = Absent
    BY <2>1, <2>2 DEF Members
  <2>4. QED
    BY <2>3, ContentsOf
<1>5. \A f \in Member : bundle[f] = Contents(e)[f]
  BY <1>2, <1>3, <1>4, ContentsOf DEF Member
<1>6. bundle = Contents(e)
  <2>1. bundle = [f \in Member |-> bundle[f]] /\ Contents(e) = [f \in Member |-> Contents(e)[f]]
    BY ContentsOf DEF TypeOK
  <2>2. QED
    BY <1>5, <2>1
<1>7. QED
  BY <1>6

\* Whatever was aborted, and however often the path was written, a bundle
\* that the validator accepts is one whole export.
THEOREM AcceptedBundlesAreWhole == Spec => []AcceptedIsWhole
  BY TypeCorrect, AcceptedFollows, PTL

LEMMA WrittenFollows == Inv => WrittenIsAccepted
<1> SUFFICES ASSUME Inv, outcome = "written", ~StaleRaw
             PROVE  Verdict = "accepted" /\ bundle = Contents(export)
  BY DEF WrittenIsAccepted
<1> DEFINE m == bundle["manifest.json"]
<1>1. export \in Request /\ sealed /\ pending = <<>>
  BY DEF Inv, TypeOK, Done
<1>2. \A f \in Listed(export) \cup {"manifest.json"} : bundle[f] = Contents(export)[f]
  BY <1>1 DEF Inv, Written
<1>3. \A f \in Artifacts \ Listed(export) : f = "raw-commands.json" /\ ~RawIncluded(export)
  BY DEF Listed
<1>4. \A f \in Artifacts \ Listed(export) : bundle[f] = Absent
  BY <1>3 DEF StaleRaw, Members, Member, Artifacts
<1>5. bundle = Contents(export)
  <2>1. \A f \in Member : bundle[f] = Contents(export)[f]
    BY <1>1, <1>2, <1>4, ContentsOf DEF Member
  <2>2. /\ bundle = [f \in Member |-> bundle[f]]
        /\ Contents(export) = [f \in Member |-> Contents(export)[f]]
    BY <1>1, ContentsOf DEF Inv, TypeOK
  <2>3. QED
    BY <2>1, <2>2
<1>6. m = Manifest(export) /\ Readable
  BY <1>1, <1>2, ContentsOf DEF Readable
<1>7. Members = Listed(export) \cup {"manifest.json"}
  BY <1>1, <1>2, <1>4, ContentsOf DEF Members, Member
<1>8. "result.json" \in Members
  BY <1>7 DEF Listed, Artifacts
<1>9. NothingElse(m)
  <2>1. "raw-commands.json" \in Listed(export) <=> RawIncluded(export)
    BY DEF Listed, Artifacts
  <2>2. QED
    BY <1>1, <1>6, <1>7, <2>1, ManifestOf DEF NothingElse
<1>10. \A f \in DOMAIN m.files : Matches(f, m)
  BY <1>1, <1>2, <1>6, ManifestOf, ContentsOf DEF Matches
<1>11. QED
  BY <1>5, <1>6, <1>8, <1>9, <1>10 DEF Verdict

\* An export written to its end is the bundle on disk and is accepted,
\* unless raw commands of an earlier export lie beside it.
THEOREM WrittenBundlesAreAccepted == Spec => []WrittenIsAccepted
  BY InvHolds, WrittenFollows, PTL
=============================================================================
