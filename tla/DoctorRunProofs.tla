--------------------------- MODULE DoctorRunProofs ---------------------------
(***************************************************************************)
(* Proofs about DoctorRun for every file, limit and cost: the import keeps   *)
(* its budget, accounts for every line, calls only a whole file valid, and   *)
(* a fleet is blamed only for what the whole file shows.                     *)
(*                                                                          *)
(* While it imports, the records are the classified lines one by one, and    *)
(* room for the markers is left; afterwards every line has a record or is    *)
(* counted, and a file that was cut short or torn has a marker.              *)
(***************************************************************************)
EXTENDS DoctorRun, DoctorProofs, FiniteSetTheorems

Kinds == Rejected \cup {"message", "gap", "close", "note"}
Outcomes == [line : Nat, kind : Kinds]
LimitMarkers == {"recordLimit", "retainedLimit"}

TypeInv ==
    /\ file \in Seq(Lines) /\ format \in Formats /\ torn \in BOOLEAN
    /\ pc \in {"import", "structure", "evidence", "refused", "report"}
    /\ records \in Seq(Outcomes)
    /\ \A i \in DOMAIN records : records[i].line \in 1 .. Len(file) + 1
    /\ truncated \in 0 .. Len(file)
    /\ retained \in Nat
    /\ Len(manifest) <= 1

(* Push leaves room for the two markers. *)
BudgetInv ==
    /\ retained <= Limit /\ Len(records) <= MaxRecords + 2
    /\ pc = "import" => retained + Reserve <= Limit /\ Len(records) <= MaxRecords
    /\ pc = "structure" => retained + 1 <= Limit /\ Len(records) <= MaxRecords + 1

(* The import has read the lines in order, each into its own record. *)
ImportInv ==
    pc = "import" =>
        /\ truncated = 0 /\ Len(records) <= Len(file)
        /\ \A i \in DOMAIN records :
               records[i].line = i /\ records[i].kind = Classify(file[i])

HasRecord(l) == \E i \in DOMAIN records : records[i].line = l
HasOwnRecord(l) ==
    \E i \in DOMAIN records : records[i].line = l /\ records[i].kind = Classify(file[l])
HasKind(kinds) == \E i \in DOMAIN records : records[i].kind \in kinds

LinesInv ==
    pc \in {"structure", "evidence", "report"} =>
        /\ \A l \in DOMAIN file : HasRecord(l) \/ l > Len(file) - truncated
        /\ HasKind(LimitMarkers) \/ \A l \in DOMAIN file : HasOwnRecord(l)
        /\ torn /\ pc # "structure" => HasKind(Rejected)

ImportInvariant == TypeInv /\ BudgetInv /\ ImportInv /\ LinesInv

-----------------------------------------------------------------------------
(* Operators *)

LEMMA KindOfLine ==
    ASSUME NEW line \in Lines
    PROVE  /\ Classify(line) \in Kinds
           /\ Classify(line) \notin LimitMarkers
BY DEF Classify, ClassifyCanonical, ClassifyEnvelope, Parses, Lines, Messages, Kinds,
       Rejected, LimitMarkers

LEMMA CostOfKind == ASSUME NEW kind PROVE Cost(kind) \in Nat \ {0}
BY LimitsOK DEF Cost

(* A counter that is zero has counted nothing. *)
LEMMA NoneCounted ==
    ASSUME NEW kinds, records \in Seq(Outcomes), Count(kinds) = 0
    PROVE  ~HasKind(kinds)
<1> DEFINE counted == {i \in DOMAIN records : records[i].kind \in kinds}
<1>1. DOMAIN records = 1 .. Len(records) /\ Len(records) \in Nat
  OBVIOUS
<1>2. IsFiniteSet(counted)
  <2>1. IsFiniteSet(1 .. Len(records))
    BY <1>1, FS_Interval
  <2> QED
    BY <1>1, <2>1, FS_Subset
<1>3. counted = {}
  BY <1>2, FS_EmptySet DEF Count
<1> QED
  BY <1>3 DEF HasKind

(* What Push appends: the record, or the marker of the retained limit. *)
LEMMA PushAppends ==
    ASSUME NEW i, NEW kind, Push(i, kind)
    PROVE  /\ Fits(kind) => /\ records' = Append(records, Record(i, kind))
                            /\ retained' = retained + Cost(kind)
           /\ ~Fits(kind) => /\ records' = Append(records, Record(i, "retainedLimit"))
                             /\ retained' = retained + 1
BY DEF Push, Cost

(* The records before an appended one stay. *)
LEMMA Appended ==
    ASSUME records \in Seq(Outcomes), NEW o \in Outcomes, records' = Append(records, o)
    PROVE  /\ records' \in Seq(Outcomes)
           /\ Len(records') = Len(records) + 1
           /\ DOMAIN records' = DOMAIN records \cup {Len(records) + 1}
           /\ \A i \in DOMAIN records : records'[i] = records[i]
           /\ records'[Len(records) + 1] = o
<1>1. Len(records) \in Nat /\ DOMAIN records = 1 .. Len(records)
  OBVIOUS
<1>2. records' \in Seq(Outcomes) /\ Len(records') = Len(records) + 1
  OBVIOUS
<1>3. DOMAIN records' = 1 .. Len(records) + 1
  BY <1>2
<1>4. 1 .. Len(records) + 1 = (1 .. Len(records)) \cup {Len(records) + 1}
  BY <1>1
<1>5. \A i \in DOMAIN records : records'[i] = records[i]
  OBVIOUS
<1>6. records'[Len(records) + 1] = o
  BY <1>1
<1> QED
  BY <1>1, <1>2, <1>3, <1>4, <1>5, <1>6

(* A marker takes the line i and costs 1, whichever it becomes. *)
LEMMA PushMarker ==
    ASSUME NEW i \in Nat, NEW kind \in Rejected, Push(i, kind)
    PROVE  \E k \in {kind, "retainedLimit"} :
              /\ Record(i, k) \in Outcomes
              /\ records' = Append(records, Record(i, k))
              /\ retained' = retained + 1
<1>1. \A k \in Rejected : Record(i, k) \in Outcomes
  BY DEF Record, Outcomes, Kinds
<1>2. Cost(kind) = 1 /\ "retainedLimit" \in Rejected
  BY DEF Cost, Rejected
<1>3. CASE Fits(kind)
  BY <1>1, <1>2, <1>3, PushAppends
<1>4. CASE ~Fits(kind)
  BY <1>1, <1>2, <1>4, PushAppends
<1> QED
  BY <1>3, <1>4

-----------------------------------------------------------------------------
(* The invariant *)

LEMMA InitInvariant == Init => ImportInvariant
<1> SUFFICES ASSUME Init PROVE ImportInvariant
  OBVIOUS
<1>1. file \in Seq(Lines)
  BY DEF Init
<1>2. TypeInv
  BY <1>1 DEF Init, TypeInv
<1>3. BudgetInv
  BY LimitsOK DEF Init, BudgetInv
<1>4. ImportInv /\ LinesInv
  BY <1>1 DEF Init, ImportInv, LinesInv
<1> QED
  BY <1>2, <1>3, <1>4 DEF ImportInvariant

(* Steps that append no record and leave the import's variables alone. *)
LEMMA QuietStep ==
    ASSUME ImportInvariant,
           UNCHANGED <<file, format, torn, records, truncated, retained>>,
           Len(manifest') <= 1,
           \/ pc' = pc
           \/ pc' = "refused"
           \/ pc = "evidence" /\ pc' = "report"
    PROVE  ImportInvariant'
<1>1. TypeInv'
  BY DEF ImportInvariant, TypeInv
<1>2. BudgetInv'
  BY DEF ImportInvariant, BudgetInv
<1>3. ImportInv'
  BY DEF ImportInvariant, ImportInv, Classify, ClassifyCanonical, ClassifyEnvelope
<1>4. LinesInv'
  BY DEF ImportInvariant, LinesInv, HasKind, HasRecord, HasOwnRecord,
         Classify, ClassifyCanonical, ClassifyEnvelope
<1> QED
  BY <1>1, <1>2, <1>3, <1>4 DEF ImportInvariant

(* The line just read gets its own record and the next one is current. *)
LEMMA ImportRecordKeeps == ImportInvariant /\ ImportRecord => ImportInvariant'
<1> SUFFICES ASSUME ImportInvariant, ImportRecord PROVE ImportInvariant'
  OBVIOUS
<1> DEFINE kind == Classify(file[Current])
           o == Record(Current, kind)
<1>1. /\ records \in Seq(Outcomes) /\ file \in Seq(Lines) /\ retained \in Nat
      /\ Current \in 1 .. Len(file) /\ Current <= MaxRecords /\ pc = "import"
      /\ Len(records) \in Nat
  BY DEF ImportInvariant, TypeInv, ImportRecord, More, Current
<1>2. kind \in Kinds
  BY <1>1, KindOfLine
<1>3. o \in Outcomes
  BY <1>1, <1>2 DEF Record, Outcomes
<1>4. /\ records' = Append(records, o) /\ retained' = retained + Cost(kind)
      /\ retained + Cost(kind) + Reserve <= Limit
      /\ UNCHANGED <<file, format, torn, manifest, pc, truncated>>
  BY PushAppends DEF ImportRecord, Unread, Fits
<1>5. Cost(kind) \in Nat
  BY CostOfKind
<1>6. /\ records' \in Seq(Outcomes) /\ Len(records') = Len(records) + 1
      /\ DOMAIN records' = DOMAIN records \cup {Len(records) + 1}
      /\ \A i \in DOMAIN records : records'[i] = records[i]
      /\ records'[Current] = o
  BY <1>1, <1>3, <1>4, Appended DEF Current
<1>7. o.line = Current /\ o.kind = kind
  BY DEF Record
<1> HIDE DEF o, kind
<1>8. TypeInv'
  BY <1>1, <1>4, <1>5, <1>6, <1>7 DEF ImportInvariant, TypeInv, Current
<1>9. BudgetInv'
  BY <1>1, <1>4, <1>5, <1>6, LimitsOK DEF BudgetInv, Current
<1>10. ImportInv'
  <2>1. \A i \in DOMAIN records' :
            records'[i].line = i /\ records'[i].kind = Classify(file[i])
    BY <1>1, <1>6, <1>7 DEF ImportInvariant, ImportInv, Current, kind
  <2> QED
    BY <1>1, <1>4, <1>6, <2>1
       DEF ImportInvariant, ImportInv, Current, Classify, ClassifyCanonical, ClassifyEnvelope
<1>11. LinesInv'
  BY <1>1, <1>4 DEF LinesInv
<1> QED
  BY <1>8, <1>9, <1>10, <1>11 DEF ImportInvariant

(* Either limit: the current line gets a marker, the lines after it are counted. *)
LEMMA LimitKeeps ==
    ASSUME ImportInvariant, RetainedLimit \/ RecordLimit
    PROVE  ImportInvariant'
<1>1. /\ records \in Seq(Outcomes) /\ file \in Seq(Lines) /\ retained \in Nat
      /\ Current \in 1 .. Len(file) /\ Current = Len(records) + 1 /\ pc = "import"
      /\ Len(records) \in Nat /\ MaxRecords \in Nat /\ Len(records) <= MaxRecords
      /\ truncated = 0
  BY LimitsOK DEF ImportInvariant, TypeInv, BudgetInv, ImportInv, RetainedLimit,
                  RecordLimit, More, Current
<1>2. PICK k \in LimitMarkers :
         /\ Record(Current, k) \in Outcomes
         /\ records' = Append(records, Record(Current, k))
         /\ retained' = retained + 1
  <2>1. CASE RecordLimit
    BY <1>1, <2>1, PushMarker DEF RecordLimit, Rejected, LimitMarkers
  <2>2. CASE RetainedLimit
    <3>1. Record(Current, "retainedLimit") \in Outcomes
      BY <1>1 DEF Record, Outcomes, Kinds, Rejected
    <3> QED
      BY <2>2, <3>1, PushAppends DEF RetainedLimit, LimitMarkers
  <2> QED
    BY <2>1, <2>2
<1>3. \/ truncated' = Len(file) - Current /\ pc' = "evidence"
      \/ truncated' = Len(file) - MaxRecords /\ pc' = "structure" /\ Current = MaxRecords + 1
  <2>1. Len(file) \in Nat /\ Current \in Nat
    BY <1>1
  <2>2. Current > MaxRecords => Current = MaxRecords + 1
    BY <1>1
  <2> QED
    BY <1>1, <2>1, <2>2 DEF RetainedLimit, RecordLimit
<1>4. UNCHANGED <<file, format, torn, manifest>>
  BY DEF RetainedLimit, RecordLimit, Unread
<1> DEFINE o == Record(Current, k)
<1>5. o.line = Current /\ o.kind = k /\ o \in Outcomes /\ records' = Append(records, o)
  BY <1>2 DEF Record
<1>6. /\ records' \in Seq(Outcomes) /\ Len(records') = Len(records) + 1
      /\ DOMAIN records' = DOMAIN records \cup {Len(records) + 1}
      /\ \A i \in DOMAIN records : records'[i] = records[i]
      /\ records'[Current] = o
  BY <1>1, <1>5, Appended
<1> HIDE DEF o
<1>7. TypeInv'
  BY <1>1, <1>3, <1>4, <1>5, <1>6, <1>2 DEF ImportInvariant, TypeInv
<1>8. BudgetInv'
  BY <1>1, <1>2, <1>3, <1>6, LimitsOK DEF ImportInvariant, BudgetInv
<1>9. ImportInv'
  BY <1>3 DEF ImportInv
<1>10. LinesInv'
  <2>1. HasKind(LimitMarkers)' /\ HasKind(Rejected)'
    BY <1>1, <1>5, <1>6 DEF HasKind, LimitMarkers, Rejected
  <2>2. ASSUME NEW l \in DOMAIN file PROVE HasRecord(l)' \/ l > Len(file) - truncated'
    <3>1. CASE l <= Current
      <4>1. DOMAIN records = 1 .. Len(records) /\ l \in Nat /\ l >= 1
        BY <1>1
      <4>2. l \in DOMAIN records' /\ (l = Current \/ l \in DOMAIN records)
        BY <1>1, <1>6, <3>1, <4>1
      <4>3. records'[l].line = l
        BY <1>1, <1>5, <1>6, <4>2 DEF ImportInvariant, ImportInv
      <4> QED
        BY <4>2, <4>3 DEF HasRecord
    <3>2. CASE l > Current
      BY <1>1, <1>3, <3>2
    <3> QED
      BY <1>1, <3>1, <3>2
  <2> QED
    BY <1>4, <2>1, <2>2 DEF LinesInv
<1> QED
  BY <1>7, <1>8, <1>9, <1>10 DEF ImportInvariant

LEMMA EndOfFileKeeps == ImportInvariant /\ EndOfFile => ImportInvariant'
<1> SUFFICES ASSUME ImportInvariant, EndOfFile PROVE ImportInvariant'
  OBVIOUS
<1>1. /\ UNCHANGED <<file, format, torn, records, truncated, retained, manifest>>
      /\ pc = "import" /\ pc' = "structure"
  BY DEF EndOfFile, Unread
<1>2. Len(records) = Len(file) /\ DOMAIN records = DOMAIN file
  BY DEF ImportInvariant, ImportInv, TypeInv, EndOfFile, Current
<1>3. TypeInv' /\ BudgetInv' /\ ImportInv'
  BY <1>1, LimitsOK DEF ImportInvariant, TypeInv, BudgetInv, ImportInv
<1>4. \A l \in DOMAIN file : HasRecord(l) /\ HasOwnRecord(l)
  BY <1>1, <1>2 DEF ImportInvariant, ImportInv, HasRecord, HasOwnRecord
<1>5. LinesInv'
  BY <1>1, <1>4 DEF LinesInv, HasKind, HasRecord, HasOwnRecord,
                    Classify, ClassifyCanonical, ClassifyEnvelope
<1> QED
  BY <1>3, <1>5 DEF ImportInvariant

(* A torn array gets a marker; the lines keep their records. *)
LEMMA CheckStructureKeeps == ImportInvariant /\ CheckStructure => ImportInvariant'
<1> SUFFICES ASSUME ImportInvariant, CheckStructure PROVE ImportInvariant'
  OBVIOUS
<1>1. /\ records \in Seq(Outcomes) /\ Len(records) \in Nat /\ DOMAIN records = 1 .. Len(records)
      /\ file \in Seq(Lines) /\ Len(file) \in Nat /\ retained \in Nat
      /\ pc = "structure" /\ pc' = "evidence"
      /\ UNCHANGED <<file, format, torn, manifest, truncated>>
  BY DEF ImportInvariant, TypeInv, CheckStructure, Unread
<1>2. CASE ~torn
  <2>1. UNCHANGED <<records, retained>>
    BY <1>2 DEF CheckStructure
  <2>2. TypeInv' /\ BudgetInv' /\ ImportInv'
    BY <1>1, <2>1, LimitsOK DEF ImportInvariant, TypeInv, BudgetInv, ImportInv
  <2>3. LinesInv'
    BY <1>1, <1>2, <2>1 DEF ImportInvariant, LinesInv, HasKind, HasRecord, HasOwnRecord,
                            Classify, ClassifyCanonical, ClassifyEnvelope
  <2> QED
    BY <2>2, <2>3 DEF ImportInvariant
<1>3. CASE torn
  <2>1. PICK k \in {"structure", "retainedLimit"} :
           /\ Record(Len(file) + 1, k) \in Outcomes
           /\ records' = Append(records, Record(Len(file) + 1, k))
           /\ retained' = retained + 1
    BY <1>1, <1>3, PushMarker DEF CheckStructure, Rejected
  <2> DEFINE o == Record(Len(file) + 1, k)
  <2>2. o.line = Len(file) + 1 /\ o.kind = k /\ o \in Outcomes /\ records' = Append(records, o)
    BY <2>1 DEF Record
  <2>3. /\ records' \in Seq(Outcomes) /\ Len(records') = Len(records) + 1
        /\ DOMAIN records' = DOMAIN records \cup {Len(records) + 1}
        /\ \A i \in DOMAIN records : records'[i] = records[i]
        /\ records'[Len(records) + 1] = o
    BY <1>1, <2>2, Appended
  <2> HIDE DEF o
  <2>4. TypeInv'
    BY <1>1, <2>1, <2>2, <2>3 DEF ImportInvariant, TypeInv
  <2>5. BudgetInv' /\ ImportInv'
    BY <1>1, <2>1, <2>3, LimitsOK DEF ImportInvariant, BudgetInv, ImportInv
  <2>6. HasKind(Rejected)'
    BY <2>2, <2>3 DEF HasKind, Rejected
  <2>7. \A l \in DOMAIN file : HasRecord(l) => HasRecord(l)'
    BY <2>3 DEF HasRecord
  <2>8. HasKind(LimitMarkers) => HasKind(LimitMarkers)'
    BY <2>3 DEF HasKind
  <2>9. \A l \in DOMAIN file : HasOwnRecord(l) => HasOwnRecord(l)'
    BY <1>1, <2>3 DEF HasOwnRecord, Classify, ClassifyCanonical, ClassifyEnvelope
  <2>10. LinesInv'
    BY <1>1, <2>6, <2>7, <2>8, <2>9 DEF ImportInvariant, LinesInv
  <2> QED
    BY <2>4, <2>5, <2>10 DEF ImportInvariant
<1> QED
  BY <1>2, <1>3

LEMMA NextInvariant == ImportInvariant /\ [Next]_vars => ImportInvariant'
<1> SUFFICES ASSUME ImportInvariant, [Next]_vars PROVE ImportInvariant'
  OBVIOUS
<1>0. Len(manifest) <= 1
  BY DEF ImportInvariant, TypeInv
<1>1. CASE RefuseInput
  BY <1>0, <1>1, QuietStep DEF RefuseInput, Unread
<1>2. CASE ImportRecord
  BY <1>2, ImportRecordKeeps
<1>3. CASE RetainedLimit \/ RecordLimit
  BY <1>3, LimitKeeps
<1>4. CASE EndOfFile
  BY <1>4, EndOfFileKeeps
<1>5. CASE CheckStructure
  BY <1>5, CheckStructureKeeps
<1>6. CASE DiagnosePassive
  BY <1>6, QuietStep DEF DiagnosePassive, Diagnose
<1>7. CASE DiagnoseWithEvidence
  BY <1>7, QuietStep DEF DiagnoseWithEvidence, Diagnose
<1>8. CASE RefuseEvidence
  BY <1>0, <1>8, QuietStep DEF RefuseEvidence
<1>9. CASE UNCHANGED vars
  BY <1>0, <1>9, QuietStep DEF vars
<1> QED
  BY <1>1, <1>2, <1>3, <1>4, <1>5, <1>6, <1>7, <1>8, <1>9 DEF Next

(* The import keeps its budget and accounts for every line, whatever the file, *)
(* the limits and the costs (reader.rs 147-246, 513-600).                      *)
THEOREM InvariantHolds == Spec => []ImportInvariant
<1>1. Init => ImportInvariant
  BY InitInvariant
<1>2. ImportInvariant /\ [Next]_vars => ImportInvariant'
  BY NextInvariant
<1> QED
  BY <1>1, <1>2, PTL DEF Spec

-----------------------------------------------------------------------------
(* What follows *)

(* Every variable keeps its type, for every file and limit. *)
THEOREM TypeCorrect == Spec => []TypeOK
<1>1. ASSUME ImportInvariant PROVE TypeOK
  <2>1. \A i \in DOMAIN records : records[i] \in Outcomes
    BY <1>1 DEF ImportInvariant, TypeInv
  <2>2. \A i \in DOMAIN records : records[i].kind \in Kinds
    BY <2>1 DEF Outcomes
  <2> QED
    BY <1>1, <2>2 DEF ImportInvariant, TypeInv, BudgetInv, TypeOK, Kinds
<1> QED
  BY <1>1, InvariantHolds, PTL

(* The retained budget holds, the markers pushed after it is spent included    *)
(* (reader.rs 524-580).                                                        *)
THEOREM BudgetHolds == Spec => []RetainedStaysWithinLimit
<1>1. ImportInvariant => RetainedStaysWithinLimit
  BY DEF ImportInvariant, BudgetInv, RetainedStaysWithinLimit
<1> QED
  BY <1>1, InvariantHolds, PTL

(* No line of any file disappears without trace (reader.rs 161-246).           *)
THEOREM LinesAccounted == Spec => []NoLineIsLost
<1>1. ASSUME ImportInvariant PROVE NoLineIsLost
  <2> SUFFICES ASSUME pc \in {"evidence", "report"}, NEW l \in DOMAIN file
               PROVE  \/ l \in {records[i].line : i \in DOMAIN records}
                      \/ l \in Len(file) - truncated + 1 .. Len(file)
    BY DEF NoLineIsLost
  <2>1. file \in Seq(Lines) /\ truncated \in Nat /\ Len(file) \in Nat
    BY <1>1 DEF ImportInvariant, TypeInv
  <2>2. l \in Nat /\ l <= Len(file)
    BY <2>1
  <2>3. HasRecord(l) \/ l > Len(file) - truncated
    BY <1>1 DEF ImportInvariant, LinesInv
  <2> QED
    BY <2>1, <2>2, <2>3 DEF HasRecord
<1> QED
  BY <1>1, InvariantHolds, PTL

(* A report is VALID only of a whole file, every line of it understood          *)
(* (main.rs 194-204).                                                          *)
THEOREM ValidReportsAreComplete == Spec => []ValidIsComplete
<1>1. ASSUME ImportInvariant PROVE ValidIsComplete
  <2> SUFFICES ASSUME pc = "report", Valid
               PROVE  /\ ~torn
                      /\ \A l \in DOMAIN file :
                            /\ HasOwnRecord(l)
                            /\ Classify(file[l]) \in {"message", "close", "note"}
    BY DEF ValidIsComplete, HasOwnRecord
  <2>1. records \in Seq(Outcomes) /\ file \in Seq(Lines)
    BY <1>1 DEF ImportInvariant, TypeInv
  <2>2. ~HasKind(Rejected) /\ ~HasKind({"gap"})
    BY <2>1, NoneCounted DEF Valid
  <2>3. ~HasKind(LimitMarkers)
    BY <2>2 DEF HasKind, LimitMarkers, Rejected
  <2>4. ~torn /\ \A l \in DOMAIN file : HasOwnRecord(l)
    BY <1>1, <2>2, <2>3 DEF ImportInvariant, LinesInv
  <2>5. ASSUME NEW l \in DOMAIN file PROVE Classify(file[l]) \in {"message", "close", "note"}
    <3>1. Classify(file[l]) \in Kinds
      BY <2>1, KindOfLine
    <3>2. Classify(file[l]) \notin Rejected \cup {"gap"}
      BY <2>2, <2>4 DEF HasOwnRecord, HasKind
    <3> QED
      BY <3>1, <3>2 DEF Kinds
  <2> QED
    BY <2>4, <2>5
<1> QED
  BY <1>1, InvariantHolds, PTL

-----------------------------------------------------------------------------
(* Who is blamed *)

(* A close is the record of its own line, and so is every line before it.      *)
CloseInv ==
    \A r \in DOMAIN records :
        records[r].kind = "close" =>
            \E last \in DOMAIN file :
                /\ records[r].line = last /\ file[last] = "close"
                /\ \A l \in DOMAIN file : l <= last => HasOwnRecord(l)

(* What is reported is what the rules make of the lines imported. *)
ReportInv ==
    pc = "report" =>
        \E c :
            /\ findings = Analyze(c)
            /\ \/ c = ContextOf(<< >>)
               \/ \E m \in Manifests : Acceptable(m) /\ c = ContextOf(<<m>>)

BlameInv == CloseInv /\ ReportInv

BlameInvariant == ImportInvariant /\ BlameInv

(* Records that stay, with a marker or without one. *)
LEMMA CloseStays ==
    ASSUME ImportInvariant, CloseInv, file' = file, format' = format,
           \/ records' = records
           \/ \E o \in Outcomes : o.kind # "close" /\ records' = Append(records, o)
    PROVE  CloseInv'
<1>0. records \in Seq(Outcomes)
  BY DEF ImportInvariant, TypeInv
<1>1. /\ DOMAIN records \subseteq DOMAIN records'
      /\ \A r \in DOMAIN records : records'[r] = records[r]
      /\ \A r \in DOMAIN records' : records'[r].kind = "close" => r \in DOMAIN records
  <2>1. CASE records' = records
    BY <2>1
  <2>2. CASE records' # records
    <3>1. PICK o \in Outcomes : o.kind # "close" /\ records' = Append(records, o)
      BY <2>2
    <3>2. /\ DOMAIN records' = DOMAIN records \cup {Len(records) + 1}
          /\ \A r \in DOMAIN records : records'[r] = records[r]
          /\ records'[Len(records) + 1] = o
      BY <1>0, <3>1, Appended
    <3> QED
      BY <3>1, <3>2
  <2> QED
    BY <2>1, <2>2
<1>2. \A x : Classify(x)' = Classify(x)
  BY DEF Classify
<1>3. ASSUME NEW l \in DOMAIN file, HasOwnRecord(l) PROVE HasOwnRecord(l)'
  <2>1. PICK i \in DOMAIN records : records[i].line = l /\ records[i].kind = Classify(file[l])
    BY <1>3 DEF HasOwnRecord
  <2>2. i \in DOMAIN records' /\ records'[i] = records[i]
    BY <1>1
  <2>3. Classify(file[l])' = Classify(file[l])
    BY DEF Classify
  <2> QED
    BY <2>1, <2>2, <2>3 DEF HasOwnRecord
<1> SUFFICES ASSUME NEW r \in DOMAIN records', records'[r].kind = "close"
             PROVE  \E last \in DOMAIN file' :
                        /\ records'[r].line = last /\ file'[last] = "close"
                        /\ \A l \in DOMAIN file' : l <= last => HasOwnRecord(l)'
  BY DEF CloseInv
<1>4. r \in DOMAIN records /\ records'[r] = records[r]
  BY <1>1
<1>5. PICK last \in DOMAIN file :
          /\ records[r].line = last /\ file[last] = "close"
          /\ \A l \in DOMAIN file : l <= last => HasOwnRecord(l)
  BY <1>4 DEF CloseInv
<1> QED
  BY <1>3, <1>4, <1>5

(* While the import reads, every record is of its line. *)
LEMMA CloseWhileImporting ==
    ASSUME TypeInv, ImportInv, pc = "import"
    PROVE  CloseInv
<1>1. /\ records \in Seq(Outcomes) /\ file \in Seq(Lines) /\ Len(records) <= Len(file)
      /\ \A i \in DOMAIN records :
             records[i].line = i /\ records[i].kind = Classify(file[i])
      /\ DOMAIN records = 1 .. Len(records) /\ DOMAIN file = 1 .. Len(file)
      /\ Len(records) \in Nat /\ Len(file) \in Nat
  BY DEF TypeInv, ImportInv
<1> SUFFICES ASSUME NEW r \in DOMAIN records, records[r].kind = "close"
             PROVE  /\ r \in DOMAIN file /\ records[r].line = r /\ file[r] = "close"
                    /\ \A l \in DOMAIN file : l <= r => HasOwnRecord(l)
  BY DEF CloseInv
<1>2. r \in DOMAIN file /\ records[r].line = r /\ Classify(file[r]) = "close"
  BY <1>1
<1>3. file[r] = "close"
  BY <1>2 DEF Classify, ClassifyCanonical, ClassifyEnvelope, Messages
<1>4. ASSUME NEW l \in DOMAIN file, l <= r PROVE HasOwnRecord(l)
  <2>1. l \in DOMAIN records
    BY <1>1, <1>4
  <2> QED
    BY <1>1, <2>1 DEF HasOwnRecord
<1> QED
  BY <1>2, <1>3, <1>4

LEMMA NextClose ==
    ASSUME ImportInvariant, ImportInvariant', CloseInv, [Next]_vars PROVE CloseInv'
<1>0. /\ file' = file /\ format' = format /\ records \in Seq(Outcomes)
      /\ Len(records) \in Nat /\ Len(file) \in Nat
  <2>1. records \in Seq(Outcomes) /\ file \in Seq(Lines)
    BY DEF ImportInvariant, TypeInv
  <2>2. file' = file /\ format' = format
    BY DEF Next, RefuseInput, ImportRecord, RetainedLimit, RecordLimit, EndOfFile,
           CheckStructure, DiagnosePassive, DiagnoseWithEvidence, RefuseEvidence, Diagnose,
           Unread, vars
  <2> QED
    BY <2>1, <2>2
<1>1. CASE ImportRecord
  <2>1. pc' = "import" /\ TypeInv' /\ ImportInv'
    BY <1>1 DEF ImportRecord, More, ImportInvariant
  <2>2. \A x : Classify(x)' = Classify(x)
    BY <1>0 DEF Classify
  <2>3. \A i \in DOMAIN records' :
            records'[i].line = i /\ records'[i].kind = Classify(file[i])
    BY <1>0, <2>1, <2>2 DEF ImportInv, Classify
  <2>4. DOMAIN records' = 1 .. Len(records') /\ DOMAIN file = 1 .. Len(file)
        /\ Len(records') <= Len(file) /\ Len(records') \in Nat
    BY <1>0, <2>1 DEF ImportInv, TypeInv
  <2> SUFFICES ASSUME NEW r \in DOMAIN records', records'[r].kind = "close"
               PROVE  /\ r \in DOMAIN file' /\ records'[r].line = r /\ file'[r] = "close"
                      /\ \A l \in DOMAIN file' : l <= r => HasOwnRecord(l)'
    BY DEF CloseInv
  <2>5. r \in DOMAIN file /\ records'[r].line = r /\ Classify(file[r]) = "close"
    BY <2>3, <2>4
  <2>6. file[r] = "close"
    BY <2>5 DEF Classify, ClassifyCanonical, ClassifyEnvelope, Messages
  <2>7. ASSUME NEW l \in DOMAIN file, l <= r PROVE HasOwnRecord(l)'
    <3>1. l \in DOMAIN records'
      BY <2>4, <2>7
    <3>2. records'[l].line = l /\ records'[l].kind = Classify(file[l])
      BY <2>3, <3>1
    <3> QED
      BY <1>0, <3>1, <3>2 DEF HasOwnRecord, Classify
  <2> QED
    BY <1>0, <2>5, <2>6, <2>7
<1>2. CASE RetainedLimit
  <2>1. records' = Append(records, Record(Current, "retainedLimit"))
    BY <1>2, PushAppends DEF RetainedLimit
  <2>2. Record(Current, "retainedLimit") \in Outcomes /\ Record(Current, "retainedLimit").kind # "close"
    BY <1>0 DEF Record, Outcomes, Kinds, Rejected, Current
  <2> QED
    BY <1>0, <2>1, <2>2, CloseStays
<1>3. CASE RecordLimit
  <2>1. Push(Current, "recordLimit") /\ Current \in Nat
    BY <1>0, <1>3 DEF RecordLimit, Current
  <2>2. PICK k \in {"recordLimit", "retainedLimit"} :
            Record(Current, k) \in Outcomes /\ records' = Append(records, Record(Current, k))
    BY <2>1, PushMarker DEF Rejected
  <2>3. Record(Current, k).kind # "close"
    BY DEF Record
  <2> QED
    BY <1>0, <2>2, <2>3, CloseStays
<1>4. CASE CheckStructure
  <2>1. CASE torn
    <3>1. Push(Len(file) + 1, "structure") /\ Len(file) + 1 \in Nat
      BY <1>0, <1>4, <2>1 DEF CheckStructure
    <3>2. PICK k \in {"structure", "retainedLimit"} :
              /\ Record(Len(file) + 1, k) \in Outcomes
              /\ records' = Append(records, Record(Len(file) + 1, k))
      BY <3>1, PushMarker DEF Rejected
    <3>3. Record(Len(file) + 1, k).kind # "close"
      BY DEF Record
    <3> QED
      BY <1>0, <3>2, <3>3, CloseStays
  <2>2. CASE ~torn
    BY <1>0, <1>4, <2>2, CloseStays DEF CheckStructure
  <2> QED
    BY <2>1, <2>2
<1>5. CASE \/ RefuseInput \/ EndOfFile \/ DiagnosePassive \/ DiagnoseWithEvidence
           \/ RefuseEvidence \/ UNCHANGED vars
  <2>1. records' = records
    BY <1>5 DEF RefuseInput, EndOfFile, DiagnosePassive, DiagnoseWithEvidence,
           RefuseEvidence, Diagnose, vars
  <2> QED
    BY <1>0, <2>1, CloseStays
<1> QED
  BY <1>1, <1>2, <1>3, <1>4, <1>5 DEF Next

LEMMA NextReport ==
    ASSUME ReportInv, [Next]_vars PROVE ReportInv'
<1>1. CASE DiagnosePassive \/ DiagnoseWithEvidence
  <2>1. PICK m :
          /\ findings' = Analyze(ContextOf(m))
          /\ m = << >> \/ \E n \in Manifests : Acceptable(n) /\ m = <<n>>
    BY <1>1 DEF DiagnosePassive, DiagnoseWithEvidence, Diagnose
  <2>2. UNCHANGED <<file, format, records>>
    BY <1>1 DEF DiagnosePassive, DiagnoseWithEvidence, Diagnose
  <2>3. \A x : ContextOf(x)' = ContextOf(x)
    BY <2>2 DEF ContextOf, Imported, HasClose, EventOf
  <2>4. Manifests' = Manifests /\ \A n : Acceptable(n)' <=> Acceptable(n)
    BY <2>2 DEF Manifests, Acceptable, Imported, HasClose
  <2>5. \E c : /\ findings' = Analyze(c)
               /\ \/ c = ContextOf(<< >>)
                  \/ \E n \in Manifests : Acceptable(n) /\ c = ContextOf(<<n>>)
    BY <2>1
  <2> QED
    BY <2>2, <2>3, <2>4, <2>5 DEF ReportInv
<1>2. CASE UNCHANGED vars
  <2>2. UNCHANGED <<file, format, records, findings, pc>>
    BY <1>2 DEF vars
  <2>3. \A x : ContextOf(x)' = ContextOf(x)
    BY <2>2 DEF ContextOf, Imported, HasClose, EventOf
  <2>4. Manifests' = Manifests /\ \A n : Acceptable(n)' <=> Acceptable(n)
    BY <2>2 DEF Manifests, Acceptable, Imported, HasClose
  <2> QED
    BY <2>2, <2>3, <2>4 DEF ReportInv
<1>3. CASE RefuseInput \/ ImportRecord \/ RetainedLimit \/ RecordLimit \/ EndOfFile
           \/ CheckStructure \/ RefuseEvidence
  <2>1. pc' # "report"
    BY <1>3 DEF RefuseInput, ImportRecord, More, RetainedLimit, RecordLimit, EndOfFile,
                CheckStructure, RefuseEvidence
  <2> QED
    BY <2>1 DEF ReportInv
<1> QED
  BY <1>1, <1>2, <1>3 DEF Next

LEMMA InitBlame == Init => BlameInv
<1> SUFFICES ASSUME Init PROVE BlameInv
  OBVIOUS
<1>1. records = << >> /\ pc = "import"
  BY DEF Init
<1>2. DOMAIN records = {}
  BY <1>1
<1> QED
  BY <1>1, <1>2 DEF BlameInv, CloseInv, ReportInv

(* What the rules are given of a line imported. *)
LEMMA ContextShape ==
    ASSUME NEW m
    PROVE  LET c == ContextOf(m)
           IN  /\ DOMAIN c.events = Imported
               /\ \A i \in Imported :
                      /\ c.events[i].topic = IF file[i] = "order" THEN "order" ELSE "state"
                      /\ c.events[i].order = <<1>> /\ c.events[i].update = <<i>>
                      /\ c.events[i].broken = FALSE
                      /\ c.events[i].request = (file[i] = "request")
               /\ c.roles = (m # << >> /\ m[1].roles)
               /\ m # << >> => c.closed = m[1].closed
BY DEF ContextOf, EventOf

(* A line with a record of its own that is a message is imported. *)
LEMMA MessageImported ==
    ASSUME NEW l, HasOwnRecord(l), file[l] \in Messages
    PROVE  l \in Imported
<1>1. Classify(file[l]) = "message"
  BY DEF Classify, ClassifyCanonical, ClassifyEnvelope, Parses, Messages
<1> QED
  BY <1>1 DEF HasOwnRecord, Imported

LEMMA BlameIsOfRequest ==
    ASSUME TypeInv, NEW m, NEW c, c = ContextOf(m), NEW f \in Analyze(c), f.verdict = "FAIL"
    PROVE  /\ f.event \in Imported /\ file[f.event] = "request"
           /\ ~BaseAnswered(c, f.event) /\ c.closed /\ m # << >>
<1>1. /\ DOMAIN c.events = Imported
      /\ \A i \in Imported :
             /\ c.events[i].topic \in {"order", "state"}
             /\ c.events[i].update = <<i>>
             /\ c.events[i].broken = FALSE
             /\ c.events[i].request = (file[i] = "request")
      /\ c.roles = (m # << >> /\ m[1].roles)
  <2>1. /\ DOMAIN c.events = Imported
        /\ \A i \in Imported :
               /\ c.events[i].topic = IF file[i] = "order" THEN "order" ELSE "state"
               /\ c.events[i].update = <<i>> /\ c.events[i].broken = FALSE
               /\ c.events[i].request = (file[i] = "request")
        /\ c.roles = (m # << >> /\ m[1].roles)
    BY ContextShape
  <2> QED
    BY <2>1
<1>2. c.roles /\ m # << >>
  BY <1>1, BlameNeedsEvidence
<1>3. ASSUME NEW i \in Changed(c) PROVE FALSE
  <2>1. i \in Events(c, "order") /\ EarlierSameUpdate(c, i) # {}
    BY DEF Changed, Repeats
  <2>2. PICK j \in Events(c, "order") : j < i /\ SameUpdate(c.events[j], c.events[i])
    BY <2>1 DEF EarlierSameUpdate
  <2>3. i \in Imported /\ j \in Imported
    BY <1>1, <2>1, <2>2 DEF Events
  <2>4. <<j>> = <<i>>
    BY <1>1, <2>2, <2>3 DEF SameUpdate, SameId
  <2>5. j = i
    BY <2>4
  <2>6. i \in Nat
    BY <2>3 DEF Imported, TypeInv, Outcomes
  <2> QED
    BY <2>2, <2>5, <2>6
<1>4. \A i \in Events(c, "order") : ~c.events[i].broken
  BY <1>1 DEF Events
<1>5. \A i : i \notin Disconnections(c) /\ i \notin Cancels(c)
  BY <1>1 DEF Disconnections, Cancels, Events
<1>6. /\ f.event \in Events(c, "state") /\ c.events[f.event].request
      /\ ~BaseAnswered(c, f.event) /\ AbsenceProvable(c, f.event)
  BY <1>3, <1>4, <1>5, FailSources
<1> QED
  BY <1>1, <1>2, <1>6 DEF Events, AbsenceProvable

LEMMA BlameCovers == BlameInvariant => FleetBlameCoversTheFile
<1> SUFFICES ASSUME BlameInvariant, pc = "report", ClosedLast,
                    NEW f \in findings, f.verdict = "FAIL"
             PROVE  /\ file[f.event] = "request"
                    /\ \A i \in DOMAIN file : i > f.event => file[i] # "order"
  BY DEF FleetBlameCoversTheFile
<1>1. TypeInv /\ CloseInv /\ ReportInv
  BY DEF BlameInvariant, BlameInv, ImportInvariant
<1>2. PICK c : /\ findings = Analyze(c)
               /\ \/ c = ContextOf(<< >>)
                  \/ \E m \in Manifests : Acceptable(m) /\ c = ContextOf(<<m>>)
  BY <1>1 DEF ReportInv
<1>3. c # ContextOf(<< >>)
  BY <1>1, <1>2, BlameIsOfRequest
<1>4. PICK m \in Manifests : Acceptable(m) /\ c = ContextOf(<<m>>)
  BY <1>2, <1>3
<1>5. /\ f.event \in Imported /\ file[f.event] = "request"
      /\ ~BaseAnswered(c, f.event) /\ c.closed
  BY <1>1, <1>2, <1>4, BlameIsOfRequest
<1>6. c.closed = m.closed
  <2>1. <<m>> # << >> /\ <<m>>[1] = m
    OBVIOUS
  <2> QED
    BY <1>4, <2>1, ContextShape
<1>7. PICK r \in DOMAIN records : records[r].kind = "close"
  BY <1>4, <1>5, <1>6 DEF Acceptable, HasClose
<1>8. PICK last \in DOMAIN file :
          file[last] = "close" /\ \A l \in DOMAIN file : l <= last => HasOwnRecord(l)
  BY <1>1, <1>7 DEF CloseInv
<1>9. /\ last = Len(file) /\ DOMAIN file = 1 .. Len(file) /\ Len(file) \in Nat
  BY <1>1, <1>8 DEF ClosedLast, TypeInv
<1>10. ASSUME NEW l \in DOMAIN file, l > f.event, file[l] = "order" PROVE FALSE
  <2>1. HasOwnRecord(l)
    BY <1>8, <1>9
  <2>2. l \in Imported
    BY <1>10, <2>1, MessageImported DEF Messages
  <2>3. /\ DOMAIN c.events = Imported /\ c.events[l].topic = "order"
        /\ c.events[l].order = <<1>> /\ c.events[f.event].order = <<1>>
    <3>1. /\ DOMAIN ContextOf(<<m>>).events = Imported
          /\ \A i \in Imported :
                 /\ ContextOf(<<m>>).events[i].topic
                        = IF file[i] = "order" THEN "order" ELSE "state"
                 /\ ContextOf(<<m>>).events[i].order = <<1>>
      BY ContextShape
    <3> QED
      BY <1>4, <1>5, <1>10, <2>2, <3>1
  <2>4. l \in After(c, f.event, "order")
    BY <1>10, <2>2, <2>3 DEF After, Events
  <2> QED
    BY <1>5, <2>3, <2>4 DEF BaseAnswered, CompatibleId
<1> QED
  BY <1>5, <1>10

(* A fleet is blamed only for a request of a new base that no order in the     *)
(* whole file answers, whatever the limits cut off (validate_manifest and the  *)
(* rule LAB-D3-NEW-BASE-REQUEST): a close that was imported is the last line,   *)
(* so every line before it was imported too.                                    *)
THEOREM FleetBlameHolds == Spec => []FleetBlameCoversTheFile
<1>1. Init => BlameInvariant
  BY InitInvariant, InitBlame DEF BlameInvariant
<1>2. BlameInvariant /\ [Next]_vars => BlameInvariant'
  <2> SUFFICES ASSUME BlameInvariant, [Next]_vars PROVE BlameInvariant'
    OBVIOUS
  <2>1. ImportInvariant' /\ ImportInvariant
    BY NextInvariant DEF BlameInvariant
  <2>2. CloseInv' /\ ReportInv'
    BY <2>1, NextClose, NextReport DEF BlameInvariant, BlameInv
  <2> QED
    BY <2>1, <2>2 DEF BlameInvariant, BlameInv
<1> QED
  BY <1>1, <1>2, BlameCovers, PTL DEF Spec
=============================================================================
