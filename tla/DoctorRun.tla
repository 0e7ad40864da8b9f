------------------------------ MODULE DoctorRun ------------------------------
(***************************************************************************)
(* One run of vda5050-doctor: the bounded import of a trace file, record by  *)
(* record, the evidence manifest, the rules of Doctor and the report with    *)
(* its validity.                                                            *)
(*                                                                          *)
(* A line (or array element) of the file is abstracted to what the importer  *)
(* makes of it; MaxRecords and Limit are the import limits, Cost and Reserve *)
(* what a record retains and what is kept free for the marker of the limit:  *)
(* two markers at most, and never less than they need, so that the fallback  *)
(* of a marker without room is not modelled.                                 *)
(***************************************************************************)
EXTENDS Doctor, Integers, FiniteSets

CONSTANTS
    MaxLines,      \* bound: lines of the file
    MaxRecords,    \* config.max_records
    Limit,         \* retained_bytes_limit, in records' shares
    MessageCost,   \* what a message retains; any other record retains 1
    Reserve        \* RETAINED_LIMIT_MARKER_RESERVE

ASSUME LimitsOK ==
    /\ MaxLines \in Nat /\ MaxRecords \in Nat \ {0}
    /\ MessageCost \in Nat \ {0}
    /\ Limit \in Nat /\ Reserve \in 2 .. Limit

Formats == {"canonical", "envelope", "array"}

(* request: a state with newBaseRequest.  note: an opening, a warning, a clock *)
(* epoch.  damaged: whatever the parsers refuse.  other: an unknown type.      *)
Lines == {"request", "order", "gap", "close", "note", "damaged", "other"}

Messages == {"request", "order"}

VARIABLES
    file,       \* the lines
    format,
    torn,       \* the array does not end properly
    pc,         \* "import", "structure", "evidence", "refused" or "report"
    records,    \* outcomes, each with the line it stands for
    truncated,  \* summary.truncated
    retained,   \* summary.retained_bytes
    manifest,   \* << >> or <<m>>
    findings

vars == <<file, format, torn, pc, records, truncated, retained, manifest, findings>>

-----------------------------------------------------------------------------
(* Syntax, duplicate keys, depth, required fields, payload size and digest. *)
Parses(line) == line # "damaged"

ClassifyCanonical(line) ==
    IF ~Parses(line) THEN "rejected"
    ELSE IF line \in Messages THEN "message"
    ELSE IF line = "other" THEN "unknown" ELSE line

(* An envelope is a message or it is rejected: gaps and closes have no topic. *)
ClassifyEnvelope(line) ==
    IF Parses(line) /\ line \in Messages THEN "message" ELSE "rejected"

Classify(line) ==
    IF format = "canonical" THEN ClassifyCanonical(line) ELSE ClassifyEnvelope(line)

Cost(kind) == IF kind = "message" THEN MessageCost ELSE 1

(* Mutant: no room is kept for the markers. *)
FitsMutant(kind) == retained + Cost(kind) <= Limit

Fits(kind) == retained + Cost(kind) + Reserve <= Limit

Record(i, kind) == [line |-> i, kind |-> kind]

(* The outcomes the summary's counters stand for; unknown types are rejected   *)
(* ones as well.                                                               *)
Count(kinds) == Cardinality({i \in DOMAIN records : records[i].kind \in kinds})

Rejected == {"rejected", "unknown", "recordLimit", "retainedLimit", "structure"}

Init ==
    /\ file \in UNION {[1 .. n -> Lines] : n \in 0 .. MaxLines}
    /\ format \in Formats
    /\ torn \in BOOLEAN /\ (torn => format = "array")
    /\ pc = "import" /\ records = << >>
    /\ truncated = 0 /\ retained = 0 /\ manifest = << >> /\ findings = {}

Current == Len(records) + 1

More == pc = "import" /\ Current <= Len(file)

(* push_record: the record, or the marker of the retained limit.               *)
Push(i, kind) ==
    LET pushed == IF Fits(kind) THEN kind ELSE "retainedLimit"
    IN /\ records' = Append(records, Record(i, pushed))
       /\ retained' = retained + Cost(pushed)

Unread == UNCHANGED <<file, format, torn, manifest, findings>>

(* Limits of zero or above the hard ones, an address, a link or no regular     *)
(* file, too large a file, a version other than 3.0.0.                         *)
RefuseInput ==
    /\ pc = "import" /\ records = << >>
    /\ pc' = "refused"
    /\ UNCHANGED <<records, truncated, retained>> /\ Unread

ImportRecord ==
    /\ More /\ Current <= MaxRecords /\ Fits(Classify(file[Current]))
    /\ Push(Current, Classify(file[Current]))
    /\ UNCHANGED <<pc, truncated>> /\ Unread

(* The retained limit ends the import; its marker stands for the current line. *)
(* Mutant: the lines after it are not counted.                                 *)
RetainedLimitMutant ==
    /\ More /\ Current <= MaxRecords /\ ~Fits(Classify(file[Current]))
    /\ Push(Current, Classify(file[Current]))
    /\ pc' = "evidence" /\ UNCHANGED truncated /\ Unread

RetainedLimit ==
    /\ More /\ Current <= MaxRecords /\ ~Fits(Classify(file[Current]))
    /\ Push(Current, Classify(file[Current]))
    /\ truncated' = truncated + (Len(file) - Current)
    /\ pc' = "evidence" /\ Unread

(* The line beyond the limit gets a marker and is counted as truncated too.    *)
RecordLimit ==
    /\ More /\ Current > MaxRecords
    /\ truncated' = truncated + (Len(file) - MaxRecords)
    /\ Push(Current, "recordLimit")
    /\ pc' = "structure" /\ Unread

EndOfFile ==
    /\ pc = "import" /\ Current > Len(file)
    /\ pc' = "structure"
    /\ UNCHANGED <<records, truncated, retained>> /\ Unread

(* import_envelope_array reports what scan_array found after the elements. *)
CheckStructure ==
    /\ pc = "structure" /\ pc' = "evidence"
    /\ IF torn THEN Push(Len(file) + 1, "structure")
       ELSE UNCHANGED <<records, retained>>
    /\ UNCHANGED truncated /\ Unread

-----------------------------------------------------------------------------
(* The manifest: bound stands for its schema, digest and scope; events are the *)
(* records it has evidence for.                                                *)
Manifests ==
    [bound : BOOLEAN, closed : BOOLEAN, confirmed : BOOLEAN, roles : BOOLEAN,
     events : SUBSET (1 .. Len(file))]

Imported == {records[i].line : i \in {j \in DOMAIN records : records[j].kind = "message"}}

HasClose == \E i \in DOMAIN records : records[i].kind = "close"

(* Mutant: the manifest may claim a close the import did not see.             *)
UnclosedAcceptable(m) ==
    /\ m.bound
    /\ m.roles => Imported \subseteq m.events
    /\ m.events \subseteq Imported

Acceptable(m) ==
    /\ m.bound
    /\ m.closed => HasClose
    /\ m.roles => Imported \subseteq m.events
    /\ m.events \subseteq Imported

(* The event of line i: an order or a state, with nothing but a request to     *)
(* find fault with.                                                            *)
EventOf(i, known) ==
    [topic |-> IF file[i] = "order" THEN "order" ELSE "state",
     role |-> IF ~known THEN Unknown
              ELSE IF file[i] = "order" THEN <<"FLEET_CONTROL">> ELSE <<"MOBILE_ROBOT">>,
     participant |-> IF known THEN <<"robot">> ELSE Unknown,
     epoch |-> IF known THEN <<1>> ELSE Unknown,
     timed |-> format = "canonical", order |-> <<1>>, update |-> <<i>>,
     content |-> [control |-> 1, extension |-> 1], broken |-> FALSE,
     request |-> file[i] = "request", warning |-> FALSE, finished |-> {}]

(* m is << >> or the one manifest.  A line's number is its source sequence.    *)
ContextOf(m) ==
    LET Known(i) == m # << >> /\ i \in m[1].events
    IN [events |-> [i \in Imported |-> EventOf(i, Known(i))],
        confirmed |-> m # << >> /\ m[1].confirmed,
        closed |-> IF m = << >> THEN HasClose ELSE m[1].closed,
        roles |-> m # << >> /\ m[1].roles]

Diagnose(m) ==
    /\ pc = "evidence" /\ pc' = "report"
    /\ manifest' = m /\ findings' = Analyze(ContextOf(m))
    /\ UNCHANGED <<file, format, torn, records, truncated, retained>>

DiagnosePassive == Diagnose(<< >>)

DiagnoseWithEvidence == \E m \in Manifests : Acceptable(m) /\ Diagnose(<<m>>)

RefuseEvidence ==
    /\ pc = "evidence" /\ pc' = "refused"
    /\ \E m \in Manifests : ~Acceptable(m)
    /\ UNCHANGED <<file, format, torn, records, truncated, retained, manifest, findings>>

Next ==
    \/ RefuseInput
    \/ ImportRecord \/ RetainedLimit \/ RecordLimit \/ EndOfFile \/ CheckStructure
    \/ DiagnosePassive \/ DiagnoseWithEvidence \/ RefuseEvidence

Spec == Init /\ [][Next]_vars

(* report_validity. *)
(* Mutant: rejected records do not count. *)
ValidMutant == Count({"unknown"}) = 0 /\ Count({"gap"}) = 0 /\ truncated = 0

Valid == Count(Rejected) = 0 /\ Count({"gap"}) = 0 /\ truncated = 0

-----------------------------------------------------------------------------
TypeOK ==
    /\ file \in Seq(Lines) /\ format \in Formats /\ torn \in BOOLEAN
    /\ pc \in {"import", "structure", "evidence", "refused", "report"}
    /\ Len(records) <= MaxRecords + 2
    /\ \A i \in DOMAIN records :
           /\ records[i].line \in 1 .. Len(file) + 1
           /\ records[i].kind \in Rejected \cup {"message", "gap", "close", "note"}
    /\ truncated \in 0 .. Len(file)
    /\ Len(manifest) <= 1

(* Whatever the lines cost, and although the markers of the limits and of the  *)
(* array's structure are pushed after the budget is spent, the outcomes never  *)
(* retain more than the limit: push_record keeps room for them.                *)
RetainedStaysWithinLimit == retained <= Limit

(* Every line of the file has an outcome of its own or is among the last lines *)
(* counted as truncated, whichever limit ended the import and in whichever of  *)
(* the three formats: nothing disappears without trace.                        *)
NoLineIsLost ==
    pc \in {"evidence", "report"} =>
        DOMAIN file \subseteq {records[i].line : i \in DOMAIN records}
                              \cup (Len(file) - truncated + 1 .. Len(file))

(* A report that calls itself VALID rests on the whole file: every line was    *)
(* understood and imported, no gap was recorded, and the array was whole.      *)
ValidIsComplete ==
    (pc = "report" /\ Valid) =>
        /\ ~torn
        /\ \A i \in DOMAIN file :
               \E r \in DOMAIN records :
                   /\ records[r].line = i
                   /\ records[r].kind = Classify(file[i])
                   /\ Classify(file[i]) \in {"message", "close", "note"}

(* The recorder's file: what closes the capture is its last line.              *)
ClosedLast == \A i \in DOMAIN file : file[i] = "close" => i = Len(file)

(* A fleet is blamed for leaving a request for a new base unanswered only when *)
(* the request is in the file and no order comes after it, in the lines the    *)
(* import never reached included: evidence of a closed capture is refused when *)
(* the limits cut off the record that closes it.                               *)
FleetBlameCoversTheFile ==
    (pc = "report" /\ ClosedLast) =>
        \A f \in findings : f.verdict = "FAIL" =>
            /\ file[f.event] = "request"
            /\ \A i \in DOMAIN file : i > f.event => file[i] # "order"
=============================================================================
