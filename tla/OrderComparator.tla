--------------------------- MODULE OrderComparator ---------------------------
(***************************************************************************)
(* The semantic comparison of two order payloads and the check of an order's *)
(* graph, over the values the importer makes of the JSON a fleet control     *)
(* publishes, which sends the same orderId and orderUpdateId again and again  *)
(* (rule D1 compares each publication with the one before).                  *)
(*                                                                          *)
(* A document is a function from its paths (sequences of keys; an index is a *)
(* key too) to what stands there: <<"object">>, <<"array", length>>,         *)
(* <<"string", s>>, <<"literal", s>> or <<"number", n>>.  Keys are atomic:   *)
(* escape_json_pointer keeps a key with a slash apart from a path.  A number *)
(* is its spelling: sign, integer and fraction digits, exponent (0 for none). *)
(* The key sets hold a representative of each schema context.                *)
(***************************************************************************)
EXTENDS Doctor, Integers, SequencesExt

CONSTANTS
    Orders,    \* the payloads published
    MaxDepth,  \* max_json_depth: what is deeper is not imported
    MaxI64,    \* bound: stands for i64::MAX
    MaxU64     \* bound: stands for u64::MAX

Digits == Seq(0 .. 9)

(* JSON has no leading zeroes. *)
Spellings ==
    {n \in [negative : BOOLEAN, integer : Digits, fraction : Digits, exponent : Int] :
        n.integer # << >> /\ (n.integer[1] = 0 => Len(n.integer) = 1)}

Magnitude(digits) ==
    LET value[n \in 0 .. Len(digits)] ==
            IF n = 0 THEN 0 ELSE 10 * value[n - 1] + digits[n]
    IN value[Len(digits)]

(* What parses as a u64, or with a sign as an i64. *)
IsMachineInteger(n) ==
    /\ n.fraction = << >> /\ n.exponent = 0
    /\ Magnitude(n.integer) <= IF n.negative THEN MaxI64 + 1 ELSE MaxU64

-----------------------------------------------------------------------------
(* The import *)

IsNode(node, strings, numbers) ==
    \/ node = <<"object">>
    \/ node[1] = "array" /\ node[2] \in Nat /\ node = <<"array", node[2]>>
    \/ node[1] = "string" /\ node[2] \in strings /\ node = <<"string", node[2]>>
    \/ node[1] = "literal" /\ node = <<"literal", node[2]>>
           /\ node[2] \in {"null", "true", "false"}
    \/ node[1] = "number" /\ node[2] \in numbers /\ node = <<"number", node[2]>>

Children(d, path) == {Last(p) : p \in {q \in DOMAIN d : q # << >> /\ Front(q) = path}}

(* What stands at a path other than the root is a field of an object or an     *)
(* element of an array, whose key is an index and no name; the root of a       *)
(* payload is an object.                                                      *)
IsTree(d, keys) ==
    /\ << >> \in DOMAIN d /\ d[<< >>] = <<"object">>
    /\ \A path \in DOMAIN d :
           /\ path \in Seq(keys)
           /\ path # << >> =>
                  /\ Front(path) \in DOMAIN d
                  /\ d[Front(path)][1] \in {"object", "array"}
           /\ d[path][1] = "array" =>
                  /\ Children(d, path) = {ToString(i - 1) : i \in 1 .. d[path][2]}
                  /\ "value" \notin Children(d, path)

NumberKey == "$serde_json::private::Number"

(* serde_json, built with arbitrary_precision, hands a number that is no       *)
(* machine integer to visit_map, and StrictValueVisitor makes an object of it  *)
(* with one field, the number's text.  The integer -0 is 0.                    *)
IsWrapped(d, path) == d[path][1] = "number" /\ ~IsMachineInteger(d[path][2])

TextPaths(d) == {Append(path, NumberKey) : path \in {p \in DOMAIN d : IsWrapped(d, p)}}

ImportedNumber(n) == [n EXCEPT !.negative = @ /\ n.integer # <<0>>]

Imported(d) ==
    [path \in DOMAIN d \cup TextPaths(d) |->
        IF path \in TextPaths(d) THEN <<"string", d[Front(path)][2]>>
        ELSE IF IsWrapped(d, path) THEN <<"object">>
        ELSE IF d[path][1] = "number" THEN <<"number", ImportedNumber(d[path][2])>>
        ELSE d[path]]

(* A payload that is imported: its keys are its author's, and the text of a     *)
(* number counts in its depth.                                                *)
IsPayload(d) ==
    /\ IsTree(d, STRING)
    /\ \A path \in DOMAIN d : IsNode(d[path], STRING, Spellings)
    /\ TextPaths(d) \cap DOMAIN d = {}
    /\ \A path \in DOMAIN d \cup TextPaths(d) : Len(path) < MaxDepth

ASSUME DocumentsOK ==
    /\ MaxDepth \in Nat /\ MaxI64 \in Nat \ {0} /\ MaxU64 = 2 * MaxI64 + 1
    /\ \A d \in Orders : IsPayload(d)

VARIABLES
    first,      \* the first publication, as imported
    previous,   \* the latest one, as imported
    relation,   \* of the latest two
    changed     \* some two in a row were CHANGED

vars == <<first, previous, relation, changed>>

-----------------------------------------------------------------------------
(* Numbers *)

LeadingZeroes(digits) ==
    Max({n \in 0 .. Len(digits) : \A i \in 1 .. n : digits[i] = 0})

IsI64(n) == n \in (0 - MaxI64 - 1) .. MaxI64

Zero == [negative |-> FALSE, coefficient |-> <<0>>, exponent |-> 0]

(* UnsupportedNumber: no key, an exponent is beyond an i64. *)
Unsupported == [negative |-> FALSE, coefficient |-> << >>, exponent |-> 0]

DecimalKey(n) ==
    LET digits == n.integer \o n.fraction
        cut == SubSeq(digits, LeadingZeroes(digits) + 1, Len(digits))
        trailing == LeadingZeroes(Reverse(cut))
        shifted == n.exponent - Len(n.fraction)
    IN IF ~IsI64(n.exponent) THEN Unsupported
       ELSE IF cut = << >> THEN Zero
       ELSE IF ~IsI64(shifted) \/ ~IsI64(shifted + trailing) THEN Unsupported
       ELSE [negative |-> n.negative,
             coefficient |-> SubSeq(cut, 1, Len(cut) - trailing),
             exponent |-> shifted + trailing]

-----------------------------------------------------------------------------
(* Structure *)

Below(d, path) == {p \in DOMAIN d : IsPrefix(path, p)}

Keys(d, path) == {Last(p) : p \in {q \in Below(d, path) : Len(q) = Len(path) + 1}}

SameNode(a, b) ==
    IF a[1] = "number" /\ b[1] = "number" THEN DecimalKey(a[2]) = DecimalKey(b[2]) ELSE a = b

StructurallyEqual(l, r, path) ==
    /\ Below(l, path) = Below(r, path)
    /\ \A p \in Below(l, path) : SameNode(l[p], r[p])

-----------------------------------------------------------------------------
(* The default profile: two header fields are excluded, the fields the schema  *)
(* has at their place are significant, and everything else is unknown.         *)

Excluded == {<<"headerId">>, <<"timestamp">>}

Indexes == {"0", "1", "2"}

OrderFields == {"headerId", "timestamp", "orderId", "orderUpdateId", "nodes", "edges"}
NodeFields == {"nodeId", "sequenceId", "nodePosition", "actions"}
PositionFields == {"x", "allowedDeviationXY"}
EdgeFields == {"edgeId", "sequenceId", "trajectory", "corridor", "actions"}
TrajectoryFields == {"knotVector", "controlPoints"}
ActionFields == {"actionId", "actionParameters"}
ParameterFields == {"key", "value"}

(* A pattern is a sequence of sets of keys. *)
KnownPatterns ==
    LET element(name, fields) == <<{name}, Indexes, fields>>
        action == <<{"nodes", "edges"}, Indexes, {"actions"}, Indexes>>
    IN {<<OrderFields>>, element("nodes", NodeFields), element("edges", EdgeFields),
        <<{"nodes"}, Indexes, {"nodePosition"}, PositionFields>>,
        <<{"nodes"}, Indexes, {"nodePosition"}, {"allowedDeviationXY"}, {"a", "b", "theta"}>>,
        <<{"edges"}, Indexes, {"trajectory"}, TrajectoryFields>>,
        <<{"edges"}, Indexes, {"trajectory"}, {"controlPoints"}, Indexes, {"x"}>>,
        <<{"edges"}, Indexes, {"corridor"}, {"leftWidth"}>>,
        Append(action, ActionFields),
        action \o <<{"actionParameters"}, Indexes, ParameterFields>>}

Matches(path, pattern) ==
    Len(path) = Len(pattern) /\ \A i \in DOMAIN path : path[i] \in pattern[i]

IsKnownOrderPath(path) == \E pattern \in KnownPatterns : Matches(path, pattern)

(* Whatever is below the value of an action parameter is significant. *)
IsOpaqueSignificantPath(path) ==
    /\ Len(path) = 7 /\ path[1] \in {"nodes", "edges"}
    /\ path[3] = "actions" /\ path[5] = "actionParameters" /\ path[7] = "value"

ClassFor(path, force) ==
    IF path \in Excluded THEN "excluded"
    ELSE IF force \/ IsKnownOrderPath(path) THEN "significant" ELSE "unknown"

ForcesDescendants(path, force) == force \/ IsOpaqueSignificantPath(path)

-----------------------------------------------------------------------------
(* compare_semantic: the set of what was seen, "changed" and "unknown". *)

Difference(significant) == {IF significant THEN "changed" ELSE "unknown"}

(* compare is what compare_semantic returns for the fields and elements below. *)
(* Mutant: what is present on one side only is not looked at. *)
CompareFieldMutant(compare, l, r, path, force) ==
    LET class == ClassFor(path, force)
        onBoth == path \in DOMAIN l /\ path \in DOMAIN r
    IN IF class = "excluded" \/ ~onBoth \/ StructurallyEqual(l, r, path) THEN {}
       ELSE IF class = "unknown" THEN {"unknown"}
       ELSE compare[<<path, TRUE, ForcesDescendants(path, force)>>]

CompareField(compare, l, r, path, force) ==
    LET class == ClassFor(path, force)
        onBoth == path \in DOMAIN l /\ path \in DOMAIN r
    IN IF class = "excluded" \/ StructurallyEqual(l, r, path) THEN {}
       ELSE IF class = "unknown" THEN {"unknown"}
       ELSE IF ~onBoth THEN {"changed"}
       ELSE compare[<<path, TRUE, ForcesDescendants(path, force)>>]

CompareNodes(compare, l, r, path, significant, force) ==
    IF StructurallyEqual(l, r, path) THEN {}
    ELSE IF l[path][1] = "object" /\ r[path][1] = "object"
         THEN UNION {CompareField(compare, l, r, Append(path, k), force) :
                        k \in Keys(l, path) \cup Keys(r, path)}
    ELSE IF l[path][1] = "array" /\ l[path] = r[path]
         THEN UNION {compare[<<Append(path, k), significant, force>>] : k \in Keys(l, path)}
    ELSE Difference(significant)

(* A path both have, whether a difference there is significant, and whether     *)
(* everything below it is.                                                    *)
Calls(l, r) == (DOMAIN l \cap DOMAIN r) \X BOOLEAN \X BOOLEAN

CompareSemantic(l, r) ==
    LET compare[call \in Calls(l, r)] ==
            CompareNodes(compare, l, r, call[1], call[2], call[3])
    IN compare

SemanticRelation(summary) ==
    IF "changed" \in summary THEN "CHANGED"
    ELSE IF "unknown" \in summary THEN "UNKNOWN" ELSE "EQUAL"

CompareOrders(l, r) == SemanticRelation(CompareSemantic(l, r)[<<<< >>, FALSE, FALSE>>])

(* An unsupported number ends the comparison with an error, if it is got to.    *)
MayFail(l, r) ==
    \E p \in DOMAIN l \cap DOMAIN r :
        /\ l[p][1] = "number" /\ r[p][1] = "number"
        /\ Unsupported \in {DecimalKey(l[p][2]), DecimalKey(r[p][2])}

(* What D1 gets: an error is UNKNOWN. *)
Comparisons(l, r) ==
    IF MayFail(l, r) THEN {CompareOrders(l, r), "UNKNOWN"} ELSE {CompareOrders(l, r)}

-----------------------------------------------------------------------------
(* graph_is_inconsistent *)

SaturatingAdd(a, b) == Min({a + b, MaxU64})

AsU64(d, path) == Magnitude(d[path][2].integer)

(* A number that is spelled as an unsigned integer, and is not too large. *)
IsU64(d, path) ==
    /\ path \in DOMAIN d /\ d[path][1] = "number"
    /\ LET n == d[path][2] IN ~n.negative /\ n.fraction = << >> /\ n.exponent = 0
    /\ AsU64(d, path) <= MaxU64

IsArray(d, path) == path \in DOMAIN d /\ d[path][1] = "array"

Element(name, i) == <<name, ToString(i - 1)>>

Sequence(name, i) == Append(Element(name, i), "sequenceId")

(* Names that are both given must agree. *)
NamesAgree(d, a, b) ==
    (a \in DOMAIN d /\ b \in DOMAIN d /\ d[a][1] = "string" /\ d[b][1] = "string") =>
        d[a] = d[b]

(* Mutant: the edge's place between its nodes is not checked. *)
StitchesMutant(d, i) ==
    LET start == Sequence("nodes", i)
        end == Sequence("nodes", i + 1)
    IN /\ IsU64(d, start) /\ IsU64(d, end) /\ IsU64(d, Sequence("edges", i))
       /\ AsU64(d, end) = SaturatingAdd(AsU64(d, start), 2)

Stitches(d, i) ==
    LET start == Sequence("nodes", i)
        edge == Sequence("edges", i)
        end == Sequence("nodes", i + 1)
    IN /\ IsU64(d, start) /\ IsU64(d, end) /\ IsU64(d, edge)
       /\ AsU64(d, end) = SaturatingAdd(AsU64(d, start), 2)
       /\ AsU64(d, edge) = SaturatingAdd(AsU64(d, start), 1)
       /\ NamesAgree(d, Append(Element("nodes", i), "nodeId"),
                        Append(Element("edges", i), "startNodeId"))
       /\ NamesAgree(d, Append(Element("nodes", i + 1), "nodeId"),
                        Append(Element("edges", i), "endNodeId"))

GraphIsInconsistent(d) ==
    /\ IsArray(d, <<"nodes">>) /\ IsArray(d, <<"edges">>)
    /\ LET nodes == d[<<"nodes">>][2]
           edges == d[<<"edges">>][2]
       IN IF nodes < 2 THEN edges # 0
          ELSE edges + 1 # nodes \/ \E i \in 1 .. nodes - 1 : ~Stitches(d, i)

-----------------------------------------------------------------------------
Init ==
    /\ first \in {Imported(order) : order \in Orders} /\ previous = first
    /\ relation = "EQUAL" /\ changed = FALSE

(* Mutant: only the latest finding is kept. *)
RepublishMutant ==
    \E order \in Orders :
        /\ previous' = Imported(order)
        /\ relation' \in Comparisons(previous, previous')
        /\ changed' = (relation' = "CHANGED")
        /\ UNCHANGED first

Republish ==
    \E order \in Orders :
        /\ previous' = Imported(order)
        /\ relation' \in Comparisons(previous, previous')
        /\ changed' = (changed \/ relation' = "CHANGED")
        /\ UNCHANGED first

Next == Republish

Spec == Init /\ [][Next]_vars

-----------------------------------------------------------------------------
(* The reference: what of a document is significant and what is unknown *)

(* The keys on the way to a path; a step into an array is none. *)
KeysOnTheWay(d, path) ==
    {n \in DOMAIN path : d[SubSeq(path, 1, n - 1)][1] = "object"}

Opaque(path, n) ==
    \E m \in 1 .. n - 1 : IsOpaqueSignificantPath(SubSeq(path, 1, m))

ClassOnTheWay(path, n) == ClassFor(SubSeq(path, 1, n), Opaque(path, n))

(* The first key that is not significant decides. *)
ClassOf(d, path) ==
    LET stops == {n \in KeysOnTheWay(d, path) : ClassOnTheWay(path, n) # "significant"}
    IN IF stops = {} THEN "significant" ELSE ClassOnTheWay(path, Min(stops))

Part(d, class) ==
    LET paths == {p \in DOMAIN d : ClassOf(d, p) = class} IN [p \in paths |-> d[p]]

ContentOf(d) == [control |-> Part(d, "significant"), extension |-> Part(d, "unknown")]

-----------------------------------------------------------------------------
(* The recursive comparison, with its early ends at equal subtrees, unknown    *)
(* fields and fields of one side only and its trimmed number texts, says of    *)
(* two imported payloads what rule D1 takes it to say: CHANGED exactly when    *)
(* their significant parts differ, UNKNOWN when only parts the profile does    *)
(* not know do; decimal_key's error never makes an UNKNOWN of a change.  A     *)
(* number that is no machine integer is an object here, whose text is below a  *)
(* key no schema has: two that differ are UNKNOWN, as 1.5 and 2.5 are (CHANGED *)
(* in the value of an action parameter), and one against a machine integer is  *)
(* CHANGED, as 1 and 1.0 are.                                                 *)
ComparisonIsExact ==
    [][relation' = Relation(ContentOf(previous), ContentOf(previous'))]_vars

(* D1 compares an order with the publication just before it: a change cannot   *)
(* slip through in steps none of which is one, through publications that       *)
(* differ only in what the profile excludes or does not know.                  *)
ChangeIsNotHidden == CompareOrders(first, previous) = "CHANGED" => changed

(* The pairwise check of D2 accepts exactly the graphs whose nodes and edges   *)
(* take turns with consecutive sequence ids and agree on the names given.      *)
(* Beyond the largest id the saturating sum repeats it, and a graph that ends  *)
(* in equal ids is accepted: such graphs are left out.                         *)
GraphCheckIsExact ==
    LET nodes == previous[<<"nodes">>][2]
        edges == previous[<<"edges">>][2]
        FirstId == AsU64(previous, Sequence("nodes", 1))
        HasId(name, i, n) ==
            IsU64(previous, Sequence(name, i)) /\ AsU64(previous, Sequence(name, i)) = n
        Contiguous ==
            /\ \A i \in 1 .. nodes : HasId("nodes", i, FirstId + 2 * (i - 1))
            /\ \A i \in 1 .. edges :
                   /\ HasId("edges", i, FirstId + 2 * i - 1)
                   /\ NamesAgree(previous, Append(Element("nodes", i), "nodeId"),
                                 Append(Element("edges", i), "startNodeId"))
                   /\ NamesAgree(previous, Append(Element("nodes", i + 1), "nodeId"),
                                 Append(Element("edges", i), "endNodeId"))
        Saturates ==
            nodes > 1 /\ IsU64(previous, Sequence("nodes", 1))
            /\ FirstId + 2 * edges > MaxU64
    IN (IsArray(previous, <<"nodes">>) /\ IsArray(previous, <<"edges">>) /\ ~Saturates) =>
           (~GraphIsInconsistent(previous) <=>
                \/ nodes <= 1 /\ edges = 0
                \/ /\ nodes > 1 /\ edges + 1 = nodes
                   /\ IsU64(previous, Sequence("nodes", 1)) /\ Contiguous)

=============================================================================
