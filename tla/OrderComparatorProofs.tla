------------------------ MODULE OrderComparatorProofs ------------------------
(***************************************************************************)
(* Proofs about OrderComparator for every set of payloads, of any depth      *)
(* the import allows: that what is imported has numbers decimal_key takes,   *)
(* that the recursive comparison is defined and sees what the profile takes  *)
(* two payloads to differ in, that therefore no change is lost when          *)
(* comparisons are put in a row, and that the graph check accepts the        *)
(* contiguous graphs and no other.                                          *)
(*                                                                          *)
(* What is defined by recursion is reasoned about at a least or greatest      *)
(* counterexample (Least, Greatest of DoctorProofs) in place of an induction. *)
(***************************************************************************)
EXTENDS OrderComparator, DoctorProofs, SequenceTheorems

-----------------------------------------------------------------------------
(* Digits *)

IsValue(value, digits, k) ==
    value = [n \in 0 .. k |-> IF n = 0 THEN 0 ELSE 10 * value[n - 1] + digits[n]]

LEMMA ValueStep ==
    ASSUME NEW digits \in Digits, NEW k \in Nat, k + 1 <= Len(digits), NEW v,
           IsValue(v, digits, k)
    PROVE  \E w : IsValue(w, digits, k + 1)
<1> DEFINE w == [n \in 0 .. k + 1 |-> IF n = 0 THEN 0 ELSE 10 * v[n - 1] + digits[n]]
<1>1. \A n \in 0 .. k : v[n] = w[n]
  BY DEF IsValue
<1>2. \A n \in 0 .. k + 1 : n # 0 => n - 1 \in 0 .. k
  OBVIOUS
<1>3. \A n \in 0 .. k + 1 : n # 0 => v[n - 1] = w[n - 1]
  BY <1>1, <1>2
<1>4. \A n \in 0 .. k + 1 :
          w[n] = IF n = 0 THEN 0 ELSE 10 * w[n - 1] + digits[n]
  BY <1>3
<1>5. IsValue(w, digits, k + 1)
  BY <1>4 DEF IsValue
<1> QED
  BY <1>5

LEMMA ValueExists ==
    ASSUME NEW digits \in Digits
    PROVE  \E v : IsValue(v, digits, Len(digits))
<1> DEFINE Has(k) == \E v : IsValue(v, digits, k)
           S == {k \in 0 .. Len(digits) : Has(k)}
<1>1. Len(digits) \in Nat
  BY DEF Digits
<1>2. Has(0)
  <2> DEFINE v == [n \in 0 .. 0 |-> 0]
  <2>1. IsValue(v, digits, 0)
    BY DEF IsValue
  <2> QED
    BY <2>1
<1>3. \A k \in Nat : k + 1 <= Len(digits) /\ Has(k) => Has(k + 1)
  BY ValueStep
<1> HIDE DEF Has
<1>4. S \in SUBSET (0 .. Len(digits)) /\ S # {}
  BY <1>1, <1>2
<1>5. Max(S) \in S /\ \A k \in S : k <= Max(S)
  BY <1>1, <1>4, Greatest
<1>6. Max(S) = Len(digits)
  <2> SUFFICES ASSUME Max(S) # Len(digits) PROVE FALSE
    OBVIOUS
  <2>1. Max(S) \in Nat /\ Max(S) + 1 <= Len(digits) /\ Has(Max(S))
    BY <1>1, <1>5
  <2>2. Max(S) + 1 \in S
    BY <1>1, <1>3, <2>1
  <2> QED
    BY <1>5, <2>1, <2>2
<1>7. Has(Len(digits))
  BY <1>5, <1>6
<1> QED
  BY <1>7 DEF Has

(* What is read of the digits, one after the other. *)
LEMMA MagnitudeUnfolds ==
    ASSUME NEW digits \in Digits
    PROVE  /\ Magnitude(digits) \in Nat
           /\ \E v : /\ IsValue(v, digits, Len(digits)) /\ Magnitude(digits) = v[Len(digits)]
                    /\ \A n \in 0 .. Len(digits) : v[n] \in Nat
<1> DEFINE Is(v) == v = [n \in 0 .. Len(digits) |->
                             IF n = 0 THEN 0 ELSE 10 * v[n - 1] + digits[n]]
<1>2. Magnitude(digits) = (CHOOSE v : Is(v))[Len(digits)]
  BY DEF Magnitude
<1>3. \E v : Is(v)
  BY ValueExists DEF IsValue
<1>4. Is(CHOOSE v : Is(v))
  BY <1>3
<1>5. ASSUME NEW v, Is(v)
      PROVE  \A n \in 0 .. Len(digits) : v[n] \in Nat
  <2> DEFINE S == {n \in 0 .. Len(digits) : v[n] \notin Nat}
  <2>1. Len(digits) \in Nat /\ \A n \in 1 .. Len(digits) : digits[n] \in Nat
    BY DEF Digits
  <2>2. \A n \in 0 .. Len(digits) :
            v[n] = IF n = 0 THEN 0 ELSE 10 * v[n - 1] + digits[n]
    BY <1>5
  <2> HIDE DEF Is
  <2> SUFFICES ASSUME S # {} PROVE FALSE
    BY <2>1
  <2>3. S \in SUBSET Nat
    BY <2>1
  <2>4. Min(S) \in S /\ \A n \in S : Min(S) <= n
    BY <2>3, Least
  <2>5. PICK k \in S : \A n \in S : k <= n
    BY <2>4
  <2>6. k \in 0 .. Len(digits) /\ k # 0 /\ v[k] \notin Nat
    BY <2>1, <2>2, <2>5
  <2>7. k - 1 \in 0 .. Len(digits) /\ k - 1 \notin S
    BY <2>1, <2>5, <2>6
  <2>8. v[k - 1] \in Nat /\ digits[k] \in Nat
    BY <2>1, <2>6, <2>7
  <2> QED
    BY <2>2, <2>6, <2>8
<1>6. PICK v : Is(v) /\ Magnitude(digits) = v[Len(digits)]
  BY <1>2, <1>4
<1>7. \A n \in 0 .. Len(digits) : v[n] \in Nat
  BY <1>5, <1>6
<1>8. IsValue(v, digits, Len(digits)) /\ Len(digits) \in 0 .. Len(digits)
  BY <1>6 DEF IsValue, Digits
<1> QED
  BY <1>6, <1>7, <1>8

LEMMA MagnitudeOfZero == Magnitude(<<0>>) = 0
<1>1. <<0>> \in Digits /\ Len(<<0>>) = 1
  BY DEF Digits
<1>2. PICK v : IsValue(v, <<0>>, 1) /\ Magnitude(<<0>>) = v[1]
  BY <1>1, MagnitudeUnfolds
<1>3. \A n \in 0 .. 1 : v[n] = IF n = 0 THEN 0 ELSE 10 * v[n - 1] + <<0>>[n]
  BY <1>2 DEF IsValue
<1>4. v[0] = 0 /\ v[1] = 10 * v[1 - 1] + <<0>>[1]
  BY <1>3
<1>5. v[1] = 10 * v[0] + 0
  BY <1>4
<1> QED
  BY <1>2, <1>4, <1>5

-----------------------------------------------------------------------------
(* Paths *)

(* Every string is a name; the provers do not know that the importer's own key  *)
(* is one.                                                                    *)
Name == STRING \cup {NumberKey}

LEMMA NamesGrow ==
    ASSUME NEW S, NEW T, S \subseteq T
    PROVE  Seq(S) \subseteq Seq(T)
OBVIOUS

LEMMA ChildPath ==
    ASSUME NEW path \in Seq(Name), NEW k \in Name
    PROVE  /\ Append(path, k) \in Seq(Name) /\ Append(path, k) # << >>
           /\ Len(Append(path, k)) = Len(path) + 1
           /\ IsPrefix(path, Append(path, k))
           /\ Front(Append(path, k)) = path /\ Last(Append(path, k)) = k
<1> DEFINE q == Append(path, k)
<1>1. q \in Seq(Name) /\ Len(q) = Len(path) + 1 /\ Len(path) \in Nat
  BY AppendProperties, LenProperties
<1>2. q # << >>
  BY AppendProperties
<1>3. \A i \in 1 .. Len(path) : q[i] = path[i]
  BY AppendProperties
<1>4. q[Len(q)] = k
  <2>1. q[Len(path) + 1] = k
    BY AppendProperties
  <2> QED
    BY <1>1, <2>1
<1>5. SubSeq(q, 1, Len(path)) \in Seq(Name) /\ Len(SubSeq(q, 1, Len(path))) = Len(path)
  BY <1>1
<1>6. \A i \in 1 .. Len(path) : SubSeq(q, 1, Len(path))[i] = path[i]
  BY <1>1, <1>3
<1>7. SubSeq(q, 1, Len(path)) = path
  BY <1>5, <1>6, SeqEqual
<1>8. SubSeq(path, 1, Len(path)) = path
  OBVIOUS
<1>9. Front(q) = path
  <2>1. Len(q) - 1 = Len(path)
    BY <1>1
  <2> QED
    BY <1>7, <2>1 DEF Front
<1>10. IsPrefix(path, q)
  BY <1>1, <1>7, <1>8 DEF IsPrefix
<1> QED
  BY <1>1, <1>2, <1>4, <1>9, <1>10 DEF Last

-----------------------------------------------------------------------------
(* What is imported *)

Payloads == {Imported(order) : order \in Orders}

ImportedNumbers ==
    {n \in Spellings : IsMachineInteger(n) /\ (n.negative => n.integer # <<0>>)}

IsImportedNode(node) == IsNode(node, STRING \cup Spellings, ImportedNumbers)

IsDocument(d) ==
    /\ IsTree(d, Name)
    /\ \A path \in DOMAIN d : Len(path) <= MaxDepth /\ IsImportedNode(d[path])

LEMMA NumberIsImported ==
    ASSUME NEW n \in Spellings, IsMachineInteger(n)
    PROVE  ImportedNumber(n) \in ImportedNumbers
<1> DEFINE i == ImportedNumber(n)
<1>1. /\ i = [negative |-> n.negative /\ n.integer # <<0>>, integer |-> n.integer,
                fraction |-> n.fraction, exponent |-> n.exponent]
  BY DEF ImportedNumber, Spellings
<1>2. i \in Spellings
  BY <1>1 DEF Spellings
<1>3. Magnitude(n.integer) <= MaxU64 \/ n.negative
  BY DEF IsMachineInteger
<1>4. IsMachineInteger(i)
  <2>1. CASE n.integer # <<0>> \/ ~n.negative
    BY <1>1, <2>1 DEF IsMachineInteger, Spellings
  <2>2. CASE n.integer = <<0>> /\ n.negative
    <3>1. Magnitude(<<0>>) = 0
      BY MagnitudeOfZero
    <3> QED
      BY <1>1, <2>2, <3>1, DocumentsOK DEF IsMachineInteger
  <2> QED
    BY <2>1, <2>2 DEF Spellings
<1>5. i.negative => i.integer # <<0>>
  <2> HIDE DEF i
  <2>1. i.negative = (n.negative /\ n.integer # <<0>>) /\ i.integer = n.integer
    BY <1>1, Zenon
  <2> QED
    BY <2>1, Zenon
<1> HIDE DEF i
<1>6. i \in ImportedNumbers
  BY <1>2, <1>4, <1>5 DEF ImportedNumbers
<1> QED
  BY <1>6 DEF i

LEMMA PayloadsAreDocuments ==
    ASSUME NEW d \in Payloads
    PROVE  IsDocument(d)
<1>1. PICK o \in Orders : d = Imported(o)
  BY DEF Payloads
<1> DEFINE T == TextPaths(o)
           Wrapped(p) == IsWrapped(o, p)
<1>2. /\ IsTree(o, STRING) /\ T \cap DOMAIN o = {} /\ MaxDepth \in Nat
      /\ \A p \in DOMAIN o : IsNode(o[p], STRING, Spellings)
      /\ \A p \in DOMAIN o \cup T : Len(p) < MaxDepth
  BY DocumentsOK DEF IsPayload
<1>3. \A p \in DOMAIN o : p \in Seq(Name)
  BY <1>2, NamesGrow DEF IsTree, Name
<1>4. ASSUME NEW t \in T
      PROVE  /\ t \in Seq(Name) /\ t # << >> /\ Front(t) \in DOMAIN o /\ Wrapped(Front(t))
  <2>1. PICK p \in DOMAIN o : Wrapped(p) /\ t = Append(p, NumberKey)
    BY DEF TextPaths
  <2>2. NumberKey \in Name
    BY DEF Name
  <2> QED
    BY <1>3, <2>1, <2>2, ChildPath
<1>5. /\ DOMAIN d = DOMAIN o \cup T
      /\ \A t \in T : d[t] = <<"string", o[Front(t)][2]>>
      /\ \A p \in DOMAIN o : Wrapped(p) => d[p] = <<"object">>
      /\ \A p \in DOMAIN o : ~Wrapped(p) /\ o[p][1] = "number" =>
             d[p] = <<"number", ImportedNumber(o[p][2])>>
      /\ \A p \in DOMAIN o : o[p][1] # "number" => d[p] = o[p]
  <2>1. \A p \in DOMAIN o : p \notin T
    BY <1>2
  <2>2. \A p : Wrapped(p) => o[p][1] = "number"
    BY DEF IsWrapped
  <2> HIDE DEF T, Wrapped
  <2>3. d = [path \in DOMAIN o \cup T |->
                IF path \in T THEN <<"string", o[Front(path)][2]>>
                ELSE IF Wrapped(path) THEN <<"object">>
                ELSE IF o[path][1] = "number" THEN <<"number", ImportedNumber(o[path][2])>>
                ELSE o[path]]
    BY <1>1 DEF Imported, T, Wrapped
  <2> QED
    BY <2>1, <2>2, <2>3
<1>6. \A p : Wrapped(p) => o[p][1] = "number" /\ ~IsMachineInteger(o[p][2])
  BY DEF IsWrapped
<1>7. \A p \in DOMAIN o : o[p][1] = "number" /\ ~Wrapped(p) => IsMachineInteger(o[p][2])
  BY DEF IsWrapped
<1> HIDE DEF T, Wrapped
<1>8. << >> \in DOMAIN d /\ d[<< >>] = <<"object">>
  <2>1. << >> \in DOMAIN o /\ o[<< >>] = <<"object">>
    BY <1>2 DEF IsTree
  <2> QED
    BY <1>5, <2>1
<1>9. ASSUME NEW path \in DOMAIN d
      PROVE  /\ path \in Seq(Name) /\ Len(path) <= MaxDepth
             /\ path # << >> =>
                    /\ Front(path) \in DOMAIN d
                    /\ d[Front(path)][1] \in {"object", "array"}
  <2>1. path \in Seq(Name) /\ Len(path) <= MaxDepth
    BY <1>2, <1>3, <1>4, <1>5
  <2>2. CASE path \in T
    BY <1>4, <1>5, <2>1, <2>2
  <2>3. CASE path \in DOMAIN o /\ path # << >>
    <3>1. Front(path) \in DOMAIN o /\ o[Front(path)][1] \in {"object", "array"}
      BY <1>2, <2>3 DEF IsTree
    <3> QED
      BY <1>5, <2>1, <3>1
  <2> QED
    BY <1>5, <2>1, <2>2, <2>3
<1>10. ASSUME NEW path \in DOMAIN d, d[path][1] = "array"
       PROVE  /\ Children(d, path) = {ToString(i - 1) : i \in 1 .. d[path][2]}
              /\ "value" \notin Children(d, path)
  <2>1. path \in DOMAIN o /\ o[path][1] = "array" /\ d[path] = o[path]
    BY <1>5, <1>6, <1>10
  <2>2. \A q \in T : Front(q) # path
    BY <1>4, <1>6, <2>1
  <2>3. Children(d, path) = Children(o, path)
    BY <1>5, <2>2 DEF Children
  <2> QED
    BY <1>2, <2>1, <2>3 DEF IsTree
<1>11. ASSUME NEW path \in DOMAIN d PROVE IsImportedNode(d[path])
  <2>1. CASE path \in T
    <3>1. o[Front(path)][1] = "number" /\ IsNode(o[Front(path)], STRING, Spellings)
      BY <1>2, <1>4, <1>6, <2>1
    <3>2. o[Front(path)][2] \in Spellings
      BY <3>1 DEF IsNode
    <3> QED
      BY <1>5, <2>1, <3>2 DEF IsImportedNode, IsNode
  <2>2. CASE path \in DOMAIN o /\ Wrapped(path)
    BY <1>5, <2>2 DEF IsImportedNode, IsNode
  <2>3. CASE path \in DOMAIN o /\ o[path][1] = "number" /\ ~Wrapped(path)
    <3>1. o[path][2] \in Spellings /\ IsMachineInteger(o[path][2])
      BY <1>2, <1>7, <2>3 DEF IsNode
    <3>2. ImportedNumber(o[path][2]) \in ImportedNumbers
      BY <3>1, NumberIsImported
    <3> QED
      BY <1>5, <2>3, <3>2 DEF IsImportedNode, IsNode
  <2>4. CASE path \in DOMAIN o /\ o[path][1] # "number"
    <3>1. d[path] = o[path] /\ IsNode(o[path], STRING, Spellings)
      BY <1>2, <1>5, <2>4
    <3> QED
      BY <2>4, <3>1 DEF IsImportedNode, IsNode
  <2> QED
    BY <1>5, <2>1, <2>2, <2>3, <2>4
<1>12. IsTree(d, Name)
  BY <1>8, <1>9, <1>10 DEF IsTree
<1> QED
  BY <1>9, <1>11, <1>12 DEF IsDocument

LEMMA DocumentPaths ==
    ASSUME NEW d \in Payloads, NEW path \in DOMAIN d
    PROVE  /\ path \in Seq(Name) /\ Len(path) <= MaxDepth /\ IsImportedNode(d[path])
           /\ path # << >> => Front(path) \in DOMAIN d
BY PayloadsAreDocuments DEF IsDocument, IsTree

LEMMA PathOfChild ==
    ASSUME NEW path \in Seq(Name), NEW p \in Seq(Name),
           IsPrefix(path, p), Len(p) = Len(path) + 1
    PROVE  Last(p) \in Name /\ p = Append(path, Last(p))
<1>1. \A i \in 1 .. Len(path) : SubSeq(path, 1, Len(path))[i] = path[i]
  OBVIOUS
<1>2. \A i \in 1 .. Len(path) : SubSeq(p, 1, Len(path))[i] = p[i]
  OBVIOUS
<1>3. \A i \in 1 .. Len(path) : path[i] = p[i]
  BY <1>1, <1>2 DEF IsPrefix
<1>4. p \in Seq(Name) /\ Last(p) \in Name /\ Append(path, Last(p)) \in Seq(Name)
  BY DEF Last
<1>5. \A i \in 1 .. Len(p) : p[i] = Append(path, Last(p))[i]
  BY <1>3 DEF Last
<1> QED
  BY <1>4, <1>5, SeqEqual

LEMMA PathOfFront ==
    ASSUME NEW p \in Seq(Name), p # << >>
    PROVE  /\ Front(p) \in Seq(Name) /\ Len(p) = Len(Front(p)) + 1
           /\ IsPrefix(Front(p), p)
<1>1. Len(p) \in Nat /\ Len(p) >= 1
  OBVIOUS
<1>2. Front(p) \in Seq(Name) /\ Len(p) = Len(Front(p)) + 1
  <2> DEFINE n == Len(p) - 1
  <2>1. n \in Nat /\ n <= Len(p) /\ Len(p) = n + 1
    BY <1>1
  <2>2. SubSeq(p, 1, n) \in Seq(Name)
    BY <2>1
  <2>3. Len(SubSeq(p, 1, n)) = n
    BY <2>1
  <2> QED
    BY <2>1, <2>2, <2>3 DEF Front
<1>3. SubSeq(Front(p), 1, Len(Front(p))) = SubSeq(p, 1, Len(Front(p)))
  <2>1. SubSeq(Front(p), 1, Len(Front(p))) = Front(p)
    BY <1>2
  <2> QED
    BY <1>2, <2>1 DEF Front
<1> QED
  BY <1>2, <1>3 DEF IsPrefix

(* The keys at a path are those whose path is in the document. *)
LEMMA KeysArePaths ==
    ASSUME NEW d \in Payloads, NEW path \in Seq(Name)
    PROVE  /\ \A k \in Keys(d, path) : k \in Name /\ Append(path, k) \in DOMAIN d
           /\ \A k \in Name : Append(path, k) \in DOMAIN d => k \in Keys(d, path)
<1>1. ASSUME NEW k \in Keys(d, path) PROVE k \in Name /\ Append(path, k) \in DOMAIN d
  <2>1. PICK q \in DOMAIN d : IsPrefix(path, q) /\ Len(q) = Len(path) + 1 /\ k = Last(q)
    BY DEF Keys, Below
  <2> QED
    BY <2>1, DocumentPaths, PathOfChild
<1>2. ASSUME NEW k \in Name, Append(path, k) \in DOMAIN d PROVE k \in Keys(d, path)
  BY <1>2, ChildPath DEF Keys, Below
<1> QED
  BY <1>1, <1>2

(* Equal arrays have the same keys. *)
LEMMA ArrayKeys ==
    ASSUME NEW l \in Payloads, NEW r \in Payloads, NEW path \in DOMAIN l \cap DOMAIN r,
           l[path][1] = "array", l[path] = r[path]
    PROVE  Keys(l, path) = Keys(r, path)
<1>1. Children(l, path) = Children(r, path)
  BY PayloadsAreDocuments DEF IsDocument, IsTree
<1>2. ASSUME NEW d \in Payloads, path \in DOMAIN d PROVE Keys(d, path) = Children(d, path)
  <2>1. path \in Seq(Name)
    BY <1>2, DocumentPaths
  <2>2. ASSUME NEW k \in Keys(d, path) PROVE k \in Children(d, path)
    BY <2>1, KeysArePaths, ChildPath DEF Children
  <2>3. ASSUME NEW k \in Children(d, path) PROVE k \in Keys(d, path)
    <3>1. PICK q \in DOMAIN d : q # << >> /\ Front(q) = path /\ k = Last(q)
      BY DEF Children
    <3> QED
      BY <3>1, DocumentPaths, PathOfFront DEF Keys, Below
  <2> QED
    BY <2>2, <2>3
<1> QED
  BY <1>1, <1>2

-----------------------------------------------------------------------------
(* The comparison is defined: what it returns at a path depends on what it      *)
(* returns at longer ones, and none is longer than MaxDepth.                   *)

LEMMA CompareReadsBelow ==
    ASSUME NEW l \in Payloads, NEW r \in Payloads, NEW call \in Calls(l, r), NEW f, NEW g,
           \A c \in Calls(l, r) : Len(c[1]) > Len(call[1]) => f[c] = g[c]
    PROVE  CompareNodes(f, l, r, call[1], call[2], call[3])
               = CompareNodes(g, l, r, call[1], call[2], call[3])
<1> DEFINE path == call[1]  significant == call[2]  force == call[3]
<1>1. path \in DOMAIN l \cap DOMAIN r /\ significant \in BOOLEAN /\ force \in BOOLEAN
  BY DEF Calls
<1>2. path \in Seq(Name)
  BY <1>1, DocumentPaths
<1>3. \A p, s, t : p \in DOMAIN l /\ p \in DOMAIN r /\ s \in BOOLEAN /\ t \in BOOLEAN
                        /\ Len(p) > Len(path) => f[<<p, s, t>>] = g[<<p, s, t>>]
  BY DEF Calls
<1> HIDE DEF path, significant, force
<1>4. CompareNodes(f, l, r, path, significant, force)
          = CompareNodes(g, l, r, path, significant, force)
  <2>1. ASSUME NEW k \in Keys(l, path) \cup Keys(r, path)
        PROVE  CompareField(f, l, r, Append(path, k), force)
                   = CompareField(g, l, r, Append(path, k), force)
    <3> DEFINE q == Append(path, k)
    <3>1. Len(q) > Len(path)
      BY <1>2, KeysArePaths, ChildPath
    <3>2. ForcesDescendants(q, force) \in BOOLEAN
      BY DEF ForcesDescendants
    <3>3. q \in DOMAIN l /\ q \in DOMAIN r =>
              f[<<q, TRUE, ForcesDescendants(q, force)>>] = g[<<q, TRUE, ForcesDescendants(q, force)>>]
      BY <1>3, <3>1, <3>2
    <3> HIDE DEF q
    <3>4. CompareField(f, l, r, q, force) = CompareField(g, l, r, q, force)
      BY <3>3 DEF CompareField
    <3> QED
      BY <3>4 DEF q
  <2>2. ASSUME NEW k \in Keys(l, path), l[path][1] = "array", l[path] = r[path]
        PROVE  f[<<Append(path, k), significant, force>>] = g[<<Append(path, k), significant, force>>]
    <3>1. k \in Name /\ Append(path, k) \in DOMAIN l /\ Append(path, k) \in DOMAIN r
      BY <1>1, <1>2, <2>2, ArrayKeys, KeysArePaths
    <3>2. Len(Append(path, k)) > Len(path)
      BY <1>2, <3>1, ChildPath
    <3> QED
      BY <1>1, <1>3, <3>1, <3>2
  <2>3. UNION {CompareField(f, l, r, Append(path, k), force) :
                   k \in Keys(l, path) \cup Keys(r, path)}
            = UNION {CompareField(g, l, r, Append(path, k), force) :
                         k \in Keys(l, path) \cup Keys(r, path)}
    BY <2>1
  <2>4. CASE l[path][1] = "array" /\ l[path] = r[path]
    <3>1. UNION {f[<<Append(path, k), significant, force>>] : k \in Keys(l, path)}
              = UNION {g[<<Append(path, k), significant, force>>] : k \in Keys(l, path)}
      BY <2>2, <2>4
    <3> QED
      BY <2>3, <3>1 DEF CompareNodes
  <2> QED
    BY <2>3, <2>4 DEF CompareNodes
<1> QED
  BY <1>4 DEF path, significant, force

IsComparison(f, l, r, n) ==
    f = [call \in {c \in Calls(l, r) : Len(c[1]) >= n} |->
             CompareNodes(f, l, r, call[1], call[2], call[3])]

LEMMA ComparisonStep ==
    ASSUME NEW l \in Payloads, NEW r \in Payloads, NEW n \in Nat, NEW f,
           IsComparison(f, l, r, n + 1)
    PROVE  \E g : IsComparison(g, l, r, n)
<1> DEFINE Deep == {c \in Calls(l, r) : Len(c[1]) >= n}
           Deeper == {c \in Calls(l, r) : Len(c[1]) >= n + 1}
           Nodes(h, c) == CompareNodes(h, l, r, c[1], c[2], c[3])
           g == [call \in Deep |-> Nodes(f, call)]
<1>1. \A c \in Calls(l, r) :
          /\ c[1] \in DOMAIN l \cap DOMAIN r /\ c[2] \in BOOLEAN /\ c[3] \in BOOLEAN
          /\ Len(c[1]) \in Nat
  BY DocumentPaths DEF Calls
<1>2. \A c \in Deeper : c \in Deep
  BY <1>1
<1>3. ASSUME NEW c \in Deeper PROVE f[c] = Nodes(f, c) /\ g[c] = Nodes(f, c)
  BY <1>2, <1>3 DEF IsComparison
<1> HIDE DEF g
<1>4. ASSUME NEW c \in Deep PROVE Nodes(f, c) = Nodes(g, c)
  <2>1. ASSUME NEW e \in Calls(l, r), Len(e[1]) > Len(c[1]) PROVE f[e] = g[e]
    <3>1. Len(e[1]) \in Nat /\ Len(c[1]) \in Nat /\ Len(c[1]) >= n
      BY <1>1
    <3>2. e \in Deeper
      BY <2>1, <3>1
    <3> QED
      BY <1>3, <3>2
  <2>2. c \in Calls(l, r)
    OBVIOUS
  <2>3. \A e \in Calls(l, r) : Len(e[1]) > Len(c[1]) => f[e] = g[e]
    BY <2>1
  <2> HIDE DEF Deep, Deeper
  <2> QED
    BY <2>2, <2>3, CompareReadsBelow
<1>5. g = [call \in Deep |-> Nodes(g, call)]
  BY <1>4 DEF g
<1> QED
  BY <1>5 DEF IsComparison

LEMMA ComparisonExists ==
    ASSUME NEW l \in Payloads, NEW r \in Payloads
    PROVE  \E f : IsComparison(f, l, r, 0)
<1> DEFINE S == {n \in Nat : \E f : IsComparison(f, l, r, n)}
<1>1. MaxDepth \in Nat
  BY DocumentsOK
<1>2. MaxDepth + 1 \in S
  <2>1. {c \in Calls(l, r) : Len(c[1]) >= MaxDepth + 1} = {}
    BY <1>1, DocumentPaths DEF Calls
  <2> DEFINE f == [call \in {} |-> CompareNodes(call, l, r, call[1], call[2], call[3])]
  <2>2. IsComparison(f, l, r, MaxDepth + 1)
    BY <2>1 DEF IsComparison
  <2> QED
    BY <1>1, <2>2
<1>3. Min(S) \in S /\ \A n \in S : Min(S) <= n
  BY <1>2, Least
<1>4. CASE Min(S) = 0
  BY <1>3, <1>4
<1>5. CASE Min(S) # 0
  <2>1. Min(S) - 1 \in Nat /\ Min(S) = (Min(S) - 1) + 1
    BY <1>3, <1>5
  <2>2. Min(S) - 1 \in S
    BY <1>3, <2>1, ComparisonStep
  <2> QED
    BY <1>3, <2>1, <2>2
<1> QED
  BY <1>4, <1>5

LEMMA ComparisonUnfolds ==
    ASSUME NEW l \in Payloads, NEW r \in Payloads, NEW path \in DOMAIN l \cap DOMAIN r,
           NEW significant \in BOOLEAN, NEW force \in BOOLEAN
    PROVE  CompareSemantic(l, r)[<<path, significant, force>>]
               = CompareNodes(CompareSemantic(l, r), l, r, path, significant, force)
<1> DEFINE Is(f) == f = [call \in Calls(l, r) |->
                             CompareNodes(f, l, r, call[1], call[2], call[3])]
<1>1. PICK f : IsComparison(f, l, r, 0)
  BY ComparisonExists
<1>2. {c \in Calls(l, r) : Len(c[1]) >= 0} = Calls(l, r)
  BY DocumentPaths DEF Calls
<1>3. Is(f)
  BY <1>1, <1>2 DEF IsComparison
<1>4. CompareSemantic(l, r) = CHOOSE g : Is(g)
  BY DEF CompareSemantic
<1> HIDE DEF Is
<1>5. Is(CompareSemantic(l, r))
  BY <1>3, <1>4
<1>6. <<path, significant, force>> \in Calls(l, r)
  BY DEF Calls
<1>7. ASSUME NEW g, Is(g)
      PROVE  g[<<path, significant, force>>] = CompareNodes(g, l, r, path, significant, force)
  BY <1>6, <1>7 DEF Is
<1> QED
  BY <1>5, <1>7

-----------------------------------------------------------------------------
(* Equal subtrees *)

LEMMA PrefixTransitive ==
    ASSUME NEW a \in Seq(Name), NEW k \in Name, NEW p \in Seq(Name),
           IsPrefix(Append(a, k), p)
    PROVE  IsPrefix(a, p)
<1> DEFINE b == Append(a, k)
<1>1. b \in Seq(Name) /\ Len(b) = Len(a) + 1 /\ Len(a) \in Nat /\ Len(p) \in Nat
  BY AppendProperties, LenProperties
<1>2. \A i \in 1 .. Len(a) : b[i] = a[i]
  BY AppendProperties
<1>3. Len(b) <= Len(p) /\ SubSeq(b, 1, Len(b)) = SubSeq(p, 1, Len(b))
  BY DEF IsPrefix
<1> HIDE DEF b
<1>4. \A i \in 1 .. Len(b) : SubSeq(b, 1, Len(b))[i] = b[i] /\ SubSeq(p, 1, Len(b))[i] = p[i]
  BY <1>1, <1>3
<1>5. \A i \in 1 .. Len(a) : p[i] = a[i]
  BY <1>1, <1>2, <1>3, <1>4
<1>6. /\ SubSeq(p, 1, Len(a)) \in Seq(Name) /\ Len(SubSeq(p, 1, Len(a))) = Len(a)
      /\ SubSeq(a, 1, Len(a)) = a
  BY <1>1, <1>3
<1>7. \A i \in 1 .. Len(a) : SubSeq(p, 1, Len(a))[i] = a[i]
  BY <1>1, <1>3, <1>5
<1>8. SubSeq(p, 1, Len(a)) = a
  BY <1>6, <1>7, SeqEqual
<1> QED
  BY <1>1, <1>3, <1>6, <1>8 DEF IsPrefix

LEMMA SameHere ==
    ASSUME NEW l \in Payloads, NEW r \in Payloads, NEW path \in Seq(Name),
           StructurallyEqual(l, r, path), path \in DOMAIN l \/ path \in DOMAIN r
    PROVE  path \in DOMAIN l /\ path \in DOMAIN r /\ SameNode(l[path], r[path])
<1>1. IsPrefix(path, path)
  BY DEF IsPrefix
<1> QED
  BY <1>1 DEF StructurallyEqual, Below

LEMMA ForceIsBoolean ==
    ASSUME NEW path, NEW force
    PROVE  ForcesDescendants(path, force) \in BOOLEAN
BY DEF ForcesDescendants

-----------------------------------------------------------------------------
(* The way to a path *)

LEMMA PrefixIsInDocument ==
    ASSUME NEW d \in Payloads, NEW p \in DOMAIN d, NEW n \in 0 .. Len(p)
    PROVE  SubSeq(p, 1, n) \in DOMAIN d
<1> DEFINE S == {i \in 0 .. Len(p) : SubSeq(p, 1, i) \notin DOMAIN d}
<1>1. p \in Seq(Name) /\ Len(p) \in Nat
  BY DocumentPaths
<1> SUFFICES ASSUME S # {} PROVE FALSE
  OBVIOUS
<1>2. S \in SUBSET (0 .. Len(p))
  OBVIOUS
<1>3. PICK i \in S : \A j \in S : j <= i
  BY <1>1, <1>2, Greatest
<1>4. i # Len(p)
  <2>1. SubSeq(p, 1, Len(p)) = p
    BY <1>1
  <2> QED
    BY <2>1
<1>5. i + 1 \in 0 .. Len(p) /\ i \in Nat /\ i + 1 \notin S
  BY <1>1, <1>3, <1>4
<1> DEFINE q == SubSeq(p, 1, i + 1)
<1>6. q \in DOMAIN d
  BY <1>5
<1>7. q \in Seq(Name) /\ Len(q) = i + 1 /\ \A j \in 1 .. i + 1 : q[j] = p[j]
  BY <1>1, <1>5
<1> HIDE DEF q
<1>8. q # << >>
  BY <1>5, <1>7
<1>9. Front(q) \in DOMAIN d
  BY <1>6, <1>8, DocumentPaths
<1>10. Front(q) = SubSeq(p, 1, i)
  <2>1. (i + 1) - 1 = i
    BY <1>5
  <2>2. Front(q) = SubSeq(q, 1, i)
    BY <1>7, <2>1 DEF Front
  <2>3. /\ SubSeq(q, 1, i) \in Seq(Name) /\ Len(SubSeq(q, 1, i)) = i
        /\ SubSeq(p, 1, i) \in Seq(Name) /\ Len(SubSeq(p, 1, i)) = i
    BY <1>1, <1>5, <1>7
  <2>4. \A j \in 1 .. i : SubSeq(q, 1, i)[j] = SubSeq(p, 1, i)[j]
    BY <1>1, <1>5, <1>7
  <2> QED
    BY <2>2, <2>3, <2>4, SeqEqual
<1> QED
  BY <1>9, <1>10

(* What is below a path has its keys on the way. *)
LEMMA WayBelow ==
    ASSUME NEW path \in Seq(Name), NEW p \in Seq(Name), IsPrefix(path, p)
    PROVE  /\ Len(path) \in Nat /\ Len(p) \in Nat /\ Len(path) <= Len(p)
           /\ DOMAIN path = 1 .. Len(path) /\ DOMAIN p = 1 .. Len(p)
           /\ \A i \in 1 .. Len(path) : p[i] = path[i]
           /\ \A n \in 0 .. Len(path) : SubSeq(p, 1, n) = SubSeq(path, 1, n)
           /\ SubSeq(p, 1, Len(path)) = path
<1>1. /\ Len(path) \in Nat /\ Len(p) \in Nat /\ Len(path) <= Len(p)
      /\ DOMAIN path = 1 .. Len(path) /\ DOMAIN p = 1 .. Len(p)
  BY LenProperties DEF IsPrefix
<1>2. \A i \in 1 .. Len(path) : p[i] = path[i]
  <2>1. SubSeq(path, 1, Len(path)) = SubSeq(p, 1, Len(path))
    BY DEF IsPrefix
  <2>2. \A i \in 1 .. Len(path) : /\ SubSeq(path, 1, Len(path))[i] = path[i]
                                  /\ SubSeq(p, 1, Len(path))[i] = p[i]
    BY <1>1
  <2> QED
    BY <2>1, <2>2
<1>3. ASSUME NEW n \in 0 .. Len(path) PROVE SubSeq(p, 1, n) = SubSeq(path, 1, n)
  <2>1. /\ SubSeq(p, 1, n) \in Seq(Name) /\ Len(SubSeq(p, 1, n)) = n
        /\ SubSeq(path, 1, n) \in Seq(Name) /\ Len(SubSeq(path, 1, n)) = n
    BY <1>1
  <2>2. \A i \in 1 .. n : SubSeq(p, 1, n)[i] = SubSeq(path, 1, n)[i]
    BY <1>1, <1>2
  <2> QED
    BY <2>1, <2>2, SeqEqual
<1>4. SubSeq(path, 1, Len(path)) = path
  OBVIOUS
<1> QED
  BY <1>1, <1>2, <1>3, <1>4

(* The class of a path is decided at its first stop. *)
Stops(d, p) == {n \in KeysOnTheWay(d, p) : ClassOnTheWay(p, n) # "significant"}

LEMMA ClassAtStop ==
    ASSUME NEW d \in Payloads, NEW p \in DOMAIN d
    PROVE  /\ ClassOf(d, p) = "significant" <=> Stops(d, p) = {}
           /\ \A n \in Stops(d, p) :
                  (\A i \in Stops(d, p) : n <= i) => ClassOf(d, p) = ClassOnTheWay(p, n)
<1>1. p \in Seq(Name) /\ DOMAIN p = 1 .. Len(p) /\ Len(p) \in Nat
  BY DocumentPaths, LenProperties
<1>2. Stops(d, p) \in SUBSET Nat
  BY <1>1 DEF Stops, KeysOnTheWay
<1>3. ClassOf(d, p) = IF Stops(d, p) = {} THEN "significant" ELSE ClassOnTheWay(p, Min(Stops(d, p)))
  BY DEF ClassOf, Stops
<1>4. Stops(d, p) # {} => ClassOnTheWay(p, Min(Stops(d, p))) # "significant"
  <2> SUFFICES ASSUME Stops(d, p) # {} PROVE Min(Stops(d, p)) \in Stops(d, p)
    BY DEF Stops
  <2> QED
    BY <1>2, Least
<1>5. ASSUME NEW n \in Stops(d, p), \A i \in Stops(d, p) : n <= i
      PROVE  ClassOf(d, p) = ClassOnTheWay(p, n)
  <2>1. Min(Stops(d, p)) \in Stops(d, p) /\ Min(Stops(d, p)) <= n
    BY <1>2, Least
  <2>2. n <= Min(Stops(d, p)) /\ n \in Nat /\ Min(Stops(d, p)) \in Nat
    BY <1>2, <1>5, <2>1
  <2>3. Min(Stops(d, p)) = n
    BY <2>1, <2>2
  <2> QED
    BY <1>3, <2>3
<1> QED
  BY <1>3, <1>4, <1>5

(* The comparison gets to a path with every key on the way significant, and    *)
(* knows whether everything below it is.                                      *)
Reached(d, path, force) ==
    /\ path \in DOMAIN d /\ Stops(d, path) = {}
    /\ force <=> Opaque(path, Len(path) + 1)

LEMMA WayOfReached ==
    ASSUME NEW d \in Payloads, NEW path, NEW force \in BOOLEAN, Reached(d, path, force),
           NEW p \in DOMAIN d, IsPrefix(path, p)
    PROVE  /\ \A n \in 1 .. Len(path) : n \notin Stops(d, p)
           /\ Opaque(p, Len(path) + 1) <=> force
           /\ \A n \in Stops(d, p) : n \in Len(path) + 1 .. Len(p)
<1>1. path \in Seq(Name) /\ path \in DOMAIN d /\ p \in Seq(Name)
  BY DocumentPaths DEF Reached
<1>2. /\ Len(path) \in Nat /\ Len(p) \in Nat /\ Len(path) <= Len(p)
      /\ DOMAIN path = 1 .. Len(path) /\ DOMAIN p = 1 .. Len(p)
  BY <1>1, WayBelow
<1>3. \A n \in 0 .. Len(path) : SubSeq(p, 1, n) = SubSeq(path, 1, n)
  BY <1>1, WayBelow
<1>4. ASSUME NEW n \in 1 .. Len(path) + 1 PROVE Opaque(p, n) <=> Opaque(path, n)
  <2>1. \A m \in 1 .. n - 1 : SubSeq(p, 1, m) = SubSeq(path, 1, m)
    BY <1>2, <1>3
  <2> QED
    BY <2>1 DEF Opaque
<1>5. ASSUME NEW n \in 1 .. Len(path) PROVE n \notin Stops(d, p)
  <2>1. /\ SubSeq(p, 1, n) = SubSeq(path, 1, n)
        /\ SubSeq(p, 1, n - 1) = SubSeq(path, 1, n - 1)
    BY <1>2, <1>3
  <2>2. Opaque(p, n) <=> Opaque(path, n)
    BY <1>2, <1>4
  <2>3. ClassOnTheWay(p, n) = ClassOnTheWay(path, n)
    BY <2>1, <2>2 DEF ClassOnTheWay, ClassFor
  <2>4. n \notin Stops(d, path) /\ n \in DOMAIN path /\ n \in DOMAIN p
    BY <1>2 DEF Reached
  <2> QED
    BY <2>1, <2>3, <2>4 DEF Stops, KeysOnTheWay
<1>6. Opaque(p, Len(path) + 1) <=> force
  BY <1>2, <1>4 DEF Reached
<1>7. \A n \in Stops(d, p) : n \in 1 .. Len(p)
  BY <1>2 DEF Stops, KeysOnTheWay
<1> QED
  BY <1>2, <1>5, <1>6, <1>7

(* A field decides for what is below it, unless it is significant. *)
LEMMA FieldDecides ==
    ASSUME NEW d \in Payloads, NEW path, NEW force \in BOOLEAN, Reached(d, path, force),
           d[path][1] = "object", NEW k \in Name, NEW p \in DOMAIN d,
           IsPrefix(Append(path, k), p)
    PROVE  /\ ClassFor(Append(path, k), force) # "significant" =>
                  ClassOf(d, p) = ClassFor(Append(path, k), force)
           /\ ClassFor(Append(path, k), force) = "significant" =>
                  Len(path) + 1 \notin Stops(d, p)
<1> DEFINE q == Append(path, k)
           n == Len(path) + 1
<1>1. path \in Seq(Name) /\ p \in Seq(Name) /\ q \in Seq(Name)
  BY DocumentPaths, ChildPath DEF Reached
<1>2. IsPrefix(path, p)
  BY <1>1, PrefixTransitive
<1>3. Len(q) = n /\ Len(path) \in Nat
  BY <1>1, ChildPath, LenProperties
<1>4. n <= Len(p) /\ DOMAIN p = 1 .. Len(p) /\ Len(p) \in Nat /\ SubSeq(p, 1, n) = q
  BY <1>1, <1>3, WayBelow
<1>5. SubSeq(p, 1, Len(path)) = path
  BY <1>1, <1>2, WayBelow
<1>6. n \in KeysOnTheWay(d, p)
  <2>1. n \in DOMAIN p /\ n - 1 = Len(path)
    BY <1>3, <1>4
  <2> QED
    BY <1>5, <2>1 DEF KeysOnTheWay
<1>7. Opaque(p, n) <=> force
  BY <1>2, WayOfReached
<1>8. ClassOnTheWay(p, n) = ClassFor(q, force)
  BY <1>4, <1>7 DEF ClassOnTheWay, ClassFor
<1>9. \A i \in Stops(d, p) : n <= i
  <2>1. \A i \in Stops(d, p) : i \in Len(path) + 1 .. Len(p)
    BY <1>2, WayOfReached
  <2> QED
    BY <1>3, <1>4, <2>1
<1> HIDE DEF q, n
<1>10. CASE ClassFor(q, force) # "significant"
  <2>1. n \in Stops(d, p)
    BY <1>6, <1>8, <1>10 DEF Stops
  <2>2. ClassOf(d, p) = ClassOnTheWay(p, n)
    BY <1>9, <2>1, ClassAtStop
  <2> QED
    BY <1>8, <1>10, <2>2 DEF q
<1>11. CASE ClassFor(q, force) = "significant"
  <2>1. n \notin Stops(d, p)
    BY <1>8, <1>11 DEF Stops
  <2> QED
    BY <1>11, <2>1 DEF q, n
<1> QED
  BY <1>10, <1>11

LEMMA ForceBelow ==
    ASSUME NEW d \in Payloads, NEW path, NEW force \in BOOLEAN, Reached(d, path, force),
           NEW k \in Name
    PROVE  Opaque(Append(path, k), Len(Append(path, k)) + 1)
               <=> force \/ IsOpaqueSignificantPath(Append(path, k))
<1> DEFINE q == Append(path, k)
           n == Len(path) + 1
<1>1. path \in Seq(Name) /\ q \in Seq(Name) /\ IsPrefix(path, q) /\ Len(q) = n
      /\ Len(path) \in Nat
  BY DocumentPaths, ChildPath, LenProperties DEF Reached
<1>2. \A m \in 0 .. Len(path) : SubSeq(q, 1, m) = SubSeq(path, 1, m)
  BY <1>1, WayBelow
<1>3. SubSeq(q, 1, n) = q
  <2>1. SubSeq(q, 1, Len(q)) = q
    BY <1>1, SubSeqFull
  <2> QED
    BY <1>1, <2>1
<1> HIDE DEF q
<1>4. Opaque(q, n + 1) <=> \E m \in 1 .. n : IsOpaqueSignificantPath(SubSeq(q, 1, m))
  <2>1. (n + 1) - 1 = n
    BY <1>1
  <2> QED
    BY <2>1 DEF Opaque
<1>5. force <=> \E m \in 1 .. Len(path) : IsOpaqueSignificantPath(SubSeq(q, 1, m))
  <2>1. (Len(path) + 1) - 1 = Len(path)
    BY <1>1
  <2>2. force <=> \E m \in 1 .. Len(path) : IsOpaqueSignificantPath(SubSeq(path, 1, m))
    BY <2>1 DEF Reached, Opaque
  <2>3. \A m \in 1 .. Len(path) : SubSeq(q, 1, m) = SubSeq(path, 1, m)
    BY <1>1, <1>2
  <2> QED
    BY <2>2, <2>3
<1>6. \A m : m \in 1 .. n <=> m \in 1 .. Len(path) \/ m = n
  BY <1>1
<1>7. Opaque(q, n + 1) <=> force \/ IsOpaqueSignificantPath(q)
  BY <1>3, <1>4, <1>5, <1>6
<1> QED
  BY <1>1, <1>7 DEF q

LEMMA FieldIsReached ==
    ASSUME NEW d \in Payloads, NEW path, NEW force \in BOOLEAN, Reached(d, path, force),
           d[path][1] = "object", NEW k \in Name, Append(path, k) \in DOMAIN d,
           ClassFor(Append(path, k), force) = "significant"
    PROVE  Reached(d, Append(path, k), ForcesDescendants(Append(path, k), force))
<1> DEFINE q == Append(path, k)
<1>1. path \in Seq(Name) /\ q \in Seq(Name) /\ IsPrefix(path, q) /\ Len(q) = Len(path) + 1
      /\ IsPrefix(q, q) /\ Len(path) \in Nat
  BY DocumentPaths, ChildPath, LenProperties DEF Reached, IsPrefix
<1>2. Len(path) + 1 \notin Stops(d, q)
  BY <1>1, FieldDecides
<1>3. \A n \in Stops(d, q) : n \in Len(path) + 1 .. Len(q)
  <2>1. q \in DOMAIN d
    OBVIOUS
  <2> HIDE DEF q
  <2> QED
    BY <1>1, <2>1, WayOfReached
<1>4. Stops(d, q) = {}
  BY <1>1, <1>2, <1>3
<1> QED
  BY <1>4, ForceBelow DEF Reached, ForcesDescendants

(* The index of an element is no key, and nothing is made opaque by it. *)
LEMMA ElementIsReached ==
    ASSUME NEW d \in Payloads, NEW path, NEW force \in BOOLEAN, Reached(d, path, force),
           d[path][1] = "array", NEW k \in Name, Append(path, k) \in DOMAIN d
    PROVE  Reached(d, Append(path, k), force)
<1> DEFINE q == Append(path, k)
<1>1. path \in Seq(Name) /\ q \in Seq(Name) /\ IsPrefix(path, q) /\ Len(q) = Len(path) + 1
      /\ Len(path) \in Nat /\ path \in DOMAIN d
  BY DocumentPaths, ChildPath, LenProperties DEF Reached
<1>2. \A n \in Stops(d, q) : n \in Len(path) + 1 .. Len(q)
  BY <1>1, WayOfReached
<1>3. SubSeq(q, 1, Len(path)) = path
  BY <1>1, WayBelow
<1>4. Len(path) + 1 \notin Stops(d, q)
  <2>1. (Len(path) + 1) - 1 = Len(path)
    BY <1>1
  <2>2. Len(path) + 1 \notin KeysOnTheWay(d, q)
    BY <1>3, <2>1 DEF KeysOnTheWay
  <2> QED
    BY <2>2 DEF Stops
<1>5. Stops(d, q) = {}
  BY <1>1, <1>2, <1>4
<1>6. k # "value"
  <2>1. "value" \notin Children(d, path)
    BY <1>1, PayloadsAreDocuments DEF IsDocument, IsTree
  <2>2. q # << >> /\ Front(q) = path /\ Last(q) = k
    BY <1>1, ChildPath
  <2>3. k \in Children(d, path)
    BY <2>2 DEF Children
  <2> QED
    BY <2>1, <2>3
<1>7. ~IsOpaqueSignificantPath(q)
  <2>1. q[Len(q)] = k
    BY <1>1, ChildPath DEF Last
  <2> QED
    BY <1>6, <2>1 DEF IsOpaqueSignificantPath
<1> QED
  BY <1>5, <1>7, ForceBelow DEF Reached

(* Equal subtrees are read alike. *)
LEMMA SameClasses ==
    ASSUME NEW l \in Payloads, NEW r \in Payloads, NEW path, NEW force \in BOOLEAN,
           Reached(l, path, force), Reached(r, path, force),
           StructurallyEqual(l, r, path), NEW p \in DOMAIN l, IsPrefix(path, p)
    PROVE  p \in DOMAIN r /\ SameNode(l[p], r[p]) /\ ClassOf(l, p) = ClassOf(r, p)
<1>1. path \in Seq(Name) /\ p \in Seq(Name)
  BY DocumentPaths DEF Reached
<1>2. \A q : q \in DOMAIN l /\ IsPrefix(path, q) => q \in DOMAIN r /\ SameNode(l[q], r[q])
  BY DEF StructurallyEqual, Below
<1>3. p \in DOMAIN r /\ SameNode(l[p], r[p])
  BY <1>2
<1>4. /\ Len(path) \in Nat /\ Len(p) \in Nat /\ Len(path) <= Len(p)
      /\ DOMAIN p = 1 .. Len(p) /\ \A n \in 0 .. Len(path) : SubSeq(p, 1, n) = SubSeq(path, 1, n)
      /\ SubSeq(p, 1, Len(path)) = path
  BY <1>1, WayBelow
<1>5. ASSUME NEW n \in Len(path) + 1 .. Len(p)
      PROVE  n \in KeysOnTheWay(l, p) <=> n \in KeysOnTheWay(r, p)
  <2> DEFINE q == SubSeq(p, 1, n - 1)
  <2>1. q \in DOMAIN l /\ n - 1 \in 0 .. Len(p) /\ n - 1 >= Len(path)
    BY <1>4, PrefixIsInDocument
  <2>2. IsPrefix(path, q)
    <3>1. q \in Seq(Name) /\ Len(q) = n - 1
      BY <1>1, <1>4, <2>1
    <3>2. /\ SubSeq(q, 1, Len(path)) \in Seq(Name) /\ Len(SubSeq(q, 1, Len(path))) = Len(path)
          /\ SubSeq(p, 1, Len(path)) \in Seq(Name) /\ Len(SubSeq(p, 1, Len(path))) = Len(path)
      BY <1>1, <1>4, <2>1, <3>1
    <3>3. \A i \in 1 .. Len(path) : SubSeq(q, 1, Len(path))[i] = SubSeq(p, 1, Len(path))[i]
      BY <1>1, <1>4, <2>1, <3>1
    <3>4. SubSeq(q, 1, Len(path)) = path
      BY <1>4, <3>2, <3>3, SeqEqual
    <3>5. SubSeq(path, 1, Len(path)) = path
      BY <1>1
    <3> QED
      BY <1>4, <2>1, <3>1, <3>4, <3>5 DEF IsPrefix
  <2>3. SameNode(l[q], r[q])
    BY <1>2, <2>1, <2>2
  <2>4. l[q][1] = "object" <=> r[q][1] = "object"
    BY <2>3 DEF SameNode
  <2> QED
    BY <2>4 DEF KeysOnTheWay
<1>6. \A n : n \in Stops(l, p) <=> n \in Stops(r, p)
  <2>1. \A n \in Stops(l, p) : n \in Len(path) + 1 .. Len(p)
    BY WayOfReached
  <2>2. \A n \in Stops(r, p) : n \in Len(path) + 1 .. Len(p)
    BY <1>3, WayOfReached
  <2> QED
    BY <1>5, <2>1, <2>2 DEF Stops
<1>7. Stops(l, p) = Stops(r, p)
  BY <1>6
<1>8. ClassOf(l, p) = ClassOf(r, p)
  BY <1>7 DEF ClassOf, Stops
<1> QED
  BY <1>3, <1>8

-----------------------------------------------------------------------------
(* What the comparison says of the parts of two documents *)

InPart(d, p, class) == p \in DOMAIN d /\ ClassOf(d, p) = class

PathAgrees(l, r, p, class) ==
    /\ InPart(l, p, class) <=> InPart(r, p, class)
    /\ InPart(l, p, class) => SameNode(l[p], r[p])

PartAgrees(l, r, path, class) ==
    \A p \in DOMAIN l \cup DOMAIN r : IsPrefix(path, p) => PathAgrees(l, r, p, class)

Exact(summary, l, r, path) ==
    /\ "changed" \notin summary <=> PartAgrees(l, r, path, "significant")
    /\ "changed" \notin summary =>
           ("unknown" \notin summary <=> PartAgrees(l, r, path, "unknown"))

LEMMA NextKey ==
    ASSUME NEW d \in Payloads, NEW path \in Seq(Name), NEW p \in DOMAIN d,
           IsPrefix(path, p), p # path
    PROVE  \E k \in Keys(d, path) : IsPrefix(Append(path, k), p)
<1>1. p \in Seq(Name)
  BY DocumentPaths
<1>2. /\ Len(path) \in Nat /\ Len(p) \in Nat /\ Len(path) <= Len(p)
      /\ \A i \in 1 .. Len(path) : p[i] = path[i]
  BY <1>1, WayBelow
<1>3. Len(path) # Len(p)
  <2> SUFFICES ASSUME Len(path) = Len(p) PROVE FALSE
    OBVIOUS
  <2>1. path = p
    BY <1>1, <1>2, SeqEqual
  <2> QED
    BY <2>1
<1> DEFINE n == Len(path) + 1
           q == SubSeq(p, 1, n)
           k == p[n]
<1>4. n \in 1 .. Len(p) /\ n \in 0 .. Len(p)
  BY <1>2, <1>3
<1>5. k \in Name /\ q \in Seq(Name) /\ Len(q) = n /\ \A i \in 1 .. n : q[i] = p[i]
  BY <1>1, <1>4
<1>6. q = Append(path, k)
  <2>1. Append(path, k) \in Seq(Name) /\ Len(Append(path, k)) = n
    BY <1>5, ChildPath
  <2>2. \A i \in 1 .. Len(path) : Append(path, k)[i] = path[i]
    BY <1>5, AppendProperties
  <2>3. Append(path, k)[n] = k
    BY <1>5, AppendProperties
  <2>4. \A i \in 1 .. n : q[i] = Append(path, k)[i]
    BY <1>2, <1>5, <2>2, <2>3
  <2> HIDE DEF k, q
  <2> QED
    BY <1>5, <2>1, <2>4, SeqEqual
<1>7. q \in DOMAIN d
  BY <1>4, PrefixIsInDocument
<1> HIDE DEF q, k
<1>8. k \in Keys(d, path)
  BY <1>5, <1>6, <1>7, KeysArePaths
<1>9. IsPrefix(q, p)
  <2>1. SubSeq(q, 1, Len(q)) = q
    BY <1>5, SubSeqFull
  <2> QED
    BY <1>4, <1>5, <2>1 DEF IsPrefix, q
<1> QED
  BY <1>6, <1>8, <1>9

LEMMA LeafIsAlone ==
    ASSUME NEW d \in Payloads, NEW path \in DOMAIN d, d[path][1] \notin {"object", "array"},
           NEW p \in DOMAIN d, IsPrefix(path, p)
    PROVE  p = path
<1>1. path \in Seq(Name)
  BY DocumentPaths
<1> SUFFICES ASSUME p # path PROVE FALSE
  OBVIOUS
<1>2. PICK k \in Keys(d, path) : TRUE
  BY <1>1, NextKey
<1>3. k \in Name /\ Append(path, k) \in DOMAIN d
  BY <1>1, KeysArePaths
<1>4. Append(path, k) # << >> /\ Front(Append(path, k)) = path
  BY <1>1, <1>3, ChildPath
<1> QED
  BY <1>3, <1>4, PayloadsAreDocuments DEF IsDocument, IsTree

LEMMA SamePartsAgree ==
    ASSUME NEW l \in Payloads, NEW r \in Payloads, NEW path, NEW force \in BOOLEAN,
           Reached(l, path, force), Reached(r, path, force),
           StructurallyEqual(l, r, path), NEW class
    PROVE  PartAgrees(l, r, path, class)
<1>1. \A p \in DOMAIN l \cup DOMAIN r : IsPrefix(path, p) => p \in DOMAIN l
  BY DEF StructurallyEqual, Below
<1> QED
  BY <1>1, SameClasses DEF PartAgrees, PathAgrees, InPart

(* Parts agree below a path when they do at it and below each of its keys. *)
LEMMA PartsBelow ==
    ASSUME NEW l \in Payloads, NEW r \in Payloads, NEW path \in DOMAIN l, path \in DOMAIN r,
           NEW class, PathAgrees(l, r, path, class)
    PROVE  PartAgrees(l, r, path, class) <=>
               \A k \in Keys(l, path) \cup Keys(r, path) :
                   PartAgrees(l, r, Append(path, k), class)
<1>1. path \in Seq(Name)
  BY DocumentPaths
<1>2. ASSUME PartAgrees(l, r, path, class), NEW k \in Keys(l, path) \cup Keys(r, path)
      PROVE  PartAgrees(l, r, Append(path, k), class)
  <2>1. k \in Name
    BY <1>1, KeysArePaths
  <2>2. \A p \in DOMAIN l \cup DOMAIN r : IsPrefix(Append(path, k), p) => IsPrefix(path, p)
    BY <1>1, <2>1, DocumentPaths, PrefixTransitive
  <2> QED
    BY <1>2, <2>2 DEF PartAgrees
<1>3. ASSUME \A k \in Keys(l, path) \cup Keys(r, path) :
                 PartAgrees(l, r, Append(path, k), class)
      PROVE  PartAgrees(l, r, path, class)
  <2> SUFFICES ASSUME NEW p \in DOMAIN l \cup DOMAIN r, IsPrefix(path, p)
               PROVE  PathAgrees(l, r, p, class)
    BY DEF PartAgrees
  <2>1. CASE p = path
    BY <2>1
  <2>2. CASE p # path
    <3>1. \E k \in Keys(l, path) \cup Keys(r, path) : IsPrefix(Append(path, k), p)
      BY <1>1, <2>2, NextKey
    <3> QED
      BY <1>3, <3>1 DEF PartAgrees
  <2> QED
    BY <2>1, <2>2
<1> QED
  BY <1>2, <1>3

LEMMA ReachedIsSignificant ==
    ASSUME NEW d \in Payloads, NEW path, NEW force \in BOOLEAN, Reached(d, path, force)
    PROVE  /\ path \in DOMAIN d /\ path \in Seq(Name)
           /\ InPart(d, path, "significant") /\ ~InPart(d, path, "unknown")
BY ClassAtStop, DocumentPaths DEF Reached, InPart

LEMMA FieldIsExact ==
    ASSUME NEW l \in Payloads, NEW r \in Payloads, NEW path, NEW force \in BOOLEAN,
           Reached(l, path, force), Reached(r, path, force),
           l[path][1] = "object", r[path][1] = "object",
           NEW k \in Keys(l, path) \cup Keys(r, path), NEW C,
           LET q == Append(path, k)
               f == ForcesDescendants(q, force)
           IN  Reached(l, q, f) /\ Reached(r, q, f) => Exact(C[<<q, TRUE, f>>], l, r, q)
    PROVE  Exact(CompareField(C, l, r, Append(path, k), force), l, r, Append(path, k))
<1> DEFINE q == Append(path, k)
           f == ForcesDescendants(q, force)
           class == ClassFor(q, force)
           F == CompareField(C, l, r, q, force)
<1>1. path \in Seq(Name) /\ k \in Name /\ (q \in DOMAIN l \/ q \in DOMAIN r)
  BY ReachedIsSignificant, KeysArePaths
<1>2. q \in Seq(Name) /\ IsPrefix(q, q)
  BY <1>1, ChildPath DEF IsPrefix
<1>3. class \in {"excluded", "unknown", "significant"}
  BY DEF ClassFor
<1>4. f \in BOOLEAN
  BY ForceIsBoolean
<1>5. /\ q \in DOMAIN l /\ class = "significant" => Reached(l, q, f)
      /\ q \in DOMAIN r /\ class = "significant" => Reached(r, q, f)
  BY <1>1, FieldIsReached
<1>6. class # "significant" =>
          /\ \A p \in DOMAIN l : IsPrefix(q, p) => ClassOf(l, p) = class
          /\ \A p \in DOMAIN r : IsPrefix(q, p) => ClassOf(r, p) = class
  BY <1>1, FieldDecides
<1>7. Reached(l, q, f) /\ Reached(r, q, f) => Exact(C[<<q, TRUE, f>>], l, r, q)
  OBVIOUS
<1>8. F = IF class = "excluded" \/ StructurallyEqual(l, r, q) THEN {}
          ELSE IF class = "unknown" THEN {"unknown"}
          ELSE IF ~(q \in DOMAIN l /\ q \in DOMAIN r) THEN {"changed"}
          ELSE C[<<q, TRUE, f>>]
  BY DEF CompareField
<1> HIDE DEF q, f, class, F
<1>9. ASSUME NEW c \in {"significant", "unknown"}, class # "significant", class # c
      PROVE  PartAgrees(l, r, q, c)
  BY <1>6, <1>9 DEF PartAgrees, PathAgrees, InPart
<1>10. CASE class = "excluded"
  <2>1. PartAgrees(l, r, q, "significant") /\ PartAgrees(l, r, q, "unknown")
    BY <1>9, <1>10
  <2> QED
    BY <1>8, <1>10, <2>1 DEF Exact, F, q
<1>11. CASE class = "unknown" /\ StructurallyEqual(l, r, q)
  <2>1. PartAgrees(l, r, q, "significant")
    BY <1>9, <1>11
  <2>2. PartAgrees(l, r, q, "unknown")
    BY <1>6, <1>11 DEF PartAgrees, PathAgrees, InPart, StructurallyEqual, Below
  <2> QED
    BY <1>8, <1>11, <2>1, <2>2 DEF Exact, F, q
<1>12. CASE class = "unknown" /\ ~StructurallyEqual(l, r, q)
  <2>1. PartAgrees(l, r, q, "significant")
    BY <1>9, <1>12
  <2>2. ~PartAgrees(l, r, q, "unknown")
    <3> SUFFICES ASSUME PartAgrees(l, r, q, "unknown") PROVE StructurallyEqual(l, r, q)
      BY <1>12
    <3>1. \A p \in DOMAIN l \cup DOMAIN r : IsPrefix(q, p) =>
              p \in DOMAIN l /\ p \in DOMAIN r /\ SameNode(l[p], r[p])
      BY <1>6, <1>12 DEF PartAgrees, PathAgrees, InPart
    <3>2. \A p : p \in Below(l, q) <=> p \in Below(r, q)
      BY <3>1 DEF Below
    <3>3. Below(l, q) = Below(r, q)
      BY <3>2
    <3> QED
      BY <3>1, <3>3 DEF StructurallyEqual, Below
  <2> QED
    BY <1>8, <1>12, <2>1, <2>2 DEF Exact, F, q
<1>13. CASE class = "significant" /\ StructurallyEqual(l, r, q)
  <2>1. q \in DOMAIN l /\ q \in DOMAIN r
    BY <1>1, <1>2, <1>13, SameHere DEF q
  <2>2. PartAgrees(l, r, q, "significant") /\ PartAgrees(l, r, q, "unknown")
    BY <1>4, <1>5, <1>13, <2>1, SamePartsAgree
  <2> QED
    BY <1>8, <1>13, <2>2 DEF Exact, F, q
<1>14. CASE /\ class = "significant" /\ ~StructurallyEqual(l, r, q)
            /\ ~(q \in DOMAIN l /\ q \in DOMAIN r)
  <2>1. ~(InPart(l, q, "significant") <=> InPart(r, q, "significant"))
    <3>1. q \in DOMAIN l => InPart(l, q, "significant")
      BY <1>4, <1>5, <1>14, ReachedIsSignificant
    <3>2. q \in DOMAIN r => InPart(r, q, "significant")
      BY <1>4, <1>5, <1>14, ReachedIsSignificant
    <3> QED
      BY <1>1, <1>14, <3>1, <3>2 DEF InPart, q
  <2>2. ~PartAgrees(l, r, q, "significant")
    BY <1>1, <1>2, <2>1 DEF PartAgrees, PathAgrees, q
  <2> QED
    BY <1>8, <1>14, <2>2 DEF Exact, F, q
<1>15. CASE /\ class = "significant" /\ ~StructurallyEqual(l, r, q)
            /\ q \in DOMAIN l /\ q \in DOMAIN r
  BY <1>5, <1>7, <1>8, <1>15 DEF F, q
<1> QED
  BY <1>3, <1>10, <1>11, <1>12, <1>13, <1>14, <1>15

ExactAt(l, r, path) ==
    \A force \in BOOLEAN :
        Reached(l, path, force) /\ Reached(r, path, force) =>
            Exact(CompareSemantic(l, r)[<<path, TRUE, force>>], l, r, path)

(* A union of exact summaries is exact. *)
LEMMA UnionIsExact ==
    ASSUME NEW l \in Payloads, NEW r \in Payloads, NEW path \in DOMAIN l, path \in DOMAIN r,
           PathAgrees(l, r, path, "significant"), PathAgrees(l, r, path, "unknown"),
           NEW F, \A k \in Keys(l, path) \cup Keys(r, path) : Exact(F[k], l, r, Append(path, k))
    PROVE  Exact(UNION {F[k] : k \in Keys(l, path) \cup Keys(r, path)}, l, r, path)
<1> DEFINE K == Keys(l, path) \cup Keys(r, path)
           S == UNION {F[k] : k \in K}
<1>1. \A class \in {"significant", "unknown"} :
          PartAgrees(l, r, path, class) <=>
              \A k \in K : PartAgrees(l, r, Append(path, k), class)
  BY PartsBelow
<1>6. \A k \in K : Exact(F[k], l, r, Append(path, k))
  OBVIOUS
<1>2. \A x : x \notin S <=> \A k \in K : x \notin F[k]
  OBVIOUS
<1> HIDE DEF S, K
<1>3. "changed" \notin S <=> PartAgrees(l, r, path, "significant")
  BY <1>1, <1>2, <1>6 DEF Exact
<1>4. ASSUME "changed" \notin S
      PROVE  "unknown" \notin S <=> PartAgrees(l, r, path, "unknown")
  BY <1>1, <1>2, <1>4, <1>6 DEF Exact
<1>5. Exact(S, l, r, path)
  BY <1>3, <1>4 DEF Exact
<1> QED
  BY <1>5 DEF S, K

LEMMA ExactFromBelow ==
    ASSUME NEW l \in Payloads, NEW r \in Payloads, NEW path \in DOMAIN l, path \in DOMAIN r,
           \A p \in DOMAIN l : p \in DOMAIN r /\ Len(p) > Len(path) => ExactAt(l, r, p)
    PROVE  ExactAt(l, r, path)
<1> SUFFICES ASSUME NEW force \in BOOLEAN, Reached(l, path, force), Reached(r, path, force)
             PROVE  Exact(CompareSemantic(l, r)[<<path, TRUE, force>>], l, r, path)
  BY DEF ExactAt
<1> DEFINE C == CompareSemantic(l, r)
           K == Keys(l, path) \cup Keys(r, path)
           S == CompareNodes(C, l, r, path, TRUE, force)
<1>1. C[<<path, TRUE, force>>] = S
  BY ComparisonUnfolds
<1>2. path \in Seq(Name) /\ IsPrefix(path, path) /\ IsImportedNode(l[path]) /\ IsImportedNode(r[path])
  BY DocumentPaths DEF IsPrefix
<1>3. /\ InPart(l, path, "significant") /\ InPart(r, path, "significant")
      /\ ~InPart(l, path, "unknown") /\ ~InPart(r, path, "unknown")
  BY ReachedIsSignificant
<1>4. /\ PathAgrees(l, r, path, "significant") <=> SameNode(l[path], r[path])
      /\ PathAgrees(l, r, path, "unknown")
  BY <1>3 DEF PathAgrees
<1>5. \A k \in K : /\ k \in Name /\ Len(Append(path, k)) > Len(path)
  <2>1. \A k \in K : k \in Name
    BY <1>2, KeysArePaths
  <2>2. \A k \in K : Len(Append(path, k)) = Len(path) + 1 /\ Len(path) \in Nat
    BY <1>2, <2>1, ChildPath, LenProperties
  <2> QED
    BY <2>1, <2>2
<1>6. CASE StructurallyEqual(l, r, path)
  <2>1. S = {}
    BY <1>6 DEF CompareNodes
  <2>2. \A class : PartAgrees(l, r, path, class)
    BY <1>6, SamePartsAgree
  <2> QED
    BY <1>1, <2>1, <2>2 DEF Exact
<1>7. CASE ~StructurallyEqual(l, r, path) /\ l[path][1] = "object" /\ r[path][1] = "object"
  <2> DEFINE F == [k \in K |-> CompareField(C, l, r, Append(path, k), force)]
  <2>1. S = UNION {CompareField(C, l, r, Append(path, k), force) : k \in K}
    BY <1>7 DEF CompareNodes
  <2>2. S = UNION {F[k] : k \in K}
    BY <2>1
  <2>3. SameNode(l[path], r[path])
    BY <1>2, <1>7 DEF IsImportedNode, IsNode, SameNode
  <2>4. ASSUME NEW k \in K PROVE Exact(F[k], l, r, Append(path, k))
    <3> DEFINE q == Append(path, k)
               f == ForcesDescendants(q, force)
    <3>1. f \in BOOLEAN
      BY ForceIsBoolean
    <3>2. Len(q) > Len(path)
      BY <1>5
    <3>3. Reached(l, q, f) /\ Reached(r, q, f) => Exact(C[<<q, TRUE, f>>], l, r, q)
      <4> HIDE DEF q, f, C
      <4> SUFFICES ASSUME Reached(l, q, f), Reached(r, q, f)
                   PROVE  Exact(C[<<q, TRUE, f>>], l, r, q)
        OBVIOUS
      <4>1. q \in DOMAIN l /\ q \in DOMAIN r
        BY DEF Reached
      <4>2. ExactAt(l, r, q)
        BY <3>2, <4>1
      <4> QED
        BY <3>1, <4>2 DEF ExactAt, C
    <3> HIDE DEF C
    <3>4. Exact(CompareField(C, l, r, Append(path, k), force), l, r, Append(path, k))
      BY <1>7, <3>3, FieldIsExact
    <3> QED
      BY <3>4
  <2> HIDE DEF F, S, K
  <2>5. Exact(S, l, r, path)
    <3>1. \A k \in Keys(l, path) \cup Keys(r, path) : Exact(F[k], l, r, Append(path, k))
      BY <2>4 DEF K
    <3>2. Exact(UNION {F[k] : k \in Keys(l, path) \cup Keys(r, path)}, l, r, path)
      BY <1>4, <2>3, <3>1, UnionIsExact
    <3> QED
      BY <2>2, <3>2 DEF K
  <2> QED
    BY <1>1, <2>5
<1>8. CASE /\ ~StructurallyEqual(l, r, path) /\ ~(l[path][1] = "object" /\ r[path][1] = "object")
           /\ l[path][1] = "array" /\ l[path] = r[path]
  <2> DEFINE F == [k \in K |-> C[<<Append(path, k), TRUE, force>>]]
  <2>1. K = Keys(l, path)
    BY <1>8, ArrayKeys
  <2>2. S = UNION {C[<<Append(path, k), TRUE, force>>] : k \in K}
    BY <1>8, <2>1 DEF CompareNodes
  <2>3. S = UNION {F[k] : k \in K}
    BY <2>2
  <2>4. SameNode(l[path], r[path])
    BY <1>8 DEF SameNode
  <2>5. ASSUME NEW k \in K PROVE Exact(F[k], l, r, Append(path, k))
    <3>1. k \in Name /\ Append(path, k) \in DOMAIN l /\ Append(path, k) \in DOMAIN r
      BY <1>2, <1>8, <2>1, ArrayKeys, KeysArePaths
    <3>2. r[path][1] = "array"
      BY <1>8
    <3>3. Reached(l, Append(path, k), force) /\ Reached(r, Append(path, k), force)
      BY <1>8, <3>1, <3>2, ElementIsReached
    <3>4. Len(Append(path, k)) > Len(path)
      BY <1>5
    <3>5. ExactAt(l, r, Append(path, k))
      BY <3>1, <3>4
    <3> QED
      BY <3>3, <3>5 DEF ExactAt
  <2> HIDE DEF F, S, K
  <2>6. Exact(S, l, r, path)
    <3>1. \A k \in Keys(l, path) \cup Keys(r, path) : Exact(F[k], l, r, Append(path, k))
      BY <2>5 DEF K
    <3>2. Exact(UNION {F[k] : k \in Keys(l, path) \cup Keys(r, path)}, l, r, path)
      BY <1>4, <2>4, <3>1, UnionIsExact
    <3> QED
      BY <2>3, <3>2 DEF K
  <2> QED
    BY <1>1, <2>6
<1>9. CASE /\ ~StructurallyEqual(l, r, path) /\ ~(l[path][1] = "object" /\ r[path][1] = "object")
           /\ ~(l[path][1] = "array" /\ l[path] = r[path])
  <2>1. S = {"changed"}
    BY <1>9 DEF CompareNodes, Difference
  <2>2. ~SameNode(l[path], r[path])
    <3> SUFFICES ASSUME SameNode(l[path], r[path]) PROVE FALSE
      OBVIOUS
    <3>1. l[path][1] \notin {"object", "array"} /\ r[path][1] \notin {"object", "array"}
      BY <1>9 DEF SameNode
    <3>2. Below(l, path) = {path} /\ Below(r, path) = {path}
      BY <1>2, <3>1, LeafIsAlone DEF Below
    <3> QED
      BY <1>9, <3>2 DEF StructurallyEqual
  <2>3. ~PartAgrees(l, r, path, "significant")
    BY <1>2, <1>4, <2>2 DEF PartAgrees
  <2> QED
    BY <1>1, <2>1, <2>3 DEF Exact
<1> QED
  BY <1>6, <1>7, <1>8, <1>9

LEMMA ComparisonExactAt ==
    ASSUME NEW l \in Payloads, NEW r \in Payloads, NEW path \in DOMAIN l, path \in DOMAIN r
    PROVE  ExactAt(l, r, path)
<1> DEFINE S == {n \in 0 .. MaxDepth :
                     \E p \in DOMAIN l : p \in DOMAIN r /\ Len(p) = n /\ ~ExactAt(l, r, p)}
<1>1. MaxDepth \in Nat /\ \A p \in DOMAIN l : Len(p) \in 0 .. MaxDepth
  BY DocumentsOK, DocumentPaths
<1> SUFFICES ASSUME ~ExactAt(l, r, path) PROVE FALSE
  OBVIOUS
<1>2. S \in SUBSET (0 .. MaxDepth) /\ S # {}
  <2>1. Len(path) \in S
    BY <1>1
  <2> QED
    BY <2>1
<1>3. Max(S) \in S /\ \A n \in S : n <= Max(S)
  BY <1>1, <1>2, Greatest
<1>4. PICK p \in DOMAIN l : p \in DOMAIN r /\ Len(p) = Max(S) /\ ~ExactAt(l, r, p)
  BY <1>3
<1>5. ASSUME NEW q \in DOMAIN l, q \in DOMAIN r, Len(q) > Len(p) PROVE ExactAt(l, r, q)
  <2>1. Len(q) \notin S
    BY <1>1, <1>3, <1>4, <1>5
  <2> QED
    BY <1>1, <1>5, <2>1
<1> HIDE DEF S
<1>6. ExactAt(l, r, p)
  BY <1>4, <1>5, ExactFromBelow
<1> QED
  BY <1>4, <1>6

-----------------------------------------------------------------------------
(* Orders *)

SameOrder(l, r) == PartAgrees(l, r, << >>, "significant")

Root == << >>

LEMMA RootIsReached ==
    ASSUME NEW d \in Payloads
    PROVE  Root \in DOMAIN d /\ d[Root] = <<"object">> /\ Reached(d, Root, FALSE)
<1>1. Root \in DOMAIN d /\ d[Root] = <<"object">>
  BY PayloadsAreDocuments DEF IsDocument, IsTree, Root
<1>2. Stops(d, Root) = {}
  BY DEF Stops, KeysOnTheWay, Root
<1>3. ~Opaque(Root, Len(Root) + 1)
  <2>1. Len(Root) = 0
    BY DEF Root
  <2> QED
    BY <2>1 DEF Opaque
<1> QED
  BY <1>1, <1>2, <1>3 DEF Reached

(* A payload is an object: whether the whole of it is significant is not asked. *)
LEMMA OrdersCompared ==
    ASSUME NEW l \in Payloads, NEW r \in Payloads
    PROVE  \E summary : /\ CompareOrders(l, r) = SemanticRelation(summary)
                        /\ Exact(summary, l, r, Root)
<1> DEFINE C == CompareSemantic(l, r)
<1>1. /\ Root \in DOMAIN l /\ l[Root] = <<"object">> /\ Reached(l, Root, FALSE)
      /\ Root \in DOMAIN r /\ r[Root] = <<"object">> /\ Reached(r, Root, FALSE)
  BY RootIsReached
<1>2. /\ C[<<Root, TRUE, FALSE>>] = CompareNodes(C, l, r, Root, TRUE, FALSE)
      /\ C[<<Root, FALSE, FALSE>>] = CompareNodes(C, l, r, Root, FALSE, FALSE)
  BY <1>1, ComparisonUnfolds
<1>3. Exact(C[<<Root, TRUE, FALSE>>], l, r, Root)
  BY <1>1, ComparisonExactAt DEF ExactAt
<1>4. CompareOrders(l, r) = SemanticRelation(C[<<Root, FALSE, FALSE>>])
  BY DEF CompareOrders, Root
<1> HIDE DEF C
<1>5. CompareNodes(C, l, r, Root, TRUE, FALSE) = CompareNodes(C, l, r, Root, FALSE, FALSE)
  BY <1>1 DEF CompareNodes
<1>6. /\ CompareOrders(l, r) = SemanticRelation(C[<<Root, TRUE, FALSE>>])
      /\ Exact(C[<<Root, TRUE, FALSE>>], l, r, Root)
  BY <1>2, <1>3, <1>4, <1>5
<1> QED
  BY <1>6

LEMMA ChangedIsNotSame ==
    ASSUME NEW l \in Payloads, NEW r \in Payloads
    PROVE  CompareOrders(l, r) = "CHANGED" <=> ~SameOrder(l, r)
BY OrdersCompared DEF Exact, SemanticRelation, SameOrder, Root

LEMMA SameOrderIsReflexive ==
    ASSUME NEW d \in Payloads
    PROVE  SameOrder(d, d)
BY DEF SameOrder, PartAgrees, PathAgrees, SameNode

LEMMA SameOrderIsTransitive ==
    ASSUME NEW l \in Payloads, NEW m \in Payloads, NEW r \in Payloads,
           SameOrder(l, m), SameOrder(m, r)
    PROVE  SameOrder(l, r)
<1> SUFFICES ASSUME NEW p \in DOMAIN l \cup DOMAIN r, IsPrefix(<< >>, p)
             PROVE  PathAgrees(l, r, p, "significant")
  BY DEF SameOrder, PartAgrees
<1>1. /\ p \in DOMAIN l \cup DOMAIN m => PathAgrees(l, m, p, "significant")
      /\ p \in DOMAIN m \cup DOMAIN r => PathAgrees(m, r, p, "significant")
  BY DEF SameOrder, PartAgrees
<1>2. \A a, b, c : SameNode(a, b) /\ SameNode(b, c) => SameNode(a, c)
  BY DEF SameNode
<1> QED
  BY <1>1, <1>2 DEF PathAgrees, InPart

-----------------------------------------------------------------------------
(* Numbers: the sign, the digits without the zeroes at the end and how many     *)
(* these were make up a machine integer.                                       *)

LEMMA LeadingZeroesCut ==
    ASSUME NEW digits \in Digits
    PROVE  /\ LeadingZeroes(digits) \in 0 .. Len(digits)
           /\ \A i \in 1 .. LeadingZeroes(digits) : digits[i] = 0
           /\ LeadingZeroes(digits) < Len(digits) => digits[LeadingZeroes(digits) + 1] # 0
<1> DEFINE S == {n \in 0 .. Len(digits) : \A i \in 1 .. n : digits[i] = 0}
           z == Max(S)
<1>1. Len(digits) \in Nat /\ LeadingZeroes(digits) = z
  BY DEF Digits, LeadingZeroes
<1>2. S \in SUBSET (0 .. Len(digits)) /\ 0 \in S
  BY <1>1
<1>3. z \in S /\ \A n \in S : n <= z
  BY <1>1, <1>2, Greatest
<1> HIDE DEF z
<1>4. ASSUME z < Len(digits), digits[z + 1] = 0 PROVE FALSE
  <2>1. z + 1 \in 0 .. Len(digits) /\ \A i \in 1 .. z + 1 : i \in 1 .. z \/ i = z + 1
    BY <1>1, <1>3, <1>4
  <2>2. z + 1 \in S
    BY <1>3, <1>4, <2>1
  <2> QED
    BY <1>1, <1>3, <2>1, <2>2
<1> QED
  BY <1>1, <1>3, <1>4

LEMMA MagnitudeGrows ==
    ASSUME NEW digits \in Digits, digits # << >>, digits[1] # 0
    PROVE  Magnitude(digits) >= 9 * (Len(digits) - 1) + 1
<1> DEFINE L == Len(digits)
<1>1. L \in Nat /\ L >= 1 /\ \A n \in 1 .. L : digits[n] \in Nat
  BY DEF Digits
<1> HIDE DEF L
<1>2. PICK v : /\ IsValue(v, digits, L) /\ Magnitude(digits) = v[L]
               /\ \A n \in 0 .. L : v[n] \in Nat
  BY MagnitudeUnfolds DEF L
<1>3. \A n \in 0 .. L : v[n] = IF n = 0 THEN 0 ELSE 10 * v[n - 1] + digits[n]
  BY <1>2 DEF IsValue
<1> DEFINE S == {n \in 1 .. L : ~(v[n] >= 9 * (n - 1) + 1)}
<1>4. S = {}
  <2> SUFFICES ASSUME S # {} PROVE FALSE
    OBVIOUS
  <2>1. S \in SUBSET Nat
    BY <1>1
  <2>2. PICK n \in S : \A m \in S : n <= m
    BY <2>1, Least
  <2>3. n \in 1 .. L /\ n - 1 \in 0 .. L /\ n # 0 /\ n \in 0 .. L
    BY <1>1
  <2>4. v[n] = 10 * v[n - 1] + digits[n] /\ v[n - 1] \in Nat /\ digits[n] \in Nat
    BY <1>1, <1>2, <1>3, <2>3
  <2>5. CASE n = 1
    <3>1. v[n] >= 1
      BY <1>1, <2>4, <2>5
    <3> QED
      BY <2>5, <3>1
  <2>6. CASE n # 1
    <3>1. n - 1 \in 1 .. L /\ n - 1 \notin S
      BY <1>1, <2>2, <2>3, <2>6
    <3>2. v[n - 1] >= 9 * ((n - 1) - 1) + 1
      BY <3>1
    <3>3. n >= 2 /\ n \in Nat
      BY <2>3, <2>6
    <3>4. v[n] >= 9 * (n - 1) + 1
      BY <2>4, <3>2, <3>3
    <3> QED
      BY <3>4
  <2> QED
    BY <2>5, <2>6
<1>5. L \in 1 .. L
  BY <1>1
<1> QED
  BY <1>2, <1>4, <1>5 DEF L

LEMMA FewDigits ==
    ASSUME NEW n \in ImportedNumbers
    PROVE  /\ n.integer \in Digits /\ Len(n.integer) \in Nat
           /\ 1 <= Len(n.integer) /\ Len(n.integer) <= MaxI64
           /\ n.integer[1] = 0 <=> n.integer = <<0>>
<1> DEFINE D == n.integer
<1>1. D \in Digits /\ D # << >> /\ (D[1] = 0 => Len(D) = 1) /\ IsMachineInteger(n)
  BY DEF ImportedNumbers, Spellings
<1>2. Len(D) \in Nat /\ Len(D) >= 1 /\ MaxI64 \in Nat /\ MaxI64 >= 1 /\ MaxU64 = 2 * MaxI64 + 1
  BY <1>1, DocumentsOK DEF Digits
<1>3. Magnitude(D) \in Nat /\ Magnitude(D) <= 2 * MaxI64 + 1
  <2>1. Magnitude(D) \in Nat
    BY <1>1, MagnitudeUnfolds
  <2> QED
    BY <1>1, <1>2, <2>1 DEF IsMachineInteger
<1>4. D[1] # 0 => Magnitude(D) >= 9 * (Len(D) - 1) + 1
  BY <1>1, MagnitudeGrows
<1>5. D[1] = 0 <=> D = <<0>>
  <2>1. ASSUME D[1] = 0 PROVE D = <<0>>
    <3>1. Len(D) = 1 /\ D \in Seq(Nat) /\ <<0>> \in Seq(Nat)
      BY <1>1, <2>1 DEF Digits
    <3>2. \A i \in 1 .. Len(D) : D[i] = <<0>>[i]
      BY <2>1, <3>1
    <3> QED
      BY <3>1, <3>2, SeqEqual
  <2> QED
    BY <2>1
<1> HIDE DEF D
<1>6. Len(D) <= MaxI64
  BY <1>1, <1>2, <1>3, <1>4
<1> QED
  BY <1>1, <1>2, <1>5, <1>6 DEF D

LEMMA ReverseIs ==
    ASSUME NEW digits \in Digits
    PROVE  /\ Reverse(digits) \in Digits /\ Len(Reverse(digits)) = Len(digits)
           /\ \A i \in 1 .. Len(digits) : Reverse(digits)[i] = digits[Len(digits) - i + 1]
<1>1. Len(digits) \in Nat /\ \A i \in 1 .. Len(digits) : digits[i] \in 0 .. 9
  BY DEF Digits
<1>2. \A i \in 1 .. Len(digits) : Len(digits) - i + 1 \in 1 .. Len(digits)
  BY <1>1
<1>3. Reverse(digits) = [i \in 1 .. Len(digits) |-> digits[(Len(digits) - i) + 1]]
  BY DEF Reverse
<1>4. Reverse(digits) \in [1 .. Len(digits) -> 0 .. 9]
  BY <1>1, <1>2, <1>3
<1>5. Reverse(digits) \in Seq(0 .. 9) /\ Len(Reverse(digits)) = Len(digits)
  BY <1>1, <1>4
<1> QED
  BY <1>3, <1>5 DEF Digits

(* The number is its coefficient with so many zeroes. *)
IsKey(key, n, zeroes) ==
    /\ zeroes \in Nat /\ zeroes < Len(n.integer)
    /\ \A i \in 1 .. Len(n.integer) : i > Len(n.integer) - zeroes => n.integer[i] = 0
    /\ key = [negative |-> n.negative, exponent |-> zeroes,
              coefficient |-> SubSeq(n.integer, 1, Len(n.integer) - zeroes)]

LEMMA KeyOfNumber ==
    ASSUME NEW n \in ImportedNumbers
    PROVE  IF n.integer = <<0>> THEN DecimalKey(n) = Zero
           ELSE \E zeroes \in Nat : IsKey(DecimalKey(n), n, zeroes)
<1> DEFINE D == n.integer
           cut == SubSeq(D, LeadingZeroes(D) + 1, Len(D))
           trailing == LeadingZeroes(Reverse(cut))
<1>1. /\ D \in Digits /\ Len(D) \in Nat /\ 1 <= Len(D) /\ Len(D) <= MaxI64
      /\ D[1] = 0 <=> D = <<0>>
  BY FewDigits
<1>2. /\ n.fraction = << >> /\ n.exponent = 0
  BY DEF ImportedNumbers, IsMachineInteger
<1>3. D \o n.fraction = D
  BY <1>1, <1>2 DEF Digits
<1>4. n.exponent - Len(n.fraction) = 0
  <2>1. Len(<< >>) = 0
    BY EmptySeq
  <2>2. n.exponent - Len(n.fraction) = 0 - 0
    BY <1>2, <2>1, Zenon
  <2> QED
    BY <2>2
<1>5. MaxI64 \in Nat /\ IsI64(0) /\ IsI64(n.exponent)
  BY <1>2, DocumentsOK DEF IsI64
<1>6. DecimalKey(n) =
          IF cut = << >> THEN Zero
          ELSE IF ~IsI64(0 + trailing) THEN Unsupported
          ELSE [negative |-> n.negative,
                coefficient |-> SubSeq(cut, 1, Len(cut) - trailing),
                exponent |-> 0 + trailing]
  BY <1>3, <1>4, <1>5 DEF DecimalKey
<1>7. /\ LeadingZeroes(D) \in 0 .. Len(D)
      /\ \A i \in 1 .. LeadingZeroes(D) : D[i] = 0
      /\ LeadingZeroes(D) < Len(D) => D[LeadingZeroes(D) + 1] # 0
  BY <1>1, LeadingZeroesCut
<1>8. CASE D = <<0>>
  <2>1. Len(D) = 1 /\ D[1] = 0
    BY <1>8
  <2>2. LeadingZeroes(D) = 1
    BY <1>7, <2>1
  <2>3. cut = << >>
    BY <1>1, <2>1, <2>2 DEF Digits
  <2> QED
    BY <1>6, <1>8, <2>3
<1>9. CASE D # <<0>>
  <2>1. LeadingZeroes(D) = 0
    BY <1>1, <1>7, <1>9
  <2>2. SubSeq(D, 1, Len(D)) = D /\ D # << >>
    BY <1>1 DEF Digits
  <2>3. cut = D
    BY <2>1, <2>2
  <2>4. /\ Reverse(D) \in Digits /\ Len(Reverse(D)) = Len(D)
        /\ \A i \in 1 .. Len(D) : Reverse(D)[i] = D[Len(D) - i + 1]
    BY <1>1, ReverseIs
  <2> DEFINE t == LeadingZeroes(Reverse(D))
  <2>5. t \in 0 .. Len(D) /\ \A i \in 1 .. t : Reverse(D)[i] = 0
    BY <2>4, LeadingZeroesCut
  <2> HIDE DEF t
  <2>6. t # Len(D)
    <3> SUFFICES ASSUME t = Len(D) PROVE FALSE
      OBVIOUS
    <3>1. Reverse(D)[Len(D)] = 0 /\ Len(D) \in 1 .. Len(D)
      BY <1>1, <2>5
    <3>2. Reverse(D)[Len(D)] = D[1]
      <4>1. Len(D) - Len(D) + 1 = 1
        BY <1>1
      <4> QED
        BY <2>4, <3>1, <4>1
    <3> QED
      BY <1>1, <1>9, <3>1, <3>2
  <2>7. ASSUME NEW i \in 1 .. Len(D), i > Len(D) - t PROVE D[i] = 0
    <3>1. Len(D) - i + 1 \in 1 .. t /\ Len(D) - i + 1 \in 1 .. Len(D)
      BY <1>1, <2>5, <2>7
    <3>2. Len(D) - (Len(D) - i + 1) + 1 = i
      BY <1>1
    <3>3. Reverse(D)[Len(D) - i + 1] = D[Len(D) - (Len(D) - i + 1) + 1]
      BY <2>4, <3>1
    <3> QED
      BY <2>5, <3>1, <3>2, <3>3
  <2>8. t \in Nat /\ t < Len(D) /\ 0 + t = t /\ IsI64(t)
    BY <1>1, <1>5, <2>5, <2>6 DEF IsI64
  <2>9. trailing = t
    BY <2>3 DEF t
  <2>10. DecimalKey(n) = [negative |-> n.negative, coefficient |-> SubSeq(D, 1, Len(D) - t),
                          exponent |-> t]
    BY <1>6, <2>2, <2>3, <2>8, <2>9
  <2>11. IsKey(DecimalKey(n), n, t)
    BY <2>7, <2>8, <2>10 DEF IsKey
  <2> QED
    BY <1>9, <2>8, <2>11
<1> QED
  BY <1>8, <1>9

LEMMA KeyIsNeither ==
    ASSUME NEW n \in ImportedNumbers, n.integer[1] # 0, NEW zeroes \in Nat, NEW key,
           IsKey(key, n, zeroes)
    PROVE  key # Zero /\ key # Unsupported
<1> DEFINE D == n.integer
           coefficient == SubSeq(D, 1, Len(D) - zeroes)
<1>1. D \in Seq(0 .. 9) /\ Len(D) \in Nat /\ D[1] # 0 /\ 1 <= Len(D)
  BY FewDigits DEF Digits
<1>2. Len(D) - zeroes \in 1 .. Len(D) /\ key.coefficient = coefficient
  BY <1>1 DEF IsKey
<1>3. Len(coefficient) = Len(D) - zeroes /\ coefficient[1] = D[1]
  BY <1>1, <1>2
<1>4. Zero.coefficient = <<0>> /\ Unsupported.coefficient = << >>
  BY DEF Zero, Unsupported
<1> HIDE DEF coefficient
<1>5. coefficient # <<0>>
  BY <1>1, <1>3
<1>6. coefficient # << >>
  BY <1>2, <1>3
<1> QED
  BY <1>2, <1>4, <1>5, <1>6

LEMMA KeysAreExact ==
    ASSUME NEW a \in ImportedNumbers, NEW b \in ImportedNumbers
    PROVE  DecimalKey(a) = DecimalKey(b) <=> a = b
<1>1. ASSUME NEW n \in ImportedNumbers
      PROVE  /\ n = [negative |-> n.negative, integer |-> n.integer,
                     fraction |-> << >>, exponent |-> 0]
             /\ n.negative \in BOOLEAN /\ (n.negative => n.integer # <<0>>)
             /\ n.integer \in Seq(0 .. 9)
  BY DEF ImportedNumbers, IsMachineInteger, Spellings, Digits
<1> SUFFICES ASSUME DecimalKey(a) = DecimalKey(b) PROVE a = b
  OBVIOUS
<1>2. a.integer = <<0>> <=> b.integer = <<0>>
  BY FewDigits, KeyOfNumber, KeyIsNeither
<1>3. CASE a.integer = <<0>>
  <2>1. a.integer = b.integer /\ a.negative = b.negative
    BY <1>1, <1>2, <1>3
  <2> QED
    BY <1>1, <2>1
<1>4. CASE a.integer # <<0>>
  <2> DEFINE D == a.integer  E == b.integer
  <2>1. PICK t \in Nat : IsKey(DecimalKey(a), a, t)
    BY <1>4, KeyOfNumber
  <2>2. PICK u \in Nat : IsKey(DecimalKey(a), b, u)
    BY <1>2, <1>4, KeyOfNumber
  <2>3. /\ t = DecimalKey(a).exponent /\ u = DecimalKey(a).exponent
        /\ a.negative = DecimalKey(a).negative /\ b.negative = DecimalKey(a).negative
        /\ SubSeq(D, 1, Len(D) - t) = DecimalKey(a).coefficient
        /\ SubSeq(E, 1, Len(E) - u) = DecimalKey(a).coefficient
    BY <2>1, <2>2 DEF IsKey
  <2>4. t = u /\ a.negative = b.negative /\ SubSeq(D, 1, Len(D) - t) = SubSeq(E, 1, Len(E) - t)
    BY <2>3
  <2>5. /\ D \in Seq(0 .. 9) /\ E \in Seq(0 .. 9) /\ Len(D) \in Nat /\ Len(E) \in Nat
        /\ t < Len(D) /\ t < Len(E)
        /\ \A i \in 1 .. Len(D) : i > Len(D) - t => D[i] = 0
        /\ \A i \in 1 .. Len(E) : i > Len(E) - t => E[i] = 0
    BY <1>1, <2>1, <2>2, <2>4 DEF IsKey
  <2> HIDE DEF D, E
  <2>6. /\ Len(SubSeq(D, 1, Len(D) - t)) = Len(D) - t
        /\ Len(SubSeq(E, 1, Len(E) - t)) = Len(E) - t
        /\ \A i \in 1 .. Len(D) - t : SubSeq(D, 1, Len(D) - t)[i] = D[i]
        /\ \A i \in 1 .. Len(E) - t : SubSeq(E, 1, Len(E) - t)[i] = E[i]
    BY <2>5
  <2>7. Len(D) = Len(E)
    BY <2>4, <2>5, <2>6
  <2>8. ASSUME NEW i \in 1 .. Len(D) PROVE D[i] = E[i]
    <3>1. CASE i > Len(D) - t
      BY <2>5, <2>7, <3>1
    <3>2. CASE ~(i > Len(D) - t)
      <4>1. i \in 1 .. Len(D) - t /\ i \in 1 .. Len(E) - t
        BY <2>5, <2>7, <3>2
      <4> QED
        BY <2>4, <2>6, <4>1
    <3> QED
      BY <3>1, <3>2
  <2>9. D = E
    BY <2>5, <2>7, <2>8, SeqEqual
  <2> QED
    BY <1>1, <2>4, <2>9 DEF D, E
<1> QED
  BY <1>3, <1>4

LEMMA NodeIsItsNumber ==
    ASSUME NEW d \in Payloads, NEW p \in DOMAIN d, d[p][1] = "number"
    PROVE  d[p][2] \in ImportedNumbers /\ d[p] = <<"number", d[p][2]>>
BY DocumentPaths DEF IsImportedNode, IsNode

LEMMA NodesCompared ==
    ASSUME NEW d \in Payloads, NEW e \in Payloads, NEW p \in DOMAIN d, NEW q \in DOMAIN e
    PROVE  d[p] = e[q] <=> SameNode(d[p], e[q])
<1>1. CASE d[p][1] = "number" /\ e[q][1] = "number"
  BY <1>1, NodeIsItsNumber, KeysAreExact DEF SameNode
<1>2. CASE ~(d[p][1] = "number" /\ e[q][1] = "number")
  BY <1>2 DEF SameNode
<1> QED
  BY <1>1, <1>2

(* decimal_key refuses no number the importer lets through: what is a number    *)
(* in a payload has few digits and no exponent.                               *)
LEMMA ComparisonCannotFail ==
    ASSUME NEW l \in Payloads, NEW r \in Payloads
    PROVE  Comparisons(l, r) = {CompareOrders(l, r)}
<1>1. ASSUME NEW n \in ImportedNumbers PROVE DecimalKey(n) # Unsupported
  <2>1. Zero # Unsupported
    BY DEF Zero, Unsupported
  <2> QED
    BY <2>1, FewDigits, KeyOfNumber, KeyIsNeither
<1>2. ~MayFail(l, r)
  BY <1>1, NodeIsItsNumber DEF MayFail
<1> QED
  BY <1>2 DEF Comparisons

-----------------------------------------------------------------------------
(* Publications in a row *)

Inv ==
    /\ first \in Payloads /\ previous \in Payloads /\ changed \in BOOLEAN
    /\ ~changed => SameOrder(first, previous)

LEMMA Initially == Init => Inv
BY SameOrderIsReflexive DEF Init, Inv, Payloads

LEMMA Publishing == Inv /\ [Next]_vars => Inv'
<1> SUFFICES ASSUME Inv, [Next]_vars PROVE Inv'
  OBVIOUS
<1>1. CASE Republish
  <2>1. PICK order \in Payloads :
            /\ previous' = order /\ relation' \in Comparisons(previous, order)
            /\ changed' = (changed \/ relation' = "CHANGED") /\ first' = first
    BY <1>1 DEF Republish, Payloads
  <2>2. changed' \in BOOLEAN
    BY <2>1
  <2>3. ASSUME ~changed' PROVE SameOrder(first, order)
    <3>1. relation' = CompareOrders(previous, order)
      BY <2>1, ComparisonCannotFail DEF Inv
    <3>2. ~changed /\ CompareOrders(previous, order) # "CHANGED"
      BY <2>1, <2>3, <3>1
    <3>3. SameOrder(first, previous) /\ SameOrder(previous, order)
      BY <3>2, ChangedIsNotSame DEF Inv
    <3> QED
      BY <3>3, SameOrderIsTransitive DEF Inv
  <2> QED
    BY <2>1, <2>2, <2>3 DEF Inv
<1>2. CASE UNCHANGED vars
  BY <1>2 DEF vars, Inv
<1> QED
  BY <1>1, <1>2 DEF Next

LEMMA Invariance == Spec => []Inv
BY Initially, Publishing, PTL DEF Spec

(* D1 compares an order with the publication just before it (rules.rs): what   *)
(* the first publication and the latest one differ in was reported as CHANGED  *)
(* at some step between, however deep the payloads and whatever they do to     *)
(* what the profile excludes or does not know.                                *)
THEOREM ChangeIsReported == Spec => []ChangeIsNotHidden
<1>1. Inv => ChangeIsNotHidden
  BY ChangedIsNotSame DEF Inv, ChangeIsNotHidden
<1> QED
  BY <1>1, Invariance, PTL

-----------------------------------------------------------------------------
(* The relation is the one of the parts *)

LEMMA PartsCompared ==
    ASSUME NEW l \in Payloads, NEW r \in Payloads, NEW class
    PROVE  Part(l, class) = Part(r, class) <=> PartAgrees(l, r, Root, class)
<1> DEFINE Paths(d) == {p \in DOMAIN d : ClassOf(d, p) = class}
<1>1. \A d \in Payloads : Part(d, class) = [p \in Paths(d) |-> d[p]]
  BY DEF Part
<1>2. \A d \in Payloads : \A p : p \in Paths(d) <=> InPart(d, p, class)
  BY DEF InPart
<1>3. \A p \in DOMAIN l \cup DOMAIN r : IsPrefix(Root, p)
  <2>1. \A p \in Seq(Name) : IsPrefix(Root, p)
    <3> SUFFICES ASSUME NEW p \in Seq(Name) PROVE IsPrefix(Root, p)
      OBVIOUS
    <3>1. Len(Root) = 0 /\ Len(p) \in Nat /\ SubSeq(Root, 1, 0) = << >> /\ SubSeq(p, 1, 0) = << >>
      BY SubSeqEmpty DEF Root
    <3> QED
      BY <3>1 DEF IsPrefix
  <2> QED
    BY <2>1, DocumentPaths
<1> HIDE DEF Paths
<1>4. ASSUME Part(l, class) = Part(r, class) PROVE PartAgrees(l, r, Root, class)
  <2>1. Paths(l) = Paths(r) /\ \A p \in Paths(l) : l[p] = r[p]
    BY <1>1, <1>4
  <2>2. \A p \in Paths(l) : p \in DOMAIN l /\ p \in DOMAIN r
    BY <1>2, <2>1 DEF InPart
  <2>3. \A p \in Paths(l) : SameNode(l[p], r[p])
    BY <2>1, <2>2, NodesCompared
  <2> QED
    BY <1>2, <2>1, <2>3 DEF PartAgrees, PathAgrees
<1>5. ASSUME PartAgrees(l, r, Root, class) PROVE Part(l, class) = Part(r, class)
  <2>1. \A p \in DOMAIN l \cup DOMAIN r : PathAgrees(l, r, p, class)
    BY <1>3, <1>5 DEF PartAgrees
  <2>2. \A p : InPart(l, p, class) <=> InPart(r, p, class)
    BY <2>1 DEF PathAgrees, InPart
  <2>3. Paths(l) = Paths(r)
    BY <1>2, <2>2
  <2>4. \A p \in Paths(l) : p \in DOMAIN l /\ p \in DOMAIN r /\ SameNode(l[p], r[p])
    BY <1>2, <2>1, <2>2 DEF PathAgrees, InPart
  <2>5. \A p \in Paths(l) : l[p] = r[p]
    BY <2>4, NodesCompared
  <2> QED
    BY <1>1, <2>3, <2>5
<1> QED
  BY <1>4, <1>5

LEMMA RelationIsExact ==
    ASSUME NEW l \in Payloads, NEW r \in Payloads
    PROVE  CompareOrders(l, r) = Relation(ContentOf(l), ContentOf(r))
<1>1. PICK summary : /\ CompareOrders(l, r) = SemanticRelation(summary)
                     /\ Exact(summary, l, r, Root)
  BY OrdersCompared
<1>2. /\ Part(l, "significant") = Part(r, "significant") <=> PartAgrees(l, r, Root, "significant")
      /\ Part(l, "unknown") = Part(r, "unknown") <=> PartAgrees(l, r, Root, "unknown")
  BY PartsCompared
<1>3. /\ ContentOf(l).control = Part(l, "significant") /\ ContentOf(l).extension = Part(l, "unknown")
      /\ ContentOf(r).control = Part(r, "significant") /\ ContentOf(r).extension = Part(r, "unknown")
  BY DEF ContentOf
<1> QED
  BY <1>1, <1>2, <1>3 DEF Exact, SemanticRelation, Relation

(* compare_semantic's answer is the one the profile gives of two imported       *)
(* payloads, whatever their size, depth and numbers: CHANGED when their         *)
(* significant parts differ, UNKNOWN when only what the profile does not know   *)
(* does, and no error in place of either.                                     *)
THEOREM ComparisonHolds == Spec => ComparisonIsExact
<1>1. ASSUME Inv, [Next]_vars
      PROVE  [relation' = Relation(ContentOf(previous), ContentOf(previous'))]_vars
  <2>1. CASE Republish
    <3>1. PICK order \in Payloads : previous' = order /\ relation' \in Comparisons(previous, order)
      BY <2>1 DEF Republish, Payloads
    <3>2. relation' = Relation(ContentOf(previous), ContentOf(order))
      BY <1>1, <3>1, RelationIsExact, ComparisonCannotFail DEF Inv
    <3> QED
      BY <3>1, <3>2
  <2> QED
    BY <1>1, <2>1 DEF Next
<1> QED
  BY <1>1, Invariance, PTL DEF Spec, ComparisonIsExact

-----------------------------------------------------------------------------
(* The graph check *)

LEMMA IdIsNatural ==
    ASSUME NEW d \in Payloads, NEW path, IsU64(d, path)
    PROVE  AsU64(d, path) \in Nat
<1>1. IsImportedNode(d[path]) /\ d[path][1] = "number"
  BY DocumentPaths DEF IsU64
<1>2. d[path][2].integer \in Digits
  BY <1>1 DEF IsImportedNode, IsNode, ImportedNumbers, Spellings
<1> QED
  BY <1>2, MagnitudeUnfolds DEF AsU64

LEMMA SaturatingAddIsExact ==
    ASSUME NEW a \in Nat, NEW b \in Nat, a + b <= MaxU64
    PROVE  SaturatingAdd(a, b) = a + b
<1>1. MaxU64 \in Nat
  BY DocumentsOK
<1>2. Min({a + b, MaxU64}) \in {a + b, MaxU64} /\ \A y \in {a + b, MaxU64} : Min({a + b, MaxU64}) <= y
  BY <1>1, Least
<1> QED
  BY <1>1, <1>2 DEF SaturatingAdd

IdIs(d, name, i, n) == IsU64(d, Sequence(name, i)) /\ AsU64(d, Sequence(name, i)) = n

EndsAgree(d, i) ==
    /\ NamesAgree(d, Append(Element("nodes", i), "nodeId"),
                     Append(Element("edges", i), "startNodeId"))
    /\ NamesAgree(d, Append(Element("nodes", i + 1), "nodeId"),
                     Append(Element("edges", i), "endNodeId"))

LEMMA StitchIsNext ==
    ASSUME NEW d \in Payloads, NEW i \in Nat \ {0}, NEW n \in Nat, n + 2 <= MaxU64,
           IdIs(d, "nodes", i, n)
    PROVE  Stitches(d, i) <=>
               /\ IdIs(d, "nodes", i + 1, n + 2) /\ IdIs(d, "edges", i, n + 1)
               /\ EndsAgree(d, i)
<1>1. MaxU64 \in Nat
  BY DocumentsOK
<1>2. SaturatingAdd(n, 2) = n + 2 /\ SaturatingAdd(n, 1) = n + 1
  BY <1>1, SaturatingAddIsExact
<1> QED
  BY <1>2 DEF Stitches, IdIs, EndsAgree

LEMMA StitchesAreContiguous ==
    ASSUME NEW d \in Payloads, NEW m \in Nat \ {0}, NEW n \in Nat, n + 2 * m <= MaxU64,
           IdIs(d, "nodes", 1, n)
    PROVE  (\A i \in 1 .. m : Stitches(d, i)) <=>
               /\ \A i \in 1 .. m + 1 : IdIs(d, "nodes", i, n + 2 * (i - 1))
               /\ \A i \in 1 .. m : IdIs(d, "edges", i, n + 2 * i - 1) /\ EndsAgree(d, i)
<1>1. MaxU64 \in Nat
  BY DocumentsOK
<1>2. ASSUME NEW i \in 1 .. m, IdIs(d, "nodes", i, n + 2 * (i - 1))
      PROVE  Stitches(d, i) <=>
                 /\ IdIs(d, "nodes", i + 1, n + 2 * i)
                 /\ IdIs(d, "edges", i, n + 2 * i - 1) /\ EndsAgree(d, i)
  <2> DEFINE k == n + 2 * (i - 1)
  <2>1. k \in Nat /\ k + 2 = n + 2 * i /\ k + 1 = n + 2 * i - 1 /\ k + 2 <= MaxU64
    BY <1>1
  <2>2. i \in Nat \ {0} /\ IdIs(d, "nodes", i, k)
    BY <1>2
  <2> HIDE DEF k
  <2>3. Stitches(d, i) <=>
            /\ IdIs(d, "nodes", i + 1, k + 2) /\ IdIs(d, "edges", i, k + 1)
            /\ EndsAgree(d, i)
    BY <2>1, <2>2, StitchIsNext
  <2> QED
    BY <2>1, <2>3
<1>3. ASSUME \A i \in 1 .. m : Stitches(d, i)
      PROVE  \A i \in 1 .. m + 1 : IdIs(d, "nodes", i, n + 2 * (i - 1))
  <2> DEFINE S == {i \in 1 .. m + 1 : ~IdIs(d, "nodes", i, n + 2 * (i - 1))}
  <2> SUFFICES ASSUME S # {} PROVE FALSE
    OBVIOUS
  <2>1. S \in SUBSET Nat
    OBVIOUS
  <2>2. PICK i \in S : \A j \in S : i <= j
    BY <2>1, Least
  <2>3. i # 1
    <3>1. n + 2 * (1 - 1) = n
      OBVIOUS
    <3>2. ~IdIs(d, "nodes", i, n + 2 * (i - 1))
      OBVIOUS
    <3> QED
      BY <3>1, <3>2
  <2>4. i - 1 \in 1 .. m /\ i - 1 \notin S
    BY <2>2, <2>3
  <2>5. IdIs(d, "nodes", i - 1, n + 2 * ((i - 1) - 1)) /\ Stitches(d, i - 1)
    BY <1>3, <2>4
  <2>6. IdIs(d, "nodes", (i - 1) + 1, n + 2 * (i - 1))
    BY <1>2, <2>4, <2>5
  <2>7. (i - 1) + 1 = i
    OBVIOUS
  <2> QED
    BY <2>6, <2>7
<1>4. ASSUME \A i \in 1 .. m : Stitches(d, i)
      PROVE  \A i \in 1 .. m : IdIs(d, "edges", i, n + 2 * i - 1) /\ EndsAgree(d, i)
  BY <1>2, <1>3, <1>4
<1>5. ASSUME \A i \in 1 .. m + 1 : IdIs(d, "nodes", i, n + 2 * (i - 1)),
             \A i \in 1 .. m : IdIs(d, "edges", i, n + 2 * i - 1) /\ EndsAgree(d, i)
      PROVE  \A i \in 1 .. m : Stitches(d, i)
  <2> SUFFICES ASSUME NEW i \in 1 .. m PROVE Stitches(d, i)
    OBVIOUS
  <2>1. i \in 1 .. m + 1 /\ i + 1 \in 1 .. m + 1 /\ n + 2 * ((i + 1) - 1) = n + 2 * i
    OBVIOUS
  <2>2. IdIs(d, "nodes", i, n + 2 * (i - 1)) /\ IdIs(d, "nodes", i + 1, n + 2 * ((i + 1) - 1))
    BY <1>5, <2>1
  <2>3. IdIs(d, "nodes", i + 1, n + 2 * i)
    BY <2>1, <2>2
  <2> QED
    BY <1>2, <1>5, <2>2, <2>3
<1> QED
  BY <1>3, <1>4, <1>5

LEMMA ContiguousIsAccepted == Inv => GraphCheckIsExact
<1> SUFFICES ASSUME NEW d \in Payloads, previous = d PROVE GraphCheckIsExact
  BY DEF Inv
<1> DEFINE nodes == d[<<"nodes">>][2]
           edges == d[<<"edges">>][2]
           FirstId == AsU64(d, Sequence("nodes", 1))
           Contiguous ==
               /\ \A i \in 1 .. nodes : IdIs(d, "nodes", i, FirstId + 2 * (i - 1))
               /\ \A i \in 1 .. edges :
                      IdIs(d, "edges", i, FirstId + 2 * i - 1) /\ EndsAgree(d, i)
<1>1. GraphCheckIsExact <=>
          ((/\ IsArray(d, <<"nodes">>) /\ IsArray(d, <<"edges">>)
            /\ ~(nodes > 1 /\ IsU64(d, Sequence("nodes", 1)) /\ FirstId + 2 * edges > MaxU64))
           => (~GraphIsInconsistent(d) <=>
                  \/ nodes <= 1 /\ edges = 0
                  \/ /\ nodes > 1 /\ edges + 1 = nodes
                     /\ IsU64(d, Sequence("nodes", 1)) /\ Contiguous))
  BY DEF GraphCheckIsExact, IdIs, EndsAgree
<1> SUFFICES ASSUME IsArray(d, <<"nodes">>), IsArray(d, <<"edges">>),
                    ~(nodes > 1 /\ IsU64(d, Sequence("nodes", 1)) /\ FirstId + 2 * edges > MaxU64)
             PROVE  ~GraphIsInconsistent(d) <=>
                        \/ nodes <= 1 /\ edges = 0
                        \/ /\ nodes > 1 /\ edges + 1 = nodes
                           /\ IsU64(d, Sequence("nodes", 1)) /\ Contiguous
  BY <1>1
<1>2. nodes \in Nat /\ edges \in Nat /\ MaxU64 \in Nat
  BY DocumentPaths, DocumentsOK DEF IsArray, IsImportedNode, IsNode
<1>3. ~GraphIsInconsistent(d) <=>
          IF nodes < 2 THEN edges = 0
          ELSE edges + 1 = nodes /\ \A i \in 1 .. nodes - 1 : Stitches(d, i)
  BY DEF GraphIsInconsistent
<1> HIDE DEF nodes, edges
<1>4. CASE nodes < 2
  BY <1>2, <1>3, <1>4
<1>5. CASE nodes > 1 /\ edges + 1 = nodes /\ IsU64(d, Sequence("nodes", 1))
  <2>1. FirstId \in Nat
    BY <1>5, IdIsNatural
  <2>2. edges \in Nat \ {0} /\ FirstId + 2 * edges <= MaxU64 /\ nodes - 1 = edges
    BY <1>2, <1>5, <2>1
  <2>3. IdIs(d, "nodes", 1, FirstId)
    BY <1>5 DEF IdIs
  <2> HIDE DEF FirstId
  <2>4. (\A i \in 1 .. edges : Stitches(d, i)) <=>
            /\ \A i \in 1 .. edges + 1 : IdIs(d, "nodes", i, FirstId + 2 * (i - 1))
            /\ \A i \in 1 .. edges : IdIs(d, "edges", i, FirstId + 2 * i - 1) /\ EndsAgree(d, i)
    BY <2>1, <2>2, <2>3, StitchesAreContiguous
  <2>5. (\A i \in 1 .. edges : Stitches(d, i)) <=> Contiguous
    BY <1>5, <2>4
  <2>6. ~GraphIsInconsistent(d) <=> \A i \in 1 .. edges : Stitches(d, i)
    <3>1. ~(nodes < 2)
      BY <1>2, <1>5
    <3> QED
      BY <1>3, <1>5, <2>2, <3>1
  <2>7. ~(nodes <= 1)
    BY <1>2, <1>5
  <2> HIDE DEF Contiguous
  <2> QED
    BY <1>5, <2>5, <2>6, <2>7
<1>6. CASE nodes > 1 /\ ~(edges + 1 = nodes /\ IsU64(d, Sequence("nodes", 1)))
  <2>1. ~(nodes < 2) /\ ~(nodes <= 1) /\ 1 \in 1 .. nodes - 1
    BY <1>2, <1>6
  <2>2. Stitches(d, 1) => IsU64(d, Sequence("nodes", 1))
    BY DEF Stitches
  <2> HIDE DEF FirstId, Contiguous
  <2> QED
    BY <1>3, <1>6, <2>1, <2>2
<1> QED
  BY <1>2, <1>4, <1>5, <1>6

(* The pairwise check of D2 (graph_is_inconsistent) accepts exactly the graphs *)
(* of any length whose nodes and edges take turns with consecutive sequence    *)
(* ids and agree on the names, unless the ids reach the largest one.           *)
THEOREM GraphsAreJudged == Spec => []GraphCheckIsExact
BY ContiguousIsAccepted, Invariance, PTL
=============================================================================
