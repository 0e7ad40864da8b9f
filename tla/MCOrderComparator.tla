---- MODULE MCOrderComparator ----
EXTENDS OrderComparator

(* Documents put together from smaller ones *)

Leaf(node) == [p \in {<< >>} |-> node]

Text(s) == Leaf(<<"string", s>>)

Object(fields) ==
    LET paths == UNION {{<<k>> \o p : p \in DOMAIN fields[k]} : k \in DOMAIN fields}
    IN [p \in paths \cup {<< >>} |->
            IF p = << >> THEN <<"object">> ELSE fields[Head(p)][Tail(p)]]

Array(elements) ==
    LET fields == [k \in {ToString(i - 1) : i \in DOMAIN elements} |->
                       elements[CHOOSE i \in DOMAIN elements : ToString(i - 1) = k]]
    IN [Object(fields) EXCEPT ![<< >>] = <<"array", Len(elements)>>]

Spelled(negative, integer, fraction, exponent) ==
    Leaf(<<"number", [negative |-> negative, integer |-> integer,
                      fraction |-> fraction, exponent |-> exponent]>>)

Number(n) == Spelled(FALSE, IF n < 10 THEN <<n>> ELSE <<n \div 10, n % 10>>, << >>, 0)

-----------------------------------------------------------------------------
Action(value) ==
    Object([actionId |-> Text("pick"),
            actionParameters |-> Array(<<Object([key |-> Text("load"), value |-> value])>>)])

Node(id, n) == [nodeId |-> Text(id), sequenceId |-> Number(n)]

Order(nodes, edges, more) ==
    Object([orderId |-> Text("o"), nodes |-> nodes, edges |-> edges] @@ more)

Plain(node, more) == Order(Array(<<Object(Node("a", 0) @@ node)>>), Array(<< >>), more)

NoMore == [k \in {} |-> 0]

(* Headers and extensions, of the order and of a node, with the names of known *)
(* fields at a place that is not theirs. *)
Headers == {NoMore, [headerId |-> Number(1)]}

Extensions == {NoMore, [x |-> Object([headerId |-> Number(1)])]}

ExtensionOrders ==
    {Plain(n, h @@ e) : n \in Extensions, h \in Headers, e \in Extensions}
    \cup {Plain(NoMore, [x |-> Number(1)])}

(* What the value of an action parameter may be. *)
Values ==
    {Text("v"), Leaf(<<"literal", "null">>), Object([x |-> Number(1)]), Object([x |-> Number(2)]),
     Array(<<Text("v")>>)}

ActionOrders == {Plain([actions |-> Array(<<Action(v)>>)], NoMore) : v \in Values}

(* 1 and 1.0, 10 and 1e1, 0 and -0, 11, -1. *)
SpelledNumbers ==
    {Number(1), Spelled(FALSE, <<1>>, <<0>>, 0), Number(10), Spelled(FALSE, <<1>>, << >>, 1),
     Number(0), Spelled(TRUE, <<0>>, << >>, 0), Number(11), Spelled(TRUE, <<1>>, << >>, 0)}

(* An integer that is too large, and an exponent. *)
LimitNumbers == {Number(20), Spelled(FALSE, <<1>>, << >>, 10)}

Positioned(numbers) == {Plain([nodePosition |-> Object([x |-> n])], NoMore) : n \in numbers}

PositionOrders == Positioned(SpelledNumbers \cup LimitNumbers)

(* The same at a place no schema has, and below the value of a parameter. *)
OtherPlaces ==
    {Plain([x |-> n], NoMore) : n \in {Number(1), Spelled(FALSE, <<1>>, <<0>>, 0)}}
    \cup {Plain([actions |-> Array(<<Action(n)>>)], NoMore) :
            n \in {Spelled(FALSE, <<1>>, <<0>>, 0), Spelled(FALSE, <<2>>, <<5>>, 0)}}

(* Graphs of two nodes and of three, and sequence ids at the limit. *)
Edge(n, start) == Object([sequenceId |-> n, startNodeId |-> Text(start)])

Pair(s, e, t, name) ==
    Order(Array(<<Object(Node("a", s)), Object(Node("b", t))>>),
          Array(<<Edge(Number(e), name)>>), NoMore)

(* An edge with a trajectory through one point. *)
Curved(point) ==
    Order(Array(<<Object(Node("a", 0)), Object(Node("b", 2))>>),
          Array(<<Object([sequenceId |-> Number(1),
                          trajectory |-> Object([controlPoints |-> Array(<<point>>)])])>>),
          NoMore)

CurvedOrders ==
    {Curved(Object([x |-> Number(1)])), Curved(Object([x |-> Number(2)])),
     Curved(Object([y |-> Number(1)]))}

Pairs ==
    {Pair(0, 1, 2, "a"), Pair(0, 1, 2, "b"), Pair(0, 2, 2, "a"), Pair(0, 1, 3, "a"),
     Pair(17, 18, 19, "a"), Pair(18, 19, 19, "a")}

(* A sequence id beyond the largest. *)
TooLarge ==
    {Order(Array(<<Object(Node("a", 20)), Object(Node("b", 19))>>),
           Array(<<Edge(Number(19), "a")>>), NoMore)}

Triples ==
    {Order(Array(<<Object(Node("a", 0)), Object(Node("b", 2)), Object(Node("c", t))>>),
           Array(<<Edge(e, "a"), Edge(Number(3), "b")>>), NoMore) :
        e \in {Number(1), Spelled(FALSE, <<1>>, <<0>>, 0)}, t \in {3, 4}}

(* Shapes no schema allows. *)
OddOrders ==
    {Object([orderId |-> Text("o")]), Order(Array(<< >>), Array(<<Edge(Number(1), "a")>>), NoMore),
     Order(Text("none"), Array(<< >>), NoMore),
     Order(Object([k \in {"0"} |-> Object(Node("a", 0))]), Array(<< >>), NoMore),
     Order(Array(<<Text("a")>>), Array(<< >>), NoMore)}

AllOrders ==
    ExtensionOrders \cup ActionOrders \cup PositionOrders \cup Pairs \cup Triples
    \cup OtherPlaces \cup CurvedOrders \cup TooLarge \cup OddOrders
====
