---- MODULE MCObservedJob ----
EXTENDS ObservedJob

(* Update ids 0 and 1, and an order without one. *)
AllUpdates == {<<0>>, <<1>>, Unknown}

OneUpdate == {<<0>>}

TwoUpdates == {<<0>>, <<1>>}

Content(control, extension, broken) ==
    [control |-> control, extension |-> extension, broken |-> broken]

(* A content, one that differs in what the profile holds significant, ...      *)
TwoContents == {Content("a", "x", FALSE), Content("b", "x", FALSE)}

(* ... one that differs in an extension only and has an inconsistent graph.   *)
AllContents == TwoContents \cup {Content("a", "y", TRUE)}
====
