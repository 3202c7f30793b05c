------------------------------ MODULE MCConsole ------------------------------
(***************************************************************************)
(* Instances of ConsolePages for TLC.                                      *)
(***************************************************************************)
EXTENDS ConsolePages

CONSTANTS a, b, c, n1, n2, n3, t1, g1

\* The documents: one proxy, the same with a comment, and one with no name.
Plain     == <<Line("head", ""), Line("name", "a"), Line("type", "tcp"), Line("remotePort", "22")>>
Commented == <<Line("head", ""), Line("name", "a"), Line("type", "tcp"), Line("comment", "")>>
Pair      == {Plain, Commented}
StoredDoc == a :> Plain @@ b :> Commented
Nameless(doc) == \E i \in DOMAIN doc : doc[i] = Line("name", "")

\* Pasted into the form of a new instance: its own fields and foreign lines.
Foreigner == <<Line("addr", "a"), Line("port", "7000"), Line("comment", ""), Line("log", ""),
               Line("head", ""), Line("name", "ssh"), Line("type", "tcp")>>
Pastes    == {Foreigner, FormText}

\* The node of each instance, and the order of a list.
HostOfEach  == a :> n1 @@ b :> n2 @@ c :> n2
LineOfEach == a :> 1 @@ b :> 2 @@ c :> 3
OneView    == 1 :> [name |-> "a", filters |-> [EmptyFilters EXCEPT !.tag = t1]]
FirstOnly  == {1}
ThreeNodes == <<n1, n2, n3>>

\* Jobs and groups differ in nothing but their names.
Alike == Permutations(TestJobs) \cup Permutations(TestGroups)

\* How many things the user does on a page, and requests on their way.
DeedsOf ==
    [editor |-> 5, workspace |-> 4, detail |-> 5, create |-> 8, library |-> 3, views |-> 5,
     import |-> 5, bulk |-> 5, discovery |-> 5, jobs |-> 5, test |-> 3, nodes |-> 3, lb |-> 3, candidates |-> 4]
WireOf ==
    [editor |-> 2, workspace |-> 2, detail |-> 3, create |-> 3, library |-> 3, views |-> 3,
     import |-> 2, bulk |-> 2, discovery |-> 2, jobs |-> 1, test |-> 2, nodes |-> 2, lb |-> 2, candidates |-> 3]

\* The bulk panel alone, one deed further.
MoreDeeds == [DeedsOf EXCEPT !.bulk = 6]
=============================================================================
