---------------------------- MODULE ConsolePages ----------------------------
(***************************************************************************)
(* The Console's user interface: its pages, of which the router mounts one *)
(* (App.tsx).  A behaviour is about one page from when it is mounted on;   *)
(* what a page leaves behind for its next visit is part of that page's     *)
(* state.  The properties below join those of the pages by the promise     *)
(* they make; the ones that stand alone are in the pages' modules.         *)
(***************************************************************************)
EXTENDS ConfigEditor, Workspace, InstancePage, CreateInstance, ServerLibrary, SavedViews,
        ServerImport, ServerBulk, Discovery, JobsPanel, TestCreate, TestNodes, LbPage,
        Candidates

ConsoleInit ==
    \/ EditorInit \/ WorkInit \/ DetailInit \/ CreateInit \/ LibraryInit \/ ViewsInit
    \/ ImportInit \/ BulkInit \/ DiscoveryInit \/ JobsPanelInit \/ TestCreateInit
    \/ TestNodesInit \/ LbInit \/ CandidatesInit

ConsoleNext ==
    \/ Shows("editor")    /\ EditorNext
    \/ Shows("workspace") /\ WorkNext
    \/ Shows("detail")    /\ DetailNext
    \/ Shows("create")    /\ CreateNext
    \/ Shows("library")   /\ LibraryNext
    \/ Shows("views")     /\ ViewsNext
    \/ Shows("import")    /\ ImportNext
    \/ Shows("bulk")      /\ BulkNext
    \/ Shows("discovery") /\ DiscoveryNext
    \/ Shows("jobs")      /\ JobsPanelNext
    \/ Shows("test")      /\ TestCreateNext
    \/ Shows("nodes")     /\ TestNodesNext
    \/ Shows("lb")        /\ LbNext
    \/ Shows("candidates") /\ CandidatesNext

ConsoleSpec == ConsoleInit /\ [][ConsoleNext]_pageVars

----------------------------------------------------------------------------
(* What is on the screen answers the question the screen asks: the proxies  *)
(* are those of the instance in the heading, the failed rows those of the   *)
(* import that is shown, the servers those of the query, the tasks those of *)
(* the filter, the DNS records those of the domain in the address, the      *)
(* servers offered to a domain those of the search; the number on the       *)
(* button that freezes all matches counted the filter it would freeze.      *)
AnswersBelong ==
    /\ ProxiesOfShown /\ RowsOfShown /\ ListAnswersItsQuery /\ FreezeCountsFilter
    /\ DetailOfItsFilter /\ RecordsOfInspected /\ RowsAnswerTheQuestion

(* What is read for each line of a list follows the list: the systems are   *)
(* those of the nodes of now, and each of the first visible instances has   *)
(* its summary or one that will be used is on the way.                      *)
LinesAreRead == SystemsFitNodes /\ SummariesComing

(* An operation is about what the user chose, although what there is to     *)
(* choose from is read again under the form: the node of a new instance,    *)
(* the servers of a test.                                                   *)
ChoiceIsKept == NodeIsExplained /\ ChosenIsTested

(* What the user confirmed once is done once: an import, a change of the    *)
(* ticked servers and a test, over lost answers and repeated attempts.      *)
SubmittedOnce == ImportedOnce /\ ChosenChangedOnce /\ TestedOnce

(* A control that says its operation runs is right: the mark of an instance *)
(* never stays when nothing is on the way that would take it, and those of  *)
(* a domain's sync and of changes to its candidates neither stay longer nor *)
(* go earlier than their requests and the reads behind them.  (The          *)
(* operations on one instance share one mark, which the first to end takes: *)
(* that an instance without a mark has no operation is not said.)           *)
MarksAreInFlight == PendingIsInFlight /\ SyncingIsInFlight /\ PoolMarksAreInFlight

(* Neither the list of proxies nor the form of a new instance drops a line  *)
(* of the document it does not understand.                                  *)
ForeignKept == [][ForeignLinesKept /\ FormKeepsForeign]_pageVars

(* What the user edits while an answer is on its way is not overwritten by  *)
(* the answer: the filters of a view, the order of the test nodes.          *)
DraftsKept == [][EditsSurviveCreate /\ PolicyDraftKept]_pageVars

(* An answer takes no tick from what it is not about, and a test that is    *)
(* made of the ticks tests all of them.                                     *)
TicksKept ==
    [][RecordTicksKept /\ JobTicksKept /\ CandidateTicksKept /\ TickedIsTested]_pageVars
=============================================================================
