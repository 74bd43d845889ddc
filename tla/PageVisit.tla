-------------------------------- MODULE PageVisit --------------------------------
(***************************************************************************)
(* How the extension carries out one Discovery task in the user's Chrome   *)
(* (discovery-executor.ts): a tab of its own behind a redirect guard, or a *)
(* request of the service worker.  Chrome's calls are answered in any      *)
(* order and may never be; the task is cancelled or times out at any       *)
(* moment, also while a tab is being created, moved or guarded.            *)
(*                                                                         *)
(* This is what a loop of BrowserTasks does with a task it has leased; the *)
(* names are chosen so that one module can extend both.                    *)
(*                                                                         *)
(* A definition whose name ends in "Mutant" is not part of the             *)
(* specification: it is the named definition with one plausible bug.       *)
(***************************************************************************)

CONSTANT Modes   \* "http": http_request; "page": rendered_page; and
                 \* "job", a rendered_page that needs a window of its own

ASSUME PageVisitAssumption == Modes \subseteq {"http", "page", "job"}

VARIABLES
  mode,     \* the kind of task
  step,     \* the await executeDiscoveryBrowserTask is at
  aborted,  \* controller.signal.aborted
  known,    \* tabId # null
  ruled,    \* ruleIds is not empty
  hears,    \* the navigation listener is registered
  result,   \* what it returns
  calls,    \* calls that Chrome has not answered
  tab,      \* the tab it created
  page,     \* what that shows
  rules     \* the redirect guard is among the session rules

visit == <<mode, step, aborted, known, ruled, hears, result>>
browser == <<calls, tab, page, rules>>
visitVars == <<visit, browser>>

Finished == {"closing", "clearing", "over"}

(* Type correctness.  Chrome is asked only for what is awaited, and for    *)
(* what was awaited when the visit ended.                                  *)
VisitTypeOK ==
  /\ mode \in Modes
  /\ step \in {"start", "fetch", "create", "guard", "move", "navigate", "probe", "snapshot"}
              \cup Finished
  /\ {aborted, known, ruled, hears, rules} \subseteq BOOLEAN
  /\ result \in {"none", "succeeded", "failed", "unsafe_redirect"}
  /\ calls \subseteq {"create", "guard", "move", "navigate", "close", "clear",
                      "close late", "clear late"}
  /\ step \in {"create", "guard", "move", "navigate"} <=>
       step \notin Finished /\ calls # {}
  /\ tab \in {"none", "open", "closed"}
  /\ page \in {"blank", "loading", "source", "elsewhere"}

VisitInit ==
  /\ mode \in Modes
  /\ step = "start" /\ aborted = FALSE
  /\ known = FALSE /\ ruled = FALSE /\ hears = FALSE
  /\ result = "none"
  /\ calls = {} /\ tab = "none" /\ page = "blank" /\ rules = FALSE

-------------------------------------------------------------------------------
(* The finally block.  The tab is closed before its guard is removed.      *)

CloseMutant(pending) ==
  /\ step' = IF known THEN "closing" ELSE IF ruled THEN "clearing" ELSE "over"
  /\ calls' = pending \cup (IF known THEN {"close"} ELSE {}) \cup (IF ruled THEN {"clear"} ELSE {})

Close(pending) ==
  /\ step' = IF known THEN "closing" ELSE IF ruled THEN "clearing" ELSE "over"
  /\ calls' = pending \cup (IF known THEN {"close"} ELSE IF ruled THEN {"clear"} ELSE {})

End(outcome, pending) ==
  /\ result' = outcome
  /\ hears' = FALSE
  /\ Close(pending)
  /\ UNCHANGED <<mode, known, ruled>>

Closed ==
  /\ "close" \in calls /\ calls' = (calls \ {"close"}) \cup (IF ruled THEN {"clear"} ELSE {})
  /\ step' = IF ruled THEN "clearing" ELSE "over"
  \* Chrome may refuse to close a tab that it is moving.
  /\ tab' \in IF "move" \in calls THEN {"closed", tab} ELSE {"closed"}
  /\ UNCHANGED <<mode, aborted, known, ruled, hears, result, page, rules>>

Cleared ==
  /\ "clear" \in calls /\ calls' = calls \ {"clear"}
  /\ step' = "over"
  /\ rules' = FALSE
  /\ UNCHANGED <<mode, aborted, known, ruled, hears, result, tab, page>>

-------------------------------------------------------------------------------
(* The visit, from one await to the next.                                  *)

Working == step \notin Finished /\ ~aborted

AsksMutant(next) == step' = next /\ calls' = calls \cup ({next} \cap {"create", "guard", "move", "navigate"})

(* The awaited call is done, and `next` is awaited.                        *)
Asks(next) == step' = next /\ calls' = (calls \ {step}) \cup ({next} \cap {"create", "guard", "move", "navigate"})

(* An unsupported host, and a signal that was aborted before, end it.      *)
Start ==
  /\ step = "start"
  /\ \/ Asks(IF mode = "http" THEN "fetch" ELSE "create") /\ UNCHANGED <<mode, known, ruled, hears, result>>
     \/ End("failed", calls)
  /\ UNCHANGED <<aborted, tab, page, rules>>

Fetched ==
  /\ step = "fetch" /\ Working
  /\ \E outcome \in {"succeeded", "failed", "unsafe_redirect"} : End(outcome, calls)
  /\ UNCHANGED <<aborted, tab, page, rules>>

TabCreatedMutant ==
  /\ "create" \in calls
  /\ tab' = "open" /\ known' = TRUE
  /\ IF step = "create" THEN Asks("guard") /\ hears' = TRUE /\ ruled' = TRUE
     ELSE calls' = calls \ {"create"} /\ UNCHANGED <<step, hears, ruled>>
  /\ UNCHANGED <<mode, aborted, result, page, rules>>

(* A tab that was created after the end is closed at once.                 *)
TabCreated ==
  /\ "create" \in calls
  /\ tab' = "open" /\ known' = TRUE
  /\ IF step = "create" THEN Asks("guard") /\ hears' = TRUE /\ ruled' = TRUE
     ELSE calls' = (calls \ {"create"}) \cup {"close late"} /\ UNCHANGED <<step, hears, ruled>>
  /\ UNCHANGED <<mode, aborted, result, page, rules>>

(* A guard that was installed after the end is removed again.              *)
RulesInstalled ==
  /\ "guard" \in calls
  /\ rules' = TRUE
  /\ IF step = "guard" THEN Asks(IF mode = "job" THEN "move" ELSE "navigate")
     ELSE calls' = (calls \ {"guard"}) \cup {"clear late"} /\ UNCHANGED step
  /\ UNCHANGED <<mode, aborted, known, ruled, hears, result, tab, page>>

(* A tab that was moved after the end is closed again.                     *)
TabMoved ==
  /\ "move" \in calls
  /\ IF step = "move" THEN Asks("navigate")
     ELSE calls' = (calls \ {"move"}) \cup {"close late"} /\ UNCHANGED step
  /\ UNCHANGED <<mode, aborted, known, ruled, hears, result, tab, page, rules>>

Navigated ==
  /\ "navigate" \in calls
  /\ page' = IF tab = "open" THEN "loading" ELSE page
  /\ IF step = "navigate" THEN Asks("probe") ELSE calls' = calls \ {"navigate"} /\ UNCHANGED step
  /\ UNCHANGED <<mode, aborted, known, ruled, hears, result, tab, rules>>

Probed ==
  /\ step = "probe" /\ Working
  /\ tab = "open" /\ page = "source"
  /\ Asks("snapshot")
  /\ UNCHANGED <<mode, aborted, known, ruled, hears, result, tab, page, rules>>

(* The snapshot of the content script, if it is of the task's origin.      *)
Snapshot ==
  /\ step = "snapshot" /\ Working
  /\ tab = "open"
  /\ \E outcome \in {"succeeded", "failed"} :
       End(IF outcome = "succeeded" /\ page = "elsewhere" THEN "unsafe_redirect" ELSE outcome, calls)
  /\ UNCHANGED <<aborted, tab, page, rules>>

(* A call of Chrome fails, also one that nobody waits for any more: the    *)
(* cleanup that goes with it runs all the same.                            *)
CallFails(call) ==
  /\ call \in calls \cap {"create", "guard", "move", "navigate"}
  /\ IF step = call
     THEN End("failed", calls \ {call})
     ELSE /\ calls' = (calls \ {call}) \cup
               (CASE call = "guard" -> {"clear late"} [] call = "move" -> {"close late"} [] OTHER -> {})
          /\ UNCHANGED <<mode, step, known, ruled, hears, result>>
  /\ UNCHANGED <<aborted, tab, page, rules>>

LateClosed ==
  /\ "close late" \in calls /\ calls' = calls \ {"close late"}
  /\ tab' = "closed"
  /\ UNCHANGED <<visit, page, rules>>

LateCleared ==
  /\ "clear late" \in calls /\ calls' = calls \ {"clear late"}
  /\ rules' = FALSE
  /\ UNCHANGED <<visit, tab, page>>

AbortVisitMutant ==
  /\ Working /\ step \notin {"start", "create"}
  /\ aborted' = TRUE
  /\ End("failed", calls)
  /\ UNCHANGED <<tab, page, rules>>

(* Cancelled through options.signal, or task.timeoutMs are over.           *)
AbortVisit ==
  /\ Working /\ step # "start"
  /\ aborted' = TRUE
  /\ End("failed", calls)
  /\ UNCHANGED <<tab, page, rules>>

-------------------------------------------------------------------------------
(* Chrome, which is outside of the repository.                             *)

Loads ==
  /\ tab = "open" /\ page = "loading"
  /\ page' = "source"
  /\ UNCHANGED <<visit, calls, tab, rules>>

(* The page turns to another origin: the guard blocks the request before   *)
(* it is sent, and the listener hears of it.                               *)
Redirects ==
  /\ tab = "open" /\ page \in {"loading", "source"}
  /\ page' = IF rules THEN page ELSE "elsewhere"
  /\ IF rules /\ hears /\ Working
     THEN aborted' = TRUE /\ End("unsafe_redirect", calls)
     ELSE UNCHANGED <<visit, calls>>
  /\ UNCHANGED <<tab, rules>>

NavigationFails ==
  /\ tab = "open" /\ page \in {"loading", "source"} /\ hears /\ Working
  /\ aborted' = TRUE
  /\ End("failed", calls)
  /\ UNCHANGED <<tab, page, rules>>

UserCloses ==
  /\ tab = "open"
  /\ tab' = "closed"
  /\ UNCHANGED <<visit, calls, page, rules>>

-------------------------------------------------------------------------------
Answers ==
  \/ TabCreated \/ RulesInstalled \/ TabMoved \/ Navigated
  \/ \E call \in calls : CallFails(call)

Cleanup == Closed \/ Cleared \/ LateClosed \/ LateCleared

VisitNext ==
  \/ Start \/ Fetched \/ Probed \/ Snapshot \/ AbortVisit
  \/ Answers \/ Cleanup
  \/ Loads \/ Redirects \/ NavigationFails \/ UserCloses

(* The timer is set before the first call, and Chrome answers a request to *)
(* close a tab or to remove rules.  Of its other answers nothing is        *)
(* assumed.                                                                *)
VisitSpec ==
  /\ VisitInit /\ [][VisitNext]_visitVars
  /\ WF_visitVars(Start) /\ WF_visitVars(AbortVisit) /\ WF_visitVars(Cleanup)

-------------------------------------------------------------------------------
(* Properties.                                                             *)

(* When a visit is over and Chrome has answered everything, its tab is     *)
(* closed and no rule or listener of it is left, however late a tab, a     *)
(* guard or a window came into being.                                      *)
LeavesNothing ==
  step = "over" /\ calls = {} => tab # "open" /\ ~rules /\ ~hears

(* The tab never navigates to an origin that was not validated: it goes    *)
(* nowhere before the guard is there, and the guard stays as long as the   *)
(* tab.  The guard is on its main frame; what a page fetches is its own    *)
(* business.                                                               *)
StaysAtSource == page # "elsewhere"

(* Every visit ends, also when Chrome does not answer a call of it.        *)
VisitEnds == <>(step = "over")

===============================================================================
