------------------------------ MODULE Analysis ------------------------------
(***************************************************************************)
(* The architecture page of the web app and of the mobile app: a plan is   *)
(* uploaded, and the file is polled until its analysis is over. The        *)
(* analysis itself is the backend's: pending, analyzing, then completed or *)
(* failed; nothing says that it starts.                                    *)
(***************************************************************************)
EXTENDS Naturals, FiniteSets

CONSTANTS
  AnalysisApps,   \* of "web" and "mobile"
  MaxPlans,       \* bound on the plans uploaded
  MaxPolls,       \* 30 attempts, or 90 seconds
  MaxErrors       \* bound on the polls that fail

ASSUME AnalysisConstants ==
  AnalysisApps \subseteq {"web", "mobile"} /\ MaxPlans \in Nat /\ MaxPolls \in Nat \ {0} /\ MaxErrors \in Nat

VARIABLES
  app,         \* whose page it is
  plans,       \* backend: the status of each plan's analysis, or "none"
  handlers,    \* the upload handlers under way
  uploading, analyzing,   \* uploading, analyzing (polling on mobile)
  shownPlan,   \* result (the card on mobile): the plan on the screen, or 0
  shownAs,     \* the status it is shown with, or "nothing"
  errorShown,  \* error
  missedPolls   \* polls that failed so far

analysisVars == <<app, plans, handlers, uploading, analyzing, shownPlan, shownAs, errorShown, missedPolls>>

Plans    == 1 .. MaxPlans
Over     == {"completed", "failed"}
\* The analysis is written with its last status, in one update: "completed" has a result.
AnalysisStates == {"pending", "analyzing"} \cup Over
Handler  == [plan : Plans, st : {"upload", "wait", "poll"}, polls : 0 .. MaxPolls]

AnalysisTypeOK ==
  /\ plans \in [Plans -> AnalysisStates \cup {"none"}]
  /\ handlers \subseteq Handler
  /\ shownPlan \in 0 .. MaxPlans
  /\ shownAs \in {"nothing"} \cup AnalysisStates
  /\ errorShown \in BOOLEAN
  /\ missedPolls \in 0 .. MaxErrors
  /\ uploading => \E h \in handlers : h.st = "upload"

AnalysisInit ==
  /\ app \in AnalysisApps
  /\ plans = [p \in Plans |-> "none"] /\ handlers = {}
  /\ uploading = FALSE /\ analyzing = FALSE
  /\ shownPlan = 0 /\ shownAs = "nothing" /\ errorShown = FALSE /\ missedPolls = 0

----------------------------------------------------------------------------

Fresh == {p \in Plans : plans[p] = "none" /\ \A h \in handlers : h.plan # p}

\* The web drop zone is there unless a result or an analysis is shown, also while
\* a plan is being uploaded; the mobile button is disabled meanwhile.
MayUpload ==
  IF app = "web" THEN ~analyzing /\ shownPlan = 0 ELSE ~uploading /\ ~analyzing

\* The web page takes the last result away; the app keeps its card until the upload ends.
Upload(p) ==
  /\ MayUpload /\ p \in Fresh
  /\ handlers' = handlers \cup {[plan |-> p, st |-> "upload", polls |-> 0]}
  /\ uploading' = TRUE /\ errorShown' = FALSE
  /\ IF app = "web" THEN shownPlan' = 0 /\ shownAs' = "nothing" ELSE UNCHANGED <<shownPlan, shownAs>>
  /\ UNCHANGED <<app, plans, analyzing, missedPolls>>

\* The app's picker is closed without a file.
PickNothing ==
  /\ app = "mobile" /\ MayUpload /\ errorShown /\ errorShown' = FALSE
  /\ UNCHANGED <<app, plans, handlers, uploading, analyzing, shownPlan, shownAs, missedPolls>>

\* The file is stored. The web page polls at once, the app shows the new plan and polls
\* after an interval.
Uploaded(h) ==
  /\ h.st = "upload"
  /\ plans' = [plans EXCEPT ![h.plan] = "pending"]
  /\ handlers' = (handlers \ {h}) \cup {[h EXCEPT !.st = IF app = "web" THEN "poll" ELSE "wait"]}
  /\ uploading' = FALSE /\ analyzing' = TRUE
  /\ IF app = "web" THEN UNCHANGED <<shownPlan, shownAs>> ELSE shownPlan' = h.plan /\ shownAs' = "pending"
  /\ UNCHANGED <<app, errorShown, missedPolls>>

\* What is on the screen stays there. On the web page the failure also takes the spinner
\* of another plan's analysis away.
UploadFails(h) ==
  /\ h.st = "upload" /\ handlers' = handlers \ {h}
  /\ uploading' = FALSE /\ errorShown' = TRUE
  /\ IF app = "web" THEN analyzing' = FALSE ELSE UNCHANGED analyzing
  /\ UNCHANGED <<app, plans, shownPlan, shownAs, missedPolls>>

\* setTimeout.
NextPoll(h) ==
  /\ h.st = "wait" /\ handlers' = (handlers \ {h}) \cup {[h EXCEPT !.st = "poll"]}
  /\ UNCHANGED <<app, plans, uploading, analyzing, shownPlan, shownAs, errorShown, missedPolls>>

\* What ends the polling: the web page knows the two last statuses, the app takes
\* whatever it does not know as the last one.
StopsPolling(status) == IF app = "web" THEN status \in Over ELSE status \notin {"pending", "processing"}

TimeUp(h) == h.polls + 1 = MaxPolls

\* Mutant of AfterPoll: the page gives up and leaves its spinner up.
AfterPollSilent(h) ==
  /\ handlers' = (handlers \ {h}) \cup
       {g \in {[h EXCEPT !.st = "wait", !.polls = IF TimeUp(h) THEN @ ELSE @ + 1]} : ~TimeUp(h)}
  /\ UNCHANGED <<analyzing, errorShown>>

\* Another poll after an interval, unless the time is up.
AfterPoll(h) ==
  IF TimeUp(h) THEN handlers' = handlers \ {h} /\ analyzing' = FALSE /\ errorShown' = TRUE
  ELSE /\ handlers' = (handlers \ {h}) \cup {[h EXCEPT !.st = "wait", !.polls = @ + 1]}
       /\ UNCHANGED <<analyzing, errorShown>>

\* The app shows every status it gets; the web page a result, and an error where the
\* analysis failed.
PollAnswered(h) ==
  /\ h.st = "poll"
  /\ IF StopsPolling(plans[h.plan])
     THEN /\ handlers' = handlers \ {h} /\ analyzing' = FALSE
          /\ errorShown' = (errorShown \/ (app = "web" /\ plans[h.plan] = "failed"))
     ELSE AfterPoll(h)
  /\ IF app = "mobile" \/ plans[h.plan] = "completed"
     THEN shownPlan' = h.plan /\ shownAs' = plans[h.plan]
     ELSE UNCHANGED <<shownPlan, shownAs>>
  /\ UNCHANGED <<app, plans, uploading, missedPolls>>

\* A poll fails. The app goes on. On the web page the error of the first poll, which
\* is awaited, ends the analysis; that of a later one is caught by nobody.
PollFails(h) ==
  /\ h.st = "poll" /\ missedPolls < MaxErrors /\ missedPolls' = missedPolls + 1
  /\ IF app = "mobile" THEN AfterPoll(h) /\ UNCHANGED uploading
     ELSE /\ handlers' = handlers \ {h}
          /\ IF h.polls = 0
             THEN uploading' = FALSE /\ analyzing' = FALSE /\ errorShown' = TRUE
             ELSE UNCHANGED <<uploading, analyzing, errorShown>>
  /\ UNCHANGED <<app, plans, shownPlan, shownAs>>

\* The web page's button under a result and under an error.
Another ==
  /\ app = "web" /\ (shownPlan # 0 \/ errorShown)
  /\ shownPlan' = 0 /\ shownAs' = "nothing" /\ errorShown' = FALSE
  /\ UNCHANGED <<app, plans, handlers, uploading, analyzing, missedPolls>>

\* External: the agent takes the plan up, and is done with it.
Analyze(p) ==
  /\ \/ plans[p] = "pending" /\ plans' = [plans EXCEPT ![p] = "analyzing"]
     \/ plans[p] = "analyzing" /\ \E s \in Over : plans' = [plans EXCEPT ![p] = s]
  /\ UNCHANGED <<app, handlers, uploading, analyzing, shownPlan, shownAs, errorShown, missedPolls>>

AnalysisNext ==
  \/ \E p \in Plans : Upload(p) \/ Analyze(p)
  \/ \E h \in handlers : Uploaded(h) \/ UploadFails(h) \/ NextPoll(h) \/ PollAnswered(h) \/ PollFails(h)
  \/ PickNothing \/ Another

\* Requests are answered and timers fire.
AnalysisFairness ==
  /\ WF_analysisVars(\E h \in handlers : Uploaded(h) \/ UploadFails(h))
  /\ WF_analysisVars(\E h \in handlers : NextPoll(h))
  /\ WF_analysisVars(\E h \in handlers : PollAnswered(h))

AnalysisSpec == AnalysisInit /\ [][AnalysisNext]_analysisVars

----------------------------------------------------------------------------
(* Properties. *)

\* An upload and its polling come to an end, however slow the analysis is, unless
\* a poll of the web page fails.
AnalysisEnds ==
  (uploading \/ analyzing) ~> ((~uploading /\ ~analyzing) \/ (app = "web" /\ missedPolls > 0))

\* A page that has stopped polling, and shows no error, shows how the analysis ended:
\* architecture.tsx:30-32, "Surfaces the analysis result when ready".
ResultIsFinal ==
  ~analyzing /\ ~uploading /\ ~errorShown /\ shownPlan # 0 => shownAs \in Over

============================================================================
