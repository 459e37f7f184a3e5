------------------------------ MODULE MCPages ------------------------------
(* Instances of Pages and of Forms for TLC: one page, or one form, at a time. *)
EXTENDS Pages, AdminPages, WebPages, MobilePages, Forms

CONSTANT r1

\* What stays when nothing runs on it is one of the screens too.
ASSUME ScreensConstants == BuildingPage \in Pages /\ SettingsForm \in FormRows

VARIABLE screen   \* "page" or "form": what is on the screen; the other stays as it is

AllPages == AdminApp \cup WebApp \cup MobileApp

screenVars == <<vars, formVars, screen>>

\* A page, and a form, with nothing under way.
NoPage ==
  /\ page = BuildingPage /\ key = "all"
  /\ db = [r \in Rows |-> Absent] /\ was = [r \in Rows |-> {Absent}]
  /\ cache = [s \in Slots |-> None]
  /\ gets = {} /\ jobs = {} /\ busy = {} /\ mine = {}
  /\ open = None /\ erred = FALSE /\ events = 0
NoForm == FormsInit /\ form = SettingsForm

ScreensInit ==
  \/ screen = "page" /\ Init /\ NoForm
  \/ screen = "form" /\ NoPage /\ FormsInit

ScreensNext ==
  \/ screen = "page" /\ Next /\ UNCHANGED <<formVars, screen>>
  \/ screen = "form" /\ FormsNext /\ UNCHANGED <<vars, screen>>

ScreensSpec ==
  ScreensInit /\ [][ScreensNext]_screenVars /\ Fairness /\ FormsFairness

\* Types of both.
ScreensTypeOK == TypeOK /\ FormsTypeOK

\* No failure leaves a control disabled: not a page's, not a form's.
ButtonsComeBack == BusyEnds /\ FormEnds

============================================================================
