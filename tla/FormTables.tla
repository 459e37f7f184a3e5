----------------------------- MODULE FormTables -----------------------------
(***************************************************************************)
(* The forms of the web, admin and mobile apps, as records that Forms runs.*)
(*                                                                         *)
(* load.when    "none": the form starts blank; "hidden": it is not there   *)
(*              until its first load has ended; "beside": it is there from *)
(*              the start, with defaults                                   *)
(* load.again   what loads it once more: "token", "focus", "saved"         *)
(* load.spares  what an answer leaves alone: "none", the "whole" form once *)
(*              something is edited, or each edited "field"                *)
(* load.query   react-query: one load at a time, an unchanged answer is    *)
(*              not shown again                                            *)
(* gate.steps   one field per step, and Next waits for it ("gated"), or    *)
(*              does not ("open"), or there is one step ("one")            *)
(* gate.checks  required fields are checked when it is submitted           *)
(* gate.loaded, gate.edited   the button waits for a load, for an edit     *)
(* gate.resets, gate.hints, gate.instant   a reset button, a suggestion to *)
(*              take over, a field that is saved when it is changed        *)
(* save.sends   "all" fields or those "edited";  save.makes: each save     *)
(*              creates something                                          *)
(* save.ok      "stay", show the "answer", "close", "clear" or "leave"     *)
(* save.bad     "stay" or "close";  save.cleans: a success clears the      *)
(*              edits, and save.reverts shows the old copy meanwhile       *)
(***************************************************************************)

NoLoad == [when |-> "none", again |-> {}, spares |-> "none", query |-> FALSE]

OneStep == [steps |-> "one", checks |-> TRUE, loaded |-> FALSE, edited |-> FALSE,
            resets |-> FALSE, hints |-> FALSE, instant |-> FALSE]

Saving(ok) == [sends |-> "all", makes |-> FALSE, ok |-> ok, bad |-> "stay",
               cleans |-> FALSE, reverts |-> FALSE]

Form(load, gate, save) == [load |-> load, gate |-> gate, save |-> save]

\* A form that starts blank, is checked, and is gone after a success.
Blank(ok) == Form(NoLoad, OneStep, Saving(ok))
Making(f) == [f EXCEPT !.save.makes = TRUE]

----------------------------------------------------------------------------
(* Admin. *)

\* The settings are there, with defaults, before the server's are; what the server
\* has is merged over the defaults when it changes, whatever was edited.
SettingsLoad == [when |-> "beside", again |-> {"focus", "saved"}, spares |-> "none", query |-> TRUE]
SettingsGate == [OneStep EXCEPT !.checks = FALSE, !.resets = TRUE]
SettingsForm == Form(SettingsLoad, SettingsGate, Saving("stay"))

AdminLogin     == Blank("leave")
CreateAdminForm == Making(Blank("close"))
CreateBuildingForm == Making(Blank("close"))

----------------------------------------------------------------------------
(* Web: accounts. *)

\* Role, details, preferences; the route changes after the flag has come down.
OnboardingGate == [OneStep EXCEPT !.steps = "gated", !.checks = FALSE, !.hints = TRUE]
OnboardingForm == Form(NoLoad, OnboardingGate, Saving("leave"))

SignupForm         == Making(Blank("leave"))
ResetPasswordForm  == Blank("close")
ChangePasswordForm == Blank("close")
ForgotPasswordForm == [Blank("close") EXCEPT !.save.bad = "close"]
ResendForm         == Blank("close")
JoinBuildingForm   == Blank("close")
ManagerBuildingForm == Making(Blank("close"))

----------------------------------------------------------------------------
(* Web: profiles. *)

\* The personal fields are an overlay of edits, kept after the save as well.
PersonalLoad == [when |-> "beside", again |-> {"saved"}, spares |-> "field", query |-> TRUE]
PersonalGate == [OneStep EXCEPT !.checks = FALSE, !.loaded = TRUE, !.edited = TRUE]
PersonalForm == Form(PersonalLoad, PersonalGate, [Saving("stay") EXCEPT !.sends = "edited"])

\* The notification toggles start from defaults; clearing the dirty flag shows the
\* copy from before the save until the profile is loaded again.
TogglesLoad == [PersonalLoad EXCEPT !.spares = "whole"]
TogglesForm ==
  Form(TogglesLoad, PersonalGate,
       [Saving("stay") EXCEPT !.cleans = TRUE, !.reverts = TRUE])

PasswordForm == Blank("clear")

\* A contractor's record, loaded again, over the edits, with every new access token.
ContractorLoad == [when |-> "hidden", again |-> {"token"}, spares |-> "none", query |-> FALSE]
ContractorSave == [Saving("answer") EXCEPT !.cleans = TRUE]
ContractorForm ==
  Form(ContractorLoad, [OneStep EXCEPT !.loaded = TRUE, !.edited = TRUE], ContractorSave)

\* The preferences spare what was edited; they can be saved though nothing came.
ContractorTogglesLoad == [ContractorLoad EXCEPT !.spares = "whole"]
ContractorTogglesForm ==
  Form(ContractorTogglesLoad, [OneStep EXCEPT !.checks = FALSE],
       [Saving("stay") EXCEPT !.cleans = TRUE])

\* The steps of a new offer: Next checks the step's fields, submit all of them.
OfferStepsGate == [OneStep EXCEPT !.steps = "gated"]
OfferForm      == Making(Form(NoLoad, OfferStepsGate, Saving("leave")))

----------------------------------------------------------------------------
(* Mobile. *)

\* Switches and the language are saved as they are changed, over the loaded profile.
MobileProfileLoad == [when |-> "hidden", again |-> {}, spares |-> "field", query |-> TRUE]
MobileProfileForm ==
  Form(MobileProfileLoad, [OneStep EXCEPT !.checks = FALSE, !.instant = TRUE],
       [Saving("answer") EXCEPT !.sends = "edited"])

\* The profile's record, blank when it could not be loaded.
MobileContractorLoad == [when |-> "hidden", again |-> {}, spares |-> "none", query |-> FALSE]
MobileContractorForm ==
  Form(MobileContractorLoad, [OneStep EXCEPT !.checks = FALSE], Saving("answer"))

MobileOfferForm      == Making(Blank("leave"))
MobileOnboardingForm == Form(NoLoad, OnboardingGate, Saving("leave"))
MobileLogin          == Blank("leave")
MobileSignup         == Making(Blank("leave"))
MobileForgotPassword == Blank("close")
MobileResetPassword  == Blank("close")
MobileResend         == Blank("close")
MobileJoinBuilding   == Blank("close")

----------------------------------------------------------------------------

LoadingForms == {SettingsForm, PersonalForm, TogglesForm, ContractorForm, ContractorTogglesForm,
                 MobileProfileForm, MobileContractorForm}
BlankForms   == {AdminLogin, CreateAdminForm, CreateBuildingForm, OnboardingForm, SignupForm,
                 ResetPasswordForm, ChangePasswordForm, ForgotPasswordForm, ResendForm,
                 JoinBuildingForm, ManagerBuildingForm, PasswordForm, OfferForm,
                 MobileOfferForm, MobileOnboardingForm, MobileLogin, MobileSignup,
                 MobileForgotPassword, MobileResetPassword, MobileResend, MobileJoinBuilding}

AllForms == LoadingForms \cup BlankForms

=============================================================================
