-------------------------------- MODULE Forms --------------------------------
(***************************************************************************)
(* A form of the front ends: what the user types, the loads that fill it   *)
(* in, now and again, and the saves that send it. One form at a time, any  *)
(* of FormRows, from the time it is on the screen until it is left.        *)
(***************************************************************************)
EXTENDS Naturals, FiniteSets, FormTables

CONSTANTS
  FormRows,    \* form records
  MaxStamp,    \* bound on the values typed, by the user and by others
  MaxSaves,    \* bound on the saves sent
  MaxUpsets    \* bound on failures, lost answers and reloads

ASSUME FormConstants ==
  MaxStamp \in Nat \ {0} /\ MaxSaves \in Nat \ {0} /\ MaxUpsets \in Nat

\* A form that starts blank is never loaded, and is sent whole; one of several steps is
\* gone after a success; one that saves each field as it is changed spares what was
\* edited; one that goes back to its old copy stays on the screen.
ASSUME FormShapes ==
  \A f \in FormRows :
    /\ f.load.when \in {"none", "hidden", "beside"} /\ f.load.spares \in {"none", "whole", "field"}
    /\ f.load.when = "none" => f.load.again = {} /\ f.save.sends = "all" /\ ~f.gate.instant
    /\ f.load.when = "hidden" => f.save.ok # "clear"
    /\ f.gate.steps # "one" =>
         f.load.when = "none" /\ ~f.gate.resets /\ f.save.ok \in {"close", "leave"}
    /\ f.gate.instant =>
         f.load.spares # "none" /\ ~f.save.cleans /\ ~f.save.reverts /\ f.save.ok # "clear"
    /\ f.save.makes => ~f.gate.instant
    /\ f.save.reverts => f.save.ok = "stay"

VARIABLES
  form,     \* the form
  record,   \* backend: its fields; 0 is a default, or blank
  typed,    \* the fields on the screen
  copy,     \* the last answer the screen has been given
  edited,   \* fields the form knows to be edited
  came,     \* the loads: "due", "ok" once one has come, "failed"
  asks,     \* loads under way
  saving,     \* the button's flag
  saves,    \* saves under way
  sent,     \* saves sent so far
  made,     \* saves the backend has carried out
  stage,    \* "open", "leaving" until the route changes, "closed"
  step,     \* the wizard's step
  hint,     \* the suggestion: "none", "asked", "shown"
  stamp,    \* values typed so far
  upsets,   \* upsets so far
  wrote,    \* history: typed by the user, no save under way, and not saved yet; or 0
  missed,   \* history: the first load failed
  unsaid    \* history: saves carried out whose answer was lost

formVars == <<form, record, typed, copy, edited, came, asks, saving, saves, sent, made, stage, step, hint,
              stamp, upsets, wrote, missed, unsaid>>

Fields == {1, 2}
Value  == 0 .. MaxStamp
Filling == [Fields -> Value]
Nothing == [f \in Fields |-> 0]
Ask    == [id : 1 .. 2, st : {"asked", "answered"}, vals : Filling]
Save   == [id : 1 .. MaxSaves, st : {"sent", "accepted", "failed"}, vals : Filling, of : SUBSET Fields]

FormsTypeOK ==
  /\ form \in FormRows
  /\ {record, typed, copy, wrote} \subseteq Filling
  /\ edited \subseteq Fields
  /\ asks \subseteq Ask /\ \A a, b \in asks : a.id = b.id => a = b
  /\ saves \subseteq Save
  /\ {saving, missed} \subseteq BOOLEAN
  /\ came \in {"due", "ok", "failed"} /\ hint \in {"none", "asked", "shown"}
  /\ stage \in {"open", "leaving", "closed"} /\ step \in Fields

Loaded  == form.load.when # "none"
Wizard == form.gate.steps # "one"
Upset  == upsets < MaxUpsets /\ upsets' = upsets + 1

FormsInit ==
  /\ form \in FormRows
  /\ stamp = IF Loaded THEN 1 ELSE 0
  /\ record = [f \in Fields |-> stamp]
  /\ typed = Nothing /\ copy = Nothing /\ edited = {} /\ wrote = Nothing
  /\ came = "due" /\ saving = FALSE
  /\ asks = IF Loaded THEN {[id |-> 1, st |-> "asked", vals |-> Nothing]} ELSE {}
  /\ saves = {} /\ sent = 0 /\ made = 0 /\ unsaid = 0 /\ missed = FALSE
  /\ stage = "open" /\ step = 1 /\ hint = "none" /\ upsets = 0

----------------------------------------------------------------------------
(* Loaded. *)

\* Mutant of Spared: an answer spares nothing.
SparedNever(f) == FALSE

\* What an answer leaves as it is.
Spared(f) ==
  \/ form.load.spares = "whole" /\ edited # {}
  \/ form.load.spares = "field" /\ f \in edited

Refilled(vals) == [f \in Fields |-> IF Spared(f) THEN typed[f] ELSE vals[f]]
StillEdited   == IF form.load.spares = "none" THEN {} ELSE edited

LoadRead ==
  \E a \in asks :
    /\ a.st = "asked"
    /\ asks' = (asks \ {a}) \cup {[a EXCEPT !.st = "answered", !.vals = record]}
    /\ UNCHANGED <<form, record, typed, copy, edited, came, saving, saves, sent, made, stage, step, hint,
                   stamp, upsets, wrote, missed, unsaid>>

LoadShown ==
  \E a \in asks :
    /\ a.st = "answered" /\ asks' = asks \ {a}
    /\ came' = "ok" /\ copy' = a.vals
    /\ IF form.load.query /\ came = "ok" /\ a.vals = copy
       THEN UNCHANGED <<typed, edited>>
       ELSE typed' = Refilled(a.vals) /\ edited' = StillEdited
    /\ UNCHANGED <<form, record, saving, saves, sent, made, stage, step, hint, stamp, upsets, wrote, missed, unsaid>>

LoadLost ==
  \E a \in asks :
    /\ Upset /\ asks' = asks \ {a}
    /\ came' = IF came = "ok" THEN "ok" ELSE "failed"
    /\ missed' = (missed \/ came = "due")
    /\ UNCHANGED <<form, record, typed, copy, edited, saving, saves, sent, made, stage, step, hint,
                   stamp, wrote, unsaid>>

\* asks, with one load more: react-query makes one at a time.
Asking ==
  IF asks # {} /\ (form.load.query \/ Cardinality(asks) = 2) THEN asks
  ELSE asks \cup {[id |-> CHOOSE i \in 1 .. 2 : \A a \in asks : a.id # i, st |-> "asked", vals |-> Nothing]}

\* The window gets the focus, or the session another access token.
LoadAgain ==
  /\ form.load.again \cap {"focus", "token"} # {}
  /\ stage = "open" /\ Upset /\ Asking # asks /\ asks' = Asking
  /\ UNCHANGED <<form, record, typed, copy, edited, came, saving, saves, sent, made, stage, step, hint,
                 stamp, wrote, missed, unsaid>>

----------------------------------------------------------------------------
(* The user. *)

OnScreen == stage = "open" /\ (form.load.when = "hidden" => came # "due")

New(f, v) ==
  /\ typed' = [typed EXCEPT ![f] = v] /\ edited' = edited \cup {f}
  /\ wrote' = [wrote EXCEPT ![f] = IF saves = {} THEN v ELSE 0]

\* A field is changed, and saved at once where that is how the form works.
Type(f) ==
  /\ OnScreen /\ (Wizard => f = step)
  /\ stamp < MaxStamp /\ stamp' = stamp + 1
  /\ New(f, stamp')
  /\ IF form.gate.instant
     THEN /\ sent < MaxSaves /\ sent' = sent + 1
          /\ saves' = saves \cup {[id |-> sent', st |-> "sent", vals |-> typed', of |-> {f}]}
     ELSE UNCHANGED <<sent, saves>>
  /\ UNCHANGED <<form, record, copy, came, asks, saving, made, stage, step, hint, upsets, missed, unsaid>>

\* A field of a form that started blank is made blank again.
Blanked(f) ==
  /\ OnScreen /\ ~Loaded /\ typed[f] # 0 /\ (Wizard => f = step)
  /\ New(f, 0)
  /\ UNCHANGED <<form, record, copy, came, asks, saving, saves, sent, made, stage, step, hint, stamp,
                 upsets, missed, unsaid>>

\* The reset button: back to the last answer, or to the defaults.
ResetForm ==
  /\ OnScreen /\ form.gate.resets
  /\ typed' = copy /\ edited' = {} /\ wrote' = Nothing
  /\ UNCHANGED <<form, record, copy, came, asks, saving, saves, sent, made, stage, step, hint, stamp,
                 upsets, missed, unsaid>>

MayGoOn == step < 2 /\ typed[step] # 0

GoTo(to) ==
  /\ OnScreen /\ Wizard /\ step' = to
  /\ UNCHANGED <<form, record, typed, copy, edited, came, asks, saving, saves, sent, made, stage, hint,
                 stamp, upsets, wrote, missed, unsaid>>

NextStep == MayGoOn /\ GoTo(step + 1)
PrevStep == step > 1 /\ GoTo(step - 1)

\* The address of the first step: its normalised form is asked for, offered, taken over.
Hint ==
  /\ form.gate.hints /\ OnScreen /\ step = 1
  /\ \/ /\ typed[1] # 0 /\ hint # "asked" /\ hint' = "asked"
        /\ UNCHANGED <<typed, edited, wrote, stamp>>
     \/ /\ hint = "asked" /\ hint' \in {"none", "shown"}
        /\ UNCHANGED <<typed, edited, wrote, stamp>>
     \/ /\ hint = "shown" /\ hint' = "none"
        /\ stamp < MaxStamp /\ stamp' = stamp + 1 /\ New(1, stamp')
  /\ UNCHANGED <<form, record, copy, came, asks, saving, saves, sent, made, stage, step, upsets, missed, unsaid>>

----------------------------------------------------------------------------
(* Saves. *)

\* Mutant of Ready: neither the fields are checked, nor whether a load has come.
ReadyUnchecked == OnScreen /\ ~form.gate.instant

\* The button is offered, and where the form is checked its handler goes on.
Ready ==
  /\ OnScreen /\ ~form.gate.instant
  /\ form.gate.loaded => came = "ok"
  /\ form.gate.edited => edited # {}
  /\ Wizard => step = 2 /\ typed[2] # 0
  /\ form.gate.checks => \A f \in Fields : typed[f] # 0

\* Mutant of MaySubmit: the button does not read its flag.
MaySubmitTwice == Ready

MaySubmit == Ready /\ ~saving

Submit ==
  /\ MaySubmit
  /\ sent < MaxSaves /\ sent' = sent + 1
  /\ saving' = TRUE
  /\ saves' = saves \cup {[id |-> sent', st |-> "sent", vals |-> typed,
                           of |-> IF form.save.sends = "edited" THEN edited ELSE Fields]}
  /\ UNCHANGED <<form, record, typed, copy, edited, came, asks, made, stage, step, hint, stamp, upsets,
                 wrote, missed, unsaid>>

\* The backend carries the save out; its answer, the record as it is then, may be lost.
SaveServed ==
  \E s \in saves :
    /\ s.st = "sent"
    /\ record' = [f \in Fields |-> IF f \in s.of THEN s.vals[f] ELSE record[f]]
    /\ made' = made + 1
    /\ \/ /\ saves' = (saves \ {s}) \cup {[s EXCEPT !.st = "accepted", !.vals = record']}
          /\ UNCHANGED <<upsets, unsaid>>
       \/ /\ Upset /\ unsaid' = unsaid + 1
          /\ saves' = (saves \ {s}) \cup {[s EXCEPT !.st = "failed"]}
    /\ UNCHANGED <<form, typed, copy, edited, came, asks, saving, sent, stage, step, hint, stamp, wrote, missed>>

SaveRefused ==
  \E s \in saves :
    /\ s.st = "sent" /\ Upset
    /\ saves' = (saves \ {s}) \cup {[s EXCEPT !.st = "failed"]}
    /\ UNCHANGED <<form, record, typed, copy, edited, came, asks, saving, sent, made, stage, step, hint,
                   stamp, wrote, missed, unsaid>>

\* What is on the screen after a success.
After(s) ==
  CASE form.save.ok = "answer" -> Refilled(s.vals)
    [] form.save.ok = "clear"  -> Nothing
    [] form.save.reverts       -> copy
    [] OTHER                   -> typed

SaveDone ==
  \E s \in saves :
    /\ s.st = "accepted" /\ saves' = saves \ {s}
    /\ saving' = FALSE
    /\ typed' = After(s)
    /\ edited' = IF form.save.cleans \/ form.save.ok = "clear" THEN {} ELSE edited
    /\ wrote' = [f \in Fields |-> IF f \in s.of THEN 0 ELSE wrote[f]]
    /\ asks' = IF "saved" \in form.load.again THEN Asking ELSE asks
    /\ stage' = CASE form.save.ok = "close" -> "closed" [] form.save.ok = "leave" -> "leaving" [] OTHER -> stage
    /\ UNCHANGED <<form, record, copy, came, sent, made, step, hint, stamp, upsets, missed, unsaid>>

\* Mutant of FlagAfterFailure: it comes down only after a success.
FlagAfterFailureStays == saving

FlagAfterFailure == FALSE

SaveFailed ==
  \E s \in saves :
    /\ s.st = "failed" /\ saves' = saves \ {s}
    /\ saving' = FlagAfterFailure
    /\ stage' = IF form.save.bad = "close" THEN "closed" ELSE stage
    /\ UNCHANGED <<form, record, typed, copy, edited, came, asks, sent, made, step, hint, stamp, upsets,
                   wrote, missed, unsaid>>

\* The route changes: router.push is not awaited, so the form was there a little longer.
Leave ==
  /\ stage = "leaving" /\ stage' = "closed"
  /\ UNCHANGED <<form, record, typed, copy, edited, came, asks, saving, saves, sent, made, step, hint,
                 stamp, upsets, wrote, missed, unsaid>>

\* Somebody else saves the record.
OtherSaves(f) ==
  /\ Loaded /\ stamp < MaxStamp /\ stamp' = stamp + 1
  /\ record' = [record EXCEPT ![f] = stamp']
  /\ UNCHANGED <<form, typed, copy, edited, came, asks, saving, saves, sent, made, stage, step, hint,
                 upsets, wrote, missed, unsaid>>

FormsNext ==
  \/ LoadRead \/ LoadShown \/ LoadLost \/ LoadAgain
  \/ \E f \in Fields : Type(f) \/ Blanked(f) \/ OtherSaves(f)
  \/ ResetForm \/ NextStep \/ PrevStep \/ Hint
  \/ Submit \/ SaveServed \/ SaveRefused \/ SaveDone \/ SaveFailed \/ Leave

FormsSpec == FormsInit /\ [][FormsNext]_formVars

\* Requests are answered or fail, and their callbacks run.
FormsFairness == WF_formVars(SaveServed \/ SaveRefused) /\ WF_formVars(SaveDone \/ SaveFailed)

----------------------------------------------------------------------------
(* Properties. *)

\* What the user has typed stays until it is saved, or reset, in every form that
\* spares its edits from the answers of its loads, or that is shown once they are in
\* and never loaded again.
EditsSurvive ==
  (form.load.spares # "none" \/ (form.load.when # "beside" /\ form.load.again = {})) =>
    \A f \in Fields : wrote[f] # 0 => typed[f] = wrote[f]

\* A save never puts a default or a blank where something was, or is required: in
\* forms that are checked or gated step by step, and in those that are shown when their
\* load is over, unless it failed.
NoBlanksSaved ==
  (form.gate.checks \/ Wizard \/ (form.load.when = "hidden" /\ ~missed)) /\ made > 0 =>
    \A f \in Fields : record[f] # 0

\* A form loses nothing the user typed to a late answer, and sends no default or blank
\* over what the backend had.
FormsKeepRecords == EditsSurvive /\ NoBlanksSaved

\* A form that is gone after a success makes one thing, unless an answer was lost.
MadeOnce == form.save.makes /\ form.save.ok = "close" => made <= 1 + unsaid

\* A button comes back from its call, whatever came of it.
FormEnds == saving ~> ~saving

==============================================================================
