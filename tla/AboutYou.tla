------------------------------ MODULE AboutYou ------------------------------
(***************************************************************************)
(* prepare_register_profile: the form that asks for a name and a birthday. *)
(* The birthday is sent from a hidden field that the page's own state      *)
(* keeps, and which it may set back to today at any time before the form   *)
(* is submitted; the site turns that down.                                 *)
(***************************************************************************)
EXTENDS LoginFlow

CONSTANT SubmitMode   \* ABOUT_YOU_SUBMIT_MODE: how this deployment submits it

ASSUME SubmitModes == SubmitMode \subseteq {"force", "click", "click_then_force"}

VARIABLE form

\* hidden: the field; sent: the last birthday that was submitted, and how.
\* filled: bday_filled.  "wanted" is the birthday that the flow returns.
NoForm == [pc |-> "idle", mode |-> "force", hidden |-> "none", sent |-> "none",
           by |-> "none", filled |-> FALSE]
FormPc == {"idle", "begin", "nName", "nBirthday", "nSubmit", "nWait", "fill",
           "refill", "check", "click", "clicked", "force", "forced", "done", "terms"}

FormAt(pc) == form.pc = pc
FormTo(pc) == form' = [form EXCEPT !.pc = pc]
Submits(pc, birthday, by) ==
  form' = [form EXCEPT !.pc = pc, !.sent = birthday, !.by = by]

BeginForm ==
  /\ FormAt("begin")
  /\ \E p \in Site :
       IF Camoufox /\ OnAboutYou(p)
       THEN FormTo(IF SaysTerms(p) THEN "fill" ELSE "nName")
       ELSE FormTo("fill")

(* The native flow; whatever goes wrong in it is left to the other one.    *)
NativeName ==
  FormAt("nName") /\ \E p \in Site : FormTo(IF "name" \in p.inputs THEN "nBirthday" ELSE "fill")

NativeBirthday ==
  /\ FormAt("nBirthday")
  /\ \E p \in Site :
       IF "birthday" \in p.inputs
       THEN form' = [form EXCEPT !.pc = "nSubmit", !.hidden = "wanted"]
       ELSE FormTo("fill")

NativeFormSubmit ==
  /\ FormAt("nSubmit")
  /\ \E p \in Site :
       IF OnAboutYou(p) THEN Submits("nWait", form.hidden, "native") ELSE FormTo("fill")

NativeAdvance ==
  /\ FormAt("nWait")
  /\ \E p \in Site : FormTo(IF AboutYouIsOver(p) /\ ~SaysTerms(p) THEN "done" ELSE "fill")

(* Segments that do not take are overwritten by a script, and the birthday *)
(* is reported as set without another look; it may not come to that.       *)
FillSegments(next) ==
  \/ form' = [form EXCEPT !.pc = next, !.hidden = "wanted", !.filled = TRUE]
  \/ FormTo(next)

(* A form with other fields for it is filled without a look either.        *)
FillForm ==
  /\ FormAt("fill")
  /\ \E p \in Site, fields \in BOOLEAN :
       IF fields THEN form' = [form EXCEPT !.pc = "refill", !.hidden = "wanted", !.filled = TRUE]
       ELSE IF "birthday" \in p.inputs THEN FillSegments("refill")
       ELSE FormTo("refill")

Refill ==
  /\ FormAt("refill")
  /\ \E p \in Site :
       IF ~form.filled /\ p.url = "about" THEN FillSegments("check") ELSE FormTo("check")

CheckTerms ==
  /\ FormAt("check")
  /\ \E p \in Site :
       CASE IsTermsBlocked(p) -> FormTo("terms")
         [] ~IsTermsBlocked(p) /\ OnAboutYou(p) ->
              FormTo(IF form.mode = "force" THEN "force" ELSE "click")
         [] OTHER -> FormTo("done")

(* A button that is not there is not clicked.                              *)
ClickForm ==
  /\ FormAt("click")
  /\ \E p \in Site :
       IF "finish" \in p.buttons THEN Submits("clicked", form.hidden, "click")
       ELSE FormTo(IF form.mode = "click" THEN "done" ELSE "force")

ClickedForm ==
  /\ FormAt("clicked")
  /\ \E p \in Site :
       CASE IsTermsBlocked(p) -> FormTo("terms")
         [] ~IsTermsBlocked(p) /\ (p.url # "about" \/ form.mode = "click") -> FormTo("done")
         [] OTHER -> FormTo("force")

(* Mutant: a birthday that was reported as set is not replaced.            *)
ForceFilledForm ==
  /\ FormAt("force")
  /\ \E p \in Site :
       IF OnAboutYou(p)
       THEN Submits("forced", IF form.filled THEN form.hidden ELSE "wanted", "force")
       ELSE FormTo("forced")

(* One script replaces the field and submits, so nothing comes between.    *)
ForceForm ==
  /\ FormAt("force")
  /\ \E p \in Site :
       IF OnAboutYou(p) THEN Submits("forced", "wanted", "force") ELSE FormTo("forced")

ForcedForm ==
  /\ FormAt("forced")
  /\ \E p \in Site : FormTo(IF IsTermsBlocked(p) THEN "terms" ELSE "done")

(* The page's state takes the field back.                                  *)
FieldResets ==
  /\ form.pc \in FormPc \ {"idle", "done", "terms"} /\ form.hidden # "today"
  /\ form' = [form EXCEPT !.hidden = "today"]

FormStep ==
  \/ BeginForm \/ NativeName \/ NativeBirthday \/ NativeFormSubmit
  \/ NativeAdvance \/ FillForm \/ Refill \/ CheckTerms \/ ClickForm
  \/ ClickedForm \/ ForceForm \/ ForcedForm

-----------------------------------------------------------------------------
(* Properties. *)

FormTypeOK ==
  form \in [pc : FormPc, mode : SubmitMode \cup {"force"}, hidden : {"none", "today", "wanted"},
            sent : {"none", "today", "wanted"}, filled : BOOLEAN,
            by : {"none", "native", "click", "force"}]

(* A forced form is sent with the birthday that the account is recorded    *)
(* with, however often the page takes the field back                       *)
(* (about_you_flow.py:354-361).                                            *)
ForcedIsWanted == form.by = "force" => form.sent = "wanted"
=============================================================================
