------------------------------ MODULE FormCombo ------------------------------
(***************************************************************************)
(* A form of the admin pages with a drop-down box in it: bootstrap.form.js, *)
(* which waits for what it depends on before it asks the server for its     *)
(* values, and bootstrap.combobox.js over bootstrap.combo.js, whose options *)
(* come from another request.                                              *)
(*                                                                         *)
(* The box keeps what is selected twice: as the text of its input, from     *)
(* which values() reads it back, and as the highlighted items of its panel, *)
(* on which clicks work.  Texts are distinct and hold no separator, so both *)
(* are sets of options.  What a single box is sent is one value or none,    *)
(* a box with opt.multiple gets an array; both are sets of values, and not   *)
(* every value is that of an option.  Search, styles and validation are     *)
(* left out.                                                               *)
(***************************************************************************)
EXTENDS Integers, FiniteSets

CONSTANTS Options,    \* the options the box gets from the server
          Falsy,      \* those whose value is 0 or ''
          Unknown,    \* values that are no option's
          MaxUses     \* bound: clicks and calls on box and form

ASSUME ComboAssumption == /\ Falsy \subseteq Options /\ Unknown \cap Options = {}
                          /\ MaxUses \in Nat

VARIABLES formOpt,  \* opt.multiple of the box; the form has it in loadDepend
          box,      \* the options of the box: not here, here or lost
          form,     \* how far _loadData has come
          text,     \* the options in the input
          active,   \* the items that are highlighted
          uses,
          chosen,   \* history: what was chosen last, by whichever means
          odd,      \* history: see BoxAgrees
          formValues, \* history: the values that the form loaded for the box
          untouched, \* history: nobody changed the box since then
          unanswered \* history: the form's request failed or came back empty

comboVars == <<formOpt, box, form, text, active, uses, chosen, odd, formValues,
               untouched, unanswered>>

ComboTypeOK ==
    /\ formOpt \in [multiple : BOOLEAN, depends : BOOLEAN]
    /\ box \in {"none", "loading", "ready", "failed"}
    /\ form \in {"none", "polling", "requested", "loaded", "lost"}
    /\ text \subseteq Options /\ active \subseteq Options
    /\ chosen \subseteq Options /\ formValues \subseteq Options \cup Unknown
    /\ odd \in BOOLEAN /\ untouched \in BOOLEAN /\ unanswered \in BOOLEAN
    /\ uses \in 0 .. MaxUses

ComboInit ==
    /\ formOpt = [multiple |-> FALSE, depends |-> FALSE]
    /\ box = "none" /\ form = "none"
    /\ text = {} /\ active = {} /\ chosen = {} /\ formValues = {}
    /\ odd = FALSE /\ untouched = FALSE /\ unanswered = FALSE
    /\ uses = 0

----------------------------------------------------------------------------
\* What the server or the page may give to the box.
Values == {s \in SUBSET (Options \cup Unknown) : formOpt.multiple \/ Cardinality(s) <= 1}

\* !values || values.length == 0: no value, an empty array, or a single box
\* whose value is 0 or ''.
Empty(values) == values = {} \/ (~formOpt.multiple /\ values \subseteq Falsy)

\* _selectValues: nothing stays highlighted, and the text follows only when
\* values are given.  Those that are no option are skipped.
SelectValues(values) ==
    /\ active' = IF Empty(values) THEN {} ELSE values \cap Options
    /\ text' = IF Empty(values) THEN text ELSE values \cap Options
    /\ odd' = (Empty(values) /\ (values # {} \/ text # {}))
    /\ chosen' = values \cap Options

(* The page opens: the box posts for its options, and the form sets its     *)
(* interval of 200 ms.                                                     *)
OpenPage(multiple, depends) ==
    /\ box = "none"
    /\ box' = "loading" /\ form' = "polling"
    /\ formOpt' = [multiple |-> multiple, depends |-> depends]
    /\ UNCHANGED <<text, active, uses, chosen, odd, formValues, untouched,
                   unanswered>>

\* _createCombobox: the list is built, opt.value is selected if there is one,
\* and the box is marked as loaded.
BoxLoads(values) ==
    /\ box = "loading" /\ box' = "ready"
    /\ SelectValues(values)
    /\ UNCHANGED <<formOpt, form, uses, formValues, untouched, unanswered>>

\* The request of the box fails or its answer is empty: nothing is marked.
BoxFails ==
    /\ box = "loading" /\ box' = "failed"
    /\ UNCHANGED <<formOpt, form, text, active, uses, chosen, odd, formValues,
                   untouched, unanswered>>

\* A mutation: the form does not wait for what it depends on.
FormPollAtOnce ==
    /\ form = "polling" /\ form' = "requested"
    /\ UNCHANGED <<formOpt, box, text, active, uses, chosen, odd, formValues,
                   untouched, unanswered>>

\* A mutation: _checkLoadStatus lacks its last return, and with a loadDepend
\* what it answers is never true.
FormPollWithoutResult ==
    /\ form = "polling" /\ ~formOpt.depends
    /\ form' = "requested"
    /\ UNCHANGED <<formOpt, box, text, active, uses, chosen, odd, formValues, untouched,
                   unanswered>>

\* The interval finds everything in loadDepend marked and posts.
FormPoll ==
    /\ form = "polling" /\ (formOpt.depends => box = "ready")
    /\ form' = "requested"
    /\ UNCHANGED <<formOpt, box, text, active, uses, chosen, odd, formValues,
                   untouched, unanswered>>

\* _setData, when the box has its list.
FormAnswered(values) ==
    /\ form = "requested" /\ box = "ready"
    /\ form' = "loaded"
    /\ SelectValues(values)
    /\ formValues' = values /\ untouched' = TRUE
    /\ UNCHANGED <<formOpt, box, uses, unanswered>>

\* _setData before the box has its list throws, and the value is lost.
FormTooEarly ==
    /\ form = "requested" /\ box # "ready"
    /\ form' = "lost"
    /\ UNCHANGED <<formOpt, box, text, active, uses, chosen, odd, formValues,
                   untouched, unanswered>>

FormUnanswered ==
    /\ form = "requested" /\ form' = "lost" /\ unanswered' = TRUE
    /\ UNCHANGED <<formOpt, box, text, active, uses, chosen, odd, formValues,
                   untouched>>

----------------------------------------------------------------------------
(* The user and the page's code use the box.                               *)

Use ==
    /\ box = "ready" /\ uses < MaxUses
    /\ uses' = uses + 1
    /\ untouched' = FALSE
    /\ UNCHANGED <<formOpt, box, form, formValues, unanswered>>

Toggle(set, o) == IF o \in set THEN set \ {o} ELSE set \cup {o}

\* _clickItem: the text is made of the items that are highlighted now.
ClickItem(o) ==
    /\ Use
    /\ active' = IF formOpt.multiple THEN Toggle(active, o) ELSE {o}
    /\ text' = active'
    /\ chosen' = IF formOpt.multiple THEN Toggle(chosen, o) ELSE {o}
    /\ odd' = (odd /\ formOpt.multiple)

\* _clear, of the icon or the method.
ClearBox ==
    /\ Use
    /\ text' = {} /\ active' = {} /\ chosen' = {} /\ odd' = FALSE

\* The method values(values).
SetValues(values) == Use /\ SelectValues(values)

\* The method value(v) hands _selectValues the array [v]: a single box then
\* looks for an option among arrays, highlights none and shows no text.
SetOneValue(v) ==
    /\ Use
    /\ IF formOpt.multiple THEN SelectValues({v})
       ELSE /\ active' = {} /\ text' = {}
            /\ chosen' = {v} \cap Options /\ odd' = (v \in Options)

\* form reset: the inputs are emptied, the highlights stay.
ResetForm ==
    /\ Use
    /\ text' = {} /\ chosen' = {}
    /\ odd' = (active # {})
    /\ UNCHANGED active

ComboNext ==
    \/ \E multiple, depends \in BOOLEAN : OpenPage(multiple, depends)
    \/ BoxFails \/ FormPoll
    \/ \E values \in Values : BoxLoads(values) \/ FormAnswered(values) \/ SetValues(values)
    \/ FormTooEarly \/ FormUnanswered
    \/ \E o \in Options : ClickItem(o)
    \/ \E v \in Options \cup Unknown : SetOneValue(v)
    \/ ClearBox \/ ResetForm

\* Requests are answered or fail, and the interval comes round.
ComboFairness ==
    /\ WF_comboVars(BoxFails \/ \E values \in Values : BoxLoads(values))
    /\ WF_comboVars(FormPoll)
    /\ WF_comboVars(FormTooEarly \/ FormUnanswered \/
                    \E values \in Values : FormAnswered(values))

----------------------------------------------------------------------------
(* Properties.                                                             *)

(* What values() reads back from the text, what is highlighted and what was *)
(* chosen last are the same, through clicks, methods and the form's answer. *)
(* Three calls break this until the next clear, selection or click in a     *)
(* single box: values(v) with nothing in v, or with the 0 or '' of an option *)
(* of a single box, leaves the text (combobox.js:293), value(v) of a single *)
(* box selects nothing (combobox.js:429), and a reset of the form leaves    *)
(* the highlights, which the next click turns into text again.              *)
BoxAgrees == box = "ready" /\ ~odd => text = chosen /\ active = text

(* A form that names the box in loadDepend loses no value to the order of   *)
(* the two answers: the options among those that the server sent stand in   *)
(* the box until somebody changes it.  Only a single box that is sent no    *)
(* value, 0 or '' shows what it showed before, be that an option's value or *)
(* not.  Without loadDepend a value is lost when the form's answer comes    *)
(* before the options (form.js:125).                                       *)
FormValueStands ==
    formOpt.depends =>
        /\ form = "lost" => unanswered
        /\ form = "loaded" /\ untouched /\ ~Empty(formValues) => text = formValues \cap Options

(* A form is filled in the end: with a box in loadDepend, unless the box    *)
(* never gets its options, when the interval runs for ever (form.js:64), or *)
(* the form's own request fails; and without one at least it has asked.     *)
FormIsFilled ==
    form = "polling" ~>
        \/ form = "loaded" \/ unanswered
        \/ formOpt.depends /\ box = "failed"
        \/ ~formOpt.depends /\ form = "lost"

(* What the form and the box show is what was sent, chosen or clicked last. *)
FormShowsValues == BoxAgrees /\ FormValueStands
=============================================================================
