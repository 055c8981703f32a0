---------------------------- MODULE FormControls ----------------------------
(***************************************************************************)
(* Form controls: src/js/facade/extensions/forms.js over the form state of *)
(* src/crates/mad-dom-core/src/dom/form.rs.  Three worlds: the controls of *)
(* one form (checkedness, click, submit, reset), one select and its        *)
(* options, and the constraints of one control.                            *)
(***************************************************************************)
EXTENDS Integers, Sequences, SequencesExt, FiniteSets

CONSTANTS RadioOrder,      \* the radios of one name, in document order
          OptionOrder,     \* the options, each the value of its own
          MaxFormOps       \* bound on the calls of a behaviour

VARIABLES form,            \* a form, its controls, the click under way
          choice,          \* a select
          validation       \* one control with its constraints

-----------------------------------------------------------------------------
(* Checkedness: a control's own once something wrote it, else its attribute *)

Radios == {RadioOrder[i] : i \in DOMAIN RadioOrder}
Box == "checkbox"
Checks == Radios \cup {Box}
Attr == "as the attribute says"
Own(on) == IF on THEN "on" ELSE "off"
NoClick == [on |-> "none"]
Places == {"form", "document", "detached"}

FormInit ==
  \E place \in [Radios -> Places], default \in SUBSET Checks, required \in {{}, {Head(RadioOrder)}, Checks} :
    /\ Cardinality(default \cap Radios) <= 1
    /\ form = [place |-> [c \in Checks |-> IF c = Box THEN "form" ELSE place[c]], default |-> default,
               required |-> required, dirty |-> [c \in Checks |-> Attr],
               custom |-> FALSE, noValidate |-> FALSE, click |-> NoClick, sent |-> "none", ops |-> 0]

InputChecked(f, c) == f.dirty[c] = "on" \/ (f.dirty[c] = Attr /\ c \in f.default)
Checked(f) == {c \in Checks : InputChecked(f, c)}

\* The other radios a radio switches off: those of its form, or, for one that
\* has no form, every one in the document.
Group(f, c) ==
  IF c = Box THEN {}
  ELSE (IF f.place[c] = "form" THEN {r \in Radios : f.place[r] = "form"} ELSE {r \in Radios : f.place[r] # "detached"}) \ {c}

\* Mutant: the others keep what they have.
SetInputCheckedAlone(f, c, checked) == [f EXCEPT !.dirty[c] = Own(checked)]

SetInputChecked(f, c, checked) ==
  [f EXCEPT !.dirty = [d \in Checks |-> IF d = c THEN Own(checked) ELSE IF checked /\ d \in Group(f, c) THEN "off" ELSE @[d]]]

-----------------------------------------------------------------------------
(* Validity of the form and its submission *)

InForm(f) == {c \in Checks : f.place[c] = "form"}
RadioGroupHasChecked(f, r) ==
  \/ f.place[r] = "form" /\ \E q \in InForm(f) \cap Radios : InputChecked(f, q)
  \/ f.place[r] = "document" /\ \E q \in Radios : f.place[q] # "detached" /\ InputChecked(f, q)
ValueMissing(f, c) == c \in f.required /\ ~InputChecked(f, c) /\ (c = Box \/ ~RadioGroupHasChecked(f, c))

\* formInvalidControls: of the radios of a name only the first is asked.
FormInvalidControls(f) ==
  LET asked == {c \in InForm(f) : c = Box \/ \A i, j \in DOMAIN RadioOrder :
                                    RadioOrder[i] = c /\ j < i => f.place[RadioOrder[j]] # "form"}
  IN {c \in asked : ValueMissing(f, c) \/ (c = Box /\ f.custom)}

RequestSubmit(f, formNoValidate) ==
  [f EXCEPT !.sent = IF formNoValidate \/ f.noValidate THEN "unasked" ELSE IF FormInvalidControls(f) = {} THEN "submitted" ELSE "invalid"]

FormReset(f) == [f EXCEPT !.dirty = [c \in Checks |-> IF c \in InForm(f) THEN Attr ELSE @[c]]]

-----------------------------------------------------------------------------
(* A click: the toggle, then the listeners, then the default action.  What  *)
(* the program does while the click is out, its listeners do.               *)

ClickStarts(c) ==
  /\ form.click = NoClick
  /\ form' = [SetInputChecked(form, c, IF c = Box THEN ~InputChecked(form, c) ELSE TRUE)
              EXCEPT !.click = [on |-> c, previous |-> InputChecked(form, c), before |-> Checked(form), alone |-> TRUE],
                     !.ops = @ + 1]
ClickEnds(defaultPrevented) ==
  /\ form.click # NoClick
  /\ LET c == form.click.on
     IN form' = [(IF defaultPrevented THEN SetInputChecked(form, c, form.click.previous) ELSE form) EXCEPT !.click = NoClick]

Program(f) ==
  /\ form.ops < MaxFormOps
  /\ form' = [f EXCEPT !.ops = @ + 1, !.click = IF @ = NoClick THEN @ ELSE [@ EXCEPT !.alone = FALSE]]
FormMoves ==
  \/ \E c \in Checks : form.ops < MaxFormOps /\ ClickStarts(c)
  \/ \E prevented \in BOOLEAN : ClickEnds(prevented)
  \/ \E c \in Checks, checked \in BOOLEAN : Program(SetInputChecked(form, c, checked))
  \/ \E no \in BOOLEAN : Program(RequestSubmit(form, no))
  \/ Program(FormReset(form))
  \/ Program([form EXCEPT !.custom = ~@])
  \/ Program([form EXCEPT !.noValidate = ~@])

-----------------------------------------------------------------------------
(* A select and its options *)

Options == {OptionOrder[i] : i \in DOMAIN OptionOrder}
NoValue == "no option's value"

ChoiceInit ==
  \E multiple \in BOOLEAN, attr \in {{}} \cup {{o} : o \in Options}, disabled \in {{}, {Head(OptionOrder)}} :
    choice = [options |-> Front(OptionOrder), multiple |-> multiple, attr |-> attr, disabled |-> disabled,
              own |-> [o \in Options |-> Attr], ops |-> 0]

Listed(s) == {s.options[i] : i \in DOMAIN s.options}
FirstNonDisabled(s) == SelectSeq(s.options, LAMBDA o : o \notin s.disabled)
OptionSelected(s, o) ==
  CASE s.own[o] # Attr -> s.own[o] = "on"
    [] s.own[o] = Attr /\ o \in s.attr -> TRUE
    [] OTHER -> /\ o \in Listed(s) /\ ~s.multiple /\ s.attr \cap Listed(s) = {}
                /\ FirstNonDisabled(s) # <<>> /\ Head(FirstNonDisabled(s)) = o
SelectedOptions(s) == SelectSeq(s.options, LAMBDA o : OptionSelected(s, o))
SelectedIndex(s) == IF SelectedOptions(s) = <<>> THEN 0 ELSE CHOOSE i \in DOMAIN s.options : s.options[i] = Head(SelectedOptions(s))
SelectValue(s) == IF SelectedOptions(s) = <<>> THEN NoValue ELSE Head(SelectedOptions(s))

\* Every option of the select gets a selectedness of its own.
Materialized(s, selected) == [s EXCEPT !.own = [o \in Options |-> IF o \in Listed(s) THEN Own(o \in selected) ELSE @[o]]]
SetSelectValue(s, value) == Materialized(s, {value})
SetSelectedIndex(s, index) == Materialized(s, IF index \in DOMAIN s.options THEN {s.options[index]} ELSE {})

\* Deselecting the last option selects the first that may be: an option whose
\* attribute alone selects it does not count.
SetOptionSelected(s, o, selected) ==
  LET after == [s EXCEPT !.own[o] = Own(selected)]
      first == FirstNonDisabled(s)
  IN CASE o \notin Listed(s) \/ s.multiple -> after
       [] o \in Listed(s) /\ ~s.multiple /\ selected -> Materialized(after, {o})
       [] OTHER -> IF (\E q \in Listed(s) : after.own[q] = "on") \/ first = <<>> THEN after
                   ELSE [after EXCEPT !.own[Head(first)] = "on"]

\* form.reset(): the option its attribute selects, else the first one.
SelectReset(s) ==
  LET marked == SelectSeq(s.options, LAMBDA o : o \in s.attr)
  IN IF s.options = <<>> THEN s ELSE SetOptionSelected(s, Head(marked \o s.options), TRUE)

\* options.add and options.remove
OptionsAdd(s, o, before) ==
  LET rest == SelectSeq(s.options, LAMBDA q : q # o)
      at == IF before \in DOMAIN s.options /\ s.options[before] # o
            THEN CHOOSE i \in DOMAIN rest : rest[i] = s.options[before] ELSE Len(rest) + 1
  IN [s EXCEPT !.options = InsertAt(rest, at, o)]
OptionsRemove(s, index) ==
  LET after == [s EXCEPT !.options = RemoveAt(@, index)]
  IN IF SelectedIndex(after) = 0 /\ after.options # <<>> THEN SetSelectedIndex(after, 1) ELSE after

ChoiceBecomes(s) == choice.ops < MaxFormOps /\ choice' = [s EXCEPT !.ops = @ + 1]
ChoiceMoves ==
  \/ \E v \in Options \cup {NoValue} : ChoiceBecomes(SetSelectValue(choice, v))
  \/ \E i \in 0..Len(choice.options) : ChoiceBecomes(SetSelectedIndex(choice, i))
  \/ \E o \in Options, selected \in BOOLEAN : ChoiceBecomes(SetOptionSelected(choice, o, selected))
  \/ \E o \in Options \ Listed(choice), before \in 1..Len(choice.options) + 1 : ChoiceBecomes(OptionsAdd(choice, o, before))
  \/ \E i \in DOMAIN choice.options : ChoiceBecomes(OptionsRemove(choice, i))
  \/ ChoiceBecomes(SelectReset(choice))

-----------------------------------------------------------------------------
(* The constraints of one control.  A value is a number counted in halves,  *)
(* or one of three texts.                                                   *)

Empty == 1000
Word == 1001
On == 1002
Unset == 1003
AnyStep == 1004
Values == {Empty, Word, -2, 2, 3, 6}
Limits == {Unset, 2, 4}
InputTypes == {"text", "email", "number", "range", "checkbox", "hidden"}
ControlKinds == InputTypes \cup {"textarea", "select", "submit", "reset", "output", "fieldset"}
Flags == {"disabled", "readOnly", "required", "custom", "checked", "pattern", "maxLength", "minLength"}

ValidationInit ==
  \E kind \in ControlKinds :
    validation = [kind |-> kind, on |-> {}, max |-> Unset, min |-> Unset, step |-> Unset, attr |-> Empty, dirty |-> Unset,
                  clamped |-> FALSE, ops |-> 0]

\* validationValueOf: a checkbox without a value says "on".
ValidationValueOf(v) ==
  CASE v.kind \in {"output", "fieldset"} -> Empty
    [] v.kind = "checkbox" /\ v.attr = Empty -> On
    [] OTHER -> IF v.dirty = Unset THEN v.attr ELSE v.dirty
IsNumber(value) == value \notin {Empty, Word, On}
LengthOf(value) == CASE value = Empty -> 0 [] value = Word -> 4 [] value = On -> 2 [] OTHER -> 1
NumberOf(value) == IF value = Empty THEN 0 ELSE value

Numeric(v) == v.kind \in {"number", "range"}
BadInput(v, value) == Numeric(v) /\ value # Empty /\ ~IsNumber(value)
PatternMismatch(v, value) == v.kind \in InputTypes /\ "pattern" \in v.on /\ value \notin {Empty, Word}
RangeOverflow(v, value) == Numeric(v) /\ v.max # Unset /\ IsNumber(value) /\ value > v.max
RangeUnderflow(v, value) == Numeric(v) /\ v.min # Unset /\ IsNumber(value) /\ value < v.min
StepMismatch(v, value) ==
  /\ Numeric(v) /\ v.step # AnyStep
  /\ value \in {Word, On} \/ NumberOf(value) % (IF v.step = Unset THEN 2 ELSE v.step) # 0
TypeMismatch(v, value) == v.kind = "email" /\ value # Empty
MissingValue(v, value) ==
  /\ "required" \in v.on /\ v.kind \in InputTypes \cup {"select", "textarea"}
  /\ IF v.kind = "checkbox" THEN "checked" \notin v.on ELSE value = Empty
WrongLength(v, value) ==
  /\ v.kind \in InputTypes \cup {"textarea"}
  /\ \/ "maxLength" \in v.on /\ LengthOf(value) > 2
     \/ "minLength" \in v.on /\ LengthOf(value) \in 1..2

\* validityFlagsOf
Valid(v) ==
  LET value == ValidationValueOf(v)
  IN ~\/ BadInput(v, value) \/ PatternMismatch(v, value) \/ RangeOverflow(v, value) \/ RangeUnderflow(v, value)
      \/ StepMismatch(v, value) \/ TypeMismatch(v, value) \/ MissingValue(v, value) \/ WrongLength(v, value)
      \/ "custom" \in v.on

Lenient == {"output", "fieldset"}
ReadOnly(v) == "readOnly" \in v.on /\ v.kind \in InputTypes \cup {"textarea"}
WillValidate(v) == v.kind \notin Lenient /\ "disabled" \notin v.on /\ ~ReadOnly(v) /\ v.kind # "hidden"

ControlValid(v) == v.kind \in Lenient \/ "disabled" \in v.on \/ ReadOnly(v) \/ v.kind \in {"hidden", "reset"} \/ Valid(v)
ValidationMessage(v) ==
  CASE v.kind = "fieldset" -> ""
    [] v.kind # "fieldset" /\ "custom" \in v.on -> "custom"
    [] OTHER -> IF WillValidate(v) /\ ~Valid(v) THEN "Constraints not satisfied" ELSE ""

\* sanitize_input_value
Low(v) == IF v.min = Unset THEN 0 ELSE v.min
High(v) == IF v.max = Unset THEN 200 ELSE v.max
Sanitized(v, value) ==
  CASE v.kind = "number" -> IF IsNumber(value) THEN value ELSE Empty
    [] v.kind = "range" -> CASE ~IsNumber(value) -> IF High(v) < Low(v) THEN Low(v) ELSE (Low(v) + High(v)) \div 2
                             [] IsNumber(value) /\ value < Low(v) -> Low(v)
                             [] IsNumber(value) /\ value >= Low(v) /\ value > High(v) -> High(v)
                             [] OTHER -> value
    [] OTHER -> value
SetInputValue(v, value) ==
  IF v.kind \in {"checkbox", "hidden", "submit", "reset"} THEN [v EXCEPT !.attr = value]
  ELSE [v EXCEPT !.dirty = Sanitized(v, value), !.clamped = TRUE]

ValidationBecomes(v) == validation.ops < MaxFormOps /\ validation' = [v EXCEPT !.ops = @ + 1]
ValidationMoves ==
  \/ \E value \in Values : validation.kind \notin {"select", "output", "fieldset"} /\ ValidationBecomes(SetInputValue(validation, value))
  \/ \E value \in Values : ValidationBecomes([validation EXCEPT !.attr = value])
  \/ \E flag \in Flags : ValidationBecomes([validation EXCEPT !.on = (@ \ {flag}) \cup ({flag} \ @)])
  \/ \E limit \in Limits, part \in {"max", "min"} : ValidationBecomes([validation EXCEPT ![part] = limit, !.clamped = FALSE])
  \/ \E step \in {Unset, AnyStep, 4} : ValidationBecomes([validation EXCEPT !.step = step])

-----------------------------------------------------------------------------
(* Properties *)

\* Of the radios of one name at most one is checked in a form, and at most
\* one outside of forms, whatever was set, clicked, cancelled or reset.
OneRadioChecked ==
  \A scope \in {"form", "document"} : Cardinality({r \in Radios : form.place[r] = scope /\ InputChecked(form, r)}) <= 1

\* A form whose radios all require an answer is not sent without one unless
\* it was asked not to validate, although only the first radio is looked at.
GroupAnswered ==
  LET asked == Radios \cap InForm(form)
  IN /\ asked # {} /\ asked \subseteq form.required /\ RequestSubmit(form, FALSE).sent = "submitted"
     => asked \cap Checked(form) # {}

\* In a single select choosing an option leaves that one alone selected,
\* whatever stale selectedness options brought in; a reset selects one option,
\* and taking an option out leaves none selected only if none is left.
OneSelected ==
  /\ ~choice.multiple => \A o \in Listed(choice) : SelectedOptions(SetOptionSelected(choice, o, TRUE)) = <<o>>
  /\ ~choice.multiple /\ choice.options # <<>> => Len(SelectedOptions(SelectReset(choice))) = 1
  /\ \A i \in DOMAIN choice.options :
       LET after == OptionsRemove(choice, i) IN after.options = <<>> \/ SelectedOptions(after) # <<>>

\* The three reads of a control's validity tell one story: what is barred is
\* valid, and there is a message for what is not.
ValidityAgrees ==
  /\ ~WillValidate(validation) => ControlValid(validation)
  /\ ~ControlValid(validation) => ValidationMessage(validation) # ""
  /\ ValidationMessage(validation) = "Constraints not satisfied" => ~ControlValid(validation)

\* A range that was assigned a value is within the limits it was assigned under.
RangeClamped ==
  validation.kind = "range" /\ validation.clamped /\ Low(validation) <= High(validation) =>
    ~RangeOverflow(validation, ValidationValueOf(validation)) /\ ~RangeUnderflow(validation, ValidationValueOf(validation))

\* "the checkbox/radio toggle before dispatch (restored on `preventDefault`)"
\* (forms.js): cancelling a click no listener meddled with leaves every control
\* as it was before.
CancelledClickRestores ==
  form.click # NoClick /\ form.click.alone =>
    Checked(SetInputChecked(form, form.click.on, form.click.previous)) = form.click.before
=============================================================================
