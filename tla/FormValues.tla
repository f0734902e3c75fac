----------------------------- MODULE FormValues -----------------------------
(***************************************************************************)
(* The value of a <select> (Rendering/DomSpecialPropertyUtil.ts, with the  *)
(* edits of BrowserRenderer.ts that reach it). The browser drops a value   *)
(* that no option has, so the renderer keeps it on the element, as its     *)
(* deferred value, and sets it again when the option comes.                *)
(*                                                                         *)
(* Options have different values. A value is a set of them, with at most   *)
(* one element unless the select is multiple. Left out: the other          *)
(* elements that have a value (theirs is set at once), options that carry  *)
(* a `selected` attribute, and a select that becomes multiple later.       *)
(***************************************************************************)
EXTENDS Integers, FiniteSets, SequencesExt

CONSTANTS
  Options,    \* values that options have
  Null,       \* no value: the attribute was removed
  Absent      \* no deferred value on the element

ASSUME FormAssumption ==
  /\ IsFiniteSet(Options)
  /\ Null # Absent /\ \A v \in SUBSET Options : v # Null /\ v # Absent

VARIABLES
  multiple,   \* the select is a multiple one
  select,     \* the element, or Absent
  wanted,     \* .NET: the value of the select
  since,      \* of wanted: "set" by .NET, "left" after the option that showed
              \* it was removed or renamed, "chosen" by the user
  failed      \* an edit of the select threw

formVars == <<multiple, select, wanted, since, failed>>

ValuesOf(m) == {v \in SUBSET Options : m \/ Cardinality(v) <= 1}

NewSelect == [options |-> <<>>, late |-> {}, selected |-> {}, deferred |-> Absent]

Has(S) == ToSet(S.options)

-----------------------------------------------------------------------------
(* The browser: a drop-down list in which nothing is selected selects its  *)
(* first option whenever options come or go.                               *)
Reset(S) ==
  IF ~multiple /\ S.selected = {} /\ S.options # <<>>
  THEN [S EXCEPT !.selected = {Head(S.options)}] ELSE S

Inserted(S, k, o) == Reset([S EXCEPT !.options = InsertAt(@, k, o)])

Removed(S, k) ==
  Reset([S EXCEPT !.options = RemoveAt(@, k),
                  !.selected = @ \ {S.options[k]}, !.late = @ \ {S.options[k]}])

setDeferredElementValue(S, v) ==
  [S EXCEPT !.selected = IF v = Null THEN {} ELSE v \cap Has(S)]

(* On a select. late: the options of markup that came after the value.     *)
tryApplyValueProperty(S, v) ==
  [setDeferredElementValue(S, v) EXCEPT !.deferred = v, !.late = {}]

(* Mutant: the deferred value goes with the first option that comes.       *)
OnlyFirstOption(S, o) ==
  IF S.deferred = Absent THEN S
  ELSE [setDeferredElementValue(S, S.deferred) EXCEPT !.deferred = Absent]

(* Called for an option when its value is set or it has been inserted. A   *)
(* list of values is kept for the options to come, a single one is not.    *)
trySetSelectValueFromOptionElement(S, o) ==
  IF S.deferred = Absent THEN S
  ELSE IF multiple
    THEN [S EXCEPT !.selected = IF o \in S.deferred THEN @ \cup {o} ELSE @ \ {o}]
  ELSE IF S.deferred = {o}
    THEN [setDeferredElementValue(S, {o}) EXCEPT !.deferred = Absent]
  ELSE S

(* null.indexOf, which the `!` of the code hides from the compiler.        *)
Throws(S) == multiple /\ S.deferred = Null

insertOption(S, k, o) == trySetSelectValueFromOptionElement(Inserted(S, k, o), o)

(* insertElement of the select: attributes, then options one by one or as  *)
(* one block of markup, then applyAnyDeferredValue.                        *)
Begun(v) == IF v = Null THEN NewSelect ELSE tryApplyValueProperty(NewSelect, v)

PutOption(S, o, markup) ==
  IF markup THEN Inserted(S, Len(S.options) + 1, o) ELSE insertOption(S, Len(S.options) + 1, o)

Filled(v, options, markup) ==
  LET f[i \in 0 .. Len(options)] ==
        IF i = 0 THEN Begun(v) ELSE PutOption(f[i - 1], options[i], markup)
  IN  f[Len(options)]

insertSelect(v, options, markup) ==
  LET S == Filled(v, options, markup)
  IN  IF S.deferred = Absent THEN S ELSE setDeferredElementValue(S, S.deferred)

-----------------------------------------------------------------------------
FormInit ==
  /\ multiple \in BOOLEAN
  /\ select = Absent /\ wanted = Null /\ since = "set" /\ failed = FALSE

Ready == select # Absent /\ ~failed

(* A single value that was shown is not shown once its option is gone.     *)
Leaves(o) ==
  since' = IF ~multiple /\ since = "set" /\ wanted = {o} THEN "left" ELSE since

OptionLists == UNION {{s \in [1 .. n -> Options] : IsInjective(s)} : n \in 0 .. Cardinality(Options)}

RenderSelect(v, options, markup) ==
  /\ select = Absent /\ ~failed
  /\ select' = insertSelect(v, options, markup)
  /\ wanted' = v /\ since' = "set"
  /\ UNCHANGED <<multiple, failed>>

RemoveSelect ==
  /\ Ready
  /\ select' = Absent /\ wanted' = Null
  /\ UNCHANGED <<multiple, since, failed>>

(* setOrRemoveAttributeOrProperty of value on the select.                  *)
SetValue(v) ==
  /\ Ready
  /\ select' = tryApplyValueProperty(select, v)
  /\ wanted' = v /\ since' = "set"
  /\ UNCHANGED <<multiple, failed>>

InsertOption(k, o) ==
  /\ Ready /\ o \notin Has(select)
  /\ IF Throws(select)
     THEN failed' = TRUE /\ select' = Inserted(select, k, o)
     ELSE select' = insertOption(select, k, o) /\ UNCHANGED failed
  /\ UNCHANGED <<multiple, wanted, since>>

(* insertMarkup: no deferred value is applied.                             *)
InsertMarkup(k, o) ==
  /\ Ready /\ o \notin Has(select)
  /\ select' = [Inserted(select, k, o) EXCEPT !.late = @ \cup {o}]
  /\ UNCHANGED <<multiple, wanted, since, failed>>

(* setOrRemoveAttributeOrProperty of value on an option.                   *)
SetOptionValue(o, new) ==
  LET Renamed == [select EXCEPT
        !.options = [k \in DOMAIN @ |-> IF @[k] = o THEN new ELSE @[k]],
        !.selected = IF o \in @ THEN (@ \ {o}) \cup {new} ELSE @]
  IN  /\ Ready /\ o \in Has(select) \ select.late /\ new \notin Has(select)
      /\ IF Throws(select)
         THEN failed' = TRUE /\ select' = Renamed
         ELSE select' = trySetSelectValueFromOptionElement(Renamed, new) /\ UNCHANGED failed
      /\ Leaves(o)
      /\ UNCHANGED <<multiple, wanted>>

RemoveOption(k) ==
  /\ Ready
  /\ select' = Removed(select, k)
  /\ Leaves(select.options[k])
  /\ UNCHANGED <<multiple, wanted, failed>>

(* The user's choice reaches .NET with the change event, which updates its *)
(* own tree, so that no edit comes back for it. A field has one value, so  *)
(* that of a multiple select does come back, as SetValue.                  *)
Choose(v) ==
  /\ Ready /\ v \subseteq Has(select) /\ v # select.selected /\ (multiple \/ v # {})
  /\ select' = [select EXCEPT !.selected = v]
  /\ wanted' = v /\ since' = "chosen"
  /\ UNCHANGED <<multiple, failed>>

FormNext ==
  \/ \E v \in ValuesOf(multiple) \cup {Null}, s \in OptionLists, m \in BOOLEAN : RenderSelect(v, s, m)
  \/ RemoveSelect
  \/ \E v \in ValuesOf(multiple) \cup {Null} : SetValue(v)
  \/ Ready /\ \E k \in 1 .. Len(select.options) + 1, o \in Options :
       InsertOption(k, o) \/ InsertMarkup(k, o)
  \/ \E o, new \in Options : SetOptionValue(o, new)
  \/ Ready /\ \E k \in 1 .. Len(select.options) : RemoveOption(k)
  \/ \E v \in ValuesOf(multiple) : Choose(v)

FormSpec == FormInit /\ [][FormNext]_formVars

-----------------------------------------------------------------------------
(* What a select shows of the value .NET gave it, for the options that are *)
(* there: exactly the options of a list, the option of a single value.     *)
ShowsValue(S, v) ==
  LET known == Has(S) \ S.late IN
  IF multiple THEN S.selected \cap known = v \cap known
  ELSE v \cap known \subseteq S.selected /\ Cardinality(S.selected) <= 1

(* A value that .NET set shows as soon as its option is there, whatever    *)
(* the order in which value and options come and options are moved, and    *)
(* goes on to show until that option leaves or the user chooses another.   *)
ValueIsShown ==
  Ready /\ wanted # Null /\ since = "set" => ShowsValue(select, wanted)
=============================================================================
