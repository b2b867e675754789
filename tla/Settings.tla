------------------------------ MODULE Settings ------------------------------
(***************************************************************************)
(* The settings of the external services: the table (modules/settings), the *)
(* wizard in which an administrator sets the services up, step by step, and *)
(* the page on which they are changed later (dashboard).                    *)
(*                                                                          *)
(* A save sends the fields of one category that are not blank; the server   *)
(* writes them one after the other, each by a find and an insert or update, *)
(* and answers when the last is written.  A pair of category and key is     *)
(* unique: the slower of two inserts of it is refused.                      *)
(***************************************************************************)
EXTENDS Naturals, Sequences

CONSTANTS
  Admins,      \* administrators, with one browser each
  NCategories  \* the steps of the wizard; the last one is llm

ASSUME NCategoriesAssumption == NCategories \in Nat \ {0}

VARIABLES
  stored,    \* the table: the value of each key of each category
  saving,    \* the save in progress of each browser
  screen,    \* what each browser shows: "off", "wizard", "completed" or "page"
  view,      \* where in it: the step, or the category; and whether it is loading
  torn       \* history: a save of llm has failed half way, and no other one of llm
             \* that nothing overlapped has been answered since

settingsVars == <<stored, saving, screen, view, torn>>

Blank == "blank"
Given == "given"       \* what was set up before
Typed == "typed"       \* what the forms of now hold
OwnProvider == "custom"  \* the provider of llm whose endpoint is to be given
Categories == 1..NCategories

\* STEPS, CATEGORIES of the wizard, REQUIRED_CATEGORIES of the server.
Llm == NCategories
RequiredCategories == Categories \ {Llm}

\* A bound: each form has these fields, which are sent in this order.  The
\* service is a host, a region or an address, and in llm the provider; the endpoint
\* is the one field a step has that may be left blank.
Fields == <<"service", "secret", "endpoint">>
Keys == {Fields[i] : i \in DOMAIN Fields}
RequiredKeys == Keys \ {"endpoint"}

\* The rules of the steps; a provider of one's own has to say where it is.
Valid(values) ==
  /\ \A k \in RequiredKeys : values[k] # Blank
  /\ values["service"] = OwnProvider => values["endpoint"] # Blank

\* Mutant of Shown: the endpoint of llm is never sent.
ShownElsewhere(c, values, k) == k = "endpoint" => c # Llm

\* validateFields returns the fields that are shown: llm shows the endpoint of a
\* provider of one's own only.
Shown(c, values, k) == k = "endpoint" /\ c = Llm => values["service"] = OwnProvider
Submitted(c, values) == [k \in Keys |-> IF Shown(c, values, k) THEN values[k] ELSE Blank]

\* What a form may hold when it is saved, as its rules ask.  A form takes over what is
\* stored when the page loads and keeps what was typed before, and any text can be
\* typed over it; no property tells a value that was loaded from one that was typed,
\* or by whom, so that what a form holds is an input and no state.
Fillings(c) ==
  {values \in [Keys -> {Typed, Blank, OwnProvider}] :
     /\ Valid(values)
     /\ values["service"] = OwnProvider => c = Llm
     /\ values["secret"] = Typed /\ values["endpoint"] \in {Typed, Blank}}

NoValues == [k \in Keys |-> Blank]
AtFirst == [at |-> 1, loading |-> FALSE]
NoSave == [pc |-> "idle", of |-> 0, values |-> NoValues, next |-> 1, found |-> FALSE,
           alone |-> TRUE]
Saving(a) == saving[a].pc # "idle"

SettingsInit ==
  /\ stored \in {[c \in Categories |-> NoValues],
                 [c \in Categories |-> [k \in Keys |-> Given]]}
  /\ saving = [a \in Admins |-> NoSave]
  /\ screen = [a \in Admins |-> "off"]
  /\ view = [a \in Admins |-> AtFirst]
  /\ torn = FALSE

-----------------------------------------------------------------------------
(***************************************************************************)
(* PUT /settings/:category, bulkUpsert.                                     *)
(***************************************************************************)
\* alone: no other save of the category has overlapped this one (history).
BeginSave(a, c, values) ==
  /\ ~Saving(a)
  /\ saving' = [b \in Admins |->
       IF b = a THEN [NoSave EXCEPT !.pc = "find", !.of = c, !.values = Submitted(c, values),
                        !.alone = \A other \in Admins : saving[other].of # c]
                ELSE [saving[b] EXCEPT !.alone = @ /\ saving[b].of # c]]
  /\ UNCHANGED <<stored, screen, view, torn>>

\* The next field that is not blank: handleSave has left the others out.
Rest(a) == {i \in saving[a].next..Len(Fields) : saving[a].values[Fields[i]] # Blank}
Field(a) == Fields[CHOOSE i \in Rest(a) : \A j \in Rest(a) : i <= j]
Done(a) == saving[a].pc = "find" /\ Rest(a) = {}

Find(a) ==
  /\ saving[a].pc = "find" /\ ~Done(a)
  /\ saving' = [saving EXCEPT ![a].found = stored[saving[a].of][Field(a)] # Blank,
                              ![a].pc = "write"]
  /\ UNCHANGED <<stored, screen, view, torn>>

\* @Unique(['category', 'key'])
Duplicate(a) == ~saving[a].found /\ stored[saving[a].of][Field(a)] # Blank

\* Insert, or update of what has changed since the find.
Write(a) ==
  /\ saving[a].pc = "write" /\ ~Duplicate(a)
  /\ stored' = [stored EXCEPT ![saving[a].of][Field(a)] = saving[a].values[Field(a)]]
  /\ saving' = [saving EXCEPT
       ![a].next = 1 + CHOOSE i \in Rest(a) : Fields[i] = Field(a),
       ![a].found = FALSE, ![a].pc = "find"]
  /\ UNCHANGED <<screen, view, torn>>

Answer(a) ==
  /\ Done(a)
  /\ saving' = [saving EXCEPT ![a] = NoSave]
  /\ torn' = (torn /\ ~(saving[a].of = Llm /\ saving[a].alone))

\* Mutant of SaveFails: what cannot be written is passed over.
SaveFailsOver(a) ==
  /\ saving[a].pc = "write"
  /\ saving' = [saving EXCEPT ![a].next = 1 + CHOOSE i \in Rest(a) : Fields[i] = Field(a),
                              ![a].pc = "find"]
  /\ UNCHANGED <<stored, screen, view, torn>>

\* A duplicate, or a lost connection, half way: what was written stays.
SaveFails(a) ==
  /\ Saving(a)
  /\ saving' = [saving EXCEPT ![a] = NoSave]
  /\ torn' = (torn \/ (saving[a].of = Llm /\ saving[a].next > 1))
  /\ UNCHANGED <<stored, screen, view>>

-----------------------------------------------------------------------------
(***************************************************************************)
(* The browsers.                                                            *)
(***************************************************************************)
Installer == CHOOSE a \in Admins : TRUE

Open(a, what, at, loading) ==
  /\ screen[a] \in {"off", "completed"} /\ ~Saving(a)
  /\ screen' = [screen EXCEPT ![a] = what]
  /\ view' = [view EXCEPT ![a] = [at |-> at, loading |-> loading]]
  /\ UNCHANGED <<stored, saving, torn>>

\* SetupCheck sends every page to the wizard while a required category has no row,
\* unless its request fails; and the wizard can be visited at any time.  A bound:
\* by one administrator, who leaves the page to the others.
VisitWizard(a) == a = Installer /\ Open(a, "wizard", 1, FALSE)

\* A bound: one category of a tab at a time.
VisitPage(a, c) == a # Installer /\ Open(a, "page", c, TRUE)

\* A save in progress goes on, and nobody hears its answer.  (A bound: a browser
\* comes back when it is answered.)
Close(a) ==
  /\ screen[a] # "off"
  /\ screen' = [screen EXCEPT ![a] = "off"]
  /\ view' = [view EXCEPT ![a] = AtFirst]
  /\ UNCHANGED <<stored, saving, torn>>

Unheard(a) == screen[a] = "off" /\ Answer(a) /\ UNCHANGED <<stored, screen, view>>

-----------------------------------------------------------------------------
(***************************************************************************)
(* The wizard.                                                              *)
(***************************************************************************)
HandleNext(a) ==
  /\ screen[a] = "wizard"
  /\ \E values \in Fillings(view[a].at) : BeginSave(a, view[a].at, values)

\* Not disabled while the step is saved.
HandlePrev(a) ==
  /\ screen[a] = "wizard" /\ view[a].at > 1
  /\ view' = [view EXCEPT ![a].at = @ - 1]
  /\ UNCHANGED <<stored, saving, screen, torn>>

\* Mutant of StepSaved: the answer is not awaited.
StepSavedEarly(a) ==
  /\ screen[a] = "wizard" /\ Saving(a)
  /\ IF saving[a].of < NCategories
       THEN view' = [view EXCEPT ![a].at = saving[a].of + 1] /\ UNCHANGED screen
       ELSE /\ screen' = [screen EXCEPT ![a] = "completed"]
            /\ view' = [view EXCEPT ![a] = AtFirst]
  /\ UNCHANGED <<stored, saving, torn>>

\* The step after the one that was saved, whatever is shown by now.
StepSaved(a) ==
  /\ screen[a] = "wizard"
  /\ Answer(a)
  /\ IF saving[a].of < NCategories
       THEN view' = [view EXCEPT ![a].at = saving[a].of + 1] /\ UNCHANGED screen
       ELSE /\ screen' = [screen EXCEPT ![a] = "completed"]
            /\ view' = [view EXCEPT ![a] = AtFirst]
  /\ UNCHANGED stored

-----------------------------------------------------------------------------
(***************************************************************************)
(* The page: the tab of the services, or of the language model.             *)
(***************************************************************************)
\* loadData, which keeps the forms from being shown; Fillings says what they hold.
Loaded(a) ==
  /\ screen[a] = "page" /\ view[a].loading
  /\ view' = [view EXCEPT ![a].loading = FALSE]
  /\ UNCHANGED <<stored, saving, screen, torn>>

HandleSave(a) ==
  /\ screen[a] = "page" /\ ~view[a].loading
  /\ \E values \in Fillings(view[a].at) : BeginSave(a, view[a].at, values)

PageSaved(a) ==
  /\ screen[a] = "page"
  /\ Answer(a)
  /\ view' = [view EXCEPT ![a].loading = TRUE]
  /\ UNCHANGED <<stored, screen>>

SettingsNext ==
  \E a \in Admins :
    \/ Find(a) \/ Write(a) \/ SaveFails(a)
    \/ VisitWizard(a) \/ \E c \in Categories : VisitPage(a, c)
    \/ Close(a) \/ Unheard(a)
    \/ HandleNext(a) \/ HandlePrev(a) \/ StepSaved(a)
    \/ Loaded(a) \/ HandleSave(a) \/ PageSaved(a)
=============================================================================
