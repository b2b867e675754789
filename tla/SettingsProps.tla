---------------------------- MODULE SettingsProps ---------------------------
(***************************************************************************)
(* What the settings, the wizard and the page guarantee.                    *)
(***************************************************************************)
EXTENDS Settings

Contents == [Keys -> {Blank, Given, Typed, OwnProvider}]

SettingsTypeOK ==
  /\ stored \in [Categories -> Contents]
  /\ saving \in [Admins ->
       [pc : {"idle", "find", "write"}, of : Categories \cup {0}, values : Contents,
        next : 1..Len(Fields) + 1, found : BOOLEAN, alone : BOOLEAN]]
  /\ screen \in [Admins -> {"off", "wizard", "completed", "page"}]
  /\ view \in [Admins -> [at : Categories, loading : BOOLEAN]]
  /\ torn \in BOOLEAN

\* isSetupRequired of the server.
SetupRequired == \E c \in RequiredCategories : stored[c] = NoValues

\* Where the wizard says that everything is set up, every field that each category
\* always requires is stored, even if saves failed half way, steps were gone back to
\* while they were saved, or another administrator saves too; so no later visit is
\* sent to the wizard again.  A provider of one's own has its endpoint, but for what
\* a save of llm leaves that has not ended, or has ended half way, since bulkUpsert
\* writes the provider first and the endpoint last.
CompletedIsSetUp ==
  \A a \in Admins : screen[a] = "completed" =>
    /\ ~SetupRequired
    /\ \A c \in Categories, k \in RequiredKeys : stored[c][k] # Blank
    /\ torn \/ (\E b \in Admins : saving[b].of = Llm) \/ Valid(stored[Llm])

\* A save that is answered as done is stored in every field it sent, if no other
\* one of its category overlapped it: a refused or lost write is not answered so.
AnsweredIsStored ==
  \A a \in Admins, k \in Keys :
    Done(a) /\ saving[a].alone /\ saving[a].values[k] # Blank =>
      stored[saving[a].of][k] = saving[a].values[k]

SettingsSpec == SettingsInit /\ [][SettingsNext]_settingsVars
=============================================================================
