------------------------ MODULE AdministrationProofs ------------------------
(***************************************************************************)
(* What administrators change: the choice of the language model, the rows   *)
(* of an employee, and the settings.                                        *)
(***************************************************************************)
EXTENDS SettingsProps, LanguageModel, Employees, TLAPS

-----------------------------------------------------------------------------
(***************************************************************************)
(* The key and the model of every request are of the place it goes to.      *)
(*                                                                          *)
(* The two fields of the service agree after every action: createProvider   *)
(* throws before either is assigned, and both are assigned in one turn of   *)
(* the event loop.                                                          *)
(***************************************************************************)
\* A provider has no model of another place to fall back on.
OfOnePlace(p) == p.defaultModel = p.baseURL
FieldsAgree ==
  provider # NoProvider =>
    /\ OfOnePlace(provider)
    /\ provider.baseURL \in Hosted \cup Endpoints
    /\ config.key = provider.baseURL
    /\ config.model \in {provider.baseURL, Unnamed}

Messages ==
  {m \in [kind : {"none", "chat", "test", "list"}, to : Hosted \cup Endpoints \cup {NoEndpoint},
          key : Hosted \cup Endpoints \cup {NoEndpoint},
          model : Hosted \cup Endpoints \cup {NoEndpoint, Unnamed}] :
     m.key = m.to /\ m.model \in {m.to, Unnamed}}

ModelInv == FieldsAgree /\ sent \in [Askers -> Messages]

\* A setting that is accepted is of one place, with its provider (createProvider).
LEMMA SettingOfOnePlace ==
  ASSUME NEW c \in Settable, Creatable(c), NEW model \in {c.model, Unnamed}
  PROVE  LET p == CreateProvider(c, model) IN
         /\ OfOnePlace(p) /\ c.key = p.baseURL /\ c.model \in {p.baseURL, Unnamed}
         /\ p.baseURL \in Hosted \cup Endpoints
<1>1. PICK t \in ProviderTypes, e \in Endpoints \cup {NoEndpoint}, named \in BOOLEAN :
        c = Setting(t, e, named)
  BY DEF Settable
<1>2. CASE t \in Hosted
  BY <1>1, <1>2 DEF Setting, CreateProvider, OfOnePlace, Hosted, Anthropic, OpenAI, Google
<1>3. CASE t = "custom"
  <2>1. c.type = "custom" /\ c.endpoint = e /\ c.key = e
    BY <1>1, <1>3 DEF Setting
  <2>2. c.model \in {e, Unnamed} /\ model \in {e, Unnamed}
    BY <1>1, <1>3 DEF Setting
  <2>3. e \in Endpoints
    BY <2>1 DEF Creatable
  <2>4. CreateProvider(c, model) = Custom(e, model)
    BY <2>1 DEF CreateProvider
  <2> QED
    BY <2>1, <2>2, <2>3, <2>4 DEF Custom, OfOnePlace
<1> QED
  BY <1>2, <1>3 DEF ProviderTypes

\* What a provider of one place sends with a key of it is of that place.
LEMMA MessageOfOnePlace ==
  ASSUME NEW p, OfOnePlace(p), p.baseURL \in Hosted \cup Endpoints,
         NEW kind \in {"chat", "test", "list"}, NEW key, key = p.baseURL,
         NEW model \in {p.baseURL, Unnamed}
  PROVE  Message(kind, p, key, model) \in Messages
BY DEF Message, Messages, OfOnePlace

LEMMA NotSentIsMessage == NotSent \in Messages
BY DEF NotSent, Messages

\* A change of the provider changes both fields or none (setProvider).
LEMMA SetProviderStep ==
  ASSUME NEW setting \in Settable, ModelInv, SetProvider(setting)
  PROVE  ModelInv'
<1>1. FieldsAgree'
  BY SettingOfOnePlace DEF SetProvider, FieldsAgree
<1> QED
  BY <1>1 DEF SetProvider, ModelInv

\* What is sent carries what the fields hold in that turn (chat, testConnection and
\* listModels).
LEMMA AskStep ==
  ASSUME NEW a \in Askers, ModelInv,
         \/ Chat(a)
         \/ \E setting \in Settable : TestConnection(a, setting) \/ ListModels(a, setting)
  PROVE  ModelInv'
<1>0. FieldsAgree /\ sent \in [Askers -> Messages]
  BY DEF ModelInv
<1>1. CASE Chat(a)
  <2>1. Message("chat", provider, config.key, config.model) \in Messages
    BY <1>0, <1>1, MessageOfOnePlace DEF Chat, IsConfigured, FieldsAgree
  <2> QED
    BY <1>0, <1>1, <2>1 DEF Chat, ModelInv, FieldsAgree
<1>2. ASSUME NEW setting \in Settable, TestConnection(a, setting) PROVE ModelInv'
  <2> DEFINE own == CreateProvider(setting, Unnamed)
  <2>1. /\ OfOnePlace(own) /\ setting.key = own.baseURL
        /\ setting.model \in {own.baseURL, Unnamed} /\ own.baseURL \in Hosted \cup Endpoints
    <3>1. PICK model \in {setting.model, Unnamed} : model = Unnamed
      OBVIOUS
    <3> QED
      BY <1>2, <3>1, SettingOfOnePlace DEF TestConnection
  <2> HIDE DEF own
  <2>2. Message("test", own, setting.key, setting.model) \in Messages
    BY <2>1, MessageOfOnePlace
  <2> QED
    BY <1>0, <1>2, <2>2 DEF TestConnection, ModelInv, FieldsAgree, own
<1>3. ASSUME NEW setting \in Settable, ListModels(a, setting) PROVE ModelInv'
  <2> DEFINE m == [Message("list", OpenAI, setting.key, Unnamed) EXCEPT !.model = Unnamed]
  <2>1. setting.key = "openai"
    BY <1>3 DEF ListModels, Settable, Setting
  <2>2. m \in Messages
    BY <2>1 DEF Message, OpenAI, Messages, Hosted
  <2> HIDE DEF m
  <2> QED
    BY <1>0, <1>3, <2>2 DEF ListModels, ModelInv, FieldsAgree, m
<1> QED
  BY <1>1, <1>2, <1>3

\* Initially nothing is chosen and nothing sent.
LEMMA ModelInitSound == ModelInit => ModelInv
BY NotSentIsMessage DEF ModelInit, ModelInv, FieldsAgree

\* Every step of the service and of the providers keeps the invariant.
LEMMA ModelStep == ModelInv /\ [ModelNext]_modelVars => ModelInv'
<1> SUFFICES ASSUME ModelInv, [ModelNext]_modelVars PROVE ModelInv'
  OBVIOUS
<1>1. ASSUME NEW setting \in Settable, SetProvider(setting) PROVE ModelInv'
  BY <1>1, SetProviderStep
<1>2. CASE Restarted
  BY <1>2, NotSentIsMessage DEF Restarted, ModelInv, FieldsAgree
<1>3. ASSUME NEW a \in Askers, Returned(a) PROVE ModelInv'
  BY <1>3, NotSentIsMessage DEF Returned, ModelInv, FieldsAgree
<1>4. ASSUME NEW a \in Askers, Chat(a) PROVE ModelInv'
  BY <1>4, AskStep
<1>5. ASSUME NEW a \in Askers, NEW setting \in Settable,
             TestConnection(a, setting) \/ ListModels(a, setting)
      PROVE  ModelInv'
  BY <1>5, AskStep
<1>6. CASE UNCHANGED modelVars
  BY <1>6 DEF modelVars, ModelInv, FieldsAgree
<1> QED
  BY <1>1, <1>2, <1>3, <1>4, <1>5, <1>6 DEF ModelNext

\* Whatever overlaps, is refused, fails or restarts, no service is given the key or
\* the model of another one (setProvider, chat, testConnection, listModels).
THEOREM KeysStayApart == ModelSpec => []KeyGoesToItsService
<1>1. ModelInv => KeyGoesToItsService
  BY DEF ModelInv, Messages, KeyGoesToItsService
<1> QED
  BY <1>1, ModelInitSound, ModelStep, PTL DEF ModelSpec

-----------------------------------------------------------------------------
(***************************************************************************)
(* A password that was replaced stays dead, for any number of callers.      *)
(*                                                                          *)
(* A call carries a password only if it made one, for a loaded copy has     *)
(* none.  So the password of a call is in nobody else's hands, neither in   *)
(* the row nor in another call, until the call has written it.              *)
(***************************************************************************)
Password(a) == call[a].copy.password

\* Types, as far as the proof needs them.
CallTypes ==
  [pc : {"idle", "assigned", "update", "insert", "delete"}, of : {"employee", "policy"},
   named : SUBSET (EmployeeColumns \cup PolicyColumns), copy : Row,
   changed : SUBSET (EmployeeColumns \cup PolicyColumns), alone : BOOLEAN]
TypesHold ==
  /\ employee \in Row
  /\ call \in [Callers -> CallTypes]
  /\ issued \in 0..MaxPasswords /\ retired \subseteq 1..issued

\* The row: a password that is not retired, if there is a row.
RowSound ==
  /\ employee.password <= issued
  /\ employee.password \notin retired
  /\ employee.password = 0 => employee = NoEmployee

\* The calls: a password of their own, if they name one, and no other.
CallsSound ==
  \A a \in Callers :
    /\ Password(a) <= issued /\ Password(a) \notin retired
    /\ Password(a) # 0 => Password(a) # employee.password
    /\ "password" \in call[a].named \cup call[a].changed => Password(a) # 0
CallsApart ==
  \A a, b \in Callers : a # b /\ Password(a) # 0 => Password(a) # Password(b)

RowsInv == TypesHold /\ RowSound /\ CallsSound /\ CallsApart

LEMMA NoRowTypes == NoEmployee \in Row /\ NoCall \in CallTypes /\ NoEmployee.password = 0
BY MaxPasswordsAssumption DEF NoEmployee, NoCall, Row, Names, CallTypes, EmployeeColumns

LEMMA EmployeesInitSound == EmployeesInit => RowsInv
BY NoRowTypes, MaxPasswordsAssumption
   DEF EmployeesInit, RowsInv, TypesHold, RowSound, CallsSound, CallsApart, Password, NoCall

-----------------------------------------------------------------------------
(***************************************************************************)
(* What the steps of calls have in common.                                  *)
(***************************************************************************)
\* A call that begins with no password, or with the next one.
LEMMA BeginKeeps ==
  ASSUME NEW a \in Callers, NEW new \in CallTypes, RowsInv, Begin(a, new),
         UNCHANGED <<employee, retired>>, issued' \in 0..MaxPasswords,
         \/ issued' = issued /\ new.copy.password = 0
         \/ issued' = issued + 1 /\ new.copy.password = issued',
         "password" \in new.named \cup new.changed => new.copy.password # 0
  PROVE  RowsInv'
<1>0. TypesHold /\ RowSound /\ CallsSound /\ CallsApart
  BY DEF RowsInv
<1>1. issued \in Nat /\ issued' \in Nat /\ issued <= issued'
  BY <1>0, MaxPasswordsAssumption DEF TypesHold
<1>2. \A b \in Callers : employee.password \in Nat /\ Password(b) \in Nat
  BY <1>0, MaxPasswordsAssumption DEF TypesHold, CallTypes, Row, Password
<1>3. /\ call' \in [Callers -> CallTypes]
      /\ call'[a].copy = new.copy /\ call'[a].named = new.named
      /\ call'[a].changed = new.changed
  BY <1>0, NoRowTypes DEF Begin, TypesHold, CallTypes
<1>4. \A b \in Callers \ {a} : /\ call'[b].copy = call[b].copy
                               /\ call'[b].named = call[b].named
                               /\ call'[b].changed = call[b].changed
  BY <1>0 DEF Begin, TypesHold, CallTypes
<1>5. \A b \in Callers \ {a} : Password(b)' = Password(b)
  BY <1>4 DEF Password
<1>6. Password(a)' = new.copy.password
  BY <1>3 DEF Password
<1>7. TypesHold' /\ RowSound'
  BY <1>0, <1>1, <1>2, <1>3 DEF TypesHold, RowSound
<1>8. CallsSound'
  <2> SUFFICES ASSUME NEW b \in Callers
               PROVE  /\ Password(b)' <= issued' /\ Password(b)' \notin retired
                      /\ Password(b)' # 0 => Password(b)' # employee.password
                      /\ "password" \in call'[b].named \cup call'[b].changed =>
                           Password(b)' # 0
    BY DEF CallsSound, Password
  <2>1. CASE b = a
    BY <1>0, <1>1, <1>2, <1>3, <1>6, <2>1 DEF TypesHold, RowSound
  <2>2. CASE b # a
    BY <1>0, <1>1, <1>2, <1>4, <1>5, <2>2 DEF CallsSound
  <2> QED
    BY <2>1, <2>2
<1>9. CallsApart'
  <2> SUFFICES ASSUME NEW b \in Callers, NEW c \in Callers, b # c, Password(b)' # 0
               PROVE  Password(b)' # Password(c)'
    BY DEF CallsApart, Password
  <2> QED
    BY <1>0, <1>1, <1>2, <1>5, <1>6 DEF CallsApart, CallsSound
<1> QED
  BY <1>7, <1>8, <1>9 DEF RowsInv

\* A call that goes on.
LEMMA GoesOnKeeps ==
  ASSUME NEW a \in Callers, RowsInv, UNCHANGED <<employee, retired, issued>>,
         NEW pc \in {"update", "insert"},
         NEW changed \in SUBSET (EmployeeColumns \cup PolicyColumns), Step(a, pc, changed),
         "password" \in changed => Password(a) # 0
  PROVE  RowsInv'
<1>0. TypesHold /\ RowSound /\ CallsSound /\ CallsApart
  BY DEF RowsInv
<1>1. call' \in [Callers -> CallTypes]
  BY <1>0 DEF Step, TypesHold, CallTypes
<1>2. \A b \in Callers : /\ call'[b].copy = call[b].copy /\ call'[b].named = call[b].named
                         /\ b # a => call'[b].changed = call[b].changed
                         /\ b = a => call'[b].changed = changed
  BY <1>0 DEF Step, TypesHold, CallTypes
<1>3. \A b \in Callers : Password(b)' = Password(b)
  BY <1>2 DEF Password
<1>4. CallsSound'
  BY <1>0, <1>2, <1>3 DEF CallsSound
<1>5. CallsApart'
  BY <1>0, <1>3 DEF CallsApart
<1> QED
  BY <1>0, <1>1, <1>4, <1>5 DEF RowsInv, TypesHold, RowSound

\* A call that ends, having left the password of the row as it was, or put its own
\* there, or removed the row.
LEMMA EndKeeps ==
  ASSUME NEW a \in Callers, RowsInv, End(a), UNCHANGED issued,
         employee' \in Row, RowSound',
         employee'.password \in {employee.password, Password(a), 0},
         retired' \subseteq 1..issued,
         retired' \subseteq retired \cup {employee.password}
  PROVE  RowsInv'
<1>0. TypesHold /\ RowSound /\ CallsSound /\ CallsApart
  BY DEF RowsInv
<1>1. call' \in [Callers -> CallTypes] /\ call'[a] = NoCall
  BY <1>0, NoRowTypes DEF End, TypesHold
<1>2. \A b \in Callers \ {a} : call'[b] = call[b] /\ Password(b)' = Password(b)
  BY <1>0 DEF End, TypesHold, Password
<1>3. /\ Password(a)' = 0 /\ 0 \notin retired' /\ 0 <= issued
      /\ call'[a].named = {} /\ call'[a].changed = {}
  BY <1>0, <1>1, NoRowTypes DEF TypesHold, Password, NoCall
<1>4. CallsSound'
  <2> SUFFICES ASSUME NEW b \in Callers
               PROVE  /\ Password(b)' <= issued' /\ Password(b)' \notin retired'
                      /\ Password(b)' # 0 => Password(b)' # employee'.password
                      /\ "password" \in call'[b].named \cup call'[b].changed =>
                           Password(b)' # 0
    BY DEF CallsSound, Password
  <2>1. CASE b = a
    BY <1>3, <2>1
  <2>2. CASE b # a
    BY <1>0, <1>2, <1>3, <2>2 DEF CallsSound, CallsApart
  <2> QED
    BY <2>1, <2>2
<1>5. CallsApart'
  BY <1>0, <1>2, <1>3 DEF CallsApart
<1> QED
  BY <1>0, <1>1, <1>4, <1>5 DEF RowsInv, TypesHold

-----------------------------------------------------------------------------
(***************************************************************************)
(* The steps.                                                               *)
(***************************************************************************)
\* update carries a password only if the request names one (findOne selects none).
LEMMA UpdateStep ==
  ASSUME RowsInv, NEW a \in Callers, NEW named \in SUBSET EmployeeColumns,
         Update(a, named)
  PROVE  RowsInv'
<1> DEFINE copy == Assign(FindOne(employee), a, named, issued')
           new == [NoCall EXCEPT !.pc = "assigned", !.named = named, !.copy = copy]
<1>1. issued \in Nat /\ issued' \in 0..MaxPasswords
  BY MaxPasswordsAssumption DEF Update, NewPassword, RowsInv, TypesHold
<1>2. copy \in Row
  BY <1>1, MaxPasswordsAssumption
     DEF Assign, FindOne, RowsInv, TypesHold, Row, EmployeeColumns, Names, NotSelected
<1>3. copy.password = IF "password" \in named THEN issued' ELSE 0
  BY DEF Assign, FindOne, RowsInv, TypesHold, Row, EmployeeColumns, NotSelected
<1> HIDE DEF copy
<1>4. /\ new \in CallTypes /\ new.copy = copy /\ new.named = named /\ new.changed = {}
  BY <1>2 DEF NoCall, CallTypes
<1>5. /\ Begin(a, new) /\ UNCHANGED <<employee, retired>>
      /\ \/ issued' = issued /\ new.copy.password = 0
         \/ issued' = issued + 1 /\ new.copy.password = issued'
      /\ "password" \in new.named \cup new.changed => new.copy.password # 0
  <2>1. IF "password" \in named THEN issued' = issued + 1 ELSE issued' = issued
    BY DEF Update, NewPassword
  <2> QED
    BY <1>1, <1>3, <1>4, <2>1 DEF Update, copy
<1> HIDE DEF new
<1> QED
  BY <1>1, <1>4, <1>5, BeginKeeps

\* changePassword makes the next password.
LEMMA ChangePasswordStep ==
  ASSUME RowsInv, NEW a \in Callers, ChangePassword(a)
  PROVE  RowsInv'
<1> DEFINE new == [NoCall EXCEPT !.pc = "update", !.named = {"password"},
                     !.changed = {"password"}, !.copy.password = issued']
<1>1. issued \in Nat /\ issued' \in 0..MaxPasswords /\ issued' = issued + 1
  BY MaxPasswordsAssumption DEF ChangePassword, NewPassword, RowsInv, TypesHold
<1>2. /\ new \in CallTypes /\ new.copy.password = issued'
  BY <1>1 DEF NoCall, NoEmployee, CallTypes, Row, Names, EmployeeColumns
<1>3. Begin(a, new) /\ UNCHANGED <<employee, retired>>
  BY DEF ChangePassword
<1> HIDE DEF new
<1> QED
  BY <1>1, <1>2, <1>3, BeginKeeps

\* remove, and the update of a policy, make none.
LEMMA OtherBeginStep ==
  ASSUME RowsInv, NEW a \in Callers,
         Remove(a) \/ \E named \in SUBSET PolicyColumns : UpdatePolicy(a, named)
  PROVE  RowsInv'
<1>0. issued \in 0..MaxPasswords
  BY DEF RowsInv, TypesHold
<1>1. CASE Remove(a)
  <2> DEFINE new == [NoCall EXCEPT !.pc = "delete"]
  <2>1. /\ new \in CallTypes /\ new.copy.password = 0
        /\ "password" \notin new.named \cup new.changed
    BY NoRowTypes DEF NoCall, CallTypes
  <2>2. Begin(a, new) /\ UNCHANGED <<employee, issued, retired>>
    BY <1>1 DEF Remove
  <2> HIDE DEF new
  <2> QED
    BY <1>0, <2>1, <2>2, BeginKeeps
<1>2. ASSUME NEW named \in SUBSET PolicyColumns, UpdatePolicy(a, named) PROVE RowsInv'
  <2> DEFINE new == [NoCall EXCEPT !.pc = "assigned", !.of = "policy", !.named = named]
  <2>1. /\ new \in CallTypes /\ new.copy.password = 0
        /\ "password" \notin new.named \cup new.changed
    BY NoRowTypes DEF NoCall, CallTypes, PolicyColumns
  <2>2. Begin(a, new) /\ UNCHANGED <<employee, issued, retired>>
    BY <1>2 DEF UpdatePolicy
  <2> HIDE DEF new
  <2> QED
    BY <1>0, <2>1, <2>2, BeginKeeps
<1> QED
  BY <1>1, <1>2

\* save compares: a password that was not selected is not updated.
LEMMA SaveSelectStep ==
  ASSUME RowsInv, NEW a \in Callers, SaveSelect(a)
  PROVE  RowsInv'
<1>1. UNCHANGED <<employee, retired, issued>>
  BY DEF SaveSelect
<1>2. CASE employee = NoEmployee
  BY <1>1, <1>2, GoesOnKeeps DEF SaveSelect
<1>3. CASE employee # NoEmployee
  <2> DEFINE changed == Changed(call[a].copy, employee)
  <2>1. changed \in SUBSET (EmployeeColumns \cup PolicyColumns)
    BY DEF Changed
  <2>2. "password" \in changed => Password(a) # 0
    BY DEF Changed, Password, NotSelected
  <2>3. Step(a, "update", changed)
    BY <1>3 DEF SaveSelect
  <2> HIDE DEF changed
  <2> QED
    BY <1>1, <2>1, <2>2, <2>3, GoesOnKeeps
<1> QED
  BY <1>2, <1>3

LEMMA SelectPolicyStep ==
  ASSUME RowsInv, NEW a \in Callers, SelectPolicy(a)
  PROVE  RowsInv'
<1>0. TypesHold /\ RowSound /\ CallsSound
  BY DEF RowsInv
<1>1. UNCHANGED <<employee, retired, issued>>
  BY DEF SelectPolicy
<1>2. CASE policy = NoPolicy
  <2>1. End(a)
    BY <1>2 DEF SelectPolicy
  <2> QED
    BY <1>0, <1>1, <2>1, EndKeeps DEF TypesHold, RowSound
<1>3. CASE policy # NoPolicy
  <2> DEFINE changed == {k \in call[a].named : policy[k] # a}
  <2>1. changed \in SUBSET (EmployeeColumns \cup PolicyColumns)
    BY <1>0 DEF TypesHold, CallTypes
  <2>2. "password" \in changed => Password(a) # 0
    BY <1>0 DEF CallsSound
  <2>3. Step(a, "update", changed)
    BY <1>3 DEF SelectPolicy
  <2> HIDE DEF changed
  <2> QED
    BY <1>1, <2>1, <2>2, <2>3, GoesOnKeeps
<1> QED
  BY <1>2, <1>3

\* UPDATE: the password it replaces was another one, and its own was nobody's.
LEMMA UpdateRowStep ==
  ASSUME RowsInv, NEW a \in Callers, UpdateRow(a)
  PROVE  RowsInv'
<1>0. TypesHold /\ RowSound /\ CallsSound
  BY DEF RowsInv
<1>1. End(a) /\ UNCHANGED issued
  BY DEF UpdateRow
<1>2. CASE employee = NoEmployee
  <2>1. UNCHANGED <<employee, retired>>
    BY <1>2 DEF UpdateRow
  <2> QED
    BY <1>0, <1>1, <2>1, EndKeeps DEF TypesHold, RowSound
<1>3. CASE employee # NoEmployee
  <2> DEFINE changed == call[a].changed
             row == [k \in EmployeeColumns |->
                       IF k \in changed THEN call[a].copy[k] ELSE employee[k]]
  <2>1. employee' = row
    BY <1>3 DEF UpdateRow
  <2>2. call[a].copy \in Row /\ employee \in Row
    BY <1>0 DEF TypesHold, CallTypes
  <2>3. row \in Row
    BY <2>2 DEF Row, EmployeeColumns
  <2>4. row.password = IF "password" \in changed THEN Password(a) ELSE employee.password
    BY DEF EmployeeColumns, Password
  <2> HIDE DEF row
  <2>5. employee.password \in 1..issued /\ issued \in Nat
    BY <1>0, <1>3, MaxPasswordsAssumption DEF TypesHold, RowSound, Row
  <2>6. retired' = IF row.password # employee.password
                     THEN retired \cup {employee.password} ELSE retired
    BY <2>1 DEF UpdateRow
  <2>7. row.password # 0 /\ row.password <= issued /\ row.password \notin retired'
    BY <1>0, <2>4, <2>5, <2>6 DEF RowSound, CallsSound
  <2>8. RowSound'
    BY <1>1, <2>1, <2>7 DEF RowSound
  <2>9. retired' \subseteq 1..issued /\ retired' \subseteq retired \cup {employee.password}
    BY <1>0, <2>5, <2>6 DEF TypesHold
  <2> QED
    BY <1>1, <2>1, <2>3, <2>4, <2>8, <2>9, EndKeeps
<1> QED
  BY <1>2, <1>3

\* INSERT: an employee who comes back has a new password.
LEMMA ReinsertStep ==
  ASSUME RowsInv, NEW a \in Callers, Reinsert(a)
  PROVE  RowsInv'
<1>0. TypesHold /\ RowSound /\ CallsSound
  BY DEF RowsInv
<1>1. End(a) /\ UNCHANGED <<issued, retired>>
  BY DEF Reinsert
<1>2. CASE employee' = employee
  BY <1>0, <1>1, <1>2, EndKeeps DEF TypesHold, RowSound
<1>3. CASE employee' = call[a].copy /\ "password" \in call[a].named
  <2>1. call[a].copy \in Row
    BY <1>0 DEF TypesHold, CallTypes
  <2>2. RowSound'
    BY <1>0, <1>1, <1>3 DEF RowSound, CallsSound, Password
  <2> QED
    BY <1>0, <1>1, <1>3, <2>1, <2>2, EndKeeps DEF TypesHold, Password
<1> QED
  BY <1>2, <1>3 DEF Reinsert

LEMMA DeleteStep ==
  ASSUME RowsInv, NEW a \in Callers, Delete(a)
  PROVE  RowsInv'
<1>0. TypesHold /\ RowSound /\ CallsSound
  BY DEF RowsInv
<1>1. End(a) /\ UNCHANGED <<issued, retired>>
  BY DEF Delete
<1>2. CASE employee' = employee
  BY <1>0, <1>1, <1>2, EndKeeps DEF TypesHold, RowSound
<1>3. CASE employee' = NoEmployee
  <2>1. RowSound'
    BY <1>0, <1>1, <1>3, NoRowTypes, MaxPasswordsAssumption DEF RowSound, TypesHold
  <2> QED
    BY <1>0, <1>1, <1>3, <2>1, NoRowTypes, EndKeeps DEF TypesHold
<1> QED
  BY <1>2, <1>3 DEF Delete

\* The first password of an employee, who is not registered yet.
LEMMA CreateStep ==
  ASSUME RowsInv, NEW a \in Callers, NEW role \in {"employee", a}, Create(a, role)
  PROVE  RowsInv'
<1>0. TypesHold /\ RowSound /\ CallsSound /\ CallsApart
  BY DEF RowsInv
<1>1. /\ issued \in Nat /\ issued' \in 0..MaxPasswords /\ issued' = issued + 1
      /\ UNCHANGED <<call, retired>>
  BY <1>0, MaxPasswordsAssumption DEF Create, NewPassword, TypesHold
<1>2. employee' \in Row /\ employee'.password = issued'
  BY <1>1 DEF Create, Row, Names
<1>3. \A b \in Callers : Password(b) \in Nat /\ Password(b)' = Password(b)
  BY <1>0, <1>1, MaxPasswordsAssumption DEF TypesHold, CallTypes, Row, Password
<1>4. TypesHold' /\ RowSound'
  BY <1>0, <1>1, <1>2 DEF TypesHold, RowSound
<1>5. CallsSound'
  BY <1>0, <1>1, <1>2, <1>3 DEF CallsSound
<1>6. CallsApart'
  BY <1>0, <1>3 DEF CallsApart
<1> QED
  BY <1>4, <1>5, <1>6 DEF RowsInv

LEMMA PolicyRowStep ==
  ASSUME RowsInv, NEW a \in Callers, CreatePolicy(a) \/ UpdatePolicyRow(a)
  PROVE  RowsInv'
<1>0. TypesHold /\ RowSound
  BY DEF RowsInv
<1>1. CASE CreatePolicy(a)
  BY <1>1 DEF CreatePolicy, RowsInv, TypesHold, RowSound, CallsSound, CallsApart, Password
<1>2. CASE UpdatePolicyRow(a)
  <2>1. End(a) /\ UNCHANGED <<employee, issued, retired>>
    BY <1>2 DEF UpdatePolicyRow
  <2> QED
    BY <1>0, <2>1, EndKeeps DEF TypesHold, RowSound
<1> QED
  BY <1>1, <1>2

LEMMA EmployeesStep == RowsInv /\ [EmployeesNext]_employeeVars => RowsInv'
<1> SUFFICES ASSUME RowsInv, [EmployeesNext]_employeeVars PROVE RowsInv'
  OBVIOUS
<1>1. CASE UNCHANGED employeeVars
  BY <1>1 DEF employeeVars, RowsInv, TypesHold, RowSound, CallsSound, CallsApart, Password
<1>2. CASE EmployeesNext
  <2> PICK a \in Callers :
        \/ \E role \in {"employee", a} : Create(a, role)
        \/ \E named \in SUBSET EmployeeColumns : Update(a, named)
        \/ SaveSelect(a) \/ UpdateRow(a) \/ Reinsert(a)
        \/ Remove(a) \/ Delete(a) \/ ChangePassword(a)
        \/ CreatePolicy(a)
        \/ \E named \in SUBSET PolicyColumns : UpdatePolicy(a, named)
        \/ SelectPolicy(a) \/ UpdatePolicyRow(a)
    BY <1>2 DEF EmployeesNext
  <2> QED
    BY CreateStep, UpdateStep, SaveSelectStep, UpdateRowStep, ReinsertStep, OtherBeginStep,
       DeleteStep, ChangePasswordStep, SelectPolicyStep, PolicyRowStep
<1> QED
  BY <1>1, <1>2

\* For any number of callers, a password that was replaced by an administrator or by
\* the employee is never put back by a save of a row loaded before (findOne, update,
\* changePassword).
THEOREM OldPasswordsStayDead == EmployeesSpec => []OldPasswordStaysDead
<1>1. RowsInv => OldPasswordStaysDead
  BY DEF RowsInv, RowSound, OldPasswordStaysDead
<1> QED
  BY <1>1, EmployeesInitSound, EmployeesStep, PTL DEF EmployeesSpec

-----------------------------------------------------------------------------
(***************************************************************************)
(* What a save writes.                                                      *)
(*                                                                          *)
(* A call that is alone has a copy that is up to date but for what it names, *)
(* for every other call that could change the row would overlap it.         *)
(***************************************************************************)
FreshCall(c, row) ==
  /\ c.copy.password # 0 => "password" \in c.named
  /\ c.pc = "update" /\ c.of = "policy" => c.changed \subseteq c.named
  /\ c.alone /\ c.of = "employee" /\ c.pc = "assigned" =>
       \A k \in EmployeeColumns \ (c.named \cup {"password"}) : c.copy[k] = row[k]
  /\ c.alone /\ c.of = "employee" /\ c.pc = "update" =>
       c.changed \subseteq c.named \cup {"password"}

OnceRegistered ==
  employee # NoEmployee \/ policy # NoPolicy \/ (\E b \in Callers : call[b] # NoCall)
    => registered
AloneIsAlone ==
  \A a, b \in Callers :
    a # b /\ call[a] # NoCall /\ call[a].alone => call[b] = NoCall

SavesInv ==
  /\ RowsInv /\ OnceRegistered /\ AloneIsAlone
  /\ \A a \in Callers : FreshCall(call[a], employee)

LEMMA NoCallFresh ==
  ASSUME NEW row PROVE FreshCall(NoCall, row)
BY NoRowTypes DEF NoCall, FreshCall

LEMMA SavesInitSound == EmployeesInit => SavesInv
BY EmployeesInitSound, NoCallFresh DEF EmployeesInit, SavesInv, OnceRegistered, AloneIsAlone

\* A call that begins.
LEMMA BeginFresh ==
  ASSUME SavesInv, RowsInv', NEW a \in Callers, NEW new \in CallTypes, Begin(a, new),
         UNCHANGED <<employee, policy, registered>>,
         employee # NoEmployee \/ policy # NoPolicy,
         new.copy.password # 0 => "password" \in new.named,
         new.pc = "update" => new.of = "employee" /\ new.changed \subseteq new.named,
         new.of = "employee" /\ new.pc = "assigned" =>
           \A k \in EmployeeColumns \ (new.named \cup {"password"}) :
             new.copy[k] = employee[k]
  PROVE  SavesInv'
<1> DEFINE mine == [new EXCEPT !.alone = \A other \in Callers : call[other] = NoCall]
<1>1. /\ call'[a] = mine
      /\ \A b \in Callers \ {a} :
           /\ call[b] = NoCall => call'[b] = NoCall
           /\ call[b] # NoCall => call'[b] = [call[b] EXCEPT !.alone = FALSE]
  BY DEF Begin
<1>2. /\ mine.pc = new.pc /\ mine.of = new.of /\ mine.named = new.named
      /\ mine.copy = new.copy /\ mine.changed = new.changed
      /\ mine.alone => \A other \in Callers : call[other] = NoCall
  BY DEF CallTypes
<1> HIDE DEF mine
<1>3. FreshCall(call'[a], employee')
  BY <1>1, <1>2 DEF FreshCall
<1>4. ASSUME NEW b \in Callers \ {a} PROVE FreshCall(call'[b], employee')
  <2>1. CASE call[b] = NoCall
    BY <1>1, <2>1, NoCallFresh
  <2>2. CASE call[b] # NoCall
    <3>1. /\ call'[b].alone = FALSE /\ call'[b].copy = call[b].copy
          /\ call'[b].named = call[b].named /\ call'[b].changed = call[b].changed
          /\ call'[b].pc = call[b].pc /\ call'[b].of = call[b].of
      BY <1>1, <2>2 DEF SavesInv, RowsInv, TypesHold, CallTypes
    <3> QED
      BY <3>1 DEF SavesInv, FreshCall
  <2> QED
    BY <2>1, <2>2
<1>5. AloneIsAlone'
  <2> SUFFICES ASSUME NEW b \in Callers, NEW c \in Callers, b # c,
                      call'[b] # NoCall, call'[b].alone
               PROVE  call'[c] = NoCall
    BY DEF AloneIsAlone
  <2>1. b = a
    <3> SUFFICES ASSUME b # a PROVE FALSE
      OBVIOUS
    <3>1. call[b] # NoCall /\ call'[b] = [call[b] EXCEPT !.alone = FALSE]
      BY <1>1
    <3> QED
      BY <3>1 DEF SavesInv, RowsInv, TypesHold, CallTypes
  <2> QED
    BY <1>1, <1>2, <2>1
<1>6. OnceRegistered'
  BY DEF SavesInv, OnceRegistered
<1> QED
  BY <1>3, <1>4, <1>5, <1>6 DEF SavesInv

\* A call that goes on to its UPDATE or INSERT.
LEMMA GoesOnFresh ==
  ASSUME SavesInv, RowsInv', NEW a \in Callers, call[a] # NoCall,
         NEW pc \in {"update", "insert"},
         NEW changed \in SUBSET (EmployeeColumns \cup PolicyColumns), Step(a, pc, changed),
         UNCHANGED <<employee, policy, registered>>,
         pc = "update" /\ call[a].of = "policy" => changed \subseteq call[a].named,
         pc = "update" /\ call[a].of = "employee" /\ call[a].alone =>
           changed \subseteq call[a].named \cup {"password"}
  PROVE  SavesInv'
<1>1. \A b \in Callers \ {a} : call'[b] = call[b]
  BY DEF Step, SavesInv, RowsInv, TypesHold
<1>2. /\ call'[a].pc = pc /\ call'[a].changed = changed /\ call'[a].copy = call[a].copy
      /\ call'[a].named = call[a].named /\ call'[a].of = call[a].of
      /\ call'[a].alone = call[a].alone
  BY DEF Step, SavesInv, RowsInv, TypesHold, CallTypes
<1>3. call'[a] # NoCall
  BY <1>2 DEF NoCall
<1>4. \A b \in Callers : FreshCall(call'[b], employee')
  BY <1>1, <1>2 DEF SavesInv, FreshCall
<1>5. AloneIsAlone'
  BY <1>1, <1>2, <1>3 DEF SavesInv, AloneIsAlone
<1>6. OnceRegistered'
  BY DEF SavesInv, OnceRegistered
<1> QED
  BY <1>4, <1>5, <1>6 DEF SavesInv

\* A call that ends: whatever it wrote, no other call was alone.
LEMMA EndFresh ==
  ASSUME SavesInv, RowsInv', NEW a \in Callers, call[a] # NoCall, End(a),
         UNCHANGED registered
  PROVE  SavesInv'
<1>1. call'[a] = NoCall /\ \A b \in Callers \ {a} : call'[b] = call[b]
  BY DEF End, SavesInv, RowsInv, TypesHold
<1>2. ASSUME NEW b \in Callers PROVE FreshCall(call'[b], employee')
  <2>1. CASE call'[b] = NoCall
    BY <2>1, NoCallFresh
  <2>2. CASE call'[b] # NoCall
    <3>1. b # a /\ call'[b] = call[b] /\ ~call[b].alone
      BY <1>1, <2>2 DEF SavesInv, AloneIsAlone
    <3> QED
      BY <3>1 DEF SavesInv, FreshCall
  <2> QED
    BY <2>1, <2>2
<1>3. AloneIsAlone'
  BY <1>1 DEF SavesInv, AloneIsAlone
<1>4. OnceRegistered'
  BY DEF SavesInv, OnceRegistered
<1> QED
  BY <1>2, <1>3, <1>4 DEF SavesInv

LEMMA UpdateFresh ==
  ASSUME SavesInv, RowsInv', NEW a \in Callers, NEW named \in SUBSET EmployeeColumns,
         Update(a, named)
  PROVE  SavesInv'
<1> DEFINE copy == Assign(FindOne(employee), a, named, issued')
           new == [NoCall EXCEPT !.pc = "assigned", !.named = named, !.copy = copy]
<1>1. employee \in Row /\ issued' \in 0..MaxPasswords
  BY DEF SavesInv, RowsInv, TypesHold
<1>2. copy \in Row
  BY <1>1, MaxPasswordsAssumption
     DEF Assign, FindOne, Row, EmployeeColumns, Names, NotSelected
<1>3. /\ copy.password # 0 => "password" \in named
      /\ \A k \in EmployeeColumns \ (named \cup {"password"}) : copy[k] = employee[k]
  BY <1>1 DEF Assign, FindOne, Row, EmployeeColumns, NotSelected
<1>4. Begin(a, new) /\ employee # NoEmployee /\ UNCHANGED <<employee, policy, registered>>
  BY DEF Update
<1> HIDE DEF copy
<1>5. /\ new \in CallTypes /\ new.copy = copy /\ new.named = named
      /\ new.pc = "assigned" /\ new.of = "employee"
  BY <1>2 DEF NoCall, CallTypes
<1> HIDE DEF new
<1> QED
  BY <1>3, <1>4, <1>5, BeginFresh

LEMMA OtherBeginFresh ==
  ASSUME SavesInv, RowsInv', NEW a \in Callers,
         \/ Remove(a) \/ ChangePassword(a)
         \/ \E named \in SUBSET PolicyColumns : UpdatePolicy(a, named)
  PROVE  SavesInv'
<1>1. CASE Remove(a)
  <2> DEFINE new == [NoCall EXCEPT !.pc = "delete"]
  <2>1. Begin(a, new) /\ employee # NoEmployee /\ UNCHANGED <<employee, policy, registered>>
    BY <1>1 DEF Remove
  <2>2. new \in CallTypes /\ new.copy.password = 0 /\ new.pc = "delete"
    BY NoRowTypes DEF NoCall, CallTypes
  <2> HIDE DEF new
  <2> QED
    BY <2>1, <2>2, BeginFresh
<1>2. CASE ChangePassword(a)
  <2> DEFINE new == [NoCall EXCEPT !.pc = "update", !.named = {"password"},
                       !.changed = {"password"}, !.copy.password = issued']
  <2>1. issued' \in 0..MaxPasswords
    BY DEF RowsInv, TypesHold
  <2>2. Begin(a, new) /\ employee # NoEmployee /\ UNCHANGED <<employee, policy, registered>>
    BY <1>2 DEF ChangePassword
  <2>3. /\ new \in CallTypes /\ new.named = {"password"} /\ new.changed = {"password"}
        /\ new.pc = "update" /\ new.of = "employee"
    BY <2>1 DEF NoCall, NoEmployee, CallTypes, Row, Names, EmployeeColumns
  <2> HIDE DEF new
  <2> QED
    BY <2>2, <2>3, BeginFresh
<1>3. ASSUME NEW named \in SUBSET PolicyColumns, UpdatePolicy(a, named) PROVE SavesInv'
  <2> DEFINE new == [NoCall EXCEPT !.pc = "assigned", !.of = "policy", !.named = named]
  <2>1. Begin(a, new) /\ policy # NoPolicy /\ UNCHANGED <<employee, policy, registered>>
    BY <1>3 DEF UpdatePolicy
  <2>2. /\ new \in CallTypes /\ new.copy.password = 0
        /\ new.pc = "assigned" /\ new.of = "policy"
    BY NoRowTypes DEF NoCall, CallTypes
  <2> HIDE DEF new
  <2> QED
    BY <2>1, <2>2, BeginFresh
<1> QED
  BY <1>1, <1>2, <1>3

LEMMA SelectFresh ==
  ASSUME SavesInv, RowsInv', NEW a \in Callers, SaveSelect(a) \/ SelectPolicy(a)
  PROVE  SavesInv'
<1>0. call[a] # NoCall /\ call[a] \in CallTypes /\ FreshCall(call[a], employee)
  BY DEF SaveSelect, SelectPolicy, NoCall, SavesInv, RowsInv, TypesHold
<1>1. CASE SaveSelect(a)
  <2> DEFINE changed == Changed(call[a].copy, employee)
  <2>1. UNCHANGED <<employee, policy, registered>> /\ call[a].of = "employee"
        /\ call[a].pc = "assigned"
    BY <1>1 DEF SaveSelect
  <2>2. CASE employee = NoEmployee
    BY <1>0, <1>1, <2>1, <2>2, GoesOnFresh DEF SaveSelect
  <2>3. CASE employee # NoEmployee
    <3>1. Step(a, "update", changed)
      BY <1>1, <2>3 DEF SaveSelect
    <3>2. changed \in SUBSET (EmployeeColumns \cup PolicyColumns)
      BY DEF Changed
    <3>3. call[a].alone => changed \subseteq call[a].named \cup {"password"}
      BY <1>0, <2>1 DEF Changed, FreshCall
    <3> HIDE DEF changed
    <3> QED
      BY <1>0, <2>1, <3>1, <3>2, <3>3, GoesOnFresh
  <2> QED
    BY <2>2, <2>3
<1>2. CASE SelectPolicy(a)
  <2> DEFINE changed == {k \in call[a].named : policy[k] # a}
  <2>1. UNCHANGED <<employee, policy, registered>> /\ call[a].of = "policy"
    BY <1>2 DEF SelectPolicy
  <2>2. CASE policy = NoPolicy
    BY <1>0, <1>2, <2>1, <2>2, EndFresh DEF SelectPolicy
  <2>3. CASE policy # NoPolicy
    <3>1. Step(a, "update", changed)
      BY <1>2, <2>3 DEF SelectPolicy
    <3>2. changed \in SUBSET (EmployeeColumns \cup PolicyColumns)
          /\ changed \subseteq call[a].named
      BY <1>0 DEF CallTypes
    <3> HIDE DEF changed
    <3> QED
      BY <1>0, <2>1, <3>1, <3>2, GoesOnFresh
  <2> QED
    BY <2>2, <2>3
<1> QED
  BY <1>1, <1>2

LEMMA SavesStep == SavesInv /\ [EmployeesNext]_employeeVars => SavesInv'
<1> SUFFICES ASSUME SavesInv, [EmployeesNext]_employeeVars PROVE SavesInv'
  OBVIOUS
<1>0. RowsInv'
  BY EmployeesStep DEF SavesInv
<1>1. CASE UNCHANGED employeeVars
  BY <1>0, <1>1 DEF employeeVars, SavesInv, OnceRegistered, AloneIsAlone
<1>2. ASSUME NEW a \in Callers, NEW role, Create(a, role) PROVE SavesInv'
  <2>1. \A b \in Callers : call'[b] = NoCall
    BY <1>2 DEF Create, SavesInv, OnceRegistered
  <2> QED
    BY <1>0, <1>2, <2>1, NoCallFresh DEF Create, SavesInv, OnceRegistered, AloneIsAlone
<1>3. ASSUME NEW a \in Callers, CreatePolicy(a) PROVE SavesInv'
  BY <1>0, <1>3 DEF CreatePolicy, SavesInv, OnceRegistered, AloneIsAlone
<1>4. ASSUME NEW a \in Callers,
             UpdateRow(a) \/ Reinsert(a) \/ Delete(a) \/ UpdatePolicyRow(a)
      PROVE  SavesInv'
  <2>1. call[a] # NoCall /\ End(a) /\ UNCHANGED registered
    BY <1>4 DEF UpdateRow, Reinsert, Delete, UpdatePolicyRow, NoCall
  <2> QED
    BY <1>0, <2>1, EndFresh
<1>5. ASSUME NEW a \in Callers,
             \/ \E named \in SUBSET EmployeeColumns : Update(a, named)
             \/ SaveSelect(a) \/ SelectPolicy(a)
             \/ Remove(a) \/ ChangePassword(a)
             \/ \E named \in SUBSET PolicyColumns : UpdatePolicy(a, named)
      PROVE  SavesInv'
  BY <1>0, <1>5, UpdateFresh, OtherBeginFresh, SelectFresh
<1> QED
  BY <1>1, <1>2, <1>3, <1>4, <1>5 DEF EmployeesNext

\* An UPDATE of the employee writes what its call names, or what has become stale.
LEMMA EmployeeWrites ==
  ASSUME SavesInv, EmployeesNext, employee # NoEmployee, employee' # NoEmployee,
         NEW k \in EmployeeColumns, employee'[k] # employee[k]
  PROVE  \E a \in Callers : Writes(a, "employee") /\ NamedOrStale(a, k)
<1>1. PICK a \in Callers : UpdateRow(a)
  BY DEF EmployeesNext, Create, Update, SaveSelect, Reinsert, Remove, Delete, ChangePassword,
         CreatePolicy, UpdatePolicy, SelectPolicy, UpdatePolicyRow, SavesInv, OnceRegistered
<1>2. Writes(a, "employee")
  BY <1>1 DEF UpdateRow, Writes, End, NoCall, SavesInv, RowsInv, TypesHold
<1>3. k \in call[a].changed
  BY <1>1 DEF UpdateRow
<1>4. NamedOrStale(a, k)
  <2>1. CASE k = "password"
    BY <1>3, <2>1 DEF NamedOrStale, SavesInv, RowsInv, CallsSound, Password, FreshCall
  <2>2. CASE k # "password"
    BY <1>1, <1>3, <2>2 DEF NamedOrStale, UpdateRow, SavesInv, FreshCall
  <2> QED
    BY <2>1, <2>2
<1> QED
  BY <1>2, <1>4

\* An UPDATE of the policy writes what its call names.
LEMMA PolicyWrites ==
  ASSUME SavesInv, EmployeesNext, policy # NoPolicy, policy' # NoPolicy,
         NEW k \in PolicyColumns, policy'[k] # policy[k]
  PROVE  \E a \in Callers : Writes(a, "policy") /\ k \in call[a].named
<1>1. PICK a \in Callers : UpdatePolicyRow(a)
  BY DEF EmployeesNext, Create, Update, SaveSelect, UpdateRow, Reinsert, Remove, Delete,
         ChangePassword, CreatePolicy, UpdatePolicy, SelectPolicy
<1>2. Writes(a, "policy")
  BY <1>1 DEF UpdatePolicyRow, Writes, End, NoCall, SavesInv, RowsInv, TypesHold
<1>3. k \in call[a].changed
  BY <1>1 DEF UpdatePolicyRow
<1> QED
  BY <1>1, <1>2, <1>3 DEF UpdatePolicyRow, SavesInv, FreshCall

\* For any number of callers, a save changes the columns its request names: always
\* for passwords and limits, and for the rest unless calls overlapped (Object.assign
\* and save of the two services).
THEOREM SavesWriteWhatTheyName == EmployeesSpec => UnnamedKeptAlone
<1>1. SavesInv /\ [EmployeesNext]_employeeVars =>
      [/\ employee # NoEmployee /\ employee' # NoEmployee =>
            \A k \in EmployeeColumns : employee'[k] # employee[k] =>
              \E a \in Callers : Writes(a, "employee") /\ NamedOrStale(a, k)
       /\ policy # NoPolicy /\ policy' # NoPolicy =>
            \A k \in PolicyColumns : policy'[k] # policy[k] =>
              \E a \in Callers : Writes(a, "policy") /\ k \in call[a].named]_employeeVars
  BY EmployeeWrites, PolicyWrites
<1> QED
  BY <1>1, SavesInitSound, SavesStep, PTL DEF EmployeesSpec, UnnamedKeptAlone

-----------------------------------------------------------------------------
(***************************************************************************)
(* For any number of administrators and of steps of the wizard, and with    *)
(* any failures: a save that was alone and is answered is stored, and the   *)
(* wizard ends with everything set up.                                      *)
(*                                                                          *)
(* Nothing ever empties a setting, so that what a save has written of its   *)
(* required fields stays given, by whomever it is overwritten.  A provider  *)
(* of one's own without its endpoint is the work of a save that has still   *)
(* to write it, or has failed before it did.                                *)
(***************************************************************************)
Saves == [pc : {"idle", "find", "write"}, of : Categories \cup {0}, values : Contents,
          next : 1..4, found : BOOLEAN, alone : BOOLEAN]

SettingsTyped ==
  /\ stored \in [Categories -> Contents]
  /\ saving \in [Admins -> Saves]
  /\ screen \in [Admins -> {"off", "wizard", "completed", "page"}]
  /\ view \in [Admins -> [at : Categories, loading : BOOLEAN]]
  /\ torn \in BOOLEAN
  /\ \A a \in Admins : Saving(a) <=> saving[a].of \in Categories

\* Two saves of one category at a time are not alone.
Together ==
  \A a, b \in Admins : a # b /\ Saving(a) /\ saving[a].of = saving[b].of => ~saving[a].alone

\* What a save has written so far is stored: as it was sent if it was alone, and
\* in any case not blank.
WrittenSoFar ==
  \A a \in Admins : Saving(a) =>
    /\ Valid(saving[a].values)
    /\ \A i \in 1..3 : i < saving[a].next /\ saving[a].values[Fields[i]] # Blank =>
         /\ stored[saving[a].of][Fields[i]] # Blank
         /\ saving[a].alone =>
              stored[saving[a].of][Fields[i]] = saving[a].values[Fields[i]]

\* What a step requires whatever else is chosen in it.
SetUp(c) == \A k \in RequiredKeys : stored[c][k] # Blank

\* The steps before the one a wizard shows, or saves, are set up.
StepsSetUp ==
  \A a \in Admins :
    /\ screen[a] = "wizard" => \A c \in Categories :
         c < view[a].at \/ (Saving(a) /\ c < saving[a].of) => SetUp(c)
    /\ screen[a] = "completed" => \A c \in Categories : SetUp(c)

\* A save that has looked a field up has it still to write.
FieldLeft == \A a \in Admins : saving[a].pc = "write" => Rest(a) # {}

\* A provider of one's own without its endpoint: a save that wrote it goes on, or one
\* has failed half way.
ProviderPlaced ==
  stored[Llm]["service"] = OwnProvider /\ stored[Llm]["endpoint"] = Blank =>
    torn \/ \E a \in Admins :
      /\ Saving(a) /\ saving[a].of = Llm /\ saving[a].next > 1
      /\ saving[a].values["service"] = OwnProvider

SettingsInv ==
  SettingsTyped /\ Together /\ WrittenSoFar /\ StepsSetUp /\ FieldLeft /\ ProviderPlaced

USE NCategoriesAssumption

-----------------------------------------------------------------------------
LEMMA FieldNames ==
  /\ Keys = {"service", "secret", "endpoint"} /\ RequiredKeys = {"service", "secret"}
  /\ Len(Fields) = 3
  /\ Fields[1] = "service" /\ Fields[2] = "secret" /\ Fields[3] = "endpoint"
<1>1. Fields = <<"service", "secret", "endpoint">>
  BY DEF Fields
<1>2. /\ DOMAIN Fields = 1..3 /\ Len(Fields) = 3
      /\ Fields[1] = "service" /\ Fields[2] = "secret" /\ Fields[3] = "endpoint"
  BY <1>1
<1> QED BY <1>2 DEF Keys, RequiredKeys

LEMMA CategoriesPositive ==
  /\ 0 \notin Categories /\ 1 \in Categories /\ NCategories \in Categories
  /\ Llm \in Categories /\ \A c \in Categories : c \in Nat /\ c <= NCategories
  BY DEF Categories, Llm

LEMMA Blanks ==
  /\ NoValues \in Contents
  /\ AtFirst \in [at : Categories, loading : BOOLEAN] /\ AtFirst.at = 1
  /\ NoSave \in Saves /\ NoSave.pc = "idle" /\ NoSave.of = 0
  /\ Blank # Given /\ Blank # Typed /\ Blank # OwnProvider
  /\ \A values : Valid(values) <=>
       /\ values["service"] # Blank /\ values["secret"] # Blank
       /\ values["service"] = OwnProvider => values["endpoint"] # Blank
  /\ \A c : SetUp(c) <=> stored[c]["service"] # Blank /\ stored[c]["secret"] # Blank
  BY FieldNames, CategoriesPositive
     DEF NoValues, Contents, AtFirst, NoSave, Saves, Valid, SetUp, Blank, Given, Typed,
         OwnProvider

\* What is sent of a form that follows its rules follows them.
LEMMA SentIsValid ==
  ASSUME NEW c \in Categories, NEW values \in Fillings(c)
  PROVE  Submitted(c, values) \in Contents /\ Valid(Submitted(c, values))
<1>1. values \in [Keys -> {Typed, Blank, OwnProvider}] /\ Valid(values)
  BY DEF Fillings
<1>2. Submitted(c, values) \in Contents
  BY <1>1 DEF Submitted, Contents
<1>3. /\ Submitted(c, values)["service"] = values["service"]
      /\ Submitted(c, values)["secret"] = values["secret"]
      /\ values["service"] = OwnProvider =>
           Submitted(c, values)["endpoint"] = values["endpoint"]
  BY FieldNames DEF Submitted, Shown
<1> QED BY <1>1, <1>2, <1>3, Blanks

LEMMA InitSound == SettingsInit => SettingsInv
<1> SUFFICES ASSUME SettingsInit PROVE SettingsInv
  OBVIOUS
<1>1. stored \in [Categories -> Contents]
  BY FieldNames DEF SettingsInit, NoValues, Contents
<1>2. \A a \in Admins : saving[a] = NoSave /\ screen[a] = "off"
  BY DEF SettingsInit
<1>3. SettingsTyped
  BY <1>1, <1>2, Blanks, CategoriesPositive DEF SettingsInit, SettingsTyped, Saving
<1>4. ProviderPlaced
  BY FieldNames, CategoriesPositive
     DEF SettingsInit, ProviderPlaced, NoValues, Blank, Given, OwnProvider
<1> QED BY <1>2, <1>3, <1>4, Blanks DEF SettingsInv, Together, WrittenSoFar, StepsSetUp,
                                         FieldLeft, Saving

\* What a step does that writes no setting and begins no save: saves end or go on,
\* browsers show something else.
LEMMA ScreenMoves ==
  ASSUME SettingsInv, UNCHANGED stored, SettingsTyped',
         \A a \in Admins : Saving(a)' => saving'[a] = saving[a] /\ Saving(a),
         StepsSetUp', ProviderPlaced'
  PROVE  SettingsInv'
<1>1. Together'
  <2> SUFFICES ASSUME NEW a \in Admins, NEW b \in Admins, a # b, Saving(a)',
                      saving'[a].of = saving'[b].of
               PROVE  ~saving'[a].alone
    BY DEF Together
  <2>1. saving'[a].of \in Categories
    BY DEF SettingsTyped
  <2>2. Saving(b)'
    BY <2>1 DEF SettingsTyped
  <2> QED BY <2>2 DEF SettingsInv, Together
<1>2. WrittenSoFar'
  BY DEF SettingsInv, WrittenSoFar
<1>3. FieldLeft'
  BY DEF SettingsInv, FieldLeft, Saving, Rest
<1> QED BY <1>1, <1>2, <1>3 DEF SettingsInv

-----------------------------------------------------------------------------
(***************************************************************************)
(* The steps of a save.                                                     *)
(***************************************************************************)
LEMMA BeginSaveSound ==
  ASSUME SettingsInv, NEW a \in Admins, NEW filling \in Fillings(view[a].at),
         BeginSave(a, view[a].at, filling)
  PROVE  SettingsInv'
<1> DEFINE c == view[a].at
           what == Submitted(c, filling)
           save == [NoSave EXCEPT !.pc = "find", !.of = c, !.values = what,
                                  !.alone = \A other \in Admins : saving[other].of # c]
<1>0. c \in Categories
  BY DEF SettingsInv, SettingsTyped
<1>1. /\ ~Saving(a) /\ Valid(what) /\ what \in Contents
      /\ UNCHANGED <<stored, screen, view, torn>>
  BY <1>0, SentIsValid DEF BeginSave
<1> HIDE DEF what
<1>2. /\ save \in Saves /\ save.pc = "find" /\ save.of = c /\ save.values = what
      /\ save.next = 1 /\ (save.alone => \A other \in Admins : saving[other].of # c)
  BY <1>0, <1>1, Blanks DEF Saves, NoSave
<1>3. /\ saving'[a] = save
      /\ saving' \in [Admins -> Saves]
      /\ \A b \in Admins \ {a} :
           /\ saving'[b].pc = saving[b].pc /\ saving'[b].of = saving[b].of
           /\ saving'[b].values = saving[b].values /\ saving'[b].next = saving[b].next
           /\ saving'[b].alone => saving[b].alone /\ saving[b].of # c
  <2>1. saving' = [b \in Admins |->
          IF b = a THEN save ELSE [saving[b] EXCEPT !.alone = @ /\ saving[b].of # c]]
    BY DEF BeginSave, what
  <2>2. \A b \in Admins : saving[b] \in Saves
    BY DEF SettingsInv, SettingsTyped
  <2> HIDE DEF save
  <2> QED BY <1>2, <2>1, <2>2 DEF Saves
<1> HIDE DEF save
<1>4. SettingsTyped'
  BY <1>0, <1>1, <1>2, <1>3 DEF SettingsInv, SettingsTyped, Saving
<1>5. Together'
  BY <1>1, <1>2, <1>3 DEF SettingsInv, SettingsTyped, Together, Saving
<1>6. WrittenSoFar'
  BY <1>1, <1>2, <1>3 DEF SettingsInv, WrittenSoFar, Saving
<1>7. StepsSetUp'
  BY <1>0, <1>1, <1>2, <1>3 DEF SettingsInv, StepsSetUp, Saving, SetUp
<1>8. FieldLeft'
  BY <1>2, <1>3 DEF SettingsInv, FieldLeft, Rest
<1>9. ProviderPlaced'
  BY <1>1, <1>3 DEF SettingsInv, ProviderPlaced, Saving
<1> QED BY <1>4, <1>5, <1>6, <1>7, <1>8, <1>9 DEF SettingsInv

\* The field that a save writes next: those before it that are left, are blank.
LEMMA NextField ==
  ASSUME SettingsInv, NEW a \in Admins, Rest(a) # {}
  PROVE  \E i \in 1..3 :
           /\ Field(a) = Fields[i] /\ i >= saving[a].next
           /\ saving[a].values[Fields[i]] # Blank
           /\ \A j \in 1..3 : saving[a].next <= j /\ j < i =>
                saving[a].values[Fields[j]] = Blank
           /\ (CHOOSE k \in Rest(a) : Fields[k] = Field(a)) = i
<1>1. saving[a].next \in 1..4
  BY DEF SettingsInv, SettingsTyped, Saves
<1>2. \A i : i \in Rest(a) <=>
        i \in 1..3 /\ saving[a].next <= i /\ saving[a].values[Fields[i]] # Blank
  BY <1>1, FieldNames DEF Rest
<1>3. PICK i \in Rest(a) : \A j \in Rest(a) : i <= j
  <2>1. CASE 1 \in Rest(a)
    BY <1>2, <2>1
  <2>2. CASE 1 \notin Rest(a) /\ 2 \in Rest(a)
    BY <1>2, <2>2
  <2>3. CASE 1 \notin Rest(a) /\ 2 \notin Rest(a)
    BY <1>2, <2>3
  <2> QED BY <2>1, <2>2, <2>3
<1>4. (CHOOSE k \in Rest(a) : \A j \in Rest(a) : k <= j) = i
  BY <1>2, <1>3
<1>5. Field(a) = Fields[i]
  BY <1>4 DEF Field
<1>6. (CHOOSE k \in Rest(a) : Fields[k] = Field(a)) = i
  BY <1>2, <1>3, <1>5, FieldNames
<1> QED BY <1>2, <1>3, <1>5, <1>6, FieldNames

LEMMA FindSound ==
  ASSUME SettingsInv, NEW a \in Admins, Find(a)
  PROVE  SettingsInv'
<1> DEFINE found == stored[saving[a].of][Field(a)] # Blank
           save == [saving[a] EXCEPT !.found = found, !.pc = "write"]
<1>1. saving[a].pc = "find" /\ UNCHANGED <<stored, screen, view, torn>>
  BY DEF Find
<1>2. saving[a] \in Saves
  BY DEF SettingsInv, SettingsTyped
<1>3. saving' = [saving EXCEPT ![a] = save]
  BY <1>2 DEF Find, Saves
<1>4. /\ save \in Saves /\ save.pc = "write" /\ save.of = saving[a].of
      /\ save.values = saving[a].values /\ save.next = saving[a].next
      /\ save.alone => saving[a].alone
  BY <1>2 DEF Saves
<1> HIDE DEF save
<1>5. /\ saving' \in [Admins -> Saves] /\ saving'[a] = save
      /\ \A b \in Admins \ {a} : saving'[b] = saving[b]
  BY <1>3, <1>4 DEF SettingsInv, SettingsTyped
<1>6. SettingsTyped'
  BY <1>1, <1>4, <1>5 DEF SettingsInv, SettingsTyped, Saving
<1>8. Together'
  <2> SUFFICES ASSUME NEW x \in Admins, NEW y \in Admins, x # y, Saving(x)',
                      saving'[x].of = saving'[y].of
               PROVE  ~saving'[x].alone
    BY DEF Together
  <2>1. Saving(x) /\ saving[x].of = saving[y].of
    BY <1>1, <1>4, <1>5 DEF Saving
  <2>2. ~saving[x].alone
    BY <2>1 DEF SettingsInv, Together
  <2>3. CASE x = a
    BY <1>1, <1>4, <1>5, <2>2, <2>3
  <2>4. CASE x # a
    BY <1>1, <1>4, <1>5, <2>2, <2>4
  <2> QED BY <2>3, <2>4
<1>7. WrittenSoFar' /\ StepsSetUp' /\ ProviderPlaced'
  BY <1>1, <1>4, <1>5
     DEF SettingsInv, WrittenSoFar, StepsSetUp, SetUp, ProviderPlaced, Saving
<1>9. FieldLeft'
  <2>1. \A b \in Admins : Rest(b)' = Rest(b)
    BY <1>4, <1>5 DEF Rest
  <2>2. Rest(a) # {}
    BY DEF Find, Done
  <2> QED BY <1>5, <2>1, <2>2 DEF SettingsInv, FieldLeft
<1> QED BY <1>6, <1>7, <1>8, <1>9 DEF SettingsInv

LEMMA WriteSound ==
  ASSUME SettingsInv, NEW a \in Admins, Write(a)
  PROVE  SettingsInv'
<1>0. Rest(a) # {}
  BY DEF Write, SettingsInv, FieldLeft
<1>1. PICK i \in 1..3 :
        /\ Field(a) = Fields[i] /\ i >= saving[a].next
        /\ saving[a].values[Fields[i]] # Blank
        /\ \A j \in 1..3 : saving[a].next <= j /\ j < i => saving[a].values[Fields[j]] = Blank
        /\ (CHOOSE k \in Rest(a) : Fields[k] = Field(a)) = i
  BY <1>0, NextField
<1>17. PICK n \in 1..4 : n = 1 + i
  OBVIOUS
<1> DEFINE save == [saving[a] EXCEPT !.next = n, !.found = FALSE, !.pc = "find"]
<1>2. /\ saving[a] \in Saves /\ Saving(a) /\ saving[a].of \in Categories
      /\ UNCHANGED <<screen, view, torn>>
  BY DEF Write, Saving, SettingsInv, SettingsTyped
<1>3. PICK c \in Categories : c = saving[a].of
  BY <1>2
<1>4. PICK v : v = saving[a].values[Fields[i]]
  OBVIOUS
<1>5. v # Blank /\ v \in {Blank, Given, Typed, OwnProvider}
  BY <1>1, <1>2, <1>4, FieldNames DEF Saves, Contents
<1>6. stored' = [stored EXCEPT ![c][Fields[i]] = v]
  BY <1>1, <1>3, <1>4 DEF Write
<1>7. saving' = [saving EXCEPT ![a] = save]
  <2>1. 1 + (CHOOSE k \in Rest(a) : Fields[k] = Field(a)) = n
    BY <1>1, <1>17
  <2>2. saving' = [saving EXCEPT ![a].next = n, ![a].found = FALSE, ![a].pc = "find"]
    BY <2>1, Zenon DEF Write
  <2> QED BY <1>2, <2>2 DEF Saves
<1>8. /\ save \in Saves /\ save.pc = "find" /\ save.of = c
      /\ save.values = saving[a].values /\ save.next = n
      /\ save.alone => saving[a].alone
  BY <1>2, <1>3 DEF Saves
<1> HIDE DEF save
<1>9. /\ saving' \in [Admins -> Saves] /\ saving'[a] = save
      /\ \A b \in Admins \ {a} : saving'[b] = saving[b]
  BY <1>7, <1>8 DEF SettingsInv, SettingsTyped
<1>10. /\ stored' \in [Categories -> Contents]
       /\ stored'[c][Fields[i]] = v
       /\ \A d \in Categories, k \in Keys : d # c \/ k # Fields[i] => stored'[d][k] = stored[d][k]
  BY <1>5, <1>6, FieldNames DEF SettingsInv, SettingsTyped, Contents
<1>11. \A d \in Categories, k \in Keys : stored[d][k] # Blank => stored'[d][k] # Blank
  BY <1>5, <1>10
<1>12. SettingsTyped'
  BY <1>2, <1>3, <1>8, <1>9, <1>10 DEF SettingsInv, SettingsTyped, Saving
<1>16. Together'
  <2> SUFFICES ASSUME NEW x \in Admins, NEW y \in Admins, x # y, Saving(x)',
                      saving'[x].of = saving'[y].of
               PROVE  ~saving'[x].alone
    BY DEF Together
  <2>1. Saving(x) /\ saving[x].of = saving[y].of
    BY <1>2, <1>3, <1>8, <1>9 DEF Saving
  <2>2. ~saving[x].alone
    BY <2>1 DEF SettingsInv, Together
  <2>3. CASE x = a
    BY <1>2, <1>3, <1>8, <1>9, <2>2, <2>3
  <2>4. CASE x # a
    BY <1>2, <1>3, <1>8, <1>9, <2>2, <2>4
  <2> QED BY <2>3, <2>4
<1>13. WrittenSoFar'
  <2> SUFFICES ASSUME NEW b \in Admins, Saving(b)'
               PROVE  /\ Valid(saving'[b].values)
                      /\ \A j \in 1..3 :
                           j < saving'[b].next /\ saving'[b].values[Fields[j]] # Blank =>
                             /\ stored'[saving'[b].of][Fields[j]] # Blank
                             /\ saving'[b].alone => stored'[saving'[b].of][Fields[j]]
                                                      = saving'[b].values[Fields[j]]
    BY DEF WrittenSoFar, Saving
  <2>1. CASE b = a
    <3>1. Valid(saving'[b].values)
      BY <1>2, <1>8, <1>9, <2>1 DEF SettingsInv, WrittenSoFar
    <3>2. ASSUME NEW j \in 1..3, j < 1 + i, saving[a].values[Fields[j]] # Blank
          PROVE  /\ stored'[c][Fields[j]] # Blank
                 /\ saving[a].alone => stored'[c][Fields[j]] = saving[a].values[Fields[j]]
      <4>1. CASE j = i
        BY <1>4, <1>5, <1>10, <4>1
      <4>2. CASE j # i
        <5>1. j < saving[a].next
          BY <1>1, <1>2, <3>2, <4>2 DEF Saves
        <5>2. stored'[c][Fields[j]] = stored[c][Fields[j]]
          BY <1>10, <4>2, FieldNames
        <5> QED BY <1>2, <1>3, <3>2, <5>1, <5>2 DEF SettingsInv, WrittenSoFar
      <4> QED BY <4>1, <4>2
    <3> QED BY <1>8, <1>9, <1>17, <2>1, <3>1, <3>2
  <2>2. CASE b # a
    <3>1. /\ saving'[b] = saving[b] /\ Saving(b) /\ saving[b].of \in Categories
          /\ \A j \in 1..3 : Fields[j] \in Keys
      BY <1>9, <2>2, FieldNames DEF Saving, SettingsInv, SettingsTyped
    <3>2. CASE saving[b].of = c
      <4>1. ~saving[b].alone
        BY <1>3, <2>2, <3>1, <3>2 DEF SettingsInv, Together
      <4> QED BY <1>11, <3>1, <4>1 DEF SettingsInv, WrittenSoFar
    <3>3. CASE saving[b].of # c
      BY <1>10, <3>1, <3>3 DEF SettingsInv, WrittenSoFar
    <3> QED BY <3>2, <3>3
  <2> QED BY <2>1, <2>2
<1>14. \A d \in Categories : SetUp(d) => SetUp(d)'
  BY <1>11, FieldNames DEF SetUp
<1>15. StepsSetUp'
  BY <1>2, <1>3, <1>8, <1>9, <1>14 DEF SettingsInv, StepsSetUp, Saving
<1>18. FieldLeft'
  BY <1>8, <1>9 DEF SettingsInv, FieldLeft, Rest
<1>19. ProviderPlaced'
  <2> SUFFICES ASSUME stored'[Llm]["service"] = OwnProvider, stored'[Llm]["endpoint"] = Blank,
                      ~torn
               PROVE  \E b \in Admins :
                        /\ Saving(b)' /\ saving'[b].of = Llm /\ saving'[b].next > 1
                        /\ saving'[b].values["service"] = OwnProvider
    BY <1>2 DEF ProviderPlaced
  <2>1. stored[Llm]["endpoint"] = Blank
    BY <1>11, CategoriesPositive, FieldNames
  <2>2. CASE stored[Llm]["service"] = OwnProvider
    <3>1. PICK b \in Admins :
            /\ Saving(b) /\ saving[b].of = Llm /\ saving[b].next > 1
            /\ saving[b].values["service"] = OwnProvider
      BY <2>1, <2>2 DEF SettingsInv, ProviderPlaced
    <3>2. b = a => saving'[b].next > 1
      BY <1>8, <1>9, <1>1, <1>2, <1>17, <3>1 DEF Saves
    <3> QED BY <1>3, <1>8, <1>9, <3>1, <3>2 DEF Saving
  <2>3. CASE stored[Llm]["service"] # OwnProvider
    <3>1. c = Llm /\ Fields[i] = "service" /\ v = OwnProvider
      BY <1>10, <2>3, CategoriesPositive, FieldNames
    <3> QED BY <1>4, <1>8, <1>9, <1>17, <3>1 DEF Saving
  <2> QED BY <2>2, <2>3
<1> QED BY <1>12, <1>13, <1>15, <1>16, <1>18, <1>19 DEF SettingsInv

\* A save whose fields are all written has them stored, and its category set up.
LEMMA DoneIsStored ==
  ASSUME SettingsInv, NEW a \in Admins, Done(a)
  PROVE  /\ Saving(a) /\ saving[a].of \in Categories
         /\ SetUp(saving[a].of) /\ Valid(saving[a].values)
         /\ \A k \in Keys : saving[a].values[k] # Blank => stored[saving[a].of][k] # Blank
         /\ saving[a].alone => \A k \in Keys : saving[a].values[k] # Blank =>
              stored[saving[a].of][k] = saving[a].values[k]
<1>1. Saving(a) /\ saving[a].of \in Categories /\ saving[a].next \in 1..4
  BY DEF Done, Saving, SettingsInv, SettingsTyped, Saves
<1>2. \A i \in 1..3 : saving[a].values[Fields[i]] # Blank => i < saving[a].next
  BY <1>1, FieldNames DEF Done, Rest
<1>3. \A i \in 1..3 : saving[a].values[Fields[i]] # Blank =>
        /\ stored[saving[a].of][Fields[i]] # Blank
        /\ saving[a].alone =>
             stored[saving[a].of][Fields[i]] = saving[a].values[Fields[i]]
  BY <1>1, <1>2 DEF SettingsInv, WrittenSoFar
<1>4. Valid(saving[a].values)
  BY <1>1 DEF SettingsInv, WrittenSoFar
<1>5. SetUp(saving[a].of)
  BY <1>3, <1>4, Blanks, FieldNames
<1> QED BY <1>1, <1>3, <1>4, <1>5, FieldNames

-----------------------------------------------------------------------------
(***************************************************************************)
(* The end of a save, and what the browsers show.                           *)
(***************************************************************************)
\* A save is answered, fails, or stays as it is.
LEMMA SaveGone ==
  ASSUME SettingsInv, NEW a \in Admins, saving' = [saving EXCEPT ![a] = NoSave]
  PROVE  /\ saving' \in [Admins -> Saves] /\ ~Saving(a)' /\ saving'[a].of \notin Categories
         /\ \A b \in Admins \ {a} : saving'[b] = saving[b] /\ (Saving(b)' <=> Saving(b))
  BY Blanks, CategoriesPositive DEF SettingsInv, SettingsTyped, Saving

\* A save that ends leaves no provider of one's own without its endpoint behind.
LEMMA AnswerPlaces ==
  ASSUME SettingsInv, NEW a \in Admins, Answer(a), UNCHANGED stored
  PROVE  torn' \in BOOLEAN /\ ProviderPlaced'
<1>1. /\ Done(a) /\ saving' = [saving EXCEPT ![a] = NoSave] /\ torn \in BOOLEAN
      /\ torn' = (torn /\ ~(saving[a].of = Llm /\ saving[a].alone))
  BY DEF Answer, SettingsInv, SettingsTyped
<1>2. ASSUME stored[Llm]["service"] = OwnProvider, stored[Llm]["endpoint"] = Blank, ~torn'
      PROVE  \E b \in Admins :
               /\ Saving(b)' /\ saving'[b].of = Llm /\ saving'[b].next > 1
               /\ saving'[b].values["service"] = OwnProvider
  <2>1. ~(saving[a].of = Llm /\ saving[a].values["service"] = OwnProvider)
    BY <1>1, <1>2, DoneIsStored, Blanks, FieldNames
  <2>2. ~(saving[a].of = Llm /\ saving[a].alone)
    BY <1>1, <1>2, <2>1, DoneIsStored, Blanks, FieldNames
  <2>3. PICK b \in Admins :
          /\ Saving(b) /\ saving[b].of = Llm /\ saving[b].next > 1
          /\ saving[b].values["service"] = OwnProvider
    BY <1>1, <1>2, <2>2 DEF SettingsInv, ProviderPlaced
  <2> QED BY <1>1, <2>1, <2>3, SaveGone
<1> QED BY <1>1, <1>2 DEF ProviderPlaced

LEMMA FailurePlaces ==
  ASSUME SettingsInv, NEW a \in Admins, SaveFails(a)
  PROVE  torn' \in BOOLEAN /\ ProviderPlaced'
<1>1. /\ saving' = [saving EXCEPT ![a] = NoSave] /\ torn \in BOOLEAN /\ UNCHANGED stored
      /\ torn' = (torn \/ (saving[a].of = Llm /\ saving[a].next > 1))
  BY DEF SaveFails, SettingsInv, SettingsTyped
<1> QED BY <1>1, SaveGone DEF SettingsInv, ProviderPlaced

LEMMA SaveEnds ==
  ASSUME SettingsInv, NEW a \in Admins, SaveFails(a) \/ Unheard(a)
  PROVE  SettingsInv'
<1>1. /\ saving' = [saving EXCEPT ![a] = NoSave]
      /\ UNCHANGED <<stored, screen, view>>
  BY DEF SaveFails, Unheard, Answer
<1>2. torn' \in BOOLEAN /\ ProviderPlaced'
  BY <1>1, AnswerPlaces, FailurePlaces DEF Unheard
<1>3. SettingsTyped'
  BY <1>1, <1>2, SaveGone DEF SettingsInv, SettingsTyped
<1>4. StepsSetUp'
  BY <1>1, SaveGone DEF SettingsInv, StepsSetUp, SetUp
<1> QED BY <1>1, <1>2, <1>3, <1>4, SaveGone, ScreenMoves

\* A wizard goes on past the step that was saved, which is then set up.
LEMMA StepSavedSound ==
  ASSUME SettingsInv, NEW a \in Admins, StepSaved(a)
  PROVE  SettingsInv'
<1>1. /\ screen[a] = "wizard" /\ Done(a) /\ saving' = [saving EXCEPT ![a] = NoSave]
      /\ UNCHANGED stored
  BY DEF StepSaved, Answer
<1>6. torn' \in BOOLEAN /\ ProviderPlaced'
  BY <1>1, AnswerPlaces DEF StepSaved
<1>2. PICK of \in Categories : of = saving[a].of
  BY <1>1, DoneIsStored
<1>7. SetUp(of) /\ Saving(a)
  BY <1>1, <1>2, DoneIsStored
<1>8. \A c \in Categories : c < of => SetUp(c)
  BY <1>1, <1>2, <1>7 DEF SettingsInv, StepsSetUp
<1>3. \A c \in Categories : c <= of => SetUp(c)
  BY <1>2, <1>7, <1>8, CategoriesPositive
<1>4. CASE of < NCategories
  <2>1. of + 1 \in Categories /\ of \in Nat
    BY <1>4, CategoriesPositive DEF Categories
  <2>2. UNCHANGED screen /\ view' = [view EXCEPT ![a].at = of + 1]
    BY <1>2, <1>4 DEF StepSaved
  <2>3. /\ view' \in [Admins -> [at : Categories, loading : BOOLEAN]]
        /\ view'[a].at = of + 1 /\ \A b \in Admins \ {a} : view'[b] = view[b]
    BY <2>1, <2>2 DEF SettingsInv, SettingsTyped
  <2>4. SettingsTyped'
    BY <1>1, <1>6, <2>2, <2>3, SaveGone DEF SettingsInv, SettingsTyped
  <2>5. \A c \in Categories : c < of + 1 => SetUp(c)
    BY <1>3, <2>1, CategoriesPositive
  <2>7. \A c \in Categories : SetUp(c)' <=> SetUp(c)
    BY <1>1 DEF SetUp
  <2>6. StepsSetUp'
    BY <1>1, <2>2, <2>3, <2>5, <2>7, SaveGone DEF SettingsInv, StepsSetUp
  <2> QED BY <1>1, <1>6, <2>4, <2>6, SaveGone, ScreenMoves
<1>5. CASE ~(of < NCategories)
  <2>1. \A c \in Categories : SetUp(c)
    BY <1>3, <1>5, CategoriesPositive
  <2>2. /\ screen' = [screen EXCEPT ![a] = "completed"]
        /\ view' = [view EXCEPT ![a] = AtFirst]
    BY <1>2, <1>5 DEF StepSaved
  <2>3. SettingsTyped'
    BY <1>1, <1>6, <2>2, SaveGone, Blanks DEF SettingsInv, SettingsTyped
  <2>4. StepsSetUp'
    BY <1>1, <2>1 DEF StepsSetUp, SetUp
  <2> QED BY <1>1, <1>6, <2>3, <2>4, SaveGone, ScreenMoves
<1> QED BY <1>4, <1>5

LEMMA PageSavedSound ==
  ASSUME SettingsInv, NEW a \in Admins, PageSaved(a)
  PROVE  SettingsInv'
<1>1. /\ saving' = [saving EXCEPT ![a] = NoSave]
      /\ view' = [view EXCEPT ![a].loading = TRUE]
      /\ UNCHANGED <<stored, screen>>
  BY DEF PageSaved, Answer
<1>5. torn' \in BOOLEAN /\ ProviderPlaced'
  BY <1>1, AnswerPlaces DEF PageSaved
<1>2. /\ view' \in [Admins -> [at : Categories, loading : BOOLEAN]]
      /\ \A b \in Admins : view'[b].at = view[b].at
  BY <1>1 DEF SettingsInv, SettingsTyped
<1>3. SettingsTyped'
  BY <1>1, <1>2, <1>5, SaveGone DEF SettingsInv, SettingsTyped
<1>6. \A c \in Categories : SetUp(c)' <=> SetUp(c)
  BY <1>1 DEF SetUp
<1>4. StepsSetUp'
  BY <1>1, <1>2, <1>6, SaveGone DEF SettingsInv, StepsSetUp
<1> QED BY <1>1, <1>5, <1>3, <1>4, SaveGone, ScreenMoves

LEMMA LoadedSound ==
  ASSUME SettingsInv, NEW a \in Admins, Loaded(a)
  PROVE  SettingsInv'
<1>1. UNCHANGED <<stored, saving, screen, torn>> /\ view' = [view EXCEPT ![a].loading = FALSE]
  BY DEF Loaded
<1>2. /\ view' \in [Admins -> [at : Categories, loading : BOOLEAN]]
      /\ \A b \in Admins : view'[b].at = view[b].at
  BY <1>1 DEF SettingsInv, SettingsTyped
<1>3. SettingsTyped'
  BY <1>1, <1>2 DEF SettingsInv, SettingsTyped, Saving
<1>4. StepsSetUp' /\ ProviderPlaced'
  BY <1>1, <1>2 DEF SettingsInv, StepsSetUp, SetUp, ProviderPlaced, Saving
<1> QED BY <1>1, <1>3, <1>4, ScreenMoves DEF Saving

LEMMA HandlePrevSound ==
  ASSUME SettingsInv, NEW a \in Admins, HandlePrev(a)
  PROVE  SettingsInv'
<1>1. /\ view[a].at > 1 /\ view' = [view EXCEPT ![a].at = @ - 1]
      /\ UNCHANGED <<stored, saving, screen, torn>>
  BY DEF HandlePrev
<1>2. PICK c \in Categories : c = view[a].at
  BY DEF SettingsInv, SettingsTyped
<1>3. c - 1 \in Categories
  BY <1>1, <1>2 DEF Categories
<1>4. /\ view' \in [Admins -> [at : Categories, loading : BOOLEAN]]
      /\ view'[a].at = c - 1 /\ \A b \in Admins \ {a} : view'[b] = view[b]
  BY <1>1, <1>2, <1>3 DEF SettingsInv, SettingsTyped
<1>5. SettingsTyped'
  BY <1>1, <1>4 DEF SettingsInv, SettingsTyped, Saving
<1>6. \A d \in Categories : d < c - 1 => d < c
  BY CategoriesPositive
<1>7. StepsSetUp' /\ ProviderPlaced'
  BY <1>1, <1>2, <1>4, <1>6 DEF SettingsInv, StepsSetUp, SetUp, ProviderPlaced, Saving
<1> QED BY <1>1, <1>5, <1>7, ScreenMoves DEF Saving

\* A browser shows something else: a wizard, its beginning.
LEMMA ShownSound ==
  ASSUME SettingsInv, NEW a \in Admins, UNCHANGED <<stored, saving, torn>>,
         NEW what \in {"off", "wizard", "page"},
         NEW place \in [at : Categories, loading : BOOLEAN],
         what = "wizard" => ~Saving(a) /\ place.at = 1,
         screen' = [screen EXCEPT ![a] = what], view' = [view EXCEPT ![a] = place]
  PROVE  SettingsInv'
<1>1. /\ screen'[a] = what /\ view'[a] = place
      /\ \A b \in Admins \ {a} : screen'[b] = screen[b] /\ view'[b] = view[b]
  BY DEF SettingsInv, SettingsTyped
<1>2. SettingsTyped'
  BY DEF SettingsInv, SettingsTyped, Saving
<1>3. \A c \in Categories : ~(c < 1)
  BY DEF Categories
<1>4. StepsSetUp' /\ ProviderPlaced'
  BY <1>1, <1>3 DEF SettingsInv, StepsSetUp, SetUp, ProviderPlaced, Saving
<1> QED BY <1>2, <1>4, ScreenMoves DEF Saving

LEMMA OpenSound ==
  ASSUME SettingsInv, NEW a \in Admins,
         VisitWizard(a) \/ (\E c \in Categories : VisitPage(a, c)) \/ Close(a)
  PROVE  SettingsInv'
<1>1. ASSUME NEW what \in {"wizard", "page"}, NEW c \in Categories, NEW loading \in BOOLEAN,
             what = "wizard" => c = 1, Open(a, what, c, loading)
      PROVE  SettingsInv'
  <2>1. PICK place : place = [at |-> c, loading |-> loading]
    OBVIOUS
  <2>2. place \in [at : Categories, loading : BOOLEAN] /\ place.at = c
    BY <2>1
  <2>3. /\ UNCHANGED <<stored, saving, torn>> /\ ~Saving(a)
        /\ screen' = [screen EXCEPT ![a] = what] /\ view' = [view EXCEPT ![a] = place]
    BY <1>1, <2>1 DEF Open
  <2> QED BY <1>1, <2>2, <2>3, ShownSound
<1>2. CASE Close(a)
  <2>1. /\ UNCHANGED <<stored, saving, torn>> /\ screen' = [screen EXCEPT ![a] = "off"]
        /\ view' = [view EXCEPT ![a] = AtFirst]
    BY <1>2 DEF Close
  <2> QED BY <2>1, Blanks, ShownSound
<1> QED BY <1>1, <1>2, CategoriesPositive DEF VisitWizard, VisitPage

-----------------------------------------------------------------------------
LEMMA StepSound == SettingsInv /\ [SettingsNext]_settingsVars => SettingsInv'
<1> SUFFICES ASSUME SettingsInv, [SettingsNext]_settingsVars PROVE SettingsInv'
  OBVIOUS
<1>1. ASSUME NEW a \in Admins, HandleNext(a) \/ HandleSave(a) PROVE SettingsInv'
  BY <1>1, BeginSaveSound DEF HandleNext, HandleSave
<1>2. CASE UNCHANGED settingsVars
  BY <1>2 DEF settingsVars, SettingsInv, SettingsTyped, Together, WrittenSoFar, StepsSetUp,
              FieldLeft, ProviderPlaced, SetUp, Saving, Rest
<1> QED BY <1>1, <1>2, FindSound, WriteSound, SaveEnds, StepSavedSound, PageSavedSound,
           LoadedSound, HandlePrevSound, OpenSound DEF SettingsNext

LEMMA SettingsSound == SettingsSpec => []SettingsInv
  BY InitSound, StepSound, PTL DEF SettingsSpec

\* In every execution a save that no other of its category overlapped is stored, field
\* by field, when it is answered (bulkUpsert).
THEOREM AnswersAreStored == SettingsSpec => []AnsweredIsStored
<1>1. SettingsInv => AnsweredIsStored
  BY DoneIsStored DEF AnsweredIsStored
<1> QED BY <1>1, SettingsSound, PTL

\* In every execution a wizard that says so has everything set up that is always
\* required, so that nobody is sent to it again; and a provider of one's own with its
\* endpoint, unless a save of llm goes on or has failed half way (SetupWizardPage,
\* isSetupRequired, bulkUpsert).
THEOREM WizardSetsUp == SettingsSpec => []CompletedIsSetUp
<1>1. \A c \in Categories : SetUp(c) => stored[c] # NoValues
  BY Blanks, FieldNames DEF NoValues
<1>2. ASSUME SettingsInv PROVE CompletedIsSetUp
  <2> SUFFICES ASSUME NEW a \in Admins, screen[a] = "completed"
               PROVE  /\ ~SetupRequired
                      /\ \A c \in Categories, k \in RequiredKeys : stored[c][k] # Blank
                      /\ \/ torn
                         \/ \E b \in Admins : saving[b].of = Llm
                         \/ Valid(stored[Llm])
    BY DEF CompletedIsSetUp
  <2>1. \A c \in Categories : SetUp(c)
    BY <1>2 DEF SettingsInv, StepsSetUp
  <2>2. ~SetupRequired
    BY <1>1, <2>1 DEF SetupRequired, RequiredCategories
  <2>3. ASSUME ~torn, \A b \in Admins : saving[b].of # Llm PROVE Valid(stored[Llm])
    BY <1>2, <2>1, <2>3, Blanks, CategoriesPositive DEF SettingsInv, ProviderPlaced
  <2> QED BY <2>1, <2>2, <2>3 DEF SetUp
<1> QED BY <1>2, SettingsSound, PTL
=============================================================================
