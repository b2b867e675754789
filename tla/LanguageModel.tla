---------------------------- MODULE LanguageModel ----------------------------
(***************************************************************************)
(* The language model that corrects what was recognised (modules/llm): an   *)
(* administrator chooses the provider, and recognition jobs, tests and      *)
(* lists of models send it requests.                                        *)
(*                                                                          *)
(* The choice is in the memory of the server, in two fields, one assigned   *)
(* after the other: the provider object and the configuration.  The         *)
(* settings that the wizard stores are not read.  A request is sent in the  *)
(* same turn of the event loop in which the two fields are read; while it   *)
(* is out the choice may change and the server may stop.                    *)
(***************************************************************************)
CONSTANTS
  Endpoints,  \* addresses of custom services
  Askers      \* requests that can be out at once

VARIABLES
  provider,   \* currentProvider: the object that sends
  config,     \* currentConfig: the setting it was chosen by
  sent        \* the request of each asker

modelVars == <<provider, config, sent>>

Unnamed == "unnamed"
NoEndpoint == "no endpoint"
Hosted == {"anthropic", "openai", "google"}
ProviderTypes == Hosted \cup {"custom"}

\* What an administrator may send.  A key, or the name of a model, is told by the
\* place that it was made for, the one meant.  An endpoint may be left out.
Setting(type, endpoint, named) ==
  LET place == IF type = "custom" THEN endpoint ELSE type IN
  [type |-> type, endpoint |-> endpoint, key |-> place,
   model |-> IF named THEN place ELSE Unnamed]
Settable == {Setting(t, e, named) : t \in ProviderTypes,
                                    e \in Endpoints \cup {NoEndpoint}, named \in BOOLEAN}

NoConfig == [type |-> "none", endpoint |-> NoEndpoint, key |-> NoEndpoint,
             model |-> Unnamed]
NoProvider == [name |-> "none", baseURL |-> NoEndpoint, defaultModel |-> Unnamed]
NotSent == [kind |-> "none", to |-> NoEndpoint, key |-> NoEndpoint, model |-> Unnamed]

ModelInit ==
  /\ provider = NoProvider
  /\ config = NoConfig
  /\ sent = [a \in Askers |-> NotSent]

-----------------------------------------------------------------------------
(***************************************************************************)
(* The providers.                                                           *)
(***************************************************************************)
Anthropic == [name |-> "anthropic", baseURL |-> "anthropic", defaultModel |-> "anthropic"]
OpenAI == [name |-> "openai", baseURL |-> "openai", defaultModel |-> "openai"]
Google == [name |-> "google", baseURL |-> "google", defaultModel |-> "google"]

\* Without a named model: 'default', whatever it is at the place.
Custom(endpoint, model) ==
  [name |-> "custom", baseURL |-> endpoint,
   defaultModel |-> IF model = Unnamed THEN endpoint ELSE model]

\* createProvider throws for a custom service without an address.
Creatable(setting) == setting.type # "custom" \/ setting.endpoint # NoEndpoint
CreateProvider(setting, model) ==
  CASE setting.type = "anthropic" -> Anthropic
    [] setting.type = "openai" -> OpenAI
    [] setting.type = "google" -> Google
    [] setting.type = "custom" -> Custom(setting.endpoint, model)

\* What a provider sends.
Message(kind, by, key, model) ==
  [kind |-> kind, to |-> by.baseURL, key |-> key,
   model |-> IF model = Unnamed THEN by.defaultModel ELSE model]

-----------------------------------------------------------------------------
(***************************************************************************)
(* The service.                                                             *)
(***************************************************************************)
\* Mutant of SetProvider: the configuration is assigned before createProvider throws.
SetProviderConfigFirst(setting) ==
  /\ config' = setting
  /\ provider' = IF Creatable(setting) THEN CreateProvider(setting, setting.model)
                                       ELSE provider
  /\ UNCHANGED sent

\* PUT /llm/config; a refused setting changes nothing.
SetProvider(setting) ==
  /\ Creatable(setting)
  /\ provider' = CreateProvider(setting, setting.model)
  /\ config' = setting
  /\ UNCHANGED sent

\* correctWithLlm: without a provider the data stay as they were recognised, and
\* nothing is sent.
IsConfigured == provider # NoProvider

Chat(a) ==
  /\ IsConfigured
  /\ sent[a] = NotSent
  /\ sent' = [sent EXCEPT ![a] = Message("chat", provider, config.key, config.model)]
  /\ UNCHANGED <<provider, config>>

\* POST /llm/test: with a provider of its own, made without the model.
TestConnection(a, setting) ==
  /\ Creatable(setting)
  /\ sent[a] = NotSent
  /\ sent' = [sent EXCEPT ![a] =
       Message("test", CreateProvider(setting, Unnamed), setting.key, setting.model)]
  /\ UNCHANGED <<provider, config>>

\* POST /llm/models: only OpenAI is asked, the others know their models by heart.
ListModels(a, setting) ==
  /\ setting.type = "openai"
  /\ sent[a] = NotSent
  /\ sent' = [sent EXCEPT ![a] =
       [Message("list", OpenAI, setting.key, Unnamed) EXCEPT !.model = Unnamed]]
  /\ UNCHANGED <<provider, config>>

\* The answer, or a failure: the correction or the recognised data, the outcome of
\* the test, the models or those known by heart.
Returned(a) ==
  /\ sent[a] # NotSent
  /\ sent' = [sent EXCEPT ![a] = NotSent]
  /\ UNCHANGED <<provider, config>>

\* The server starts again, with no provider.
Restarted ==
  /\ IsConfigured
  /\ provider' = NoProvider
  /\ config' = NoConfig
  /\ sent' = [a \in Askers |-> NotSent]

ModelNext ==
  \/ \E setting \in Settable : SetProvider(setting)
  \/ Restarted
  \/ \E a \in Askers :
       \/ Chat(a) \/ Returned(a)
       \/ \E setting \in Settable : TestConnection(a, setting) \/ ListModels(a, setting)

ModelSpec == ModelInit /\ [][ModelNext]_modelVars

-----------------------------------------------------------------------------
ModelTypeOK ==
  /\ provider \in [name : ProviderTypes \cup {"none"},
                   baseURL : Hosted \cup Endpoints \cup {NoEndpoint},
                   defaultModel : Hosted \cup Endpoints \cup {Unnamed}]
  /\ config \in Settable \cup {NoConfig}
  /\ sent \in [Askers -> [kind : {"none", "chat", "test", "list"},
                          to : Hosted \cup Endpoints \cup {NoEndpoint},
                          key : Hosted \cup Endpoints \cup {NoEndpoint},
                          model : Hosted \cup Endpoints \cup {Unnamed}]]

\* A request that is out carries the key that was made for the place it goes to, and
\* names no model of another place: also when the provider has been changed while
\* others were out, when a change was refused, and after a restart.
KeyGoesToItsService ==
  \A a \in Askers :
    /\ sent[a].key = sent[a].to
    /\ sent[a].model \in {sent[a].to, Unnamed}
=============================================================================
