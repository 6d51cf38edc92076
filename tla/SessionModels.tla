--------------------------- MODULE SessionModels ---------------------------
(***************************************************************************)
(* Which model a message runs with: the preferences of a tab               *)
(* (chatPreferencesStore), the composer of the chat it shows               *)
(* (ChatInput.tsx), the decision to fork a session whose model changes     *)
(* (useChatCommands.ts), and RunnerProxy's send and queue with the server's *)
(* provider catalog.  A model id is a sequence: <<"sonnet">> is sonnet and *)
(* <<"sonnet", "1m">> is sonnet[1m], what resolveClaudeApiModelId makes of *)
(* it for the wide context window.  Texts, profiles and what the turn does *)
(* are left out; a tab knows its chats as the hub does.                    *)
(***************************************************************************)
EXTENDS Naturals, Sequences, FiniteSets

CONSTANTS
    ChatIds,        \* chats
    MaxSubmits,     \* bound on the messages submitted
    MaxChoices,     \* bound on the choices made with the composer's controls
    NoModel         \* null, for a model, a state of the composer or a request

ASSUME SessionModelConstants ==
    /\ MaxSubmits \in Nat /\ MaxChoices \in Nat
    /\ NoModel \notin {"claude", "codex"}

VARIABLES
    prefs,          \* useChatPreferencesStore
    composer,       \* the composer that is mounted: its chat and lockedOverrides
    records,        \* the hub's chats: exists, provider, model, sessionToken, busy, queued
    forks,          \* chats whose first message is being prepared: the request
    discovered,     \* model ids the probe of Claude's capabilities has found
    submits,        \* messages submitted
    choices,        \* choices made
    lastTurn        \* the turn that began last

sessionVars == <<prefs, composer, records, forks, discovered, submits, choices, lastTurn>>

-----------------------------------------------------------------------------
(* The catalogs *)

Providers == {"claude", "codex"}
ModelsOf(provider) ==
    IF provider = "claude" THEN {<<"opus">>, <<"sonnet">>, <<"haiku">>} ELSE {<<"gpt-5.4">>}
DefaultModel(provider) == IF provider = "claude" THEN <<"opus">> ELSE <<"gpt-5.4">>
Catalog(provider) == ModelsOf(provider) \union (IF provider = "claude" THEN discovered ELSE {})

Windowed == {<<"opus">>, <<"sonnet">>}
NormalizedWindow(model, window) == IF model \in Windowed THEN window ELSE "200k"
ApiModelId(model, window) == IF window = "1m" THEN Append(model, "1m") ELSE model

\* A ComposerState; a Codex one has no window and its effort is never limited.
Preference(provider, model, effort, window, plan) ==
    [provider |-> provider, model |-> model, effort |-> effort, window |-> window, plan |-> plan]

normalizeClaudePreference(p) ==
    [p EXCEPT !.effort = IF p.model # <<"opus">> /\ @ = "max" THEN "high" ELSE @,
              !.window = NormalizedWindow(p.model, @)]
Normalized(p) == IF p.provider = "claude" THEN normalizeClaudePreference(p) ELSE p

-----------------------------------------------------------------------------

NoRecord == [exists |-> FALSE, provider |-> NoModel, model |-> NoModel, token |-> FALSE,
             busy |-> FALSE, queued |-> NoModel]
NoTurnYet == [shown |-> NoModel, asked |-> NoModel, provider |-> NoModel, model |-> NoModel, plan |-> FALSE]

\* What an earlier visit persisted is migrated: the composer, and defaults from when
\* there were settings for them.
SessionInit ==
    /\ \E default \in Providers \union {"last_used"},
          p \in {Preference("claude", <<"haiku">>, "max", "1m", FALSE),
                 Preference("claude", <<"sonnet">>, "high", "1m", TRUE),
                 Preference("codex", <<"gpt-5.4">>, "high", "200k", FALSE)} :
          prefs = [default |-> default, composer |-> Normalized(p),
                   defaults |-> [provider \in Providers |->
                        IF provider = "claude"
                        THEN Normalized(Preference("claude", <<"sonnet">>, "max", "1m", FALSE))
                        ELSE Preference("codex", <<"gpt-5.4">>, "high", "200k", TRUE)]]
    /\ composer = [chat |-> NoModel, overrides |-> NoModel]
    /\ records = [c \in ChatIds |-> NoRecord]
    /\ forks = [c \in ChatIds |-> NoModel]
    /\ discovered = {} /\ submits = 0 /\ choices = 0 /\ lastTurn = NoTurnYet

-----------------------------------------------------------------------------
(* The composer *)

Shown == records[composer.chat]
Locked == Shown.provider # NoModel

\* createLockedComposerState: the chat's provider, and the model its last turn ran.
LockedBase ==
    LET base == IF prefs.composer.provider = Shown.provider THEN prefs.composer
                ELSE prefs.defaults[Shown.provider]
    IN [base EXCEPT !.model = IF Shown.model # NoModel THEN Shown.model ELSE @]

\* resolveComposerPreferences
Resolved ==
    IF ~Locked THEN prefs.composer
    ELSE IF composer.overrides # NoModel THEN composer.overrides ELSE LockedBase

\* Fault seeded in Mounted: the composer has no key, its overrides stay.
MountedUnkeyed(c) == [composer EXCEPT !.chat = c]

\* The composer is keyed by the chat and its provider: mounted anew, it has no overrides.
Mounted(c) == [chat |-> c, overrides |-> NoModel]

Composing == composer.chat # NoModel /\ forks[composer.chat] = NoModel

Chosen == choices < MaxChoices /\ choices' = choices + 1

setDefaultProvider(default) ==
    /\ Chosen
    /\ prefs' = [prefs EXCEPT !.default = default]
    /\ UNCHANGED <<composer, records, forks, discovered, submits, lastTurn>>

\* createChatForProject: initializeComposerForNewChat, and the chat is shown.
NewChat(c) ==
    /\ ~records[c].exists
    /\ records' = [records EXCEPT ![c].exists = TRUE]
    /\ prefs' = IF prefs.default = "last_used" THEN prefs
                ELSE [prefs EXCEPT !.composer = prefs.defaults[prefs.default]]
    /\ composer' = Mounted(c)
    /\ UNCHANGED <<forks, discovered, submits, choices, lastTurn>>

ShowChat(c) ==
    /\ records[c].exists /\ composer.chat # c
    /\ composer' = Mounted(c)
    /\ UNCHANGED <<prefs, records, forks, discovered, submits, choices, lastTurn>>

\* handleProviderChange, and cycleProvider of the shortcuts.
ChooseProvider(provider) ==
    /\ Composing /\ ~Locked /\ Chosen
    /\ prefs' = [prefs EXCEPT !.composer = prefs.defaults[provider]]
    /\ UNCHANGED <<composer, records, forks, discovered, submits, lastTurn>>

\* A choice of the composer's controls goes to the overrides of a chat with a provider,
\* else to the store: there every choice is normalized.
Choose(locked, unlocked) ==
    /\ Composing /\ Chosen
    /\ IF Locked
       THEN /\ composer' = [composer EXCEPT !.overrides = locked]
            /\ UNCHANGED prefs
       ELSE /\ prefs' = [prefs EXCEPT !.composer = unlocked]
            /\ UNCHANGED composer
    /\ UNCHANGED <<records, forks, discovered, submits, lastTurn>>

withNormalizedContextWindow(p, model) ==
    [p EXCEPT !.model = model,
              !.window = IF p.provider = "claude" THEN NormalizedWindow(model, @) ELSE @]

ChooseModel(model) ==
    /\ Composing /\ model \in Catalog(Resolved.provider)
    /\ Choose(withNormalizedContextWindow(Resolved, model), Normalized([Resolved EXCEPT !.model = model]))

\* The picker offers no more than one window for a model that is not in the catalog
\* with two, and "max" with opus alone.
ChooseWindow(window) ==
    /\ Composing /\ Resolved.provider = "claude" /\ Resolved.model \in Windowed
    /\ LET p == [Resolved EXCEPT !.window = window]
       IN Choose(withNormalizedContextWindow(p, p.model), Normalized(p))

ChooseEffort(effort) ==
    /\ Composing /\ Resolved.provider = "claude"
    /\ effort = "max" => Resolved.model = <<"opus">>
    /\ LET p == [Resolved EXCEPT !.effort = effort] IN Choose(p, Normalized(p))

\* resolvePlanModeState: overrides made here have the composer's model, not the chat's.
ChoosePlan(plan) ==
    /\ Composing
    /\ LET unseen == [LockedBase EXCEPT !.model =
                IF prefs.composer.provider = Shown.provider THEN prefs.composer.model
                ELSE prefs.defaults[Shown.provider].model]
       IN Choose([IF composer.overrides # NoModel THEN composer.overrides ELSE unseen EXCEPT !.plan = plan],
                 [prefs.composer EXCEPT !.plan = plan])

\* handleExitPlanMode: an approved plan ends plan mode in the store.
PlanApproved(c) ==
    /\ composer.chat = c /\ records[c].busy
    /\ prefs' = [prefs EXCEPT !.composer.plan = FALSE]
    /\ UNCHANGED <<composer, records, forks, discovered, submits, choices, lastTurn>>

-----------------------------------------------------------------------------
(* Submitting *)

\* What a request asks for, and what the composer shows with it.
Request(p) == [provider |-> p.provider, model |-> p.model, window |-> p.window, plan |-> p.plan, shown |-> p]

resolveRequestedSessionModel(request) ==
    IF request.provider = "claude"
    THEN ApiModelId(request.model, NormalizedWindow(request.model, request.window))
    ELSE request.model

shouldFork(c, request) ==
    records[c].token /\ records[c].model # resolveRequestedSessionModel(request)

\* send: the model is looked up in the catalog, and stored before the runner is asked.
HubModel(provider, request) ==
    LET model == IF request.model \in Catalog(provider) THEN request.model ELSE DefaultModel(provider)
    IN IF provider = "claude" THEN ApiModelId(model, NormalizedWindow(model, request.window)) ELSE model

Send(rs, c, request, ok) ==
    LET provider == IF rs[c].provider # NoModel THEN rs[c].provider ELSE request.provider
        record == [rs[c] EXCEPT !.provider = provider, !.model = HubModel(provider, request), !.busy = ok]
    IN [records |-> [rs EXCEPT ![c] = record],
        lastTurn |-> IF ok THEN [shown |-> request.shown, asked |-> request.model, provider |-> provider, model |-> record.model,
                              plan |-> request.plan]
                  ELSE lastTurn]

SentAs(c, request, ok) ==
    LET sent == Send(records, c, request, ok)
    IN records' = sent.records /\ lastTurn' = sent.lastTurn

\* handleSubmitFromComposer.  What is queued for a busy chat takes its options from the
\* last message; a message for another model than the session's is sent to a new chat.
SubmitQueued ==
    /\ Composing /\ submits < MaxSubmits
    /\ Shown.busy
    /\ submits' = submits + 1
    /\ records' = [records EXCEPT ![composer.chat].queued = Request(Resolved)]
    /\ UNCHANGED <<prefs, composer, forks, discovered, choices, lastTurn>>

SubmitSent(ok) ==
    /\ Composing /\ submits < MaxSubmits
    /\ ~Shown.busy /\ Shown.queued = NoModel
    /\ ~shouldFork(composer.chat, Request(Resolved))
    /\ submits' = submits + 1
    /\ SentAs(composer.chat, Request(Resolved), ok)
    /\ UNCHANGED <<prefs, composer, forks, discovered, choices>>

\* Fault seeded in SubmitForked: the prompt is prepared for a chat nobody has made.
SubmitForkedUnmade(c) ==
    /\ Composing /\ submits < MaxSubmits
    /\ ~Shown.busy /\ Shown.queued = NoModel /\ ~records[c].exists
    /\ LET request == Request(Resolved) IN
       /\ shouldFork(composer.chat, request)
       /\ forks' = [forks EXCEPT ![c] = [request EXCEPT !.model = resolveRequestedSessionModel(request)]]
    /\ submits' = submits + 1
    /\ composer' = Mounted(c)
    /\ UNCHANGED <<prefs, records, discovered, choices, lastTurn>>

\* handleForkSession: the new chat is shown, its prompt is generated in the background.
SubmitForked(c) ==
    /\ Composing /\ submits < MaxSubmits
    /\ ~Shown.busy /\ Shown.queued = NoModel /\ ~records[c].exists
    /\ LET request == Request(Resolved) IN
       /\ shouldFork(composer.chat, request)
       /\ forks' = [forks EXCEPT ![c] = [request EXCEPT !.model = resolveRequestedSessionModel(request)]]
    /\ submits' = submits + 1
    /\ records' = [records EXCEPT ![c].exists = TRUE]
    /\ composer' = Mounted(c)
    /\ UNCHANGED <<prefs, discovered, choices, lastTurn>>

\* The prompt is sent, or the generation or the start of the turn failed.
ForkSends(c, ok) ==
    /\ forks[c] # NoModel
    /\ SentAs(c, forks[c], ok)
    /\ forks' = [forks EXCEPT ![c] = NoModel]
    /\ UNCHANGED <<prefs, composer, discovered, submits, choices>>

\* A turn ends, its session known by then or not; what is queued is drained, and put
\* back when the runner does not take it.
TurnOver(c, token) ==
    /\ records[c].busy
    /\ records' = [records EXCEPT ![c].busy = FALSE, ![c].token = @ \/ token]
    /\ UNCHANGED <<prefs, composer, forks, discovered, submits, choices, lastTurn>>

QueueDrained(c, ok) ==
    /\ records[c].queued # NoModel /\ ~records[c].busy
    /\ LET sent == Send([records EXCEPT ![c].queued = IF ok THEN NoModel ELSE @], c, records[c].queued, ok)
       IN records' = sent.records /\ lastTurn' = sent.lastTurn
    /\ UNCHANGED <<prefs, composer, forks, discovered, submits, choices>>

\* probeCapabilities: the models of the installed Claude are known from now on.
CapabilitiesProbed ==
    /\ discovered = {}
    /\ discovered' = {<<"sonnet", "1m">>}
    /\ UNCHANGED <<prefs, composer, records, forks, submits, choices, lastTurn>>

SessionStep ==
    \/ \E default \in Providers \union {"last_used"} : setDefaultProvider(default)
    \/ \E c \in ChatIds :
          \/ NewChat(c) \/ ShowChat(c) \/ PlanApproved(c) \/ SubmitForked(c)
          \/ \E flag \in BOOLEAN : ForkSends(c, flag) \/ TurnOver(c, flag) \/ QueueDrained(c, flag)
    \/ \E provider \in Providers : ChooseProvider(provider)
    \/ \E provider \in Providers : \E model \in Catalog(provider) : ChooseModel(model)
    \/ \E window \in {"200k", "1m"} : ChooseWindow(window)
    \/ \E effort \in {"high", "max"} : ChooseEffort(effort)
    \/ \E plan \in BOOLEAN : ChoosePlan(plan)
    \/ SubmitQueued \/ \E ok \in BOOLEAN : SubmitSent(ok)
    \/ CapabilitiesProbed

SessionModelSpec == SessionInit /\ [][SessionStep]_sessionVars

-----------------------------------------------------------------------------
(* Properties *)

Models == ModelsOf("claude") \union ModelsOf("codex") \union {<<"sonnet", "1m">>, <<"opus", "1m">>}

\* Records are of chats that exist, requests and overrides of choices there are.
SessionModelTypeOK ==
    /\ composer.chat \in ChatIds \union {NoModel} /\ submits \in 0..MaxSubmits
    /\ \A c \in ChatIds :
          LET r == records[c] IN
          /\ r.provider \in Providers \union {NoModel} /\ r.model \in Models \union {NoModel}
          /\ {r.exists, r.token, r.busy} \subseteq BOOLEAN
          /\ ~r.exists => r = NoRecord /\ forks[c] = NoModel
    /\ discovered \subseteq Models

\* The store never holds options its model does not take, whatever order they were
\* chosen in and whatever was persisted, and what is chosen for one chat is never
\* shown in a chat of the other provider.
PreferencesFit ==
    /\ \A p \in {prefs.composer} \union {prefs.defaults[provider] : provider \in Providers} : p = Normalized(p)
    /\ \A provider \in Providers : prefs.defaults[provider].provider = provider
    /\ composer.overrides # NoModel => composer.overrides.provider = Shown.provider

\* A turn runs with the provider, the model, the window and the plan mode that the
\* composer showed when its message was submitted, also if the message waited in the
\* queue, was sent to a fork or was sent again; provided the id asked for is a plain one.
TurnsRunWhatIsShown ==
    lastTurn # NoTurnYet =>
        LET shown == lastTurn.shown IN
        /\ lastTurn.provider = shown.provider /\ lastTurn.plan = shown.plan
        /\ lastTurn.asked \in ModelsOf(shown.provider) =>
              lastTurn.model = IF shown.provider = "codex" THEN shown.model
                            ELSE ApiModelId(shown.model, NormalizedWindow(shown.model, shown.window))

\* What the composer shows is what runs: the preferences it is built from are always
\* ones their models take, and a message's turn gets what was shown when it was sent.
ShownIsRun == PreferencesFit /\ TurnsRunWhatIsShown
=============================================================================
