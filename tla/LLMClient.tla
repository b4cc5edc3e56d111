----------------------------- MODULE LLMClient -----------------------------
(***************************************************************************)
(* The LLM client (davinci/llm.py): which provider a configuration gets,   *)
(* and generate, which tries the models of the provider in order, builds   *)
(* the request of each anew, and posts it until it is answered or the      *)
(* model is given up.  Gemini's request refers to large attachments, which *)
(* the client uploads first and remembers.                                 *)
(*                                                                         *)
(* The provider is external: a post ends in any outcome, within its        *)
(* timeout.  Texts are data; module Reasoner says what they may hold.      *)
(***************************************************************************)
EXTENDS Integers, SequencesExt

CONSTANTS
    n_models,     \* length of LLMClient.models
    max_retries,  \* LLMClient.max_retries, the attempts per model
    n_large       \* attachments of the task over INLINE_MAX_BYTES, in order

ASSUME LLMClientAssumption ==
    n_models \in Nat \ {0} /\ max_retries \in Nat /\ n_large \in Nat

VARIABLES
    provider,    \* LLMClient.provider, NoProvider without a client
    stage,       \* where generate is
    with_files,  \* it was given the attachments
    model,       \* the position of the model it is trying
    attempt,     \* the attempt at that model, from 0 as in the code
    next_file,   \* the next attachment to put into the request
    parts,       \* the attachments in the request
    unread,      \* history: those that it lacks because the file could not be read
    file_cache,  \* GeminiClient._file_cache: the attachments that are uploaded
    unbuilt,     \* history: models whose request could not be built
    outcomes     \* history: how the posts of each model ended, in this call

vars_client == <<provider, stage, with_files, model, attempt, next_file, parts, unread,
                 file_cache, unbuilt, outcomes>>

request == <<model, attempt, next_file, parts, unread>>

Models == 1..n_models
Files == 1..n_large

-----------------------------------------------------------------------------
(* client_from_config *)

\* The order of the automatic choice.
Providers == <<"gemini", "anthropic", "openai", "grok", "agentrouter", "openrouter">>

NoProvider == "heuristic"

Provider == ToSet(Providers)

\* What selects a provider: the one of the "llm" block, with a key of its own or
\* without, the one that is named elsewhere, and those that have a key in the
\* configuration or the environment.
Config == [block : Provider \cup {"none", "unknown"}, block_key : BOOLEAN,
           named : Provider \cup {"none", "unknown"}, keys : SUBSET Provider]

\* The first provider with a key.
AutoDetect(keys) ==
    IF keys = {} THEN NoProvider
    ELSE Providers[CHOOSE i \in DOMAIN Providers :
                     /\ Providers[i] \in keys
                     /\ \A j \in 1..(i - 1) : Providers[j] \notin keys]

\* A choice without a key or without meaning is passed over silently.
ClientFromConfig(c) ==
    IF c.block \in Provider /\ (c.block_key \/ c.block \in c.keys) THEN c.block
    ELSE IF c.named \in c.keys THEN c.named
    ELSE AutoDetect(c.keys)

-----------------------------------------------------------------------------
(* generate *)

\* How a post ends: with text; 200 without text; 429, 500, 502, 503 or 529; 400;
\* another status; no HTTP answer, or one that cannot be read.
Outcome == {"text", "empty", "overload", "bad_request", "refused", "transport"}

InitClient ==
    /\ stage = "none" /\ with_files = FALSE
    /\ model = 1 /\ attempt = 0 /\ next_file = 1
    /\ parts = {} /\ unread = {} /\ file_cache = {} /\ unbuilt = {}
    /\ outcomes = [m \in Models |-> <<>>]

\* A request is begun for model m.
BuildFor(m) ==
    /\ model' = m /\ attempt' = 0
    /\ next_file' = 1 /\ parts' = {} /\ unread' = {}
    /\ stage' = "build"

Generate(files) ==
    /\ stage = "none"
    /\ with_files' = files
    /\ BuildFor(1)
    /\ UNCHANGED <<provider, file_cache, unbuilt, outcomes>>

\* On to the next model, or None after the last.
GiveUp ==
    IF model < n_models
    THEN BuildFor(model + 1)
    ELSE stage' = "failed" /\ UNCHANGED request

\* The attachments that the request of this provider has to upload.
Uploads == IF with_files /\ provider = "gemini" THEN Files ELSE {}

FilesLeft == next_file \in Uploads

\* _attachment_part with an attachment that is in the cache.
AttachCached ==
    /\ stage = "build" /\ FilesLeft
    /\ next_file \in file_cache
    /\ parts' = parts \cup {next_file}
    /\ next_file' = next_file + 1
    /\ UNCHANGED <<provider, stage, with_files, model, attempt, unread, file_cache, unbuilt,
                   outcomes>>

\* Seeded fault: the upload is not remembered.
AttachUploaded_Forgotten ==
    /\ stage = "build" /\ FilesLeft
    /\ next_file \notin file_cache
    /\ parts' = parts \cup {next_file}
    /\ next_file' = next_file + 1
    /\ UNCHANGED <<provider, stage, with_files, model, attempt, unread, file_cache, unbuilt,
                   outcomes>>

\* _upload_file starts and finalises the upload.
AttachUploaded ==
    /\ stage = "build" /\ FilesLeft
    /\ next_file \notin file_cache
    /\ file_cache' = file_cache \cup {next_file}
    /\ parts' = parts \cup {next_file}
    /\ next_file' = next_file + 1
    /\ UNCHANGED <<provider, stage, with_files, model, attempt, unread, unbuilt, outcomes>>

\* One of the two requests of the upload fails: the attachment is left out, and
\* tried again in the next request.
AttachFails ==
    /\ stage = "build" /\ FilesLeft
    /\ next_file \notin file_cache
    /\ next_file' = next_file + 1
    /\ UNCHANGED <<provider, stage, with_files, model, attempt, parts, unread, file_cache,
                   unbuilt, outcomes>>

\* _attachment_bytes cannot read the file, which is read before the cache is
\* looked at: the attachment is left out, uploaded or not.
AttachUnread ==
    /\ stage = "build" /\ FilesLeft
    /\ unread' = unread \cup {next_file}
    /\ next_file' = next_file + 1
    /\ UNCHANGED <<provider, stage, with_files, model, attempt, parts, file_cache, unbuilt,
                   outcomes>>

\* _build_request raises.
BuildRaises ==
    /\ stage = "build"
    /\ unbuilt' = unbuilt \cup {model}
    /\ GiveUp
    /\ UNCHANGED <<provider, with_files, file_cache, outcomes>>

\* The request is built; without attempts the model is passed over.
Built ==
    /\ stage = "build" /\ ~FilesLeft
    /\ IF max_retries > 0
       THEN stage' = "post" /\ UNCHANGED request
       ELSE GiveUp
    /\ UNCHANGED <<provider, with_files, file_cache, unbuilt, outcomes>>

\* Seeded fault: an overload is retried for the relay only.
Retried_RelayOnly(outcome) ==
    \/ outcome = "transport"
    \/ outcome \in {"overload", "bad_request"} /\ provider = "agentrouter"

\* The outcomes after which the same model may be asked again.
Retried(outcome) ==
    \/ outcome \in {"overload", "transport"}
    \/ outcome = "bad_request" /\ provider = "agentrouter"

Ended(outcome) == outcomes' = [outcomes EXCEPT ![model] = Append(@, outcome)]

PostAnswered ==
    /\ stage = "post"
    /\ Ended("text")
    /\ stage' = "text"
    /\ UNCHANGED <<provider, with_files, request, file_cache, unbuilt>>

\* After a pause the request is posted again.
PostRetried(outcome) ==
    /\ stage = "post"
    /\ Retried(outcome) /\ attempt < max_retries - 1
    /\ Ended(outcome)
    /\ attempt' = attempt + 1
    /\ UNCHANGED <<provider, stage, with_files, model, next_file, parts, unread, file_cache,
                   unbuilt>>

\* The model is given up.
PostFails(outcome) ==
    /\ stage = "post"
    /\ outcome # "text"
    /\ ~(Retried(outcome) /\ attempt < max_retries - 1)
    /\ Ended(outcome)
    /\ GiveUp
    /\ UNCHANGED <<provider, with_files, file_cache, unbuilt>>

GenerateSteps ==
    \/ AttachCached \/ AttachUploaded \/ AttachFails \/ AttachUnread
    \/ BuildRaises \/ Built
    \/ PostAnswered \/ \E outcome \in Outcome : PostRetried(outcome) \/ PostFails(outcome)

\* The caller has what generate returned, and its locals are gone.
Returned ==
    /\ stage' = "none" /\ with_files' = FALSE
    /\ model' = 1 /\ attempt' = 0 /\ next_file' = 1
    /\ parts' = {} /\ unread' = {} /\ unbuilt' = {}
    /\ outcomes' = [m \in Models |-> <<>>]
    /\ UNCHANGED <<provider, file_cache>>

-----------------------------------------------------------------------------
(* Properties *)

ClientTypeOK ==
    /\ provider \in Provider \cup {NoProvider}
    /\ stage \in {"none", "build", "post", "text", "failed"}
    /\ with_files \in BOOLEAN
    /\ model \in Models /\ attempt \in Nat
    /\ next_file \in 1..(n_large + 1)
    /\ parts \subseteq file_cache /\ file_cache \subseteq Files /\ unread \subseteq Files
    /\ unbuilt \subseteq Models
    /\ outcomes \in [Models -> Seq(Outcome)]

\* Nothing more could be had of model m: its request could not be built, its
\* last answer would be the same again, or its attempts are used up.
Exhausted(m) ==
    \/ m \in unbuilt
    \/ Len(outcomes[m]) = max_retries
    \/ /\ outcomes[m] # <<>>
       /\ Last(outcomes[m]) \in {"empty", "refused"}
                                 \cup IF provider = "agentrouter" THEN {} ELSE {"bad_request"}

\* The models are tried in order, each only when nothing more can be had of
\* those before it, and generate returns None only when that holds of all
\* ("Models tried in order; the first that answers wins", LLMClient).  No model
\* is asked again after an answer or after a refusal for good, and every request
\* refers to every attachment that was uploaded before it and can still be read.
FallbackInOrder ==
    /\ \A m \in Models : m < model \/ stage = "failed" => Exhausted(m)
    /\ \A m \in Models : m > model => outcomes[m] = <<>>
    /\ \A m \in Models :
          /\ Len(outcomes[m]) <= max_retries
          /\ \A k \in 1..(Len(outcomes[m]) - 1) : outcomes[m][k] \notin {"text", "empty", "refused"}
    /\ stage = "text" => Last(outcomes[model]) = "text"
    /\ stage = "post" => file_cache \cap Uploads \subseteq parts \cup unread

=============================================================================
