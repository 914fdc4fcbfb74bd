---------------------------- MODULE RequestLimits ----------------------------
(***************************************************************************)
(* The limits and defaults a single request meets: the token bucket of its *)
(* key (internal/auth/auth.go), the per-minute limits and the configured   *)
(* parameters of its model (internal/proxy/model_config.go), the lockout   *)
(* of failed logins (internal/admin/admin.go) and the audit entry for a    *)
(* key whose stored expiry cannot be read (internal/auth/auth.go).         *)
(*                                                                         *)
(* Nothing connects these, so `part` chooses the one a behaviour is about. *)
(* Time is a number of ticks.  `watch` begins at an arbitrary moment and   *)
(* counts what is let through from then on: a bound that holds for it      *)
(* holds for every interval.                                               *)
(***************************************************************************)
EXTENDS Integers, FiniteSets

CONSTANTS BucketCap,      \* tokens a key's bucket holds
          RefillTicks,    \* ticks that refill one token
          RPM, TPM,       \* a model's requests and tokens per window
          ModelWindow,    \* ticks of the model limiter's window
          MaxAttempts, LoginWindow, LockTicks,   \* the login limiter
          PruneTicks,     \* ticks between two prunings of the login limiter
          Guessers,       \* logins under way at once from one address
          Expiries,       \* stored expiries that cannot be read
          Settings,       \* sets of settings a model may have configured
          MaxTick,        \* bound: time
          MaxPassed       \* bound: requests and other calls

VARIABLES part, tick, passed,
          watch,          \* [on, since, count]
          keyBucket,         \* [level, refilled], level in units of 1/RefillTicks token
          promise,        \* when a refused request was told to come back, -1: nobody waits
          window,         \* the model limiter: [start, requests, tokens]
          owing,          \* requests whose tokens are not recorded yet
          login,          \* the limiter's entry: [id, failures, start, locked]; id 0: none
          pruned,         \* last pruning
          guess,          \* Guessers -> state of the login
          keyExpiry,      \* the stored expiry of the key
          hooked, audited, reports,   \* audit hook, entries written, reports under way
          asking             \* a request meets a model's configuration

limitVars == <<part, tick, passed, watch, keyBucket, promise, window, owing, login, pruned, guess,
               keyExpiry, hooked, audited, reports, asking>>

NoEntry == [id |-> 0, failures |-> 0, start |-> 0, locked |-> 0]
Waiting == [at |-> "idle", saw |-> NoEntry, now |-> 0]

(***************************************************************************)
(* Model parameters: injectModelDefaults                                   *)
(***************************************************************************)
Runtimes == {"ollama", "vllm", "llamacpp", "tgi", "mlx"}

\* The settings by the name each wire form gives them.
OllamaOptions == {"num_ctx", "num_gpu", "main_gpu", "num_batch", "num_thread", "use_mmap",
    "draft_num_predict", "temperature", "top_p", "top_k", "min_p", "typical_p", "num_keep",
    "max_tokens", "seed", "stop", "repeat_penalty", "repeat_last_n", "presence_penalty",
    "frequency_penalty"}
OllamaTop == {"template", "ttl"}
BaseFields == {"temperature", "top_p", "max_tokens", "seed", "stop", "presence_penalty",
               "frequency_penalty", "response_format"}
UnsupportedBase(rt) == IF rt = "mlx" THEN {"seed", "response_format"} ELSE {}
ExtraFields(rt) ==
    CASE rt = "vllm" -> {"top_k", "min_p", "repeat_penalty", "length_penalty", "stop_token_ids",
             "include_stop_str_in_output", "ignore_eos", "min_tokens", "skip_special_tokens",
             "truncate_prompt_tokens"}
      [] rt = "llamacpp" -> {"repeat_penalty", "repeat_last_n", "typical_p", "mirostat",
             "mirostat_tau", "mirostat_eta", "num_keep", "logit_bias", "n_probs", "min_keep",
             "dry_multiplier", "dry_base", "dry_allowed_length", "dry_penalty_last_n",
             "xtc_probability", "xtc_threshold", "ignore_eos"}
      [] rt = "mlx" -> {"top_k", "min_p", "repeat_penalty", "logit_bias"}
      [] OTHER -> {}

\* SupportedFieldsFor, what the dashboard offers for a runtime (rpm and tpm apart).
LoadTimeFields == {"num_ctx", "num_gpu", "main_gpu", "num_batch", "num_thread", "use_mmap",
                   "draft_num_predict", "ttl"}
InferenceFields == {"top_k", "min_p", "typical_p", "num_keep", "repeat_penalty", "repeat_last_n"}
SupportedFieldsFor(rt) ==
    IF rt = "ollama"
    THEN (BaseFields \ {"response_format"}) \cup LoadTimeFields \cup InferenceFields
         \cup {"system", "template"}
    ELSE (BaseFields \ UnsupportedBase(rt)) \cup ExtraFields(rt) \cup {"system"}

\* A request: its top-level fields, its options object, and its messages, of
\* which one may already be a system message.  `options` is "none" (absent or
\* null), "bad" (not an object) or "given".
ReqFields == {"temperature", "top_k", "template"}
AskRequests == [top : SUBSET ReqFields, options : {"none", "bad", "given"},
                opts : SUBSET {"temperature", "top_k"}, chat : BOOLEAN, system : BOOLEAN]

\* prependSystemMessage: only into a chat without a system message.
SystemAdded(cfg, r) == "system" \in cfg /\ r.chat /\ ~r.system

\* What the proxy adds for Ollama: options unless the client's are not an object,
\* a system prompt as a field of a request without messages, template, keep_alive.
OllamaDefaults(cfg, r) ==
    [opts |-> IF r.options = "bad" THEN {}
              ELSE (cfg \cap OllamaOptions) \ (IF r.options = "given" THEN r.opts ELSE {}),
     top |-> ((cfg \cap OllamaTop) \ r.top)
             \cup (IF "system" \in cfg /\ ~r.chat /\ ~r.system THEN {"system"} ELSE {}),
     message |-> SystemAdded(cfg, r)]

\* And for the OpenAI-compatible runtimes, all at the top level; of a runtime's
\* extra fields only those the switch has a case for.
OpenAIBase(cfg, r, rt) ==
    ((cfg \cap {"temperature", "top_p", "max_tokens", "stop", "presence_penalty",
                "frequency_penalty"})
     \cup (IF rt = "mlx" THEN {} ELSE cfg \cap {"seed", "response_format"})) \ r.top
ExtraCases == {"top_k", "min_p", "repeat_penalty", "repeat_last_n", "typical_p", "mirostat",
    "mirostat_tau", "mirostat_eta", "num_keep", "logit_bias", "n_probs", "min_keep",
    "dry_multiplier", "dry_base", "dry_allowed_length", "dry_penalty_last_n", "xtc_probability",
    "xtc_threshold", "ignore_eos", "length_penalty", "stop_token_ids",
    "include_stop_str_in_output", "min_tokens", "skip_special_tokens", "truncate_prompt_tokens"}
OpenAIExtra(cfg, r, rt) == (cfg \cap ExtraFields(rt) \cap ExtraCases) \ r.top
OpenAIDefaults(cfg, r, rt) ==
    [opts |-> {}, top |-> OpenAIBase(cfg, r, rt) \cup OpenAIExtra(cfg, r, rt),
     message |-> SystemAdded(cfg, r)]

InjectModelDefaults(a) ==
    IF a.runtime = "ollama" THEN OllamaDefaults(a.cfg, a.request)
    ELSE OpenAIDefaults(a.cfg, a.request, a.runtime)

(***************************************************************************)
(* Initial state                                                           *)
(***************************************************************************)
NoAsk == [runtime |-> "ollama", cfg |-> {},
          request |-> [top |-> {}, options |-> "none", opts |-> {}, chat |-> FALSE,
                       system |-> FALSE]]

LimitInit ==
    /\ part \in {"bucket", "model", "login", "expiry", "defaults"}
    /\ tick = 0 /\ passed = 0
    /\ watch = [on |-> FALSE, since |-> 0, count |-> 0]
    /\ keyBucket = [level |-> BucketCap * RefillTicks, refilled |-> 0] /\ promise = -1
    /\ window = [start |-> -1, requests |-> 0, tokens |-> 0] /\ owing = 0
    /\ login = NoEntry /\ pruned = 0 /\ guess = [g \in Guessers |-> Waiting]
    /\ keyExpiry \in IF part = "expiry" THEN Expiries \cup {"fine"} ELSE {"fine"}
    /\ hooked = FALSE /\ audited = [e \in Expiries |-> 0] /\ reports = {}
    /\ asking \in IF part = "defaults"
               THEN [runtime : Runtimes, cfg : Settings, request : AskRequests] ELSE {NoAsk}

BucketSame == UNCHANGED <<keyBucket, promise>>
ModelSame == UNCHANGED <<window, owing>>
LoginSame == UNCHANGED <<login, pruned, guess>>
ExpirySame == UNCHANGED <<keyExpiry, hooked, audited, reports>>
LetPass == passed < MaxPassed /\ passed' = passed + 1

Tick ==
    /\ part \in {"bucket", "model", "login"} /\ tick < MaxTick
    /\ tick' = tick + 1
    /\ UNCHANGED <<part, passed, watch, asking>> /\ BucketSame /\ ModelSame /\ LoginSame /\ ExpirySame

Watch ==
    /\ part \in {"bucket", "model", "login"} /\ ~watch.on
    /\ watch' = [on |-> TRUE, since |-> tick, count |-> 0]
    /\ UNCHANGED <<part, tick, passed, asking>> /\ BucketSame /\ ModelSame /\ LoginSame /\ ExpirySame

Counted(n) == watch' = IF watch.on THEN [watch EXCEPT !.count = @ + n] ELSE watch

(***************************************************************************)
(* The token bucket of a key                                               *)
(***************************************************************************)
Full == BucketCap * RefillTicks
AtMostFull(level) == IF level > Full THEN Full ELSE level
Level == AtMostFull(keyBucket.level + tick - keyBucket.refilled)

OnlyBucket == part = "bucket" /\ UNCHANGED <<part, tick, asking>>
              /\ ModelSame /\ LoginSame /\ ExpirySame

\* allow refills and takes a token, or refuses; a refused request is told to come
\* back after retryAfterSeconds, rounded up to a whole number of ticks.
RetryAfter(level) == IF level >= RefillTicks THEN 1 ELSE RefillTicks - level
Allow ==
    /\ OnlyBucket /\ LetPass
    /\ IF Level >= RefillTicks
       THEN /\ keyBucket' = [level |-> Level - RefillTicks, refilled |-> tick]
            /\ Counted(1) /\ promise' = -1
       ELSE /\ keyBucket' = [level |-> Level, refilled |-> tick]
            /\ promise' = tick + RetryAfter(Level) /\ UNCHANGED watch

\* refund gives a token back at once, never past the capacity.
Refund ==
    /\ OnlyBucket /\ LetPass
    /\ keyBucket' = [keyBucket EXCEPT !.level = AtMostFull(@ + RefillTicks)]
    /\ Counted(-1) /\ UNCHANGED promise

(***************************************************************************)
(* The per-minute limits of a model                                        *)
(***************************************************************************)
OnlyModel == part = "model" /\ UNCHANGED <<part, tick, asking>>
             /\ BucketSame /\ LoginSame /\ ExpirySame

\* statsLocked: the first use, and the first one after a window, open a new window.
Fresh == [start |-> tick, requests |-> 0, tokens |-> 0]
StatsLocked == IF window.start < 0 \/ tick - window.start >= ModelWindow THEN Fresh ELSE window

AllowModel ==
    /\ OnlyModel /\ LetPass
    /\ LET st == StatsLocked IN
       IF st.requests >= RPM \/ st.tokens >= TPM
       THEN window' = st /\ UNCHANGED <<watch, owing>>
       ELSE window' = [st EXCEPT !.requests = @ + 1] /\ Counted(1) /\ owing' = owing + 1

\* The tokens of a request are recorded when it ends, in whatever window that is.
RecordTokens ==
    /\ OnlyModel /\ owing > 0 /\ owing' = owing - 1
    /\ \E n \in 1..2 : window' = [StatsLocked EXCEPT !.tokens = @ + n]
    /\ UNCHANGED <<passed, watch>>

(***************************************************************************)
(* The login limiter                                                       *)
(***************************************************************************)
OnlyLogin == part = "login" /\ UNCHANGED <<part, tick, asking>>
             /\ BucketSame /\ ModelSame /\ ExpirySame

\* allow reads the time and finds the entry under the read lock ...
FindEntry(g) ==
    /\ OnlyLogin /\ LetPass /\ guess[g].at = "idle"
    /\ guess' = [guess EXCEPT ![g] = [at |-> IF login.id = 0 THEN "check" ELSE "decide",
                                      saw |-> login, now |-> tick]]
    /\ UNCHANGED <<watch, login, pruned>>

\* ... and decides under the lock, on the entry it found, which a pruning or a
\* success may have taken out of the table meanwhile.
DecideEntry(g) ==
    /\ OnlyLogin /\ guess[g].at = "decide"
    /\ LET here == login.id = guess[g].saw.id
           st == IF here THEN login ELSE guess[g].saw
           refuse == guess[g].now < st.locked
           renew == ~refuse /\ guess[g].now - st.start > LoginWindow
       IN /\ guess' = [guess EXCEPT ![g] = IF refuse THEN Waiting
                                           ELSE [Waiting EXCEPT !.at = "check"]]
          /\ login' = IF here /\ renew THEN [login EXCEPT !.failures = 0, !.start = guess[g].now]
                      ELSE login
    /\ UNCHANGED <<passed, watch, pruned>>

\* pruneLocked drops an entry neither locked nor within its window.
Prunable == login.id # 0 /\ tick > login.locked /\ tick - login.start > LoginWindow
PruneDue == tick - pruned >= PruneTicks
PrunedEntry == IF PruneDue /\ Prunable THEN NoEntry ELSE login
Renewed(st) ==
    IF st.id = 0 THEN [NoEntry EXCEPT !.id = passed, !.start = tick]
    ELSE IF tick - st.start > LoginWindow THEN [st EXCEPT !.failures = 0, !.start = tick]
    ELSE st

Locked(st) ==
    IF st.failures >= MaxAttempts THEN [st EXCEPT !.locked = tick + LockTicks] ELSE st
RecordFailure(g) ==
    /\ OnlyLogin /\ guess[g].at = "check"
    /\ guess' = [guess EXCEPT ![g] = Waiting]
    /\ pruned' = IF PruneDue THEN tick ELSE pruned
    /\ LET st == Renewed(PrunedEntry) IN
       login' = Locked([st EXCEPT !.failures = @ + 1])
    /\ Counted(1) /\ UNCHANGED passed

\* A correct password clears the address; what was guessed before counts no more.
RecordSuccess(g) ==
    /\ OnlyLogin /\ guess[g].at = "check"
    /\ guess' = [guess EXCEPT ![g] = Waiting]
    /\ login' = NoEntry /\ watch' = [watch EXCEPT !.count = 0, !.since = tick]
    /\ UNCHANGED <<passed, pruned>>

(***************************************************************************)
(* Audit entries for unreadable expiries                                   *)
(***************************************************************************)
OnlyExpiry == part = "expiry" /\ UNCHANGED <<part, tick, watch, asking>>
              /\ BucketSame /\ ModelSame /\ LoginSame

\* ExpiryStatus and collectMalformed: what a report carries.
Malformed(e) == e \in Expiries
Report(e, id) == IF Malformed(e) THEN {<<id, e>>} ELSE {}

\* AddKey, PatchKey and Reload change the key under the lock and report after it.
ChangeKey ==
    /\ OnlyExpiry /\ LetPass
    /\ \E e \in Expiries \cup {"fine"} :
         keyExpiry' = e /\ reports' = reports \cup Report(e, passed)
    /\ UNCHANGED <<hooked, audited>>

\* SetExpiryAuditHook installs the hook, and then collects what is already there.
SetHook ==
    /\ OnlyExpiry /\ ~hooked /\ hooked' = TRUE
    /\ reports' = reports \cup {<<-1, "collect">>}
    /\ UNCHANGED <<passed, keyExpiry, audited>>
CollectMalformed ==
    /\ OnlyExpiry /\ <<-1, "collect">> \in reports
    /\ reports' = (reports \ {<<-1, "collect">>}) \cup Report(keyExpiry, -2)
    /\ UNCHANGED <<passed, keyExpiry, hooked, audited>>

\* reportMalformedExpiries: each (name, expiry) once, and only when there is a hook.
ReportMalformed ==
    /\ OnlyExpiry
    /\ \E r \in reports : /\ Malformed(r[2]) /\ reports' = reports \ {r}
                          /\ audited' = IF hooked /\ audited[r[2]] = 0
                                        THEN [audited EXCEPT ![r[2]] = 1] ELSE audited
    /\ UNCHANGED <<passed, keyExpiry, hooked>>

LimitNext ==
    \/ Tick \/ Watch \/ Allow \/ Refund \/ AllowModel \/ RecordTokens
    \/ \E g \in Guessers : FindEntry(g) \/ DecideEntry(g) \/ RecordFailure(g) \/ RecordSuccess(g)
    \/ ChangeKey \/ SetHook \/ CollectMalformed \/ ReportMalformed

LimitSpec == LimitInit /\ [][LimitNext]_limitVars

(***************************************************************************)
(* Properties                                                              *)
(***************************************************************************)
Elapsed == tick - watch.since

\* In every interval a bucket lets through no more than it holds plus what the
\* interval refills, refunds counted back, and who waits as long as Retry-After
\* said finds a token if nobody else was let in meanwhile; a model admits at most
\* twice its requests in a stretch as long as its window; and one address gets at
\* most the attempts of two windows and the logins under way before it is locked.
RatesBounded ==
    /\ (part = "bucket" /\ watch.on) => watch.count * RefillTicks <= Full + Elapsed
    /\ (part = "bucket" /\ promise >= 0 /\ tick >= promise) => Level >= RefillTicks
    /\ (part = "model" /\ watch.on /\ Elapsed < ModelWindow) => watch.count <= 2 * RPM
    /\ (part = "login" /\ watch.on /\ Elapsed <= LoginWindow) =>
         watch.count <= 2 * MaxAttempts + Cardinality(Guessers) - 2

\* A configured parameter never replaces one the client sent and never meets
\* options the proxy could not read; a client's system message stays the only
\* one; and with nothing sent by the client exactly the settings the dashboard
\* offers for the runtime take effect.
DefaultsYield ==
    part = "defaults" =>
      LET added == InjectModelDefaults(asking)
          r == asking.request
      IN /\ added.top \cap r.top = {} /\ ("system" \in added.top => ~r.system)
         /\ added.opts # {} => r.options # "bad"
         /\ r.options = "given" => added.opts \cap r.opts = {}
         /\ added.message => ~r.system
         /\ (r.top = {} /\ r.options = "none" /\ r.chat /\ ~r.system) =>
              added.opts \cup added.top \cup (IF added.message THEN {"system"} ELSE {})
                = asking.cfg \cap SupportedFieldsFor(asking.runtime)

\* An unreadable expiry is written to the audit log, once: whichever of a key
\* change and the installation of the hook comes first, when no report is under
\* way and the hook is set, the expiry now stored has its entry.
ExpiryAudited ==
    part = "expiry" =>
      /\ \A e \in Expiries : audited[e] <= 1
      /\ (hooked /\ reports = {} /\ Malformed(keyExpiry)) => audited[keyExpiry] = 1

=============================================================================
