---------------------------- MODULE ProbePatterns ----------------------------
(***************************************************************************)
(* The patterns that make a chunk of Python source structural evidence for *)
(* a probe.  A text is a record:                                           *)
(*   words     the fragments that occur in it, in lower case               *)
(*   parses    whether it is a module of its own (a chunk may be cut out   *)
(*             of the middle of a statement)                               *)
(* and, if it parses, what its syntax tree contains:                       *)
(*   decodes   the algorithms given to its calls of jwt.decode: one of     *)
(*             "missing", "computed", "several", "literal", "settings"     *)
(*   logged    the names and keys of the values it logs                    *)
(*   sinks     the functions it calls to write files                       *)
(*   inLoops   the calls in the bodies of its loops                        *)
(***************************************************************************)
EXTENDS Naturals, FiniteSets

\* _contains_any, _contains_all
Says(text, words) == text.words \cap words # {}
SaysAll(text, words) == words \subseteq text.words

Built == {"f-string", ".format("}

SqlInjection(t) ==
  Says(t, {"execute(", "from_statement(", "raw("}) /\ Says(t, Built \cup {" + "})

CommandInjection(t) ==
  Says(t, {"subprocess", "os.system", "popen("}) /\ Says(t, Built \cup {"shell=true"})

Ssrf(t) ==
  /\ Says(t, {"httpx", "requests.", "client.get(", "axios", "fetch("})
  /\ Says(t, {"url", "uri", "webhook"})

ObjectAuthorization(t) ==
  SaysAll(t, {"current_user", "get_by_id"}) /\ Says(t, {"_id", "id:"})

RoleAuthorization(t) ==
  /\ SaysAll(t, {"@router.", "get_current_user"})
  /\ Says(t, {"admin", "cost_price", "margin", "profit", "report"})
  /\ ~Says(t, {"require_admin", "require_role", "is_admin", "check_permission", "has_permission"})

MassAssignment(t) ==
  \/ "setattr(" \in t.words /\ Says(t, {"payload", ".items()", "model_dump(", "dict"})
  \/ /\ Says(t, {"cost_price", "is_admin", "is_active", "owner_id", "role"})
     /\ Says(t, {"basemodel", "model_dump("})

\* The one safe call names settings.algorithm, alone in a list.
JwtAlgorithmAllowlist(t) ==
  IF t.parses
    THEN \E algorithms \in t.decodes : algorithms # "settings"
    ELSE "jwt.decode(" \in t.words /\ "'none'" \in t.words

Sensitive ==
  {"api_key", "authorization", "cookie", "credential", "passwd", "password", "secret", "token"}

SensitiveDataLogging(t) ==
  IF t.parses THEN t.logged \cap Sensitive # {} ELSE "log(secret" \in t.words

FileUploadFlow(t) ==
  /\ Says(t, IF t.parses THEN {"uploadfile"} ELSE {"uploadfile", "multipart", "filename"})
  /\ IF t.parses
       THEN t.sinks \cap {".write", "copyfileobj", "shutil.copy", "shutil.copy2"} # {}
       ELSE Says(t, {".write(", "copyfileobj(", "shutil.copy(", "shutil.copy2("})

SensitiveResponse(t) ==
  /\ Says(t, {"cost_price", "hashed_password", "private_key", "profit", "margin"})
  /\ SaysAll(t, {"basemodel", "class response"})

InsecureRandomness(t) ==
  /\ Says(t, {"token", "secret", "password", "credential", "nonce"})
  /\ Says(t, {"random.seed(", "random.choice(", "random.randint(", "random.random("})

OpenRedirect(t) ==
  /\ SaysAll(t, {"redirectresponse(", "url="})
  /\ Says(t, {"next", "redirect", "return_url"})
  /\ ~(SaysAll(t, {"startswith(", "//"}) /\ Says(t, {"\\\\", "backslash"}))

InventoryInvariant(t) ==
  /\ Says(t, {"quantity += x", "quantity = y.quantity + x"}) /\ "delta" \in t.words
  /\ ~Says(t, {"quantity + delta < 0", "new_quantity < 0", "checkconstraint",
               "quantity >= 0", "max(0"})

WeakHash(t) == "password" \in t.words /\ Says(t, {"md5(", "sha1("})

ResetToken(t) == SaysAll(t, {"reset", "token"}) /\ Says(t, {".set(", "setex("})

RefreshValidation(t) == "refresh" \in t.words /\ Says(t, {"jwt", "decode(", "token"})

Logout(t) == "logout" \in t.words /\ Says(t, {"revoke", "blacklist", "success"})

Race(t) ==
  /\ Says(t, {"stock", "inventory", "quantity"}) /\ Says(t, {"get_by_", "select("})
  /\ SaysAll(t, {"update_", "= x - y"})

Transaction(t) == "except" \in t.words /\ Says(t, {"commit(", "update_", "create_"})

IoCalls ==
  {".execute", ".query", ".fetch", ".find", ".get_by_", "repository.", "repo.", "client."}

NPlusOne(t) == t.parses /\ t.inLoops \cap IoCalls # {}

Pagination(t) ==
  /\ Says(t, {".all()", "list("})
  /\ Says(t, {"filtered_", "[p for ", "[item for ", "offset :"})

ResourceLifecycle(t) ==
  Says(t, {"create_engine(", "create_async_engine("}) /\ "def " \in t.words

OtpFlow(t) == Says(t, {"otp", "verification_code", "one_time"})

InsecureDefaultCredentials(t) ==
  /\ Says(t, {"password", "secret", "api_key", "token"})
  /\ Says(t, {"getenv(", "field(default=", " or \""})

TaskReliability(t) ==
  /\ Says(t, {"@shared_task", "@celery_app.task", "@app.task"})
  /\ ~Says(t, {"autoretry_for", "time_limit", "soft_time_limit", "self.retry("})

IdempotencyRace(t) ==
  /\ Says(t, {"idempotency", "webhook"})
  /\ Says(t, {"exists(", "get_by_"}) /\ Says(t, {"create(", "insert(", "add("})

-----------------------------------------------------------------------------

\* _STRUCTURAL_MATCHERS
Matches(probe, t) ==
  CASE probe = "security.sql_nosql_injection"          -> SqlInjection(t)
    [] probe = "security.command_injection"            -> CommandInjection(t)
    [] probe = "security.ssrf_external_calls"          -> Ssrf(t)
    [] probe = "security.object_authorization"         -> ObjectAuthorization(t)
    [] probe = "security.role_authorization"           -> RoleAuthorization(t)
    [] probe = "security.mass_assignment"              -> MassAssignment(t)
    [] probe = "security.jwt_algorithm_allowlist"      -> JwtAlgorithmAllowlist(t)
    [] probe = "security.insecure_randomness"          -> InsecureRandomness(t)
    [] probe = "security.open_redirect"                -> OpenRedirect(t)
    [] probe = "security.sensitive_data_logging"       -> SensitiveDataLogging(t)
    [] probe = "security.sensitive_response_exposure"  -> SensitiveResponse(t)
    [] probe = "security.unrestricted_file_upload"     -> FileUploadFlow(t)
    [] probe = "security.weak_password_hash"           -> WeakHash(t)
    [] probe = "security.reset_token_lifecycle"        -> ResetToken(t)
    [] probe = "security.refresh_token_validation"     -> RefreshValidation(t)
    [] probe = "security.logout_revocation"            -> Logout(t)
    [] probe = "security.otp_exposure_rate_limit"      -> OtpFlow(t)
    [] probe = "security.insecure_default_credentials" -> InsecureDefaultCredentials(t)
    [] probe = "bug.async_concurrency"                 -> Race(t)
    [] probe = "bug.inventory_invariant"               -> InventoryInvariant(t)
    [] probe = "bug.state_transaction_consistency"     -> Transaction(t)
    [] probe = "bug.task_retry_timeout"                -> TaskReliability(t)
    [] probe = "bug.idempotency_race"                  -> IdempotencyRace(t)
    [] probe = "performance.n_plus_one"                -> NPlusOne(t)
    [] probe = "performance.pagination_bounds"         -> Pagination(t)
    [] probe = "maintainability.resource_lifecycle"    -> ResourceLifecycle(t)
    [] OTHER                                           -> FALSE

Otp == "security.otp_exposure_rate_limit"

OtpSignals == <<
  {"@router.", "/otp"}, {"debug_otp", "return", "response", "logger"},
  {"depends(", "current_user", "authenticated", "authorize"},
  {"random.randint", "random.randrange", "secrets.", "token_urlsafe"},
  {"create_otp", "save_otp", "store_otp", "otprecord", "otp_code", "otp_hash", "hashed_otp"},
  {"rate_limit", "attempt", "throttle", "lockout"},
  {"expire", "ttl", "delete", "used_at", "consumed"} >>

\* In hundredths, as all bonuses.
OtpBonus(t, type) ==
  LET signals == Cardinality({k \in DOMAIN OtpSignals : Says(t, OtpSignals[k])})
  IN (IF SaysAll(t, {"@router.", "/otp"}) THEN 40 ELSE 0)
       + (IF type = "function" /\ signals > 0 THEN 40 ELSE 0)
       + (IF signals > 5 THEN 60 ELSE 12 * signals)

ShapeBonus(probe, t, type, path) ==
  CASE probe = "security.sensitive_response_exposure" ->
         IF type = "class" /\ "/schemas/" \in path THEN 80 ELSE 0
    [] probe = Otp -> OtpBonus(t, type)
    [] OTHER -> IF type = "function" THEN 40 ELSE 0

=============================================================================
