------------------------------ MODULE Options ------------------------------
(***************************************************************************)
(* Option objects (src/src/options/): the defaults, what the environment   *)
(* changes of them, and what a list of arguments does.                     *)
(***************************************************************************)
EXTENDS Integers, Sequences

CONSTANTS
    FileName,   \* names of log files; DefaultFile is one
    DefaultFile,
    NotSet,     \* the value of an option whose "has" flag is down
    GlobalEnv,  \* the environment variables that name global options,
    ContextEnv  \* and context options: [text, atoi] for each

\* st_global_options_new_default
GlobalDefault ==
    [LOG_ENABLED |-> TRUE, LOG_FILE |-> DefaultFile, LOG_LEVEL |-> 2,
     LOG_PAYLOADS |-> FALSE]

\* st_options_new_default: it sets the protocol to receive with twice, the one to
\* send with never.
ContextDefault ==
    [CLOUD_SERVER |-> "canopy.link", DEVICE_UUID |-> NotSet, DEVICE_SECRET_KEY |-> NotSet,
     HTTP_PORT |-> 80, HTTPS_PORT |-> 443, SKIP_SSL_CERT_CHECK |-> FALSE,
     SYNC_BLOCKING |-> NotSet, SYNC_TIMEOUT_MS |-> NotSet,
     VAR_SEND_PROTOCOL |-> NotSet, VAR_RECV_PROTOCOL |-> 4]

Strings == {"LOG_FILE", "CLOUD_SERVER", "DEVICE_UUID", "DEVICE_SECRET_KEY"}
Booleans == {"LOG_ENABLED", "LOG_PAYLOADS", "SKIP_SSL_CERT_CHECK", "SYNC_BLOCKING"}

GlobalOptions == [LOG_ENABLED : BOOLEAN, LOG_FILE : FileName, LOG_LEVEL : Int,
                  LOG_PAYLOADS : BOOLEAN]

\* CONVERT_FROM_STRING of _OPTION_LIST: atoi makes 0 of every word, also of "true".
FromString(opt, env) ==
    CASE opt \in Strings -> env.text
      [] opt \in Booleans -> env.atoi # 0
      [] OTHER -> env.atoi

\* st_global_options_load_from_env, st_options_load_from_env
LoadFromEnv(base, env) ==
    [opt \in DOMAIN base |->
        IF opt \in DOMAIN env THEN FromString(opt, env[opt]) ELSE base[opt]]

\* st_global_options_extend_varargs, st_options_extend_varargs: the arguments are
\* stored one by one; the first that is no option ends the call.
Invalid(base, args) == {i \in DOMAIN args : args[i].opt \notin DOMAIN base}
ExtendResult(base, args) ==
    IF Invalid(base, args) = {} THEN "SUCCESS" ELSE "INVALID_OPT"

Extend(base, args) ==
    LET stored(opt) == {i \in DOMAIN args : /\ args[i].opt = opt
                                            /\ \A j \in Invalid(base, args) : i < j}
        last(opt) == CHOOSE i \in stored(opt) : \A j \in stored(opt) : j <= i
    IN  [opt \in DOMAIN base |->
            IF stored(opt) = {} THEN base[opt] ELSE args[last(opt)].to]

ASSUME OptionsAssumption ==
    /\ DefaultFile \in FileName
    /\ LoadFromEnv(GlobalDefault, GlobalEnv) \in GlobalOptions
=============================================================================
