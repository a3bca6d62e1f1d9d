------------------------------ MODULE Logging ------------------------------
(***************************************************************************)
(* The logger of the SDK: src/src/logging/logging.cpp.  A message goes to  *)
(* the callback the application has registered and to a file or stdout, as *)
(* the environment says; it is delivered on the thread that logs, under    *)
(* the read lock.  Registering takes the write lock.                       *)
(*                                                                         *)
(* A level is a number, 0 the most critical (zsa_log_level_t).             *)
(***************************************************************************)
EXTENDS Naturals, FiniteSets

CONSTANTS
  LogThreads,    \* threads that log
  Contexts,      \* the contexts the application registers its callback with
  Callbacks,
  Messages,      \* levels of the messages
  Environments,  \* what the environment may say: [file, opens, stdout, level]
  MaxLogging     \* bound on the messages being delivered at a time

VARIABLES
  user,          \* user_callback, user_callback_context, user_log_level
  env,           \* env_logger, env_log_level
  logging        \* thread -> the message it is delivering, and to whom

logVars == <<user, env, logging>>

CRITICAL == 0
ERROR == 1
WARNING == 2
INFO == 3
TRACE == 4
OFF == 5

NoCallback == "no callback"
NoContext == "no context"
Unregistered(level) == [callback |-> NoCallback, context |-> NoContext, level |-> level]
Silent == [at |-> "idle", level |-> OFF, callback |-> NoCallback, context |-> NoContext]

-----------------------------------------------------------------------------
(* logger_init_once                                                        *)

(* A file, if one is wanted and can be opened; otherwise stdout, unless it *)
(* is switched off.                                                        *)
EnvLogger(e) ==
  IF e.file # "" /\ e.opens THEN "file"
  ELSE IF e.stdout # "0" THEN "stdout" ELSE "none"

(* The first letter of the level's name; ERROR for any other.              *)
EnvLevel(e) ==
  IF EnvLogger(e) = "none" THEN OFF
  ELSE CASE e.level = "t" -> TRACE
         [] e.level = "i" -> INFO
         [] e.level = "w" -> WARNING
         [] e.level = "c" -> CRITICAL
         [] OTHER -> ERROR

LogInit ==
  /\ user = Unregistered(OFF)
  /\ \E e \in Environments : env = [logger |-> EnvLogger(e), level |-> EnvLevel(e)]
  /\ logging = [t \in LogThreads |-> Silent]

-----------------------------------------------------------------------------

WriteUnlocked == TRUE                                            \* mutant

(* rwlock_acquire_write: nobody is delivering a message.                   *)
WriteLock == \A t \in LogThreads : logging[t].at = "idle"

(* "It is a failure to change the callback from an existing registration"; *)
(* the context and the level of the same callback may be changed.          *)
logger_register_message_callback(callback, context, level) ==
  /\ WriteLock
  /\ callback # NoCallback => level \in CRITICAL .. OFF
  /\ \/ user.callback = NoCallback
     \/ callback = NoCallback
     \/ user.callback = callback
  /\ user' = [callback |-> callback, context |-> context, level |-> level]
  /\ UNCHANGED <<env, logging>>

(* The binary is unloaded.                                                 *)
logger_deinit ==
  /\ WriteLock
  /\ env' = [env EXCEPT !.logger = "none"]
  /\ UNCHANGED <<user, logging>>

(* A callback that was unregistered leaves its level.                      *)
ToUser(level) == level <= user.level /\ user.level # OFF /\ user.callback # NoCallback
ToEnv(level) == level <= env.level /\ env.level # OFF /\ env.logger # "none"

Delivers(t, level, at) ==
  logging' = [logging EXCEPT ![t] =
    CASE at = "callback" -> [at |-> at, level |-> level,
                             callback |-> user.callback, context |-> user.context]
      [] at = "env" -> [Silent EXCEPT !.at = at, !.level = level]
      [] OTHER -> Silent]

(* logger_log: the callback first, if the message is for it.               *)
logger_log(t, level) ==
  /\ logging[t].at = "idle"
  /\ Cardinality({o \in LogThreads : logging[o].at # "idle"}) < MaxLogging
  /\ ToUser(level) \/ ToEnv(level)
  /\ Delivers(t, level, IF ToUser(level) THEN "callback" ELSE "env")
  /\ UNCHANGED <<user, env>>

CallbackReturns(t) ==
  /\ logging[t].at = "callback"
  /\ Delivers(t, logging[t].level, IF ToEnv(logging[t].level) THEN "env" ELSE "idle")
  /\ UNCHANGED <<user, env>>

Written(t) ==
  /\ logging[t].at = "env"
  /\ Delivers(t, OFF, "idle")
  /\ UNCHANGED <<user, env>>

(* What the application's threads do with the logger.                      *)
LogControl ==
  \/ \E cb \in Callbacks, ctx \in Contexts, level \in Messages \cup {OFF} :
       logger_register_message_callback(cb, ctx, level)
  \/ logger_register_message_callback(NoCallback, NoContext, OFF)
  \/ logger_deinit

LogStep(t) ==
  \/ \E level \in Messages : logger_log(t, level)
  \/ CallbackReturns(t)
  \/ Written(t)

-----------------------------------------------------------------------------
(* Properties                                                              *)

(* A message is delivered to the callback and context that are registered  *)
(* now, and written to a logger that is still there: when                  *)
(* logger_register_message_callback has returned, no thread is in the old  *)
(* callback or will call it with the old context, which may be freed.      *)
LoggersStayWhileUsed ==
  \A t \in LogThreads :
    /\ logging[t].at = "callback" =>
         logging[t].callback = user.callback /\ logging[t].context = user.context
    /\ logging[t].at = "env" => env.logger # "none"

=============================================================================
