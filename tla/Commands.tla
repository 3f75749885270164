------------------------------ MODULE Commands -------------------------------
(***************************************************************************)
(* What slizend does with a command: its configuration, loaded once, then  *)
(* handle and commandLimitError of internal/proxy/server.go, commands.go   *)
(* and the catalogue they consult, for a client that sends one command     *)
(* after the other, and the policy of each key.  The cache is reduced to   *)
(* whether the copy of a key, if any, is what the origin holds.  An        *)
(* argument is a key, a word of the SET grammar or any other word.         *)
(***************************************************************************)
EXTENDS Config, PolicyMatcher

CONSTANTS
  Text,            \* the letters of each key
  RawBytes(_, _),  \* the length of a command as it arrives, by name and arguments
  Words,           \* the words whose policies are compared with the definition
  ArgLists,        \* the argument lists sent, without the command name
  Files, Envs      \* the configuration files and environments

\* The environment has no variable for policies.
ASSUME SettingsAssumption ==
  /\ {"maxBytes", "maxLocalTTL", "policies"} \subseteq DOMAIN Default
  /\ WellFormed(Default) /\ \A i \in DOMAIN Default.policies : Complete(Default.policies[i])
  /\ \A file \in Files : WellFormed(file.set)
  /\ \A env \in Envs : WellFormed(env.set) /\ "policies" \notin DOMAIN env.set
  /\ Words \subseteq Seq(STRING)

VARIABLES
  phase,   \* "loading", then "serving" or, with a refused configuration, "exited"
  cfg,     \* the configuration
  cached   \* the copy of each key: "none", "same" as the origin, or "differs"

commandVars == <<phase, cfg, cached>>

Keys == DOMAIN Text

matcher == newPolicyMatcher(cfg)

Caches(k) == Match(matcher, Text[k]).mode = "cache"

-----------------------------------------------------------------------------
(* The catalogue, by class; a name outside it is unsupported.              *)

ClassLocal == {"PING", "QUIT", "SELECT"}
ClassRead == {"GET", "MGET"}
ClassWrite == {"DEL", "EXPIRE", "PERSIST", "PEXPIRE", "PSETEX", "SET", "SETEX", "UNLINK"}
ClassPassThrough == {"EXISTS", "PTTL", "TTL"}
ClassRejectedMutation ==
  {"HDEL", "HSET", "LPOP", "LPUSH", "MSET", "RENAME", "RPOP", "RPUSH", "SADD", "SREM"}
ClassRejectedStateful ==
  {"EXEC", "MONITOR", "MULTI", "PSUBSCRIBE", "SSUBSCRIBE", "SUBSCRIBE", "UNWATCH", "WATCH"}
ClassRejectedBlocking ==
  {"BLMOVE", "BLPOP", "BRPOP", "BRPOPLPUSH", "BZPOPMAX", "BZPOPMIN", "XREAD", "XREADGROUP"}
Unsupported == {"FLUSHALL", "EVAL", "APPEND"}

Names == UNION {ClassLocal, ClassRead, ClassWrite, ClassPassThrough, ClassRejectedMutation,
                ClassRejectedStateful, ClassRejectedBlocking, Unsupported}

isUnsafeClass(name) == name \in ClassRejectedStateful \cup ClassRejectedBlocking

isRejectedMutationClass(name) == name \in ClassRejectedMutation

-----------------------------------------------------------------------------
(* Routing.  n counts the arguments after the name.                        *)

Rejected == [to |-> "rejected", keys |-> {}]
Local == [to |-> "local", keys |-> {}]
PassThrough == [to |-> "passThrough", keys |-> {}]
ExecuteWrite(keys) == [to |-> "executeWrite", keys |-> keys]
Read(keys) == [to |-> "read", keys |-> keys]

ASSUME RawBytesAssumption == \A name \in Names, args \in ArgLists : RawBytes(name, args) \in Nat

commandBytesExceed(name, args, maximum) == RawBytes(name, args) > maximum

commandLimitError(name, args) ==
  \/ commandBytesExceed(name, args, cfg.maxCommandBytes)
  \/ Len(args) + 1 > cfg.maxCommandArgs
  \/ name = "MGET" /\ Len(args) > cfg.maxMGetKeys

\* A GET among the options, but not as the operand of an expiry option.
setUsesGetOption(options) ==
  LET uses[i \in 1 .. Len(options) + 2] ==
        /\ i <= Len(options)
        /\ \/ options[i] = "GET"
           \/ options[i] \in {"EX", "PX", "EXAT", "PXAT"} /\ uses[i + 2]
           \/ options[i] \notin {"EX", "PX", "EXAT", "PXAT"} /\ uses[i + 1]
  IN  uses[1]

UsesGet(args) == setUsesGetOption(SubSeq(args, 3, Len(args)))

FirstKeyOnly(args) == {args[1]}

\* The keys DEL and UNLINK remove.
AllKeys(args) == Range(args)

Arity(name, n) ==
  CASE name \in {"GET", "SELECT", "PERSIST", "TTL", "PTTL"} -> n = 1
    [] name \in {"MGET", "DEL", "UNLINK", "EXISTS"} -> n >= 1
    [] name \in {"EXPIRE", "PEXPIRE"} -> n = 2
    [] name \in {"SETEX", "PSETEX"} -> n = 3
    [] name = "SET" -> n >= 2
    [] name = "PING" -> n <= 1
    [] OTHER -> TRUE

PassedThrough == {"TTL", "PTTL", "EXISTS"}

\* handle: the limits, the catalogue's rejections, arity, then the command.
Route(name, args) ==
  IF \/ commandLimitError(name, args)
     \/ isUnsafeClass(name) \/ isRejectedMutationClass(name)
     \/ ~Arity(name, Len(args))
  THEN Rejected
  ELSE CASE name = "SELECT" -> IF args[1] = "0" THEN Local ELSE Rejected
         [] name \in {"PING", "QUIT"} -> Local
         [] name \in {"GET", "MGET"} -> Read(Range(args))
         [] name = "SET" -> IF UsesGet(args) THEN Rejected ELSE ExecuteWrite({args[1]})
         [] name \in {"SETEX", "PSETEX", "EXPIRE", "PEXPIRE", "PERSIST"} -> ExecuteWrite({args[1]})
         [] name \in {"DEL", "UNLINK"} -> ExecuteWrite(AllKeys(args))
         [] name \in PassedThrough -> PassThrough
         [] OTHER -> Rejected

-----------------------------------------------------------------------------
(* The origin, as Redis documents the commands: the keys a command that    *)
(* reaches it may change.                                                  *)

OriginChanges(name, args) ==
  Keys \cap
  CASE name = "FLUSHALL" -> Keys
    [] name \in {"GET", "MGET", "EXISTS", "TTL", "PTTL"} -> {}
    [] name \in {"SET", "SETEX", "PSETEX", "EXPIRE", "PEXPIRE", "PERSIST"} -> {args[1]}
    [] OTHER -> Range(args)

-----------------------------------------------------------------------------

CommandsInit == phase = "loading" /\ cfg = Default /\ cached = [k \in Keys |-> "none"]

load ==
  /\ phase = "loading"
  /\ \E file \in Files, env \in Envs :
       \/ Load(file, env) = {} /\ phase' = "exited" /\ UNCHANGED cfg
       \/ cfg' \in Load(file, env) /\ phase' = "serving"
  /\ UNCHANGED cached

Outdated(changed) == [k \in Keys |-> IF k \in changed /\ cached[k] # "none" THEN "differs" ELSE cached[k]]

\* finalizeWrite: only an exact SET key value may leave a local copy, and
\* writeThroughSet leaves one only of a key whose policy caches.
WritesThrough(name, args) == name = "SET" /\ Len(args) = 2 /\ Caches(args[1])

\* What the command leaves of the local copies.  A read may retain what it
\* fetched of the keys whose policy caches; a write drops its keys before and after the origin, which may apply
\* it or fail; the copy a SET leaves is the whole value without expiry.
Effect(name, args, route) ==
  CASE route.to \in {"rejected", "local"} -> {cached}
    [] route.to = "passThrough" -> {cached, Outdated(OriginChanges(name, args))}
    [] route.to = "read" ->
         {[k \in Keys |-> IF k \in kept /\ cached[k] = "none" THEN "same" ELSE cached[k]] :
            kept \in SUBSET {k \in route.keys \cap Keys : Caches(k)}}
    [] route.to = "executeWrite" ->
         LET changed == Outdated(OriginChanges(name, args))
             dropped == [k \in Keys |-> IF k \in route.keys THEN "none" ELSE changed[k]]
             copy    == IF Len(args) = 2 THEN "same" ELSE "differs"
         IN  {dropped} \cup
             (IF WritesThrough(name, args)
              THEN {[k \in Keys |-> IF k = args[1] THEN copy ELSE dropped[k]]} ELSE {})

handle ==
  /\ phase = "serving"
  /\ \E name \in Names, args \in ArgLists : cached' \in Effect(name, args, Route(name, args))
  /\ UNCHANGED <<phase, cfg>>

CommandsNext == load \/ handle

CommandsSpec == CommandsInit /\ [][CommandsNext]_commandVars

-----------------------------------------------------------------------------

\* No sequence of commands leaves a local copy that differs from the origin:
\* whatever reaches it and changes a key goes through ExecuteWrite with every
\* key it changes, or is rejected, and only a plain SET leaves a copy behind.
CopiesFollowCommands == \A k \in Keys : cached[k] # "differs"

\* The word starts with the prefix.
HasPrefix(word, prefix) == Len(prefix) <= Len(word) /\ SubSeq(word, 1, Len(prefix)) = prefix

\* "Longest-prefix matching": the decision on a word is that of the policy with its
\* longest prefix, with that policy's own limits, and the global one without any.
\* Whatever layers the configuration comes from, a key that is cached has limits,
\* none beyond the global ones (zero means no copy to storeLocal), and in observe
\* mode no key is cached.
LongestPrefixDecides ==
  phase = "serving" =>
    \A word \in Words :
      LET got  == Match(matcher, word)
          fits == {i \in DOMAIN cfg.policies : HasPrefix(word, cfg.policies[i].prefix)}
          best == CHOOSE i \in fits : \A j \in fits :
                    Len(cfg.policies[j].prefix) <= Len(cfg.policies[i].prefix)
          rule == IF fits = {} THEN cfg ELSE cfg.policies[best]
      IN  /\ got.mode = IF cfg.mode = "observe" /\ rule.mode = "cache" THEN "observe" ELSE rule.mode
          /\ got.mode = "cache" /\ fits # {} =>
               got.maxItemBytes = rule.maxItemBytes /\ got.maxLocalTTL = rule.maxLocalTTL
          /\ got.mode = "cache" =>
               got.maxItemBytes \in 1 .. cfg.maxBytes /\ got.maxLocalTTL \in 1 .. cfg.maxLocalTTL

\* A client that keeps to the limits published for it, proxy.max_mget_keys and
\* proxy.max_command_bytes, is served: no accepted configuration has a limit of
\* arguments that refuses such an MGET for its name.
WidestMGetServed ==
  phase = "serving" =>
    \A args \in ArgLists :
      /\ Len(args) \in 1 .. cfg.maxMGetKeys
      /\ RawBytes("MGET", args) <= cfg.maxCommandBytes
      => Route("MGET", args).to = "read"
=============================================================================
