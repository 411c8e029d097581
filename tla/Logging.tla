------------------------------- MODULE Logging -------------------------------
(***************************************************************************)
(* The logging macros that replace QUICHE's                                *)
(* (overrides/quiche_platform_impl/quiche_logging_impl.h and .cc): what a  *)
(* log statement expands to in Debug and Release builds, and how it is     *)
(* evaluated while other threads turn the debug-log switch or the          *)
(* verbosity flag.                                                         *)
(*                                                                         *)
(* A statement expands to ABSL_LOG_IF of a severity and a Boolean          *)
(* expression, here                                                        *)
(*    [severity, guards, alternatives]                                     *)
(* for  g1 && ... && gm && (alternative || alternative || ...)  where an   *)
(* alternative is a conjunction, both sequences of tests: "switch" is      *)
(* IsDLogEnabled(), "verbose" the comparison with --v, and any other test  *)
(* belongs to the condition the call site gives.  C++ evaluates the tests  *)
(* from left to right until the result is known, and each of them on its   *)
(* own reads an atomic variable: a step is one test.                       *)
(***************************************************************************)
EXTENDS Integers, Sequences

CONSTANTS
    Thread,             \* threads that log
    Severities,         \* severities of statements
    Condition,          \* conditions of call sites: sequences of alternatives
    Level               \* values of --v and of the verbosity of a statement

ASSUME LoggingAssumption == Level \subseteq Int /\ -1 \in Level

VARIABLES
    NDEBUG,             \* is this a Release build?
    g_dlog_enabled,     \* the switch
    v,                  \* the value of --v
    aborted,            \* has a FATAL message ended the process?
    site                \* per thread, the log statement it has reached

shared == <<g_dlog_enabled, v>>
vars == <<NDEBUG, shared, aborted, site>>

-----------------------------------------------------------------------------
(* The macros. *)

\* What a severity of QUICHE's becomes; 0, 1 and 2 are aliases.
Severity(severity) ==
    CASE severity = "DFATAL" -> IF NDEBUG THEN "ERROR" ELSE "FATAL"
      [] severity = "0" -> "ERROR"
      [] severity = "1" -> "WARNING"
      [] severity = "2" -> "INFO"
      [] OTHER -> severity

Always == << <<>> >>

Statement(severity, guards, condition) ==
    [severity |-> Severity(severity), guards |-> guards, alternatives |-> condition]

\* One more conjunct in front of an expression that is not in parentheses:
\* && binds stronger than ||, so that only the first alternative has it.
Prefixed(test, condition) ==
    << <<test>> \o Head(condition) >> \o Tail(condition)

LogIf(severity, condition) == Statement(severity, <<>>, condition)

Log(severity) == LogIf(severity, Always)

\* Mutation: the condition is not put in parentheses.
SwitchUnparenthesised(severity, condition) ==
    Statement(severity, <<>>,
              IF NDEBUG THEN Prefixed("switch", condition) ELSE condition)

\* ABSL_DLOG_IF in Debug builds; in Release the switch comes first.
DLogIf(severity, condition) ==
    Statement(severity, IF NDEBUG THEN <<"switch">> ELSE <<>>, condition)

DLog(severity) == DLogIf(severity, Always)

\* QUICHE_VLOG_PREDICATE goes before the condition as the call site wrote it.
VLogIf(condition) == LogIf("INFO", Prefixed("verbose", condition))

VLog == VLogIf(Always)

DVLogIf(condition) == DLogIf("INFO", Prefixed("verbose", condition))

DVLog == DVLogIf(Always)

\* Mutation: the guard is on in every build.
AlwaysOn == TRUE

\* QUICHE_DLOG_INFO_IS_ON, if it is evaluated now.
DLogInfoIsOn == NDEBUG => g_dlog_enabled

-----------------------------------------------------------------------------
(* Call sites. *)

Conditional == {"LOG_IF", "DLOG_IF", "VLOG_IF", "DVLOG_IF"}
Verbose == {"VLOG", "VLOG_IF", "DVLOG", "DVLOG_IF"}
DebugOnly == {"DLOG", "DLOG_IF", "DVLOG", "DVLOG_IF", "GUARDED_DLOG"}
Macros == {"LOG"} \union Conditional \union Verbose \union DebugOnly

Expansion(macro, severity, condition) ==
    CASE macro = "LOG" -> Log(severity)
      [] macro = "LOG_IF" -> LogIf(severity, condition)
      [] macro = "DLOG" -> DLog(severity)
      [] macro = "DLOG_IF" -> DLogIf(severity, condition)
      [] macro = "GUARDED_DLOG" -> DLog("INFO")
      [] macro = "VLOG" -> VLog
      [] macro = "VLOG_IF" -> VLogIf(condition)
      [] macro = "DVLOG" -> DVLog
      [] macro = "DVLOG_IF" -> DVLogIf(condition)

-----------------------------------------------------------------------------
(* A thread and its statement.  A site is at its "guard", "evaluating",     *)
(* "logged" or "skipped"; `asked' says that a test of the call site's own   *)
(* was evaluated, and sawOn, sawOff and sawVerbose what the switch and --v  *)
(* have been at some time since the statement began.                        *)

Nowhere ==
    [macro |-> "LOG", at |-> "skipped", statement |-> Statement("INFO", <<>>, Always),
     level |-> 0, formatted |-> FALSE, asked |-> FALSE,
     sawOn |-> FALSE, sawOff |-> FALSE, sawVerbose |-> FALSE]

Running(s) == s.at \in {"guard", "evaluating"}

Init ==
    /\ NDEBUG \in BOOLEAN
    /\ g_dlog_enabled = FALSE /\ v = -1
    /\ aborted = FALSE
    /\ site = [t \in Thread |-> Nowhere]

Reach(t) ==
    /\ ~aborted /\ ~Running(site[t])
    /\ \E macro \in Macros, severity \in Severities, level \in Level \ {-1} :
       \E condition \in IF macro \in Conditional THEN Condition ELSE {Always} :
          site' = [site EXCEPT ![t] =
                     [macro |-> macro,
                      at |-> IF macro = "GUARDED_DLOG" THEN "guard" ELSE "evaluating",
                      statement |-> Expansion(macro, severity, condition),
                      level |-> level, formatted |-> FALSE, asked |-> FALSE,
                      sawOn |-> g_dlog_enabled, sawOff |-> ~g_dlog_enabled,
                      sawVerbose |-> level <= v]]
    /\ UNCHANGED <<NDEBUG, shared, aborted>>

\* `if (QUICHE_DLOG_INFO_IS_ON())' before the text is formatted and logged.
TestGuard(t) ==
    /\ ~aborted /\ site[t].at = "guard"
    /\ site' = [site EXCEPT ![t].formatted = DLogInfoIsOn,
                            ![t].at = IF DLogInfoIsOn THEN "evaluating" ELSE "skipped"]
    /\ UNCHANGED <<NDEBUG, shared, aborted>>

\* The values a test may have now.
Values(test, level) ==
    CASE test = "switch" -> {g_dlog_enabled}
      [] test = "verbose" -> {level <= v}
      [] OTHER -> BOOLEAN

Own(test) == test \notin {"switch", "verbose"}

\* The next guard: false ends the statement.
EvaluateGuard(t) ==
    LET st == site[t].statement IN
    /\ ~aborted /\ site[t].at = "evaluating" /\ st.guards # <<>>
    /\ \E value \in Values(Head(st.guards), site[t].level) :
          site' = [site EXCEPT ![t].statement.guards = Tail(@),
                              ![t].at = IF value THEN @ ELSE "skipped"]
    /\ UNCHANGED <<NDEBUG, shared, aborted>>

\* The next test of the current alternative: false goes on to the next one.
EvaluateCondition(t) ==
    LET st == site[t].statement IN
    /\ ~aborted /\ site[t].at = "evaluating" /\ st.guards = <<>>
    /\ st.alternatives # <<>> /\ Head(st.alternatives) # <<>>
    /\ LET test == Head(Head(st.alternatives)) IN
       \E value \in Values(test, site[t].level) :
          site' = [site EXCEPT
                     ![t].statement.alternatives =
                        IF value THEN <<Tail(Head(@))>> \o Tail(@) ELSE Tail(@),
                     ![t].asked = @ \/ Own(test)]
    /\ UNCHANGED <<NDEBUG, shared, aborted>>

\* No alternative is left, or one was true to its end and the line is logged.
Decide(t) ==
    LET st == site[t].statement IN
    /\ ~aborted /\ site[t].at = "evaluating" /\ st.guards = <<>>
    /\ \/ /\ st.alternatives = <<>>
          /\ site' = [site EXCEPT ![t].at = "skipped"]
          /\ UNCHANGED aborted
       \/ /\ st.alternatives # <<>> /\ Head(st.alternatives) = <<>>
          /\ site' = [site EXCEPT ![t].at = "logged"]
          /\ aborted' = (st.severity = "FATAL")
    /\ UNCHANGED <<NDEBUG, shared>>

-----------------------------------------------------------------------------
(* Other threads. *)

Observed(s, on, verbosity) ==
    IF Running(s)
    THEN [s EXCEPT !.sawOn = @ \/ on, !.sawOff = @ \/ ~on,
                   !.sawVerbose = @ \/ s.level <= verbosity]
    ELSE s

SetDLogEnabled(enabled) ==
    /\ ~aborted
    /\ g_dlog_enabled' = enabled
    /\ site' = [t \in Thread |-> Observed(site[t], enabled, v)]
    /\ UNCHANGED <<NDEBUG, v, aborted>>

SetVerboseLevel(verbosity) ==
    /\ ~aborted
    /\ v' = verbosity
    /\ site' = [t \in Thread |-> Observed(site[t], g_dlog_enabled, verbosity)]
    /\ UNCHANGED <<NDEBUG, g_dlog_enabled, aborted>>

-----------------------------------------------------------------------------

Next ==
    \/ \E t \in Thread :
          Reach(t) \/ TestGuard(t) \/ EvaluateGuard(t) \/ EvaluateCondition(t) \/ Decide(t)
    \/ \E enabled \in BOOLEAN : SetDLogEnabled(enabled)
    \/ \E verbosity \in Level : SetVerboseLevel(verbosity)

Spec == Init /\ [][Next]_vars

-----------------------------------------------------------------------------
(* Properties. *)

\* In a Release build a debug statement evaluates the condition of its call
\* site, or logs (and perhaps aborts), only if the switch was on at some time
\* while it ran: turned off, it stays silent and cheap, whatever || its
\* condition contains (logging_impl.h 160-180).
SwitchGatesDLogs ==
    \A t \in Thread :
        NDEBUG /\ site[t].macro \in DebugOnly /\ (site[t].asked \/ site[t].at = "logged")
            => site[t].sawOn

\* Text is formatted for a debug line in vain only if the switch was changed
\* in between, and a line is missing because nothing was formatted only if it
\* was off: the guard agrees with the statement behind it in both builds
\* (logging_impl.h 280-288).
GuardMirrorsLog ==
    \A t \in Thread :
        site[t].macro = "GUARDED_DLOG" /\ site[t].at = "skipped"
            => NDEBUG /\ site[t].sawOff /\ (site[t].formatted => site[t].sawOn)

\* Show QUICHE_VLOG(m) messages for m <= --v; the default -1 disables all
\* verbose logs: logging_impl.cc 11-13, logging_impl.h 254-259.
VerboseOnlyIfAsked ==
    \A t \in Thread :
        site[t].macro \in Verbose /\ site[t].at = "logged" => site[t].sawVerbose

=============================================================================
