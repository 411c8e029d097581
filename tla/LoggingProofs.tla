---------------------------- MODULE LoggingProofs ----------------------------
(***************************************************************************)
(* Proofs about Logging for any threads, conditions, severities and        *)
(* verbosities.                                                            *)
(*                                                                         *)
(* The argument: a running statement has seen what the switch is now, so   *)
(* one whose guards were all passed has seen it on.  The guarded statement *)
(* has nothing to evaluate but the switch, and can be skipped only by it.  *)
(***************************************************************************)
EXTENDS Logging, TLAPS

Fields == {"macro", "at", "statement", "level", "formatted", "asked",
           "sawOn", "sawOff", "sawVerbose"}
StatementFields == {"severity", "guards", "alternatives"}

\* A site is made of its fields.
Shape(s) == DOMAIN s = Fields /\ DOMAIN s.statement = StatementFields

\* A running statement saw what the switch is set to.
SawSwitch(s, on) == Running(s) => (on => s.sawOn) /\ (~on => s.sawOff)

\* In a Release build a debug statement gets past its guard by the switch.
Gated(s) ==
    NDEBUG /\ s.macro \in DebugOnly =>
        /\ s.statement.guards \in {<<"switch">>, <<>>}
        /\ s.statement.guards = <<>> /\ s.at # "skipped" => s.sawOn
        /\ s.at = "logged" => s.statement.guards = <<>>
        /\ s.asked => s.sawOn

\* The guarded statement has no other test, and none in a Debug build.
Guarded(s) ==
    s.macro = "GUARDED_DLOG" =>
        /\ s.statement.alternatives = Always
        /\ ~NDEBUG => s.statement.guards = <<>>
        /\ NDEBUG /\ s.formatted => s.sawOn
        /\ s.at = "skipped" => NDEBUG /\ s.sawOff

SiteOK(s, on) == Shape(s) /\ SawSwitch(s, on) /\ Gated(s) /\ Guarded(s)

SitesInvariant ==
    /\ NDEBUG \in BOOLEAN /\ g_dlog_enabled \in BOOLEAN
    /\ DOMAIN site = Thread
    /\ \A t \in Thread : SiteOK(site[t], g_dlog_enabled)

-----------------------------------------------------------------------------
(* The macros. *)

\* A debug macro has the switch for its guard in Release, and no guard else.
LEMMA Expansions ==
    ASSUME NEW macro \in Macros, NEW severity, NEW condition
    PROVE  LET st == Expansion(macro, severity, condition)
           IN  /\ DOMAIN st = StatementFields
               /\ macro \in DebugOnly =>
                     st.guards = IF NDEBUG THEN <<"switch">> ELSE <<>>
               /\ macro = "GUARDED_DLOG" => st.alternatives = Always
<1> DEFINE st == Expansion(macro, severity, condition)
<1>1. CASE macro \in {"LOG", "LOG_IF", "VLOG", "VLOG_IF"}
    <2>1. \E sev, cond : st = Statement(sev, <<>>, cond)
        BY <1>1 DEF Expansion, Log, LogIf, VLog, VLogIf
    <2>2. QED BY <1>1, <2>1 DEF Statement, StatementFields, DebugOnly
<1>2. CASE macro \in DebugOnly
    <2>1. \E sev, cond :
            /\ st = Statement(sev, IF NDEBUG THEN <<"switch">> ELSE <<>>, cond)
            /\ macro = "GUARDED_DLOG" => cond = Always
        BY <1>2 DEF Expansion, DebugOnly, DLog, DLogIf, DVLog, DVLogIf
    <2>2. QED BY <2>1 DEF Statement, StatementFields
<1>3. QED BY <1>1, <1>2 DEF Macros, Conditional, Verbose, DebugOnly

-----------------------------------------------------------------------------
(* Steps of a thread. *)

\* A step of one thread that leaves the switch alone.
LEMMA OneSite ==
    ASSUME SitesInvariant, NEW t \in Thread, NEW s, s = site'[t],
           SiteOK(s, g_dlog_enabled), DOMAIN site' = Thread,
           \A r \in Thread \ {t} : site'[r] = site[r],
           UNCHANGED <<NDEBUG, g_dlog_enabled>>
    PROVE  SitesInvariant'
<1>1. ASSUME NEW r \in Thread PROVE SiteOK(site[r], g_dlog_enabled)'
    <2>1. PICK x, on : x = site'[r] /\ on = g_dlog_enabled
        OBVIOUS
    <2>2. x = s \/ x = site[r]
        BY <2>1
    <2>3. SiteOK(x, on)
        BY <2>1, <2>2 DEF SitesInvariant
    <2>4. QED BY <2>1, <2>3 DEF SiteOK, Shape, SawSwitch, Running, Gated, Guarded
<1>2. QED BY <1>1 DEF SitesInvariant

LEMMA ReachPreserves ==
    ASSUME SitesInvariant, NEW t \in Thread, Reach(t)
    PROVE  SitesInvariant'
<1>1. PICK macro \in Macros, severity \in Severities, level \in Level \ {-1} :
      \E condition \in IF macro \in Conditional THEN Condition ELSE {Always} :
          site' = [site EXCEPT ![t] =
                     [macro |-> macro,
                      at |-> IF macro = "GUARDED_DLOG" THEN "guard" ELSE "evaluating",
                      statement |-> Expansion(macro, severity, condition),
                      level |-> level, formatted |-> FALSE, asked |-> FALSE,
                      sawOn |-> g_dlog_enabled, sawOff |-> ~g_dlog_enabled,
                      sawVerbose |-> level <= v]]
    BY DEF Reach
<1>2. PICK condition :
          site' = [site EXCEPT ![t] =
                     [macro |-> macro,
                      at |-> IF macro = "GUARDED_DLOG" THEN "guard" ELSE "evaluating",
                      statement |-> Expansion(macro, severity, condition),
                      level |-> level, formatted |-> FALSE, asked |-> FALSE,
                      sawOn |-> g_dlog_enabled, sawOff |-> ~g_dlog_enabled,
                      sawVerbose |-> level <= v]]
    BY <1>1
<1> DEFINE s == [macro |-> macro,
                 at |-> IF macro = "GUARDED_DLOG" THEN "guard" ELSE "evaluating",
                 statement |-> Expansion(macro, severity, condition),
                 level |-> level, formatted |-> FALSE, asked |-> FALSE,
                 sawOn |-> g_dlog_enabled, sawOff |-> ~g_dlog_enabled,
                 sawVerbose |-> level <= v]
<1>3. /\ DOMAIN s = Fields /\ s.macro = macro
      /\ s.at = IF macro = "GUARDED_DLOG" THEN "guard" ELSE "evaluating"
      /\ s.statement = Expansion(macro, severity, condition)
      /\ s.formatted = FALSE /\ s.asked = FALSE
      /\ s.sawOn = g_dlog_enabled /\ s.sawOff = ~g_dlog_enabled
    BY DEF Fields
<1> HIDE DEF s
<1>4. /\ DOMAIN s.statement = StatementFields
      /\ macro \in DebugOnly =>
            s.statement.guards = IF NDEBUG THEN <<"switch">> ELSE <<>>
      /\ macro = "GUARDED_DLOG" => s.statement.alternatives = Always
    BY <1>3, Expansions
<1>5. Shape(s) /\ SawSwitch(s, g_dlog_enabled)
    BY <1>3, <1>4 DEF Shape, SawSwitch
<1>6. Gated(s)
    <2>1. <<"switch">> # <<>>
        OBVIOUS
    <2>2. QED BY <1>3, <1>4, <2>1 DEF Gated
<1>7. Guarded(s)
    BY <1>3, <1>4 DEF Guarded, DebugOnly
<1>8. SiteOK(s, g_dlog_enabled)
    BY <1>5, <1>6, <1>7 DEF SiteOK
<1>9. /\ site'[t] = s /\ DOMAIN site' = Thread
      /\ \A r \in Thread \ {t} : site'[r] = site[r]
      /\ UNCHANGED <<NDEBUG, g_dlog_enabled>>
    BY <1>2 DEF SitesInvariant, Reach, shared, s
<1>10. QED BY <1>8, <1>9, OneSite

LEMMA TestGuardPreserves ==
    ASSUME SitesInvariant, NEW t \in Thread, TestGuard(t)
    PROVE  SitesInvariant'
<1>1. SiteOK(site[t], g_dlog_enabled) /\ site[t].at = "guard"
    BY DEF SitesInvariant, TestGuard
<1>2. PICK s : s = site'[t]
    OBVIOUS
<1>3. /\ DOMAIN s = Fields /\ s.statement = site[t].statement
      /\ s.macro = site[t].macro /\ s.sawOn = site[t].sawOn /\ s.sawOff = site[t].sawOff
      /\ s.asked = site[t].asked /\ s.formatted = DLogInfoIsOn
      /\ s.at = IF DLogInfoIsOn THEN "evaluating" ELSE "skipped"
      /\ DOMAIN site' = Thread /\ \A r \in Thread \ {t} : site'[r] = site[r]
    BY <1>1, <1>2 DEF SitesInvariant, SiteOK, Shape, Fields, TestGuard
<1>4. UNCHANGED <<NDEBUG, g_dlog_enabled>>
    BY DEF TestGuard, shared
<1>5. Shape(s) /\ SawSwitch(s, g_dlog_enabled)
    BY <1>1, <1>3 DEF SiteOK, Shape, SawSwitch, Running
<1>6. Gated(s)
    BY <1>1, <1>3 DEF SiteOK, Gated
<1>7. Guarded(s)
    BY <1>1, <1>3 DEF SiteOK, Guarded, SawSwitch, Running, DLogInfoIsOn
<1>8. QED BY <1>2, <1>3, <1>4, <1>5, <1>6, <1>7, OneSite DEF SiteOK

LEMMA EvaluateGuardPreserves ==
    ASSUME SitesInvariant, NEW t \in Thread, EvaluateGuard(t)
    PROVE  SitesInvariant'
<1>1. /\ SiteOK(site[t], g_dlog_enabled)
      /\ site[t].at = "evaluating" /\ site[t].statement.guards # <<>>
      /\ UNCHANGED <<NDEBUG, g_dlog_enabled>>
    BY DEF SitesInvariant, EvaluateGuard, shared
<1>2. PICK value \in Values(Head(site[t].statement.guards), site[t].level) :
          site' = [site EXCEPT ![t].statement.guards = Tail(@),
                              ![t].at = IF value THEN @ ELSE "skipped"]
    BY DEF EvaluateGuard
<1>3. PICK s : s = site'[t]
    OBVIOUS
<1>4. /\ DOMAIN s = Fields /\ DOMAIN s.statement = StatementFields
      /\ s.statement.guards = Tail(site[t].statement.guards)
      /\ s.statement.alternatives = site[t].statement.alternatives
      /\ s.macro = site[t].macro /\ s.sawOn = site[t].sawOn /\ s.sawOff = site[t].sawOff
      /\ s.asked = site[t].asked /\ s.formatted = site[t].formatted
      /\ s.at = IF value THEN "evaluating" ELSE "skipped"
      /\ DOMAIN site' = Thread /\ \A r \in Thread \ {t} : site'[r] = site[r]
    BY <1>1, <1>2, <1>3 DEF SitesInvariant, SiteOK, Shape, Fields, StatementFields
\* The only guard of a debug statement is the switch.
<1>5. NDEBUG /\ site[t].macro \in DebugOnly =>
          s.statement.guards = <<>> /\ value = g_dlog_enabled
    <2>1. SUFFICES ASSUME NDEBUG, site[t].macro \in DebugOnly
                   PROVE  s.statement.guards = <<>> /\ value = g_dlog_enabled
        OBVIOUS
    <2>2. site[t].statement.guards = <<"switch">>
        BY <1>1, <2>1 DEF SiteOK, Gated
    <2>3. Head(<<"switch">>) = "switch" /\ Tail(<<"switch">>) = <<>>
        OBVIOUS
    <2>4. value \in {g_dlog_enabled}
        BY <1>2, <2>2, <2>3 DEF Values
    <2>5. QED BY <1>4, <2>2, <2>3, <2>4
<1>6. Shape(s) /\ SawSwitch(s, g_dlog_enabled)
    BY <1>1, <1>4 DEF SiteOK, Shape, SawSwitch, Running
<1>7. Gated(s)
    BY <1>1, <1>4, <1>5 DEF SiteOK, Gated, SawSwitch, Running, SitesInvariant
<1>8. Guarded(s)
    <2>1. SUFFICES ASSUME site[t].macro = "GUARDED_DLOG" PROVE Guarded(s)
        BY <1>4 DEF Guarded
    <2>2. NDEBUG /\ site[t].macro \in DebugOnly
        BY <1>1, <2>1 DEF SiteOK, Guarded, DebugOnly
    <2>3. ~value => site[t].sawOff
        BY <1>1, <1>5, <2>2 DEF SiteOK, SawSwitch, Running
    <2>4. QED BY <1>1, <1>4, <2>1, <2>2, <2>3 DEF SiteOK, Guarded
<1>9. QED BY <1>1, <1>3, <1>4, <1>6, <1>7, <1>8, OneSite DEF SiteOK

LEMMA EvaluateConditionPreserves ==
    ASSUME SitesInvariant, NEW t \in Thread, EvaluateCondition(t)
    PROVE  SitesInvariant'
<1>1. /\ SiteOK(site[t], g_dlog_enabled)
      /\ site[t].at = "evaluating" /\ site[t].statement.guards = <<>>
      /\ Head(site[t].statement.alternatives) # <<>>
      /\ UNCHANGED <<NDEBUG, g_dlog_enabled>>
    BY DEF SitesInvariant, EvaluateCondition, shared
<1>2. PICK alternatives, asked :
          site' = [site EXCEPT ![t].statement.alternatives = alternatives,
                              ![t].asked = asked]
    BY DEF EvaluateCondition
<1>3. PICK s : s = site'[t]
    OBVIOUS
<1>4. /\ DOMAIN s = Fields /\ DOMAIN s.statement = StatementFields
      /\ s.statement.guards = <<>> /\ s.at = "evaluating"
      /\ s.macro = site[t].macro /\ s.sawOn = site[t].sawOn /\ s.sawOff = site[t].sawOff
      /\ DOMAIN site' = Thread /\ \A r \in Thread \ {t} : site'[r] = site[r]
    BY <1>1, <1>2, <1>3 DEF SitesInvariant, SiteOK, Shape, Fields, StatementFields
\* The guarded statement has nothing to evaluate here.
<1>5. site[t].macro # "GUARDED_DLOG"
    <2>1. Head(Always) = <<>>
        BY DEF Always
    <2>2. QED BY <1>1, <2>1 DEF SiteOK, Guarded
<1>6. Shape(s) /\ SawSwitch(s, g_dlog_enabled)
    BY <1>1, <1>4 DEF SiteOK, Shape, SawSwitch, Running
<1>7. Gated(s)
    BY <1>1, <1>4 DEF SiteOK, Gated
<1>8. Guarded(s)
    BY <1>4, <1>5 DEF Guarded
<1>9. QED BY <1>1, <1>3, <1>4, <1>6, <1>7, <1>8, OneSite DEF SiteOK

LEMMA DecidePreserves ==
    ASSUME SitesInvariant, NEW t \in Thread, Decide(t)
    PROVE  SitesInvariant'
<1>1. /\ SiteOK(site[t], g_dlog_enabled)
      /\ site[t].at = "evaluating" /\ site[t].statement.guards = <<>>
      /\ UNCHANGED <<NDEBUG, g_dlog_enabled>>
    BY DEF SitesInvariant, Decide, shared
<1>2. PICK at : /\ site' = [site EXCEPT ![t].at = at]
                /\ \/ at = "skipped" /\ site[t].statement.alternatives = <<>>
                   \/ at = "logged"
    BY DEF Decide
<1>3. PICK s : s = site'[t]
    OBVIOUS
<1>4. /\ DOMAIN s = Fields /\ s.statement = site[t].statement /\ s.at = at
      /\ s.macro = site[t].macro /\ s.sawOn = site[t].sawOn /\ s.sawOff = site[t].sawOff
      /\ s.asked = site[t].asked /\ s.formatted = site[t].formatted
      /\ DOMAIN site' = Thread /\ \A r \in Thread \ {t} : site'[r] = site[r]
    BY <1>1, <1>2, <1>3 DEF SitesInvariant, SiteOK, Shape, Fields
<1>5. Shape(s) /\ SawSwitch(s, g_dlog_enabled)
    BY <1>1, <1>2, <1>4 DEF SiteOK, Shape, SawSwitch, Running
<1>6. Gated(s)
    BY <1>1, <1>4 DEF SiteOK, Gated
<1>7. Guarded(s)
    <2>1. Always # <<>>
        BY DEF Always
    <2>2. QED BY <1>1, <1>2, <1>4, <2>1 DEF SiteOK, Guarded
<1>8. QED BY <1>1, <1>3, <1>4, <1>5, <1>6, <1>7, OneSite DEF SiteOK

-----------------------------------------------------------------------------
(* Steps of other threads. *)

\* Whoever sets the switch, running statements see it.
LEMMA OthersPreserve ==
    ASSUME SitesInvariant, NEW on \in BOOLEAN, NEW verbosity,
           g_dlog_enabled' = on, UNCHANGED NDEBUG,
           site' = [t \in Thread |-> Observed(site[t], on, verbosity)]
    PROVE  SitesInvariant'
<1>1. ASSUME NEW t \in Thread PROVE SiteOK(site[t], g_dlog_enabled)'
    <2>1. PICK s, g : s = site'[t] /\ g = g_dlog_enabled
        OBVIOUS
    <2>2. SiteOK(site[t], g)
        BY <2>1 DEF SitesInvariant
    <2>3. s = Observed(site[t], on, verbosity)
        BY <2>1
    <2>4. /\ DOMAIN s = Fields /\ s.statement = site[t].statement /\ s.at = site[t].at
          /\ s.macro = site[t].macro /\ s.asked = site[t].asked
          /\ s.formatted = site[t].formatted
          /\ Running(site[t]) =>
                s.sawOn = (site[t].sawOn \/ on) /\ s.sawOff = (site[t].sawOff \/ ~on)
          /\ ~Running(site[t]) => s.sawOn = site[t].sawOn /\ s.sawOff = site[t].sawOff
        BY <2>2, <2>3 DEF SiteOK, Shape, Observed, Fields
    <2>5. (site[t].sawOn => s.sawOn) /\ (site[t].sawOff => s.sawOff)
        BY <2>4
    <2>6. Shape(s) /\ SawSwitch(s, on)
        BY <2>2, <2>4 DEF SiteOK, Shape, SawSwitch, Running
    <2>7. Gated(s)
        BY <2>2, <2>4, <2>5 DEF SiteOK, Gated
    <2>8. Guarded(s)
        BY <2>2, <2>4, <2>5 DEF SiteOK, Guarded
    <2>9. QED BY <2>1, <2>6, <2>7, <2>8
              DEF SiteOK, Shape, SawSwitch, Running, Gated, Guarded
<1>2. QED BY <1>1 DEF SitesInvariant

-----------------------------------------------------------------------------
(* The invariant and what follows from it. *)

LEMMA InitEstablishes == Init => SitesInvariant
<1> SUFFICES ASSUME Init PROVE SitesInvariant
    OBVIOUS
<1>1. /\ DOMAIN Nowhere = Fields /\ DOMAIN Nowhere.statement = StatementFields
      /\ Nowhere.macro = "LOG" /\ Nowhere.at = "skipped"
    BY DEF Nowhere, Statement, Fields, StatementFields
<1>2. SiteOK(Nowhere, FALSE)
    BY <1>1 DEF SiteOK, Shape, SawSwitch, Running, Gated, Guarded, DebugOnly
<1>3. QED BY <1>2 DEF Init, SitesInvariant

LEMMA NextPreserves == SitesInvariant /\ [Next]_vars => SitesInvariant'
<1>1. ASSUME SitesInvariant, UNCHANGED vars PROVE SitesInvariant'
    BY <1>1 DEF vars, shared, SitesInvariant, SiteOK, Shape, SawSwitch, Gated, Guarded
<1>2. ASSUME SitesInvariant, NEW on \in BOOLEAN, SetDLogEnabled(on)
      PROVE  SitesInvariant'
    BY <1>2, OthersPreserve DEF SetDLogEnabled
<1>3. ASSUME SitesInvariant, NEW verbosity, SetVerboseLevel(verbosity)
      PROVE  SitesInvariant'
    BY <1>3, OthersPreserve DEF SetVerboseLevel, SitesInvariant
<1>4. QED BY <1>1, <1>2, <1>3, ReachPreserves, TestGuardPreserves,
             EvaluateGuardPreserves, EvaluateConditionPreserves, DecidePreserves
          DEF Next

\* A statement under evaluation has seen the switch as it is now, and in a
\* Release build is past the guard of a debug macro only if it saw it on
\* (quiche_logging_impl.h).
THEOREM SitesInvariantHolds == Spec => []SitesInvariant
    BY InitEstablishes, NextPreserves, PTL DEF Spec

\* In a Release build no debug statement evaluates the condition of its call
\* site, or logs, unless the switch was on at some time while it ran, whatever
\* the condition is made of and however many threads log and switch.
THEOREM SilentWhenOff == Spec => []SwitchGatesDLogs
<1>1. SitesInvariant => SwitchGatesDLogs
    <2> SUFFICES ASSUME SitesInvariant, NEW t \in Thread, NDEBUG,
                        site[t].macro \in DebugOnly,
                        site[t].asked \/ site[t].at = "logged"
                 PROVE  site[t].sawOn
        BY DEF SwitchGatesDLogs
    <2> QED BY DEF SitesInvariant, SiteOK, Gated
<1>2. QED BY <1>1, SitesInvariantHolds, PTL

\* The guard before a debug statement and the statement disagree only if the
\* switch changed between them.
THEOREM GuardAgrees == Spec => []GuardMirrorsLog
<1>1. SitesInvariant => GuardMirrorsLog
    BY DEF SitesInvariant, SiteOK, Guarded, GuardMirrorsLog
<1>2. QED BY <1>1, SitesInvariantHolds, PTL

=============================================================================
