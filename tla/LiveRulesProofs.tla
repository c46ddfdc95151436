-------------------------- MODULE LiveRulesProofs --------------------------
(***************************************************************************)
(* The live engine against the table of rules, for any number of rules,    *)
(* presets, restarts and refused statements.                               *)
(***************************************************************************)
EXTENDS LiveRules, TLAPS

\* A decision in flight that nobody interfered with has its row enabled.
FlightAgrees == \A r \in InFlight \ adrift : rows[r] = "enabled"

\* What the page read is what the table holds, except for rules that were
\* changed since, and then the read is not clean.
ReadAgrees ==
  page.step = "read" =>
    /\ \A r \in AllRules \ adrift : r \in page.read <=> rows[r] = "enabled"
    /\ clean => page.read = InState("enabled")

\* The rule that the page is adding is enabled, unless the command line came in
\* between.
AddAgrees ==
  page.step = "adding" => page.rule \in adrift \/ rows[page.rule] = "enabled"

\* Every rule on its way to the list has a row, or had one.
OnTheWay ==
  /\ \A r \in InFlight : rows[r] # "none"
  /\ \A r \in page.read : rows[r] # "none"
  /\ page.step = "adding" => rows[page.rule] # "none"

Consistent ==
  /\ LiveAgrees
  /\ GrantedFirst
  /\ FlightAgrees
  /\ ReadAgrees
  /\ AddAgrees
  /\ OnTheWay

Inv == TypeOK /\ Consistent

-----------------------------------------------------------------------------
\* Every initial state is well typed.
LEMMA InitType == Init => TypeOK
  BY ConstantsAssumption
  DEF ConstantsAssumption, Init, TypeOK, PageType, AllRules, Idle, NoCommand

\* Every step, stuttering steps included, preserves the types.
LEMMA NextType == TypeOK /\ [Next]_vars => TypeOK'
<1> SUFFICES ASSUME TypeOK, [Next]_vars PROVE TypeOK'
  OBVIOUS
<1> USE DEF TypeOK, PageType, AllRules
<1>1. ASSUME NEW r \in Rules, Store(r) PROVE TypeOK'
  BY <1>1 DEF Store
<1>2. ASSUME NEW r \in Rules, Install(r) PROVE TypeOK'
  BY <1>2 DEF Install
<1>3. ASSUME NEW r \in Rules, AddRow(r) PROVE TypeOK'
  BY <1>3 DEF AddRow
<1>4. ASSUME NEW r \in AllRules, PageStep(r) PROVE TypeOK'
  BY <1>4 DEF PageStep, Enable, Disable, Delete, Change, InFlight
<1>5. ASSUME NEW r \in AllRules, CliDisable(r) PROVE TypeOK'
  BY <1>5 DEF CliDisable, WriteOutside
<1>6. CASE AddLive
  BY <1>6 DEF AddLive, Idle
<1>7. CASE Load
  <2>1. UNCHANGED <<rows, always, grant, cli>> /\ page.step = "changed"
    BY <1>7 DEF Load
  <2>2. page \in [step : {"changed"}, rule : AllRules, read : {{}}]
    BY <2>1 DEF Idle
  <2>3. page.rule \in AllRules
    BY <2>2
  <2>4. CASE /\ page' = [step |-> "read", rule |-> page.rule, read |-> InState("enabled")]
             /\ clean' = TRUE /\ adrift' = adrift
    <3>1. page' \in [step : {"read"}, rule : AllRules, read : SUBSET AllRules]
      BY <2>2, <2>4 DEF InState
    <3> QED BY <2>1, <2>4, <3>1
  <2>5. CASE page' = Idle /\ adrift' = adrift \cup {page.rule} /\ clean' = clean
    BY <2>1, <2>3, <2>5
  <2> QED BY <1>7, <2>4, <2>5 DEF Load
<1>8. CASE Replace
  BY <1>8 DEF Replace, Idle
<1>9. CASE CliList
  BY <1>9 DEF CliList
<1>10. ASSUME NEW r \in Presets, CliInstall(r) PROVE TypeOK'
  BY <1>10 DEF CliInstall, WriteOutside
<1>11. ASSUME NEW r \in Presets, CliFail(r) PROVE TypeOK'
  BY <1>11 DEF CliFail, NoCommand
<1>12. CASE Restart
  BY <1>12 DEF Restart, InState, Idle
<1>13. CASE UNCHANGED vars
  BY <1>13 DEF vars
<1> QED
  BY <1>1, <1>2, <1>3, <1>4, <1>5, <1>6, <1>7, <1>8, <1>9, <1>10, <1>11, <1>12,
     <1>13 DEF Next, Decide

\* Every reachable state is well typed.
THEOREM TypeCorrect == Spec => []TypeOK
<1>1. Init => TypeOK BY InitType
<1>2. TypeOK /\ [Next]_vars => TypeOK' BY NextType
<1> QED BY <1>1, <1>2, PTL DEF Spec

-----------------------------------------------------------------------------
\* The invariant holds before anything has happened.
LEMMA InitInv == Init => Inv
<1> SUFFICES ASSUME Init PROVE Inv
  OBVIOUS
<1>1. TypeOK
  BY InitType
<1>2. /\ always = {}
      /\ page.step = "idle" /\ page.read = {}
      /\ InFlight = {}
      /\ \A r \in AllRules : rows[r] = "none"
  BY DEF Init, Idle, InFlight
<1> QED
  BY <1>1, <1>2 DEF Inv, Consistent, LiveAgrees, GrantedFirst, FlightAgrees, ReadAgrees,
     AddAgrees, OnTheWay

\* The list, the rows read and the decisions in flight hold known rules only.
LEMMA KnownRules ==
  ASSUME TypeOK
  PROVE  /\ always \subseteq AllRules
         /\ page.read \subseteq AllRules
         /\ InFlight \subseteq AllRules
         /\ page.step = "adding" => page.rule \in AllRules
  BY DEF TypeOK, PageType, AllRules, InFlight, Idle

\* Every step preserves the invariant.
LEMMA NextInv == Inv /\ [Next]_vars => Inv'
<1> SUFFICES ASSUME Inv, [Next]_vars PROVE Inv'
  OBVIOUS
<1>0. TypeOK'
  BY NextType DEF Inv
<1>i. TypeOK /\ Consistent
  BY DEF Inv
<1> SUFFICES Consistent'
  BY <1>0 DEF Inv
<1>a. /\ rows \in [AllRules -> {"none", "enabled", "disabled", "deleted"}]
      /\ grant \in [Rules -> {"new", "stored", "done"}]
      /\ Rules \subseteq AllRules /\ Presets \subseteq AllRules
  BY <1>i DEF TypeOK, AllRules
<1>b. /\ always \subseteq AllRules
      /\ page.read \subseteq AllRules
      /\ InFlight \subseteq AllRules
      /\ page.step = "adding" => page.rule \in AllRules
  BY <1>i, KnownRules
<1>1. ASSUME NEW r \in Rules, Store(r) PROVE Consistent'
  <2>1. /\ InFlight' = InFlight \cup {r}
        /\ rows' = [rows EXCEPT ![r] = "enabled"]
        /\ adrift' = IF page.step = "read" THEN adrift \cup {r} ELSE adrift
        /\ clean' = FALSE
    BY <1>1, <1>a DEF Store, InFlight
  <2>2. UNCHANGED <<always, page>>
    BY <1>1 DEF Store
  <2> QED
    BY <2>1, <2>2, <1>a, <1>b, <1>i
    DEF Consistent, LiveAgrees, GrantedFirst, FlightAgrees, ReadAgrees,
        AddAgrees, OnTheWay
<1>2. ASSUME NEW r \in Rules, Install(r) PROVE Consistent'
  <2>1. /\ InFlight' = InFlight \ {r}
        /\ r \in InFlight
        /\ always' = always \cup {r}
    BY <1>2, <1>a DEF Install, InFlight
  <2>2. UNCHANGED <<rows, page, adrift, clean>>
    BY <1>2 DEF Install
  <2>3. UNCHANGED InState("enabled")
    BY <2>2 DEF InState
  <2> QED
    BY <2>1, <2>2, <2>3, <1>a, <1>b, <1>i
    DEF Consistent, LiveAgrees, GrantedFirst, FlightAgrees, ReadAgrees,
        AddAgrees, OnTheWay
<1>3. ASSUME NEW r \in Rules, AddRow(r) PROVE Consistent'
  <2>1. /\ InFlight' = InFlight
        /\ rows' = [rows EXCEPT ![r] = "enabled"]
        /\ page.step = "idle"
        /\ page'.step = "adding" /\ page'.rule = r /\ page'.read = {}
    BY <1>3, <1>a DEF AddRow, InFlight
  <2>2. UNCHANGED <<always, adrift, clean>>
    BY <1>3 DEF AddRow
  <2>3. page = Idle
    BY <1>i, <2>1 DEF TypeOK, PageType, Idle
  <2>4. page.rule \notin AllRules
    BY <2>3, ConstantsAssumption DEF ConstantsAssumption, Idle
  <2> QED
    BY <2>1, <2>2, <2>4, <1>a, <1>b, <1>i
    DEF Consistent, LiveAgrees, GrantedFirst, FlightAgrees, ReadAgrees,
        AddAgrees, OnTheWay
<1>4. ASSUME NEW r \in AllRules, PageStep(r) PROVE Consistent'
  <2>1. PICK to \in {"enabled", "disabled", "deleted"} : rows' = [rows EXCEPT ![r] = to]
    BY <1>4 DEF PageStep, Enable, Disable, Delete, Change
  <2>2. /\ page.step = "idle"
        /\ page'.step = "changed" /\ page'.rule = r /\ page'.read = {}
        /\ adrift' = adrift \cup InFlight
    BY <1>4 DEF PageStep, Enable, Disable, Delete, Change
  <2>3. UNCHANGED <<always, grant, clean>>
    BY <1>4 DEF PageStep, Enable, Disable, Delete, Change
  <2>4. InFlight' = InFlight
    BY <2>3 DEF InFlight
  <2>5. page = Idle
    BY <1>i, <2>2 DEF TypeOK, PageType, Idle
  <2>6. page.rule \notin AllRules
    BY <2>5, ConstantsAssumption DEF ConstantsAssumption, Idle
  <2> QED
    BY <2>1, <2>2, <2>3, <2>4, <2>6, <1>a, <1>b, <1>i
    DEF Consistent, LiveAgrees, GrantedFirst, FlightAgrees, ReadAgrees,
        AddAgrees, OnTheWay
<1>5. ASSUME NEW r \in AllRules, NEW s \in {"enabled", "disabled"},
             WriteOutside(r, s), UNCHANGED <<always, grant, page>>
      PROVE  Consistent'
  <2>1. /\ rows' = [rows EXCEPT ![r] = s]
        /\ adrift' = adrift \cup {r}
        /\ clean' = FALSE
    BY <1>5 DEF WriteOutside
  <2>2. InFlight' = InFlight
    BY <1>5 DEF InFlight
  <2> QED
    BY <1>5, <2>1, <2>2, <1>a, <1>b, <1>i
    DEF Consistent, LiveAgrees, GrantedFirst, FlightAgrees, ReadAgrees,
        AddAgrees, OnTheWay
<1>6. CASE AddLive
  <2>1. /\ page.step = "adding"
        /\ always' = always \cup {page.rule}
        /\ page'.step = "idle" /\ page'.rule = NoRule /\ page'.read = {}
    BY <1>6 DEF AddLive, Idle
  <2>2. UNCHANGED <<rows, grant, adrift, clean>>
    BY <1>6 DEF AddLive
  <2>3. InFlight' = InFlight
    BY <2>2 DEF InFlight
  <2> QED
    BY <2>1, <2>2, <2>3, <1>a, <1>b, <1>i
    DEF Consistent, LiveAgrees, GrantedFirst, FlightAgrees, ReadAgrees,
        AddAgrees, OnTheWay
<1>7. CASE Load
  <2>1. UNCHANGED <<rows, always, grant>> /\ page.step = "changed"
    BY <1>7 DEF Load
  <2>2. InFlight' = InFlight /\ InState("enabled")' = InState("enabled")
    BY <2>1 DEF InFlight, InState
  <2>3. CASE /\ page' = [step |-> "read", rule |-> page.rule, read |-> InState("enabled")]
             /\ clean' = TRUE /\ adrift' = adrift
    <3>1. /\ page'.step = "read" /\ page'.read = InState("enabled")
          /\ page'.rule = page.rule
      BY <2>1, <2>3 DEF TypeOK, PageType, Idle
    <3>2. \A r \in AllRules : r \in InState("enabled") <=> rows[r] = "enabled"
      BY DEF InState
    <3>3. \A r \in InState("enabled") : rows[r] # "none"
      BY DEF InState
    <3> QED
      BY <2>1, <2>2, <2>3, <3>1, <3>2, <3>3, <1>i
      DEF Consistent, LiveAgrees, GrantedFirst, FlightAgrees, ReadAgrees,
          AddAgrees, OnTheWay
  <2>4. CASE page' = Idle /\ adrift' = adrift \cup {page.rule} /\ clean' = clean
    <3>1. page'.step = "idle" /\ page'.rule = NoRule /\ page'.read = {}
      BY <2>4 DEF Idle
    <3> QED
      BY <2>1, <2>2, <2>4, <3>1, <1>i
      DEF Consistent, LiveAgrees, GrantedFirst, FlightAgrees, ReadAgrees,
          AddAgrees, OnTheWay
  <2> QED BY <1>7, <2>3, <2>4 DEF Load
<1>8. CASE Replace
  <2>1. /\ page.step = "read"
        /\ always' = page.read
        /\ page'.step = "idle" /\ page'.rule = NoRule /\ page'.read = {}
        /\ adrift' = IF clean THEN adrift \cap InFlight ELSE adrift
    BY <1>8 DEF Replace, Idle
  <2>2. UNCHANGED <<rows, grant, clean>>
    BY <1>8 DEF Replace
  <2>3. InFlight' = InFlight
    BY <2>2 DEF InFlight
  <2>4. clean => \A r \in AllRules : r \in page.read <=> rows[r] = "enabled"
    BY <1>i, <2>1 DEF Consistent, ReadAgrees, InState
  <2> QED
    BY <2>1, <2>2, <2>3, <2>4, <1>i
    DEF Consistent, LiveAgrees, GrantedFirst, FlightAgrees, ReadAgrees,
        AddAgrees, OnTheWay
<1>9. ASSUME UNCHANGED <<rows, always, grant, page, adrift, clean>> PROVE Consistent'
  <2>1. InFlight' = InFlight /\ InState("enabled")' = InState("enabled")
    BY <1>9 DEF InFlight, InState
  <2> QED
    BY <1>9, <2>1, <1>i
    DEF Consistent, LiveAgrees, GrantedFirst, FlightAgrees, ReadAgrees,
        AddAgrees, OnTheWay
<1>10. ASSUME NEW r \in Presets, CliInstall(r) PROVE Consistent'
  <2>1. CASE UNCHANGED <<rows, adrift, clean>>
    BY <1>9, <1>10, <2>1 DEF CliInstall
  <2>2. CASE WriteOutside(r, "enabled")
    BY <1>5, <1>10, <1>a, <2>2 DEF CliInstall
  <2> QED BY <1>10, <2>1, <2>2 DEF CliInstall
<1>11. CASE Restart
  <2>1. /\ always' = InState("enabled")
        /\ page'.step = "idle" /\ page'.read = {}
        /\ adrift' = {}
        /\ rows' = rows
    BY <1>11 DEF Restart, Idle
  <2>2. InFlight' = {}
    BY <1>11, <1>a DEF Restart, InFlight
  <2>3. /\ \A r \in AllRules : r \in InState("enabled") <=> rows[r] = "enabled"
        /\ InState("enabled") \subseteq AllRules
    BY DEF InState
  <2> QED
    BY <2>1, <2>2, <2>3, <1>i
    DEF Consistent, LiveAgrees, GrantedFirst, FlightAgrees, ReadAgrees,
        AddAgrees, OnTheWay
<1>12. ASSUME NEW r \in AllRules, CliDisable(r) PROVE Consistent'
  BY <1>5, <1>12 DEF CliDisable
<1>13. CASE CliList
  BY <1>9, <1>13 DEF CliList
<1>14. ASSUME NEW r \in Presets, CliFail(r) PROVE Consistent'
  BY <1>9, <1>14 DEF CliFail
<1>15. CASE UNCHANGED vars
  BY <1>9, <1>15 DEF vars
<1> QED
  BY <1>1, <1>2, <1>3, <1>4, <1>6, <1>7, <1>8, <1>10, <1>11, <1>12, <1>13,
     <1>14, <1>15 DEF Next, Decide

\* The inductive invariant of the rules holds in every reachable state.
THEOREM InvariantCorrect == Spec => []Inv
<1>1. Init => Inv BY InitInv
<1>2. Inv /\ [Next]_vars => Inv' BY NextInv
<1> QED BY <1>1, <1>2, PTL DEF Spec

\* The engine and the table agree on every rule that no step is under way on
\* and that is not adrift, through every interleaving of decisions, the rules
\* page, the command line and restarts.
THEOREM AgreementCorrect == Spec => []LiveAgrees
<1>1. Inv => LiveAgrees BY DEF Inv, Consistent
<1> QED BY InvariantCorrect, <1>1, PTL

\* A rule is live only after its row was committed.
THEOREM GrantedCorrect == Spec => []GrantedFirst
<1>1. Inv => GrantedFirst BY DEF Inv, Consistent
<1> QED BY InvariantCorrect, <1>1, PTL
=============================================================================
