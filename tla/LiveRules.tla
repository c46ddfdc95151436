----------------------------- MODULE LiveRules -----------------------------
(***************************************************************************)
(* The always rules, which approve requests without a human: the table     *)
(* rules, the list that the engine (rules/engine.go) keeps in memory, and  *)
(* everybody who changes either of them.                                   *)
(*                                                                         *)
(* Decisions of the terminal and of approver devices store their rule and  *)
(* install it in two steps, each in a goroutine of its own.  The rules     *)
(* page runs its operations one after the other on the goroutine of the    *)
(* user interface; a change of the table is followed by a reload, which    *)
(* reads the table and replaces the list in two steps.  The command line   *)
(* writes the table from another process and tells nobody.                 *)
(*                                                                         *)
(* A rule is a name: what it matches makes no difference to where it is    *)
(* kept.  The list is a set: it may hold a rule twice (a reload between    *)
(* the two steps of a decision), and nothing takes one out of it but a     *)
(* reload, which takes out both.                                           *)
(***************************************************************************)

CONSTANTS
  Rules,    \* rules that decisions and the rules page create; each has a new id
  Presets,  \* rules of the presets that the command line installs
  NoRule,   \* the rules page works on no rule
  MayFail   \* whether SQLite may refuse a statement

AllRules == Rules \cup Presets

ASSUME ConstantsAssumption ==
  /\ Rules \cap Presets = {}
  /\ NoRule \notin AllRules
  /\ MayFail \in BOOLEAN

VARIABLES
  rows,    \* the table rules: the state of each row
  always,  \* Engine.always
  grant,   \* progress of the call that creates each rule
  page,    \* the rules page: its step, the rule it works on, the rows it read
  cli,     \* presets the command line still has to install, and the rows it saw
  adrift,  \* history: rules changed at cross purposes since the last clean reload
  clean    \* history: nobody else stored a rule since the page read the table

vars == <<rows, always, grant, page, cli, adrift, clean>>

Idle == [step |-> "idle", rule |-> NoRule, read |-> {}]
NoCommand == [todo |-> {}, on |-> {}, off |-> {}]

InState(s) == {r \in AllRules : rows[r] = s}

\* Decisions that stored their rule and have yet to install it.
InFlight == {r \in Rules : grant[r] = "stored"}

Init ==
  /\ rows = [r \in AllRules |-> "none"]
  /\ always = {}
  /\ grant = [r \in Rules |-> "new"]
  /\ page = Idle
  /\ cli = NoCommand
  /\ adrift = {}
  /\ clean = TRUE

-----------------------------------------------------------------------------
(***************************************************************************)
(* decideInternalWithSource with ALLOW_ALWAYS.  One transaction stores the *)
(* decision and its rule; a refused one leaves the request pending, and it *)
(* may be decided again.                                                   *)
(***************************************************************************)
\* Mutant: the error of the transaction does not end the call.
StoreGoesOn(r) ==
  /\ grant[r] = "new"
  /\ grant' = [grant EXCEPT ![r] = "stored"]
  /\ \/ rows' = [rows EXCEPT ![r] = "enabled"]
     \/ MayFail /\ UNCHANGED rows
  /\ adrift' = IF page.step = "read" THEN adrift \cup {r} ELSE adrift
  /\ clean' = FALSE
  /\ UNCHANGED <<always, page, cli>>

Store(r) ==
  /\ grant[r] = "new"
  /\ grant' = [grant EXCEPT ![r] = "stored"]
  /\ rows' = [rows EXCEPT ![r] = "enabled"]
  /\ adrift' = IF page.step = "read" THEN adrift \cup {r} ELSE adrift
  /\ clean' = FALSE
  /\ UNCHANGED <<always, page, cli>>

\* Engine.AddAlways, after reqsMu was released.
Install(r) ==
  /\ grant[r] = "stored"
  /\ grant' = [grant EXCEPT ![r] = "done"]
  /\ always' = always \cup {r}
  /\ UNCHANGED <<rows, page, cli, adrift, clean>>

-----------------------------------------------------------------------------
(***************************************************************************)
(* The rules page.  A change that SQLite refuses, or that finds its row in *)
(* another state, is shown and changes nothing.                            *)
(***************************************************************************)
\* AddManualRuleForTUI stores the rule ...
AddRow(r) ==
  /\ page.step = "idle"
  /\ grant[r] = "new"
  /\ grant' = [grant EXCEPT ![r] = "done"]
  /\ rows' = [rows EXCEPT ![r] = "enabled"]
  /\ page' = [step |-> "adding", rule |-> r, read |-> {}]
  /\ UNCHANGED <<always, cli, adrift, clean>>

\* ... and installs it.
AddLive ==
  /\ page.step = "adding"
  /\ always' = always \cup {page.rule}
  /\ page' = Idle
  /\ UNCHANGED <<rows, grant, cli, adrift, clean>>

\* EnableRule, DisableRule and DeleteRule name the state of the row they want.
\* Decisions in flight when the page changes the table may install their rule
\* before or after the reload that follows.
Change(r, from, to) ==
  /\ page.step = "idle"
  /\ rows[r] \in from
  /\ rows' = [rows EXCEPT ![r] = to]
  /\ page' = [step |-> "changed", rule |-> r, read |-> {}]
  /\ adrift' = adrift \cup InFlight
  /\ UNCHANGED <<always, grant, cli, clean>>

Enable(r) == Change(r, {"disabled"}, "enabled")
Disable(r) == Change(r, {"enabled"}, "disabled")
Delete(r) == Change(r, {"enabled", "disabled"}, "deleted")

\* reloadAlwaysRulesForTUI reads the rows.  Its error leaves the list as it
\* was: the page shows the error, and the change remains in the table.
Load ==
  /\ page.step = "changed"
  /\ \/ /\ page' = [step |-> "read", rule |-> page.rule, read |-> InState("enabled")]
        /\ clean' = TRUE
        /\ adrift' = adrift
     \/ /\ MayFail
        /\ page' = Idle
        /\ adrift' = adrift \cup {page.rule}
        /\ clean' = clean
  /\ UNCHANGED <<rows, always, grant, cli>>

\* Mutant: the rows read are appended to the list.
ReplaceAppends ==
  /\ page.step = "read"
  /\ always' = always \cup page.read
  /\ page' = Idle
  /\ adrift' = IF clean THEN adrift \cap InFlight ELSE adrift
  /\ UNCHANGED <<rows, grant, cli, clean>>

\* Engine.ReplaceAlways.  A reload mends what was adrift, unless somebody else
\* stored a rule since it read the table, and except for the rules that a
\* decision still has to install.
Replace ==
  /\ page.step = "read"
  /\ always' = page.read
  /\ page' = Idle
  /\ adrift' = IF clean THEN adrift \cap InFlight ELSE adrift
  /\ UNCHANGED <<rows, grant, cli, clean>>

-----------------------------------------------------------------------------
(***************************************************************************)
(* The command line.                                                       *)
(***************************************************************************)
\* What it writes reaches the engine with the next reload.
WriteOutside(r, s) ==
  /\ rows' = [rows EXCEPT ![r] = s]
  /\ adrift' = adrift \cup {r}
  /\ clean' = FALSE

CliDisable(r) ==
  /\ rows[r] = "enabled"
  /\ WriteOutside(r, "disabled")
  /\ UNCHANGED <<always, grant, page, cli>>

\* installRulePreset lists the table once ...
CliList ==
  /\ cli.todo = {}
  /\ cli' = [todo |-> Presets, on |-> Presets \cap InState("enabled"),
              off |-> Presets \cap InState("disabled")]
  /\ UNCHANGED <<rows, always, grant, page, adrift, clean>>

\* ... and treats each rule by what it saw: an enabled one is skipped, a
\* disabled one is enabled, one that was not there is inserted.
CliInstall(r) ==
  /\ r \in cli.todo
  /\ cli' = [todo |-> cli.todo \ {r}, on |-> cli.on \ {r}, off |-> cli.off \ {r}]
  /\ \/ /\ r \in cli.on
        /\ UNCHANGED <<rows, adrift, clean>>
     \/ /\ r \in cli.off
        /\ rows[r] = "disabled"
        /\ WriteOutside(r, "enabled")
     \/ /\ r \notin cli.on \cup cli.off
        /\ rows[r] \in {"none", "deleted"}
        /\ WriteOutside(r, "enabled")
  /\ UNCHANGED <<always, grant, page>>

\* EnableRule finds no disabled row, the insert finds the id taken, or SQLite
\* refuses: the command ends with an error, and what it installed stays.
CliFail(r) ==
  /\ r \in cli.todo \ cli.on
  /\ \/ MayFail
     \/ r \in cli.off /\ rows[r] # "disabled"
     \/ r \notin cli.off /\ rows[r] \in {"enabled", "disabled"}
  /\ cli' = NoCommand
  /\ UNCHANGED <<rows, always, grant, page, adrift, clean>>

-----------------------------------------------------------------------------
\* The process dies and server.New builds the list from the enabled rows.
Restart ==
  /\ always' = InState("enabled")
  /\ grant' = [r \in Rules |-> IF grant[r] = "stored" THEN "done" ELSE grant[r]]
  /\ page' = Idle
  /\ adrift' = {}
  /\ clean' = TRUE
  /\ UNCHANGED <<rows, cli>>

Decide(r) == Store(r) \/ Install(r)
PageStep(r) == Enable(r) \/ Disable(r) \/ Delete(r)

Next ==
  \/ \E r \in Rules : Decide(r) \/ AddRow(r)
  \/ \E r \in AllRules : PageStep(r) \/ CliDisable(r)
  \/ AddLive \/ Load \/ Replace
  \/ CliList
  \/ \E r \in Presets : CliInstall(r) \/ CliFail(r)
  \/ Restart

Spec == Init /\ [][Next]_vars

-----------------------------------------------------------------------------
PageType ==
  \/ page = Idle
  \/ page \in [step : {"adding"}, rule : Rules, read : {{}}]
  \/ page \in [step : {"changed"}, rule : AllRules, read : {{}}]
  \/ page \in [step : {"read"}, rule : AllRules, read : SUBSET AllRules]

\* The types of the variables; the page works on a rule only during a step.
TypeOK ==
  /\ rows \in [AllRules -> {"none", "enabled", "disabled", "deleted"}]
  /\ always \in SUBSET AllRules
  /\ grant \in [Rules -> {"new", "stored", "done"}]
  /\ PageType
  /\ cli \in [todo : SUBSET Presets, on : SUBSET Presets, off : SUBSET Presets]
  /\ adrift \in SUBSET AllRules
  /\ clean \in BOOLEAN

\* The engine approves by exactly the rules that the table calls enabled, for
\* every rule that no step is under way on, except those adrift: stored by a
\* decision after the page read the table or before it changed it, changed by
\* the command line, or changed by the page with a failing reload.  A reload
\* without interference, or a restart, brings these back too.
LiveAgrees ==
  \A r \in AllRules \ (adrift \cup InFlight \cup {page.rule}) :
    r \in always <=> rows[r] = "enabled"

\* A rule approves nothing before its row was committed, although commits may
\* be refused: "Persist before publishing a decision, installing live rules or
\* dispatching" (httpapi.go:1738).
GrantedFirst ==
  \A r \in always : rows[r] # "none"

\* README:223 of the rules page: "Persisted rules can be enabled, disabled, or
\* deleted; changes take effect in the live rule engine immediately".  Only the
\* page deletes rules, so none that it deleted should be live once it is idle.
DeletedStaysDeleted ==
  page.step = "idle" => \A r \in always : rows[r] # "deleted"
=============================================================================
