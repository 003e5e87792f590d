------------------------------ MODULE RuleForm ------------------------------
(***************************************************************************)
(* The page on which an administrator enters the market rules of the       *)
(* provinces (composables/useMarketRuleConfig.ts,                          *)
(* views/data/MarketRuleConfigView.vue).  One form serves every province:  *)
(* selecting one fills it from the list of rules, or else from defaults    *)
(* that the server is asked for.  Whose values a form or a rule holds is   *)
(* all that is kept of them.                                               *)
(***************************************************************************)
EXTENDS Naturals

CONSTANTS
  Provinces,
  None,        \* no province, no rule, a form without values
  MaxVersion   \* bound on the requests for defaults

VARIABLES
  stored,    \* the rules of the server: whose values each holds
  rules,     \* the list the page has loaded
  loading,   \* isLoading, which covers the page
  selected,  \* selectedProvince
  form,      \* formData
  version,   \* _selectProvinceVersion
  asked,     \* requests for defaults that are under way
  saving,    \* the rule that is being saved, isSaving
  mixed      \* history: defaults have come to another province's form, or a
             \* form was saved before its defaults came

vars == <<stored, rules, loading, selected, form, version, asked, saving, mixed>>

Values == Provinces \union {None}

\* The selected province waits for its defaults, and the form still shows what
\* it showed before.
Awaited == [province |-> selected, version |-> version] \in asked

Init ==
  /\ stored \in [Provinces -> Values]
  /\ \A p \in Provinces : stored[p] \in {None, p}
  /\ rules = [p \in Provinces |-> None]
  /\ loading = TRUE
  /\ selected = None
  /\ form = None
  /\ version = 0
  /\ asked = {}
  /\ saving = None
  /\ mixed = FALSE

-----------------------------------------------------------------------------
\* Other administrators.
OthersWrite == \E p \in Provinces, v \in Values :
  /\ v \in {None, p}
  /\ stored' = [stored EXCEPT ![p] = v]
  /\ UNCHANGED <<rules, loading, selected, form, version, asked, saving, mixed>>

\* loadRules; a failure leaves the list as it was.
RulesLoaded ==
  /\ loading
  /\ loading' = FALSE
  /\ rules' \in {stored, rules}
  /\ UNCHANGED <<stored, selected, form, version, asked, saving, mixed>>

\* The menu, or the reset button for the province that is selected.  Only a
\* province without a rule takes a new version.
SelectProvince(p) ==
  /\ ~loading
  /\ selected' = p
  /\ IF rules[p] # None
     THEN form' = rules[p] /\ UNCHANGED <<version, asked>>
     ELSE /\ version < MaxVersion
          /\ version' = version + 1
          /\ asked' = asked \union {[province |-> p, version |-> version + 1]}
          /\ UNCHANGED form
  /\ UNCHANGED <<stored, rules, loading, saving, mixed>>

\* Slip: the version is not compared.
DefaultsComeAnyway(c) ==
  /\ asked' = asked \ {c}
  /\ form' \in {c.province, None}
  /\ mixed' = (mixed \/ (c.version = version /\ c.province # selected))
  /\ UNCHANGED <<stored, rules, loading, selected, version, saving>>

\* The defaults of a province, none, or a failure.
DefaultsCome(c) ==
  /\ asked' = asked \ {c}
  /\ IF c.version = version
     THEN form' \in {c.province, None} /\ mixed' = (mixed \/ c.province # selected)
     ELSE UNCHANGED <<form, mixed>>
  /\ UNCHANGED <<stored, rules, loading, selected, version, saving>>

\* The administrator fills in an empty form.
Enter ==
  /\ ~loading
  /\ selected # None
  /\ form = None
  /\ form' = selected
  /\ UNCHANGED <<stored, rules, loading, selected, version, asked, saving, mixed>>

\* A form without price caps is not sent.
Save ==
  /\ ~loading
  /\ saving = None
  /\ selected # None
  /\ form # None
  /\ saving' = [province |-> selected, values |-> form]
  /\ mixed' = (mixed \/ Awaited)
  /\ UNCHANGED <<stored, rules, loading, selected, form, version, asked>>

Saved ==
  /\ saving # None
  /\ stored' = [stored EXCEPT ![saving.province] = saving.values]
  /\ loading' = TRUE
  /\ saving' = None
  /\ UNCHANGED <<rules, selected, form, version, asked, mixed>>

SaveFails ==
  /\ saving # None
  /\ saving' = None
  /\ UNCHANGED <<stored, rules, loading, selected, form, version, asked, mixed>>

Next ==
  \/ OthersWrite \/ RulesLoaded
  \/ \E p \in Provinces : SelectProvince(p)
  \/ \E c \in asked : DefaultsCome(c)
  \/ Enter \/ Save \/ Saved \/ SaveFails

Spec == Init /\ [][Next]_vars

-----------------------------------------------------------------------------
\* A form that waits for nothing holds the values of the province it is headed
\* with, and so does every rule of the server, however answers are overtaken:
\* until defaults reach a form that has meanwhile been filled from a rule, or a
\* form is saved before its defaults have come (selectProvince, saveRule).
ValuesBelong ==
  ~mixed =>
    /\ selected # None /\ ~Awaited => form \in {selected, None}
    /\ \A p \in Provinces : stored[p] \in {p, None}
=============================================================================
