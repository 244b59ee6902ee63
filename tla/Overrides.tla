----------------------------- MODULE Overrides -----------------------------
(***************************************************************************)
(* The one form of the web application: POST /categories/{slug}/url saves  *)
(* or clears the manual URL of a model (web/app.py, save_model_url), and   *)
(* the redirect after it shows /categories, which reads the models and the *)
(* overrides in two statements.  Operators submit at the same time; sync   *)
(* adds models meanwhile and leaves model_overrides alone.                 *)
(***************************************************************************)
EXTENDS Integers

CONSTANTS Operators,
          Slugs,
          Urls,         \* what an operator may type
          Empty,        \* the empty field: clear the override
          NoOverride    \* no row in model_overrides

ASSUME OverridesAssumption == NoOverride \notin Urls

VARIABLES models,       \* slugs in search_models
          override,     \* slug -> manual_encar_url, or NoOverride
          form          \* operator -> the form and page under way, or Closed

overrideVars == <<models, override, form>>

Closed == [at |-> "closed"]

OverridesInit == /\ models = {}
                 /\ override = [s \in Slugs |-> NoOverride]
                 /\ form = [o \in Operators |-> Closed]

SyncModels == /\ \E s \in Slugs : models' = models \cup {s}
              /\ UNCHANGED <<override, form>>

(* The operator submits: SELECT of the row.                                *)
Submit(o, s, value) ==
    /\ form[o] = Closed
    /\ form' = [form EXCEPT ![o] = [at |-> "commit", slug |-> s, value |-> value,
                                    loaded |-> override[s], alone |-> TRUE,
                                    seen |-> {}, shown |-> Empty]]
    /\ UNCHANGED <<models, override>>

(* Others that work on the same slug when o commits are no longer alone.   *)
Overlapped(o) ==
    [x \in Operators |-> IF x # o /\ form[x] # Closed /\ form[x].slug = form[o].slug
                         THEN [form[x] EXCEPT !.alone = FALSE] ELSE form[x]]

BugSaved(loaded, stored, value) ==      \* clearing an override is forgotten
    IF value # Empty THEN value ELSE stored

(* INSERT, UPDATE of the URL if it differs from the one loaded, DELETE.    *)
Saved(loaded, stored, value) ==
    IF value = Empty THEN IF loaded = NoOverride THEN stored ELSE NoOverride
    ELSE IF loaded # value THEN value ELSE stored

(* A second INSERT violates the primary key and an UPDATE of a row that is *)
(* gone matches nothing: both raise, and the operator sees an error.       *)
Raises(loaded, stored, value) ==
    value # Empty /\ (loaded = NoOverride) # (stored = NoOverride)

Commit(o) ==
    /\ form[o].at = "commit"
    /\ LET f == form[o] IN
       IF Raises(f.loaded, override[f.slug], f.value)
       THEN /\ form' = [form EXCEPT ![o] = Closed]
            /\ UNCHANGED override
       ELSE /\ override' = [override EXCEPT ![f.slug] = Saved(f.loaded, @, f.value)]
            /\ form' = [Overlapped(o) EXCEPT ![o].at = "page"]
    /\ UNCHANGED models

(* /categories: the models, then the overrides.                            *)
ReadModels(o) ==
    /\ form[o].at = "page"
    /\ form' = [form EXCEPT ![o].at = "overrides", ![o].seen = models]
    /\ UNCHANGED <<models, override>>

(* effective_encar_url: the manual URL, or Empty for the generated one.    *)
EffectiveUrl(stored) == IF stored = NoOverride THEN Empty ELSE stored

ReadOverrides(o) ==
    /\ form[o].at = "overrides"
    /\ form' = [form EXCEPT ![o].at = "shown",
                            ![o].shown = EffectiveUrl(override[form[o].slug])]
    /\ UNCHANGED <<models, override>>

Leave(o) ==
    /\ form[o].at = "shown"
    /\ form' = [form EXCEPT ![o] = Closed]
    /\ UNCHANGED <<models, override>>

OverridesNext ==
    \/ SyncModels
    \/ \E o \in Operators :
          \/ \E s \in Slugs, value \in Urls \cup {Empty} : Submit(o, s, value)
          \/ Commit(o) \/ ReadModels(o) \/ ReadOverrides(o) \/ Leave(o)

OverridesSpec == OverridesInit /\ [][OverridesNext]_overrideVars

-----------------------------------------------------------------------------
Form == [at : {"commit", "page", "overrides", "shown"}, slug : Slugs,
         value : Urls \cup {Empty}, loaded : Urls \cup {NoOverride},
         alone : BOOLEAN, seen : SUBSET Slugs, shown : Urls \cup {Empty}]

OverridesTypeOK == /\ models \subseteq Slugs
                   /\ override \in [Slugs -> Urls \cup {NoOverride}]
                   /\ form \in [Operators -> {Closed} \cup Form]

(* After the redirect the row shows what was submitted (app.py:348-349),   *)
(* unless another save of the same model came in between.                  *)
SaveShown ==
    \A o \in Operators :
        form[o].at = "shown" /\ form[o].alone /\ form[o].slug \in form[o].seen
            => form[o].shown = form[o].value
=============================================================================
