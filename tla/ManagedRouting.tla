--------------------------- MODULE ManagedRouting ---------------------------
(***************************************************************************)
(* Outbounds and routing rules: web/service/outbound.go and routing.go,    *)
(* with commitManagedChange, which both end in, and the part of            *)
(* ApplyManagedXrayIfEnabled that decides the answer.                      *)
(*                                                                         *)
(* The body of a transaction is one step.  SQLite runs with its rollback   *)
(* journal: no other connection can commit between the first read of a     *)
(* transaction and its end, and inbounds and settings are rows of the same *)
(* database.  What a service reads before it opens its transaction is a    *)
(* step of its own: AddRule validates first.                               *)
(*                                                                         *)
(* Settings are abstracted to whether xray accepts them (ok, baseOk); the  *)
(* match conditions of a rule, which with the target make its fingerprint, *)
(* to a model value, refused by xray when it is one of BadMatches.  No     *)
(* system rule exists: none is seeded and AddRule refuses to create one.   *)
(***************************************************************************)
EXTENDS Naturals, FiniteSets

CONSTANTS
    Requests,    \* request goroutines
    SystemTags,  \* "direct" and "blocked"
    UserTags,    \* tags a user may give an outbound
    Oids, Rids,  \* pools of row identities (a bound)
    Matches,     \* match conditions of a rule
    AiMatches,   \* the match conditions of the AI template
    BadMatches,  \* those ValidateRule lets through and xray refuses
    None

Tags == SystemTags \cup UserTags

ASSUME TagsAssumption  == SystemTags \cap UserTags = {}
ASSUME MatchAssumption == AiMatches \cup BadMatches \subseteq Matches
ASSUME SeedAssumption  == SystemTags \subseteq Oids  \* a seeded row is named by its tag

VARIABLES
    out,       \* table outbounds
    rules,     \* table routing_rules
    managed,   \* setting managedOutboundsRouting
    baseOk,    \* xray accepts what the template and the enabled inbounds give
    pc, arg,   \* per request: where it is, and the rule it has validated
    answer,    \* the last answer: what it says and whether its change is in the database
    orphaned   \* history: rules a rename or a late AddRule left without a target

vars == <<out, rules, managed, baseOk, pc, arg, answer, orphaned>>

Outbound == [tag : Tags, enabled : BOOLEAN, ok : BOOLEAN]
Rule     == [tag : Tags, match : Matches, enabled : BOOLEAN]

ASSUME NoneAssumption == None \notin Outbound \cup Rule

TypeOK ==
    /\ out \in [Oids -> Outbound \cup {None}]
    /\ rules \in [Rids -> Rule \cup {None}]
    /\ managed \in BOOLEAN /\ baseOk \in BOOLEAN
    /\ pc \in [Requests -> {"idle", "validated", "applying"}]
    /\ arg \in [Requests -> Rule \cup {None}]
    /\ answer \in [says : {"nothing", "saved", "applied", "error"}, committed : BOOLEAN]
    /\ orphaned \subseteq Rids

IsSystem(i) == i \in SystemTags
TagsOf(o)   == {o[i].tag : i \in {j \in Oids : o[j] # None}}
Refs(r, tag) == {i \in Rids : r[i] # None /\ r[i].tag = tag}

\* What TestConfig says of the configuration built from these tables: disabled
\* outbounds are left out, the system ones are always in, and so are the rules that
\* are enabled, with the domains, addresses and ports as they were entered.
Valid(o, r) ==
    /\ baseOk
    /\ \A i \in Oids : o[i] # None /\ (o[i].enabled \/ IsSystem(i)) => o[i].ok
    /\ \A i \in Rids : r[i] # None /\ r[i].enabled => r[i].match \notin BadMatches

Answer(t, what, committed) ==
    /\ pc' = [pc EXCEPT ![t] = "idle"]
    /\ arg' = [arg EXCEPT ![t] = None]
    /\ answer' = [says |-> what, committed |-> committed]

Write(t, o, r) ==
    /\ out' = o /\ rules' = r
    /\ IF managed
       THEN /\ pc' = [pc EXCEPT ![t] = "applying"]
            /\ arg' = [arg EXCEPT ![t] = None]
            /\ UNCHANGED answer
       ELSE Answer(t, "saved", TRUE)

Rollback(t) == UNCHANGED <<out, rules>> /\ Answer(t, "error", FALSE)

\* Bug: it is the committed tables that are tested, not those of the transaction.
CommitTestingOld(t, o, r) ==
    IF managed /\ ~Valid(out, rules) THEN Rollback(t) ELSE Write(t, o, r)

\* commitManagedChange: in managed mode the transaction is tested before it commits.
Commit(t, o, r) ==
    IF managed /\ ~Valid(o, r) THEN Rollback(t) ELSE Write(t, o, r)

-----------------------------------------------------------------------------
(* Outbounds.                                                               *)

Submit(t) == pc[t] = "idle" /\ UNCHANGED <<managed, baseOk>>

\* An outbound is created enabled whatever the request says: gorm takes the column
\* default for a false field.
AddOutbound(t) ==
    /\ Submit(t)
    /\ \E i \in Oids, tag \in UserTags \ TagsOf(out), ok \in BOOLEAN :
         /\ out[i] = None
         /\ Commit(t, [out EXCEPT ![i] = [tag |-> tag, enabled |-> TRUE, ok |-> ok]], rules)
    /\ UNCHANGED orphaned

\* The tag may change, and no reference is looked at.
UpdateOutbound(t) ==
    /\ Submit(t)
    /\ \E i \in Oids, tag \in UserTags, en, ok \in BOOLEAN :
         /\ out[i] # None /\ ~IsSystem(i)
         /\ tag \in TagsOf(out) => tag = out[i].tag
         /\ Commit(t, [out EXCEPT ![i] = [tag |-> tag, enabled |-> en, ok |-> ok]], rules)
         /\ orphaned' = IF tag # out[i].tag /\ out'[i] # out[i]
                        THEN orphaned \cup Refs(rules, out[i].tag) ELSE orphaned

\* A system outbound: only its remark and sort, which are not modelled, can change.
UpdateSystemOutbound(t) ==
    /\ Submit(t)
    /\ Commit(t, out, rules)
    /\ UNCHANGED orphaned

\* The references are counted in the transaction that deletes.
DeleteOutbound(t) ==
    /\ Submit(t)
    /\ \E i \in Oids :
         /\ out[i] # None /\ ~IsSystem(i)
         /\ Refs(rules, out[i].tag) = {}
         /\ Commit(t, [out EXCEPT ![i] = None], rules)
    /\ UNCHANGED orphaned

ToggleOutbound(t) ==
    /\ Submit(t)
    /\ \E i \in Oids, en \in BOOLEAN :
         /\ out[i] # None
         /\ IsSystem(i) => en
         /\ Commit(t, [out EXCEPT ![i].enabled = en], rules)
    /\ UNCHANGED orphaned

-----------------------------------------------------------------------------
(* Routing rules.                                                           *)

\* ValidateRule, on committed data and outside any transaction ...
ValidateRule(t) ==
    /\ Submit(t)
    /\ \E rule \in Rule :
         /\ rule.tag \in TagsOf(out)
         /\ arg' = [arg EXCEPT ![t] = rule]
    /\ pc' = [pc EXCEPT ![t] = "validated"]
    /\ UNCHANGED <<out, rules, answer, orphaned>>

\* ... and AddRule then creates the rule it has validated.
CreateRule(t) ==
    /\ pc[t] = "validated"
    /\ \E i \in Rids :
         /\ rules[i] = None
         /\ Commit(t, out, [rules EXCEPT ![i] = arg[t]])
         /\ orphaned' = IF rules' # rules /\ arg[t].tag \notin TagsOf(out)
                        THEN orphaned \cup {i} ELSE orphaned
    /\ UNCHANGED <<managed, baseOk>>

\* Bug: the target is not looked up.
UpdateRuleUnchecked(t) ==
    /\ Submit(t)
    /\ \E i \in Rids, rule \in Rule :
         /\ rules[i] # None
         /\ Commit(t, out, [rules EXCEPT ![i] = rule])
    /\ UNCHANGED orphaned

\* UpdateRule reads the rule in its transaction before it validates: nobody can
\* commit in between.
UpdateRule(t) ==
    /\ Submit(t)
    /\ \E i \in Rids, rule \in Rule :
         /\ rules[i] # None /\ rule.tag \in TagsOf(out)
         /\ Commit(t, out, [rules EXCEPT ![i] = rule])
         /\ orphaned' = IF rules' # rules THEN orphaned \ {i} ELSE orphaned

DeleteRule(t) ==
    /\ Submit(t)
    /\ \E i \in Rids :
         /\ rules[i] # None
         /\ Commit(t, out, [rules EXCEPT ![i] = None])
         /\ orphaned' = IF rules' # rules THEN orphaned \ {i} ELSE orphaned

ToggleRule(t) ==
    /\ Submit(t)
    /\ \E i \in Rids, en \in BOOLEAN :
         /\ rules[i] # None
         /\ Commit(t, out, [rules EXCEPT ![i].enabled = en])
    /\ UNCHANGED orphaned

\* Only the sort keys, which are not modelled, change.
ReorderRules(t) ==
    /\ Submit(t)
    /\ Commit(t, out, rules)
    /\ UNCHANGED orphaned

\* The template's match conditions for which no rule has that target yet.
Missing(tag) == {m \in AiMatches : \A i \in Refs(rules, tag) : rules[i].match # m}

CreateRules(t, tag, matches) ==
    \E at \in [matches -> {i \in Rids : rules[i] = None}] :
      /\ \A m, n \in matches : at[m] = at[n] => m = n
      /\ Commit(t, out,
                [i \in Rids |-> IF \E m \in matches : at[m] = i
                                THEN [tag |-> tag, enabled |-> TRUE,
                                      match |-> CHOOSE m \in matches : at[m] = i]
                                ELSE rules[i]])

\* Bug: existing rules are not compared with the candidates.
ApplyAITemplateAgain(t) ==
    /\ Submit(t)
    /\ \E tag \in TagsOf(out) : CreateRules(t, tag, AiMatches)
    /\ UNCHANGED orphaned

\* Reads the outbound and the rules, and creates what is missing, in one transaction.
ApplyAITemplate(t) ==
    /\ Submit(t)
    /\ \E tag \in TagsOf(out) : CreateRules(t, tag, Missing(tag))
    /\ UNCHANGED orphaned

-----------------------------------------------------------------------------
(* After the commit, and what else writes the same database.                *)

\* ApplyManagedXrayIfEnabled reads the mode again.  When it has been switched off
\* meanwhile nothing is applied, and the answer says it was.
ApplyOk(t) ==
    /\ pc[t] = "applying"
    /\ managed => Valid(out, rules)
    /\ Answer(t, "applied", TRUE)
    /\ UNCHANGED <<out, rules, managed, baseOk, orphaned>>

\* The second validation or RestartXray fails: the transaction is long committed.
ApplyFails(t) ==
    /\ pc[t] = "applying" /\ managed
    /\ Answer(t, "error", TRUE)
    /\ UNCHANGED <<out, rules, managed, baseOk, orphaned>>

\* A request refused for what it asks: unknown id, tag in use, system item, bad field.
Refuse(t) ==
    /\ pc[t] \in {"idle", "validated"}
    /\ Rollback(t)
    /\ UNCHANGED <<managed, baseOk, orphaned>>

\* UpdateAllSetting: the mode and the template, without any validation.
UpdateSetting ==
    /\ managed' \in BOOLEAN /\ baseOk' \in BOOLEAN
    /\ UNCHANGED <<out, rules, pc, arg, answer, orphaned>>

\* InitDB has seeded the system outbounds.
Init ==
    /\ out = [i \in Oids |-> IF IsSystem(i) THEN [tag |-> i, enabled |-> TRUE, ok |-> TRUE]
                                            ELSE None]
    /\ rules = [i \in Rids |-> None]
    /\ managed = FALSE /\ baseOk = TRUE
    /\ pc = [t \in Requests |-> "idle"]
    /\ arg = [t \in Requests |-> None]
    /\ answer = [says |-> "nothing", committed |-> FALSE]
    /\ orphaned = {}

OutboundRequest(t) ==
    \/ AddOutbound(t) \/ UpdateOutbound(t) \/ UpdateSystemOutbound(t)
    \/ DeleteOutbound(t) \/ ToggleOutbound(t)

RuleRequest(t) ==
    \/ ValidateRule(t) \/ CreateRule(t) \/ UpdateRule(t) \/ DeleteRule(t)
    \/ ToggleRule(t) \/ ReorderRules(t) \/ ApplyAITemplate(t)

Next ==
    \/ \E t \in Requests : \/ OutboundRequest(t) \/ RuleRequest(t)
                           \/ ApplyOk(t) \/ ApplyFails(t) \/ Refuse(t)
    \/ UpdateSetting

Spec == Init /\ [][Next]_vars
-----------------------------------------------------------------------------
(* Properties.                                                              *)

Dangling == {i \in Rids : rules[i] # None /\ rules[i].tag \notin TagsOf(out)}

\* docs/ARCHITECTURE.md: the target of a rule must be an existing outbound.
RuleTargetsExist == Dangling = {}

\* How far that fails: a rule loses its target only when its outbound is renamed, or
\* when AddRule creates it after the outbound it had validated was deleted or
\* renamed.  No deletion, toggle, update of a rule or template leaves one behind.
DanglingOnlyByRenameOrLateAdd == Dangling \subseteq orphaned

\* A deletion leaves no rule that refers to the deleted outbound.
DeleteNeverOrphans ==
    [][\A i \in Oids : out[i] # None /\ out'[i] = None => Refs(rules', out[i].tag) = {}]_vars

\* "direct" and "blocked", which the configuration puts first, keep their tag and stay
\* enabled.
SystemOutboundsIntact ==
    \A i \in SystemTags : out[i] # None /\ out[i].tag = i /\ out[i].enabled

\* In managed mode no change to outbounds or rules is committed that xray rejects,
\* be it for an outbound or for a rule of the tables that come out of it.
ManagedCommitsAreValid ==
    [][managed /\ <<out, rules>>' # <<out, rules>> => Valid(out', rules')]_vars

\* The template applied twice creates nothing the second time: a rule that appears
\* otherwise than from a validated AddRule repeats no other rule.
TemplateNeverDuplicates ==
    [][(\A t \in Requests : pc[t] = "validated" => pc'[t] = "validated")
       => \A i, j \in Rids :
            i # j /\ rules[i] = None /\ rules'[i] # None /\ rules'[j] # None
            => <<rules'[i].tag, rules'[i].match>> # <<rules'[j].tag, rules'[j].match>>]_vars

\* docs/ARCHITECTURE.md, Request Flow: on failure the database is rolled back.
ErrorMeansRolledBack == answer.says = "error" => ~answer.committed

\* The inductive invariant: the three invariants support one another.
IInv == TypeOK /\ SystemOutboundsIntact /\ DanglingOnlyByRenameOrLateAdd
=============================================================================
