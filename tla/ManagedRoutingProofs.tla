------------------------ MODULE ManagedRoutingProofs ------------------------
(***************************************************************************)
(* Proofs about ManagedRouting, for any number of concurrent requests, any *)
(* tags, and tables of any size.                                           *)
(***************************************************************************)
EXTENDS ManagedRouting, TLAPS

USE TagsAssumption, MatchAssumption, SeedAssumption, NoneAssumption

OutTable  == [Oids -> Outbound \cup {None}]
RuleTable == [Rids -> Rule \cup {None}]

\* commitManagedChange commits the transaction whole or not at all, and in managed mode
\* only when xray accepts its outbounds.
LEMMA CommitCases ==
  ASSUME NEW t, NEW o, NEW r, Commit(t, o, r)
  PROVE  \/ UNCHANGED <<out, rules>>
         \/ out' = o /\ rules' = r /\ (managed => Valid(o, r))
BY DEF Commit, Write, Rollback

\* It keeps the types.
LEMMA CommitTyped ==
  ASSUME TypeOK, NEW t \in Requests, NEW o \in OutTable, NEW r \in RuleTable,
         Commit(t, o, r), UNCHANGED <<managed, baseOk>>, orphaned' \subseteq Rids
  PROVE  TypeOK'
<1>1. out' \in OutTable /\ rules' \in RuleTable
  BY CommitCases DEF TypeOK, OutTable, RuleTable
<1>2. /\ pc' \in [Requests -> {"idle", "validated", "applying"}]
      /\ arg' \in [Requests -> Rule \cup {None}]
  BY DEF Commit, Write, Rollback, Answer, TypeOK
<1>3. answer' \in [says : {"nothing", "saved", "applied", "error"}, committed : BOOLEAN]
  <2>1. \/ answer' = answer
        \/ answer' = [says |-> "saved", committed |-> TRUE]
        \/ answer' = [says |-> "error", committed |-> FALSE]
    BY DEF Commit, Write, Rollback, Answer
  <2>2. answer \in [says : {"nothing", "saved", "applied", "error"}, committed : BOOLEAN]
    BY DEF TypeOK
  <2>3. /\ [says |-> "saved", committed |-> TRUE] \in
             [says : {"nothing", "saved", "applied", "error"}, committed : BOOLEAN]
        /\ [says |-> "error", committed |-> FALSE] \in
             [says : {"nothing", "saved", "applied", "error"}, committed : BOOLEAN]
    BY SMT
  <2> QED
    BY <2>1, <2>2, <2>3, Zenon
<1> QED
  BY <1>1, <1>2, <1>3 DEF TypeOK, OutTable, RuleTable

\* A step that rewrites one user outbound with another tag, or the same, keeps the
\* system outbounds, and only rules with the old tag can lose their target.
LEMMA RewriteOutbound ==
  ASSUME IInv, NEW i \in Oids, ~IsSystem(i), out[i] # None, NEW new \in Outbound,
         out' = [out EXCEPT ![i] = new], rules' = rules,
         orphaned \subseteq orphaned',
         new.tag # out[i].tag => Refs(rules, out[i].tag) \subseteq orphaned'
  PROVE  SystemOutboundsIntact' /\ DanglingOnlyByRenameOrLateAdd'
<1>1. SystemOutboundsIntact'
  BY DEF IInv, TypeOK, SystemOutboundsIntact, IsSystem
<1>2. ASSUME NEW k \in Rids, rules[k] # None, rules[k].tag \notin TagsOf(out')
      PROVE  k \in orphaned'
  <2>1. CASE rules[k].tag \notin TagsOf(out)
    BY <1>2, <2>1 DEF IInv, DanglingOnlyByRenameOrLateAdd, Dangling
  <2>2. CASE rules[k].tag \in TagsOf(out)
    <3>1. PICK j \in Oids : out[j] # None /\ out[j].tag = rules[k].tag
      BY <2>2 DEF TagsOf
    <3>2. j = i
      BY <3>1, <1>2 DEF TagsOf, IInv, TypeOK
    <3>3. out'[i] = new /\ new # None
      BY DEF IInv, TypeOK
    <3>4. new.tag # out[i].tag
      BY <3>1, <3>2, <3>3, <1>2 DEF TagsOf
    <3> QED
      BY <3>1, <3>2, <3>4, <1>2 DEF Refs
  <2> QED
    BY <2>1, <2>2
<1>3. Dangling' \subseteq orphaned'
  BY <1>2 DEF Dangling, TagsOf
<1> QED
  BY <1>1, <1>3 DEF DanglingOnlyByRenameOrLateAdd

\* Where the outbounds stay as they are, a rule is dangling afterwards only if it was
\* before, or is new.
LEMMA SameOutbounds ==
  ASSUME IInv, UNCHANGED out,
         \A k \in Rids : rules'[k] # None /\ rules'[k].tag \notin TagsOf(out)
                         => k \in orphaned'
  PROVE  SystemOutboundsIntact' /\ DanglingOnlyByRenameOrLateAdd'
BY DEF IInv, SystemOutboundsIntact, DanglingOnlyByRenameOrLateAdd, Dangling, TagsOf

\* A step that leaves the tables alone, or is rolled back.
LEMMA SameTables ==
  ASSUME IInv, UNCHANGED <<out, rules>>, orphaned \subseteq orphaned'
  PROVE  SystemOutboundsIntact' /\ DanglingOnlyByRenameOrLateAdd'
BY SameOutbounds DEF IInv, DanglingOnlyByRenameOrLateAdd, Dangling

-----------------------------------------------------------------------------
(* One lemma per action.                                                    *)

\* A new outbound takes no target away.
LEMMA AddOutboundInv == ASSUME IInv, NEW t \in Requests, AddOutbound(t) PROVE IInv'
<1>1. PICK i \in Oids, tag \in UserTags \ TagsOf(out), ok \in BOOLEAN :
        /\ out[i] = None
        /\ Commit(t, [out EXCEPT ![i] = [tag |-> tag, enabled |-> TRUE, ok |-> ok]], rules)
  BY DEF AddOutbound
<1> DEFINE new == [tag |-> tag, enabled |-> TRUE, ok |-> ok]
           o   == [out EXCEPT ![i] = new]
<1>2. new \in Outbound
  BY DEF Outbound, Tags
<1>3. o \in OutTable /\ rules \in RuleTable
  BY <1>2 DEF IInv, TypeOK, OutTable, RuleTable
<1>4. Commit(t, o, rules) /\ UNCHANGED <<managed, baseOk, orphaned>> /\ orphaned' \subseteq Rids
  BY <1>1 DEF AddOutbound, Submit, IInv, TypeOK
<1>5. TypeOK'
  BY <1>3, <1>4, CommitTyped DEF IInv
<1>6. SystemOutboundsIntact' /\ DanglingOnlyByRenameOrLateAdd'
  <2>1. CASE UNCHANGED <<out, rules>>
    BY <2>1, <1>4, SameTables
  <2>2. CASE out' = o /\ rules' = rules
    <3>1. SystemOutboundsIntact'
      BY <2>2, <1>1 DEF IInv, TypeOK, SystemOutboundsIntact
    <3>2. TagsOf(out) \subseteq TagsOf(out')
      BY <2>2, <1>1 DEF TagsOf, IInv, TypeOK
    <3>3. Dangling' \subseteq Dangling
      BY <2>2, <3>2 DEF Dangling
    <3> QED
      BY <3>1, <3>3, <1>4 DEF IInv, DanglingOnlyByRenameOrLateAdd
  <2> QED
    BY <1>4, <2>1, <2>2, CommitCases
<1> QED
  BY <1>5, <1>6 DEF IInv

\* A rename may leave rules without a target, and `orphaned` names them.
LEMMA UpdateOutboundInv == ASSUME IInv, NEW t \in Requests, UpdateOutbound(t) PROVE IInv'
<1>1. PICK i \in Oids, tag \in UserTags, en \in BOOLEAN, ok \in BOOLEAN :
        /\ out[i] # None /\ ~IsSystem(i)
        /\ Commit(t, [out EXCEPT ![i] = [tag |-> tag, enabled |-> en, ok |-> ok]], rules)
        /\ orphaned' = IF tag # out[i].tag /\ out'[i] # out[i]
                       THEN orphaned \cup Refs(rules, out[i].tag) ELSE orphaned
  BY DEF UpdateOutbound
<1> DEFINE new == [tag |-> tag, enabled |-> en, ok |-> ok]
           o   == [out EXCEPT ![i] = new]
<1>2. new \in Outbound
  BY DEF Outbound, Tags
<1>3. o \in OutTable /\ rules \in RuleTable
  BY <1>2 DEF IInv, TypeOK, OutTable, RuleTable
<1>4. /\ Commit(t, o, rules) /\ UNCHANGED <<managed, baseOk>>
      /\ orphaned \subseteq orphaned' /\ orphaned' \subseteq Rids
  BY <1>1 DEF UpdateOutbound, Submit, IInv, TypeOK, Refs
<1>5. TypeOK'
  BY <1>3, <1>4, CommitTyped DEF IInv
<1>6. SystemOutboundsIntact' /\ DanglingOnlyByRenameOrLateAdd'
  <2>1. CASE UNCHANGED <<out, rules>>
    BY <2>1, <1>4, SameTables
  <2>2. CASE out' = o /\ rules' = rules
    <3>1. out'[i] = new
      BY <2>2 DEF IInv, TypeOK
    <3>2. new.tag # out[i].tag => Refs(rules, out[i].tag) \subseteq orphaned'
      BY <3>1, <1>1
    <3> QED
      BY <2>2, <1>1, <1>2, <1>4, <3>2, RewriteOutbound
  <2> QED
    BY <1>4, <2>1, <2>2, CommitCases
<1> QED
  BY <1>5, <1>6 DEF IInv

\* The tables stay as they are.
LEMMA UpdateSystemOutboundInv ==
  ASSUME IInv, NEW t \in Requests, UpdateSystemOutbound(t) \/ ReorderRules(t) PROVE IInv'
<1>1. /\ Commit(t, out, rules) /\ UNCHANGED <<managed, baseOk, orphaned>>
      /\ orphaned' \subseteq Rids
  BY DEF UpdateSystemOutbound, ReorderRules, Submit, IInv, TypeOK
<1>2. out \in OutTable /\ rules \in RuleTable
  BY DEF IInv, TypeOK, OutTable, RuleTable
<1>3. TypeOK'
  BY <1>1, <1>2, CommitTyped DEF IInv
<1>4. UNCHANGED <<out, rules>>
  BY <1>1, CommitCases
<1> QED
  BY <1>1, <1>3, <1>4, SameTables DEF IInv

\* Whatever a deletion takes away, no rule refers to.
LEMMA DeleteOutboundInv == ASSUME IInv, NEW t \in Requests, DeleteOutbound(t) PROVE IInv'
<1>1. PICK i \in Oids : /\ out[i] # None /\ ~IsSystem(i)
                        /\ Refs(rules, out[i].tag) = {}
                        /\ Commit(t, [out EXCEPT ![i] = None], rules)
  BY DEF DeleteOutbound
<1> DEFINE o == [out EXCEPT ![i] = None]
<1>2. o \in OutTable /\ rules \in RuleTable
  BY DEF IInv, TypeOK, OutTable, RuleTable
<1>3. Commit(t, o, rules) /\ UNCHANGED <<managed, baseOk, orphaned>> /\ orphaned' \subseteq Rids
  BY <1>1 DEF DeleteOutbound, Submit, IInv, TypeOK
<1>4. TypeOK'
  BY <1>2, <1>3, CommitTyped DEF IInv
<1>5. SystemOutboundsIntact' /\ DanglingOnlyByRenameOrLateAdd'
  <2>1. CASE UNCHANGED <<out, rules>>
    BY <2>1, <1>3, SameTables
  <2>2. CASE out' = o /\ rules' = rules
    <3>1. SystemOutboundsIntact'
      BY <2>2, <1>1 DEF IInv, TypeOK, SystemOutboundsIntact, IsSystem
    <3>2. \A j \in Oids : j # i => out'[j] = out[j]
      BY <2>2 DEF IInv, TypeOK
    <3>3. ASSUME NEW k \in Dangling' PROVE k \in Dangling
      BY <2>2, <1>1, <3>2, <3>3 DEF Dangling, TagsOf, Refs
    <3> QED
      BY <3>1, <3>3, <1>3 DEF IInv, DanglingOnlyByRenameOrLateAdd
  <2> QED
    BY <1>3, <2>1, <2>2, CommitCases
<1> QED
  BY <1>4, <1>5 DEF IInv

\* A toggle changes no tag, and disables no system outbound.
LEMMA ToggleOutboundInv == ASSUME IInv, NEW t \in Requests, ToggleOutbound(t) PROVE IInv'
<1>1. PICK i \in Oids, en \in BOOLEAN : /\ out[i] # None /\ (IsSystem(i) => en)
                                        /\ Commit(t, [out EXCEPT ![i].enabled = en], rules)
  BY DEF ToggleOutbound
<1> DEFINE o == [out EXCEPT ![i].enabled = en]
<1>2. /\ out[i] \in Outbound /\ o[i] \in Outbound /\ o[i].tag = out[i].tag
      /\ o[i].enabled = en
  BY <1>1 DEF IInv, TypeOK, Outbound
<1>3. \A j \in Oids : j # i => o[j] = out[j]
  BY DEF IInv, TypeOK
<1>4. o \in OutTable /\ rules \in RuleTable
  BY <1>1, <1>2, <1>3 DEF IInv, TypeOK, OutTable, RuleTable
<1>5. Commit(t, o, rules) /\ UNCHANGED <<managed, baseOk, orphaned>> /\ orphaned' \subseteq Rids
  BY <1>1 DEF ToggleOutbound, Submit, IInv, TypeOK
<1>6. TypeOK'
  BY <1>4, <1>5, CommitTyped DEF IInv
<1>7. SystemOutboundsIntact' /\ DanglingOnlyByRenameOrLateAdd'
  <2>1. CASE UNCHANGED <<out, rules>>
    BY <2>1, <1>5, SameTables
  <2>2. CASE out' = o /\ rules' = rules
    <3>1. SystemOutboundsIntact'
      BY <2>2, <1>1, <1>2, <1>3 DEF IInv, SystemOutboundsIntact, IsSystem
    <3>2. TagsOf(out) \subseteq TagsOf(out')
      BY <2>2, <1>2, <1>3 DEF TagsOf
    <3>3. Dangling' \subseteq Dangling
      BY <2>2, <3>2 DEF Dangling
    <3> QED
      BY <3>1, <3>3, <1>5 DEF IInv, DanglingOnlyByRenameOrLateAdd
  <2> QED
    BY <1>5, <2>1, <2>2, CommitCases
<1> QED
  BY <1>6, <1>7 DEF IInv

\* A change of rules that leaves no rule without a target but those `orphaned` names.
LEMMA RuleStep ==
  ASSUME IInv, NEW t \in Requests, NEW r \in RuleTable,
         Commit(t, out, r), UNCHANGED <<managed, baseOk>>, orphaned' \subseteq Rids,
         rules' = rules => orphaned \subseteq orphaned',
         rules' = r => \A k \in Rids : r[k] # None /\ r[k].tag \notin TagsOf(out)
                                       => k \in orphaned'
  PROVE  IInv'
<1>1. out \in OutTable
  BY DEF IInv, TypeOK, OutTable
<1>2. TypeOK'
  BY <1>1, CommitTyped DEF IInv
<1>3. CASE UNCHANGED <<out, rules>>
  BY <1>2, <1>3, SameTables DEF IInv
<1>4. CASE out' = out /\ rules' = r
  BY <1>2, <1>4, SameOutbounds DEF IInv
<1> QED
  BY <1>3, <1>4, CommitCases

\* AddRule creates what it validated earlier: the target may be gone.
LEMMA CreateRuleInv == ASSUME IInv, NEW t \in Requests, CreateRule(t) PROVE IInv'
<1>1. PICK i \in Rids :
        /\ rules[i] = None
        /\ Commit(t, out, [rules EXCEPT ![i] = arg[t]])
        /\ orphaned' = IF rules' # rules /\ arg[t].tag \notin TagsOf(out)
                       THEN orphaned \cup {i} ELSE orphaned
  BY DEF CreateRule
<1> DEFINE r == [rules EXCEPT ![i] = arg[t]]
<1>2. r \in RuleTable
  BY DEF IInv, TypeOK, RuleTable
<1>3. \A k \in Rids : k # i => r[k] = rules[k]
  BY DEF IInv, TypeOK
<1>4. r[i] = arg[t]
  BY DEF IInv, TypeOK
<1>5. ASSUME rules' = r, NEW k \in Rids, r[k] # None, r[k].tag \notin TagsOf(out)
      PROVE  k \in orphaned'
  <2>1. CASE k = i
    <3>1. rules' # rules
      BY <1>1, <1>4, <1>5, <2>1
    <3> QED
      BY <1>1, <1>4, <1>5, <2>1, <3>1
  <2>2. CASE k # i
    <3>1. k \in Dangling
      BY <1>3, <1>5, <2>2 DEF Dangling
    <3> QED
      BY <1>1, <3>1 DEF IInv, DanglingOnlyByRenameOrLateAdd
  <2> QED
    BY <2>1, <2>2
<1>6. /\ UNCHANGED <<managed, baseOk>> /\ orphaned' \subseteq Rids
      /\ orphaned \subseteq orphaned'
  BY <1>1 DEF CreateRule, IInv, TypeOK
<1> QED
  BY <1>1, <1>2, <1>5, <1>6, RuleStep

\* UpdateRule looks the target up in the state it commits to.
LEMMA UpdateRuleInv == ASSUME IInv, NEW t \in Requests, UpdateRule(t) PROVE IInv'
<1>1. PICK i \in Rids, rule \in Rule :
        /\ rules[i] # None /\ rule.tag \in TagsOf(out)
        /\ Commit(t, out, [rules EXCEPT ![i] = rule])
        /\ orphaned' = IF rules' # rules THEN orphaned \ {i} ELSE orphaned
  BY DEF UpdateRule
<1> DEFINE r == [rules EXCEPT ![i] = rule]
<1>2. r \in RuleTable /\ r[i] = rule /\ \A k \in Rids : k # i => r[k] = rules[k]
  BY DEF IInv, TypeOK, RuleTable
<1>3. ASSUME NEW k \in Rids, r[k] # None, r[k].tag \notin TagsOf(out)
      PROVE  k \in orphaned'
  <2>1. k # i
    BY <1>1, <1>2, <1>3
  <2>2. k \in Dangling
    BY <1>2, <1>3, <2>1 DEF Dangling
  <2> QED
    BY <1>1, <2>1, <2>2 DEF IInv, DanglingOnlyByRenameOrLateAdd
<1>4. /\ UNCHANGED <<managed, baseOk>> /\ orphaned' \subseteq Rids
      /\ rules' = rules => orphaned \subseteq orphaned'
  BY <1>1 DEF UpdateRule, Submit, IInv, TypeOK
<1> QED
  BY <1>1, <1>2, <1>3, <1>4, RuleStep

\* A rule that is gone lacks no target.
LEMMA DeleteRuleInv == ASSUME IInv, NEW t \in Requests, DeleteRule(t) PROVE IInv'
<1>1. PICK i \in Rids :
        /\ rules[i] # None
        /\ Commit(t, out, [rules EXCEPT ![i] = None])
        /\ orphaned' = IF rules' # rules THEN orphaned \ {i} ELSE orphaned
  BY DEF DeleteRule
<1> DEFINE r == [rules EXCEPT ![i] = None]
<1>2. r \in RuleTable /\ r[i] = None /\ \A k \in Rids : k # i => r[k] = rules[k]
  BY DEF IInv, TypeOK, RuleTable
<1>3. ASSUME NEW k \in Rids, r[k] # None, r[k].tag \notin TagsOf(out)
      PROVE  k \in orphaned'
  <2>1. k # i /\ k \in Dangling
    BY <1>2, <1>3 DEF Dangling
  <2> QED
    BY <1>1, <2>1 DEF IInv, DanglingOnlyByRenameOrLateAdd
<1>4. /\ UNCHANGED <<managed, baseOk>> /\ orphaned' \subseteq Rids
      /\ rules' = rules => orphaned \subseteq orphaned'
  BY <1>1 DEF DeleteRule, Submit, IInv, TypeOK
<1> QED
  BY <1>1, <1>2, <1>3, <1>4, RuleStep

\* A toggle changes no target.
LEMMA ToggleRuleInv == ASSUME IInv, NEW t \in Requests, ToggleRule(t) PROVE IInv'
<1>1. PICK i \in Rids, en \in BOOLEAN :
        rules[i] # None /\ Commit(t, out, [rules EXCEPT ![i].enabled = en])
  BY DEF ToggleRule
<1> DEFINE r == [rules EXCEPT ![i].enabled = en]
<1>2. rules[i] \in Rule /\ r[i] \in Rule /\ r[i].tag = rules[i].tag
  BY <1>1 DEF IInv, TypeOK, Rule
<1>3. \A k \in Rids : k # i => r[k] = rules[k]
  BY DEF IInv, TypeOK
<1>4. r \in RuleTable
  BY <1>2, <1>3 DEF IInv, TypeOK, RuleTable
<1>5. UNCHANGED <<managed, baseOk, orphaned>> /\ orphaned' \subseteq Rids
  BY DEF ToggleRule, Submit, IInv, TypeOK
<1>6. ASSUME NEW k \in Rids, r[k] # None, r[k].tag \notin TagsOf(out)
      PROVE  k \in orphaned'
  <2>1. k \in Dangling
    BY <1>1, <1>2, <1>3, <1>6 DEF Dangling
  <2> QED
    BY <1>5, <2>1 DEF IInv, DanglingOnlyByRenameOrLateAdd
<1> QED
  BY <1>1, <1>4, <1>5, <1>6, RuleStep

\* The template creates rules for an outbound it has found.
LEMMA ApplyAITemplateInv == ASSUME IInv, NEW t \in Requests, ApplyAITemplate(t) PROVE IInv'
<1>1. PICK tag \in TagsOf(out) : CreateRules(t, tag, Missing(tag))
  BY DEF ApplyAITemplate
<1>2. PICK at \in [Missing(tag) -> {i \in Rids : rules[i] = None}] :
        Commit(t, out,
               [i \in Rids |-> IF \E m \in Missing(tag) : at[m] = i
                               THEN [tag |-> tag, enabled |-> TRUE,
                                     match |-> CHOOSE m \in Missing(tag) : at[m] = i]
                               ELSE rules[i]])
  BY <1>1 DEF CreateRules
<1> DEFINE new(i) == [tag |-> tag, enabled |-> TRUE,
                      match |-> CHOOSE m \in Missing(tag) : at[m] = i]
           r == [i \in Rids |-> IF \E m \in Missing(tag) : at[m] = i THEN new(i) ELSE rules[i]]
<1>3. tag \in Tags
  BY DEF TagsOf, IInv, TypeOK, Outbound
<1>4. ASSUME NEW i \in Rids, \E m \in Missing(tag) : at[m] = i
      PROVE  new(i) \in Rule
  <2>1. (CHOOSE m \in Missing(tag) : at[m] = i) \in Matches
    BY <1>4 DEF Missing
  <2> QED
    BY <1>3, <2>1 DEF Rule
<1>5. r \in RuleTable
  BY <1>4 DEF IInv, TypeOK, RuleTable
<1>6. UNCHANGED <<managed, baseOk, orphaned>> /\ orphaned' \subseteq Rids
  BY DEF ApplyAITemplate, Submit, IInv, TypeOK
<1>7. ASSUME NEW k \in Rids, r[k] # None, r[k].tag \notin TagsOf(out)
      PROVE  k \in orphaned'
  <2>1. ~(\E m \in Missing(tag) : at[m] = k)
    BY <1>7
  <2>2. k \in Dangling
    BY <2>1, <1>7 DEF Dangling
  <2> QED
    BY <1>6, <2>2 DEF IInv, DanglingOnlyByRenameOrLateAdd
<1> QED
  BY <1>2, <1>5, <1>6, <1>7, RuleStep

\* The other steps leave both tables and `orphaned` alone.
LEMMA OtherInv ==
  ASSUME IInv,
         \/ \E t \in Requests : ValidateRule(t) \/ ApplyOk(t) \/ ApplyFails(t) \/ Refuse(t)
         \/ UpdateSetting
         \/ UNCHANGED vars
  PROVE  IInv'
<1>1. UNCHANGED <<out, rules, orphaned>>
  BY DEF ValidateRule, ApplyOk, ApplyFails, Refuse, Rollback, UpdateSetting, vars
<1>2. /\ out' \in OutTable /\ rules' \in RuleTable /\ orphaned' \subseteq Rids
  BY <1>1 DEF IInv, TypeOK, OutTable, RuleTable
<1>3. managed' \in BOOLEAN /\ baseOk' \in BOOLEAN
  BY DEF ValidateRule, Submit, ApplyOk, ApplyFails, Refuse, UpdateSetting, vars, IInv, TypeOK
<1>4. /\ pc' \in [Requests -> {"idle", "validated", "applying"}]
      /\ arg' \in [Requests -> Rule \cup {None}]
  BY DEF ValidateRule, ApplyOk, ApplyFails, Refuse, Rollback, Answer, UpdateSetting, vars,
         IInv, TypeOK
<1>5. answer' \in [says : {"nothing", "saved", "applied", "error"}, committed : BOOLEAN]
  <2>1. \/ answer' = answer
        \/ answer' = [says |-> "applied", committed |-> TRUE]
        \/ answer' = [says |-> "error", committed |-> TRUE]
        \/ answer' = [says |-> "error", committed |-> FALSE]
    BY DEF ValidateRule, ApplyOk, ApplyFails, Refuse, Rollback, Answer, UpdateSetting, vars
  <2>2. answer \in [says : {"nothing", "saved", "applied", "error"}, committed : BOOLEAN]
    BY DEF IInv, TypeOK
  <2>3. /\ [says |-> "applied", committed |-> TRUE] \in
             [says : {"nothing", "saved", "applied", "error"}, committed : BOOLEAN]
        /\ [says |-> "error", committed |-> TRUE] \in
             [says : {"nothing", "saved", "applied", "error"}, committed : BOOLEAN]
        /\ [says |-> "error", committed |-> FALSE] \in
             [says : {"nothing", "saved", "applied", "error"}, committed : BOOLEAN]
    BY SMT
  <2> QED
    BY <2>1, <2>2, <2>3, Zenon
<1>6. TypeOK'
  BY <1>2, <1>3, <1>4, <1>5 DEF TypeOK, OutTable, RuleTable
<1> QED
  BY <1>1, <1>6, SameTables DEF IInv

\* Every step keeps the invariant.
LEMMA NextInv == ASSUME IInv, [Next]_vars PROVE IInv'
<1>1. ASSUME NEW t \in Requests, OutboundRequest(t) PROVE IInv'
  BY <1>1, AddOutboundInv, UpdateOutboundInv, UpdateSystemOutboundInv, DeleteOutboundInv,
     ToggleOutboundInv DEF OutboundRequest
<1>2. ASSUME NEW t \in Requests, RuleRequest(t) PROVE IInv'
  BY <1>2, OtherInv, CreateRuleInv, UpdateRuleInv, DeleteRuleInv, ToggleRuleInv,
     UpdateSystemOutboundInv, ApplyAITemplateInv DEF RuleRequest
<1> QED
  BY <1>1, <1>2, OtherInv DEF Next

\* The seeded tables satisfy it.
LEMMA InitIInv == Init => IInv
<1> SUFFICES ASSUME Init PROVE IInv
  OBVIOUS
<1>1. ASSUME NEW i \in SystemTags
      PROVE  [tag |-> i, enabled |-> TRUE, ok |-> TRUE] \in Outbound
  BY DEF Outbound, Tags
<1>2. out \in OutTable /\ rules \in RuleTable /\ orphaned \subseteq Rids
  BY <1>1 DEF Init, OutTable, RuleTable, IsSystem
<1>3. /\ pc \in [Requests -> {"idle", "validated", "applying"}]
      /\ arg \in [Requests -> Rule \cup {None}]
  BY DEF Init
<1>4. managed = FALSE /\ baseOk = TRUE /\ answer = [says |-> "nothing", committed |-> FALSE]
  BY DEF Init
<1>5. managed \in BOOLEAN /\ baseOk \in BOOLEAN
  BY <1>4, Zenon
<1>6. [says |-> "nothing", committed |-> FALSE] \in
        [says : {"nothing", "saved", "applied", "error"}, committed : BOOLEAN]
  BY SMT
<1>7. TypeOK
  BY <1>2, <1>3, <1>4, <1>5, <1>6, Zenon DEF TypeOK, OutTable, RuleTable
<1>8. SystemOutboundsIntact
  BY <1>1 DEF Init, SystemOutboundsIntact, IsSystem
<1>9. DanglingOnlyByRenameOrLateAdd
  BY DEF Init, DanglingOnlyByRenameOrLateAdd, Dangling
<1> QED
  BY <1>7, <1>8, <1>9 DEF IInv

\* IInv is an invariant of the tables, whatever the requests and their number.
THEOREM Inductive == Spec => []IInv
BY InitIInv, NextInv, PTL DEF Spec

-----------------------------------------------------------------------------
(* The properties.                                                          *)

\* Type correctness: every row a request writes is one the code could have validated.
THEOREM TypeCorrect == Spec => []TypeOK
<1>1. IInv => TypeOK
  BY DEF IInv
<1> QED
  BY <1>1, Inductive, PTL

\* The outbounds the generated configuration puts first are always there and enabled.
THEOREM SystemOutboundsStay == Spec => []SystemOutboundsIntact
<1>1. IInv => SystemOutboundsIntact
  BY DEF IInv
<1> QED
  BY <1>1, Inductive, PTL

\* A rename and a late AddRule are the only ways for a rule to lose its target.
THEOREM DanglingIsExplained == Spec => []DanglingOnlyByRenameOrLateAdd
<1>1. IInv => DanglingOnlyByRenameOrLateAdd
  BY DEF IInv
<1> QED
  BY <1>1, Inductive, PTL

\* In managed mode every change of the tables has been accepted by xray.
LEMMA ValidStep ==
  ASSUME IInv, [Next]_vars, managed, <<out, rules>>' # <<out, rules>>
  PROVE  Valid(out', rules')
<1>1. ASSUME NEW t, NEW o, NEW r, Commit(t, o, r) PROVE Valid(out', rules')
  BY <1>1, CommitCases
<1>2. ASSUME NEW t \in Requests, OutboundRequest(t) PROVE Valid(out', rules')
  BY <1>1, <1>2 DEF OutboundRequest, AddOutbound, UpdateOutbound, UpdateSystemOutbound,
     DeleteOutbound, ToggleOutbound
<1>3. ASSUME NEW t \in Requests, RuleRequest(t) PROVE Valid(out', rules')
  BY <1>1, <1>3 DEF RuleRequest, ValidateRule, CreateRule, UpdateRule, DeleteRule, ToggleRule,
     ReorderRules, ApplyAITemplate, CreateRules
<1> QED
  BY <1>2, <1>3 DEF Next, ApplyOk, ApplyFails, Refuse, Rollback, UpdateSetting, vars

\* commitManagedChange tests the tables of its own transaction, so no managed change
\* that xray rejects is ever committed.
THEOREM ManagedCommitsTested == Spec => ManagedCommitsAreValid
<1>1. IInv /\ [Next]_vars =>
        [managed /\ <<out, rules>>' # <<out, rules>> => Valid(out', rules')]_vars
  BY ValidStep
<1> QED
  BY <1>1, Inductive, PTL DEF Spec, ManagedCommitsAreValid

\* A row of the outbounds that goes is the one DeleteOutbound deletes.
LEMMA DeleteStep ==
  ASSUME IInv, [Next]_vars, NEW i \in Oids, out[i] # None, out'[i] = None
  PROVE  Refs(rules', out[i].tag) = {}
<1>1. out' # out
  OBVIOUS
<1>2. ASSUME NEW t, NEW r, Commit(t, out, r) PROVE FALSE
  BY <1>1, <1>2, CommitCases
<1>3. ASSUME NEW t, NEW j \in Oids, NEW new, new # None,
             Commit(t, [out EXCEPT ![j] = new], rules)
      PROVE  FALSE
  <2>1. out' = [out EXCEPT ![j] = new]
    BY <1>1, <1>3, CommitCases
  <2> QED
    BY <1>3, <2>1 DEF IInv, TypeOK
<1>4. ASSUME NEW t \in Requests, AddOutbound(t) \/ UpdateOutbound(t) PROVE FALSE
  <2>1. \A tag \in Tags, en, ok \in BOOLEAN : [tag |-> tag, enabled |-> en, ok |-> ok] # None
    BY DEF Outbound
  <2> QED
    BY <1>3, <1>4, <2>1 DEF AddOutbound, UpdateOutbound, Tags
<1>5. ASSUME NEW t \in Requests, ToggleOutbound(t) PROVE FALSE
  <2>1. PICK j \in Oids, en \in BOOLEAN :
          out[j] # None /\ Commit(t, [out EXCEPT ![j].enabled = en], rules)
    BY <1>5 DEF ToggleOutbound
  <2>2. [out[j] EXCEPT !.enabled = en] # None
    BY <2>1 DEF IInv, TypeOK, Outbound
  <2>3. out' = [out EXCEPT ![j].enabled = en]
    BY <1>1, <2>1, CommitCases
  <2> QED
    BY <2>1, <2>2, <2>3 DEF IInv, TypeOK
<1>6. ASSUME NEW t \in Requests, DeleteOutbound(t) PROVE Refs(rules', out[i].tag) = {}
  <2>1. PICK j \in Oids : /\ Refs(rules, out[j].tag) = {}
                          /\ Commit(t, [out EXCEPT ![j] = None], rules)
    BY <1>6 DEF DeleteOutbound
  <2>2. out' = [out EXCEPT ![j] = None] /\ rules' = rules
    BY <1>1, <2>1, CommitCases
  <2>3. j = i
    BY <2>2 DEF IInv, TypeOK
  <2> QED
    BY <2>1, <2>2, <2>3
<1>7. ASSUME NEW t \in Requests, RuleRequest(t) PROVE FALSE
  BY <1>1, <1>2, <1>7 DEF RuleRequest, ValidateRule, CreateRule, UpdateRule, DeleteRule,
     ToggleRule, ReorderRules, ApplyAITemplate, CreateRules
<1>8. ASSUME NEW t \in Requests, OutboundRequest(t) PROVE Refs(rules', out[i].tag) = {}
  BY <1>2, <1>4, <1>5, <1>6, <1>8 DEF OutboundRequest, UpdateSystemOutbound
<1> QED
  BY <1>1, <1>7, <1>8 DEF Next, ApplyOk, ApplyFails, Refuse, Rollback, UpdateSetting, vars

\* DeleteOutbound counts the references in the transaction that deletes, so it leaves
\* no rule behind that refers to what it deleted.
THEOREM DeletesOrphanNothing == Spec => DeleteNeverOrphans
<1>1. IInv /\ [Next]_vars =>
        [\A i \in Oids : out[i] # None /\ out'[i] = None
                          => Refs(rules', out[i].tag) = {}]_vars
  BY DeleteStep
<1> QED
  BY <1>1, Inductive, PTL DEF Spec, DeleteNeverOrphans

\* A rule that appears otherwise than by AddRule is one the template found missing.
LEMMA TemplateStep ==
  ASSUME IInv, [Next]_vars,
         \A t \in Requests : pc[t] = "validated" => pc'[t] = "validated",
         NEW i \in Rids, NEW j \in Rids, i # j,
         rules[i] = None, rules'[i] # None, rules'[j] # None
  PROVE  <<rules'[i].tag, rules'[i].match>> # <<rules'[j].tag, rules'[j].match>>
<1>1. rules' # rules
  OBVIOUS
<1>2. ASSUME NEW t, NEW o, Commit(t, o, rules) PROVE FALSE
  BY <1>1, <1>2, CommitCases
<1>3. ASSUME NEW t, NEW k \in Rids, NEW row, rules[k] # None,
             Commit(t, out, [rules EXCEPT ![k] = row])
      PROVE  FALSE
  <2>1. rules' = [rules EXCEPT ![k] = row]
    BY <1>1, <1>3, CommitCases
  <2> QED
    BY <1>3, <2>1 DEF IInv, TypeOK
<1>4. ASSUME NEW t \in Requests, UpdateRule(t) \/ DeleteRule(t) PROVE FALSE
  BY <1>3, <1>4 DEF UpdateRule, DeleteRule
<1>5. ASSUME NEW t \in Requests, ToggleRule(t) PROVE FALSE
  <2>1. PICK k \in Rids, en \in BOOLEAN :
          rules[k] # None /\ Commit(t, out, [rules EXCEPT ![k].enabled = en])
    BY <1>5 DEF ToggleRule
  <2>2. rules' = [rules EXCEPT ![k].enabled = en]
    BY <1>1, <2>1, CommitCases
  <2> QED
    BY <2>1, <2>2 DEF IInv, TypeOK
<1>6. ASSUME NEW t \in Requests, CreateRule(t) PROVE FALSE
  <2>1. pc[t] = "validated" /\ pc \in [Requests -> {"idle", "validated", "applying"}]
    BY <1>6 DEF CreateRule, IInv, TypeOK
  <2>2. pc' = [pc EXCEPT ![t] = "applying"] \/ pc' = [pc EXCEPT ![t] = "idle"]
    BY <1>6 DEF CreateRule, Commit, Write, Rollback, Answer
  <2> QED
    BY <2>1, <2>2
<1>7. ASSUME NEW t \in Requests, ApplyAITemplate(t)
      PROVE  <<rules'[i].tag, rules'[i].match>> # <<rules'[j].tag, rules'[j].match>>
  <2>1. PICK tag \in TagsOf(out) : CreateRules(t, tag, Missing(tag))
    BY <1>7 DEF ApplyAITemplate
  <2>2. PICK at \in [Missing(tag) -> {k \in Rids : rules[k] = None}] :
          Commit(t, out,
                 [k \in Rids |-> IF \E m \in Missing(tag) : at[m] = k
                                 THEN [tag |-> tag, enabled |-> TRUE,
                                       match |-> CHOOSE m \in Missing(tag) : at[m] = k]
                                 ELSE rules[k]])
    BY <2>1 DEF CreateRules
  <2> DEFINE picked(k) == CHOOSE m \in Missing(tag) : at[m] = k
  <2>3. rules' = [k \in Rids |-> IF \E m \in Missing(tag) : at[m] = k
                                 THEN [tag |-> tag, enabled |-> TRUE, match |-> picked(k)]
                                 ELSE rules[k]]
    BY <1>1, <2>2, CommitCases
  <2>4. \E m \in Missing(tag) : at[m] = i
    BY <2>3
  <2>5. /\ rules'[i].tag = tag /\ rules'[i].match = picked(i)
        /\ picked(i) \in Missing(tag) /\ at[picked(i)] = i
    BY <2>3, <2>4
  <2>6. CASE \E m \in Missing(tag) : at[m] = j
    <3>1. rules'[j].match = picked(j) /\ at[picked(j)] = j
      BY <2>3, <2>6
    <3> QED
      BY <2>5, <3>1
  <2>7. CASE ~(\E m \in Missing(tag) : at[m] = j)
    <3>1. rules'[j] = rules[j]
      BY <2>3, <2>7
    <3> QED
      BY <2>5, <3>1 DEF Missing, Refs
  <2> QED
    BY <2>6, <2>7
<1>8. ASSUME NEW t \in Requests, RuleRequest(t)
      PROVE  <<rules'[i].tag, rules'[i].match>> # <<rules'[j].tag, rules'[j].match>>
  BY <1>1, <1>2, <1>4, <1>5, <1>6, <1>7, <1>8 DEF RuleRequest, ValidateRule, ReorderRules
<1>9. ASSUME NEW t \in Requests, OutboundRequest(t) PROVE FALSE
  BY <1>2, <1>9 DEF OutboundRequest, AddOutbound, UpdateOutbound, UpdateSystemOutbound,
     DeleteOutbound, ToggleOutbound
<1> QED
  BY <1>1, <1>8, <1>9 DEF Next, ApplyOk, ApplyFails, Refuse, Rollback, UpdateSetting, vars

\* The AI template is idempotent: it reads the rules in the transaction that creates the
\* missing ones.
THEOREM TemplateIsIdempotent == Spec => TemplateNeverDuplicates
<1>1. IInv /\ [Next]_vars =>
        [(\A t \in Requests : pc[t] = "validated" => pc'[t] = "validated")
         => \A i, j \in Rids :
              i # j /\ rules[i] = None /\ rules'[i] # None /\ rules'[j] # None
              => <<rules'[i].tag, rules'[i].match>> # <<rules'[j].tag, rules'[j].match>>]_vars
  BY TemplateStep
<1> QED
  BY <1>1, Inductive, PTL DEF Spec, TemplateNeverDuplicates
=============================================================================
