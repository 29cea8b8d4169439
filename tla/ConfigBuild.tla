----------------------------- MODULE ConfigBuild -----------------------------
(***************************************************************************)
(* The configuration the panel builds from its tables, and what xray does  *)
(* with it: GetXrayConfig of web/service/xray.go in both modes, with the   *)
(* rule and the outbound it adds for tunnels (dokodemo-door and tunnel     *)
(* inbounds), and the choice of an outbound in xray-core's router and      *)
(* dispatcher.                                                             *)
(*                                                                         *)
(* A condition of a rule other than inboundTag is a field, present or not; *)
(* the panel's routingRule knows KnownFields only, and what passes through *)
(* it loses the others.  A field it knows in a form its Go type does not   *)
(* take is one of OddForms, and the template cannot be read then.  Traffic *)
(* has the fields it satisfies; names are not resolved (domainStrategy     *)
(* AsIs).  An outbound is its tag, "" without one.  Addresses, settings    *)
(* and the inbounds' part are left out.                                    *)
(***************************************************************************)
EXTENDS Integers, Sequences, FiniteSets, SequencesExt, FiniteSetsExt

CONSTANTS
    Ins,          \* rows of table inbounds, each with its tag
    Oids, Rids,   \* ids of user outbounds and of routing rules
    UserTags,     \* tags of user outbounds and of templates, maybe "dokodemo-freedom" 
    Sorts,        \* sort keys
    Shapes,       \* routing rules, but for their order and switch: [in, cond, tag]
    KnownFields, OtherFields,  \* conditions of a rule
    OddForms,     \* and those xray takes and routingRule does not: "port": 53
    Templates,    \* xrayTemplateConfig: its rules and its outbounds
    InManaged,    \* those of them tried in managed mode (a bound)
    None

Doko   == "dokodemo-freedom"
System == {"direct", "blocked"}
Fields == KnownFields \cup OtherFields \cup OddForms
Tags   == UserTags \cup System \cup {"api", Doko, ""}

Rule == [in : SUBSET (Ins \cup {"api"}), cond : SUBSET Fields, tag : Tags]

ASSUME IdAssumption     == /\ Oids \subseteq Nat /\ Rids \subseteq Nat /\ Sorts \subseteq Nat
                           /\ IsFiniteSet(Oids) /\ IsFiniteSet(Rids)
ASSUME InAssumption     == "api" \notin Ins
ASSUME TagAssumption    == "api" \notin UserTags /\ System \cap UserTags = {}
ASSUME ShapeAssumption  == Shapes \subseteq
         {r \in Rule : r.cond \subseteq KnownFields /\ r.tag \in System \cup UserTags}
ASSUME TemplateAssumption ==
         InManaged \subseteq Templates /\ Templates \subseteq [rules : Seq(Rule), outs : Seq(Tags)]
ASSUME FieldsAssumption == KnownFields \cap (OtherFields \cup OddForms) = {}

VARIABLES
    managed,   \* setting managedOutboundsRouting
    template,  \* setting xrayTemplateConfig
    ins,       \* inbounds: "off", or enabled as "plain" or "tunnel"
    outs,      \* user outbounds
    rules      \* routing_rules

vars == <<managed, template, ins, outs, rules>>

Outbound == [tag : UserTags, enabled : BOOLEAN]
Row      == [sort : Sorts, enabled : BOOLEAN, rule : Shapes]
Traffic  == [in : Ins \cup {"api"}, has : SUBSET Fields]

TypeOK ==
    /\ managed \in BOOLEAN /\ template \in Templates
    /\ ins \in [Ins -> {"off", "plain", "tunnel"}]
    /\ outs \in [Oids -> Outbound \cup {None}]
    /\ rules \in [Rids -> Row \cup {None}]

-----------------------------------------------------------------------------
(* GetXrayConfig.                                                           *)

Tunnels == {i \in Ins : ins[i] = "tunnel"}

Has(s, e) == \E n \in 1..Len(s) : s[n] = e

ApiRule     == [in |-> {"api"}, cond |-> {}, tag |-> "api"]
TunnelRule  == [in |-> Tunnels, cond |-> {}, tag |-> Doko]

\* The ids of the enabled rules, in the order of getRulesByDB: sort, id.
Earlier(i, j) == rules[i].sort < rules[j].sort \/ (rules[i].sort = rules[j].sort /\ i < j)
EnabledRules  == {i \in Rids : rules[i] # None /\ rules[i].enabled}

\* Bug: the rules come in the order of their ids.
SortedById == SetToSortSeq(EnabledRules, <)

Before(i) == {j \in EnabledRules : Earlier(j, i)}

SortedRules ==
    [n \in 1..Cardinality(EnabledRules) |->
       CHOOSE i \in EnabledRules : Cardinality(Before(i)) = n - 1]

\* buildManagedOutbounds: the system outbounds first, then the enabled others (in whatever
\* order), but for one that has the tag of the tunnels.
UserOutbounds ==
    {i \in Oids : outs[i] # None /\ outs[i].enabled /\ outs[i].tag # Doko}

ManagedOutbounds ==
    LET ids == SetToSeq(UserOutbounds)
    IN  <<"direct", "blocked">> \o [n \in 1..Len(ids) |-> outs[ids[n]].tag]

\* Bug: the outbound of the tunnels comes first, and so is the default.
WithTunnelOutboundFirst(tags) ==
    IF Tunnels = {} \/ Has(tags, Doko) THEN tags ELSE <<Doko>> \o tags

\* ensureTaggedFreedomOutbound.
WithTunnelOutbound(tags) ==
    IF Tunnels = {} \/ Has(tags, Doko) THEN tags ELSE Append(tags, Doko)

\* Bug: the rules of the tables come before the one for the API.
ManagedRulesApiLast ==
    LET ids  == SortedRules
        rows == [n \in 1..Len(ids) |-> rules[ids[n]].rule]
    IN  (IF Tunnels = {} THEN <<>> ELSE <<TunnelRule>>) \o rows \o <<ApiRule>>

\* buildManagedRouting and ensureManagedDokodemoTunnelRouting: the rule for the API, the
\* one for the tunnels, and those of the tables.
ManagedRules ==
    LET ids  == SortedRules
        rows == [n \in 1..Len(ids) |-> rules[ids[n]].rule]
    IN  <<ApiRule>> \o (IF Tunnels = {} THEN <<>> ELSE <<TunnelRule>>) \o rows

\* The rules of the template can be unmarshalled into routingRule.
Unmarshals == \A n \in 1..Len(template.rules) : template.rules[n].cond \cap OddForms = {}

\* GetXrayConfig returns no error: managed mode always unmarshals the template's rules,
\* legacy mode once a tunnel is enabled.
Builds == Unmarshals \/ (~managed /\ Tunnels = {})

\* A rule that has been through routingRule.
Remarshal(r) == [r EXCEPT !.cond = @ \cap KnownFields]

\* Bug: the rule for the tunnels comes last.
LegacyRulesTunnelLast ==
    IF Tunnels = {} THEN template.rules
    ELSE [n \in 1..Len(template.rules) |-> Remarshal(template.rules[n])] \o <<TunnelRule>>

\* ensureDokodemoTunnelRouting puts its rule first, and writes the template's again.
LegacyRules ==
    IF Tunnels = {} THEN template.rules
    ELSE <<TunnelRule>> \o [n \in 1..Len(template.rules) |-> Remarshal(template.rules[n])]

\* What it returns then.
XrayConfig ==
    IF managed
    THEN [outs |-> WithTunnelOutbound(ManagedOutbounds), rules |-> ManagedRules]
    ELSE [outs |-> WithTunnelOutbound(template.outs), rules |-> LegacyRules]

-----------------------------------------------------------------------------
(* xray-core.                                                               *)

\* `xray -test`: every rule has an effective field, and no outbound tag occurs twice.
Accepts(c) ==
    /\ \A n \in 1..Len(c.rules) : c.rules[n].in # {} \/ c.rules[n].cond # {}
    /\ \A m, n \in 1..Len(c.outs) : m # n /\ c.outs[m] # "" => c.outs[m] # c.outs[n]

\* ConditionChan.Apply: all conditions hold.
Matches(r, x) == (r.in = {} \/ x.in \in r.in) /\ r.cond \subseteq x.has

\* GetHandler: the outbounds of the configuration, and the commander's own.
Handled(c, tag) == tag = "api" \/ Has(c.outs, tag)

\* AddHandler: the first outbound, or that of the commander, which comes after them all.
Default(c) == IF c.outs = <<>> THEN "api" ELSE c.outs[1]

\* PickRoute and routedDispatch: the first rule that matches decides; when its target
\* has no handler the connection is closed; without a rule the default is taken.
Route(c, x) ==
    LET hits == {n \in 1..Len(c.rules) : Matches(c.rules[n], x)}
    IN  IF hits = {} THEN Default(c)
        ELSE LET tag == c.rules[Min(hits)].tag
             IN  IF Handled(c, tag) THEN tag ELSE "closed"

-----------------------------------------------------------------------------
(* The requests that change what the builder reads, by their effect on it.  *)

\* An inbound is enabled, disabled, or becomes a tunnel or something else.
UpdateInbound(i) ==
    /\ \E kind \in {"off", "plain", "tunnel"} \ {ins[i]} : ins' = [ins EXCEPT ![i] = kind]
    /\ UNCHANGED <<managed, template, outs, rules>>

\* commitManagedChange: in managed mode, only what can be built and xray accepts.
Commits == managed => Builds' /\ Accepts(XrayConfig')

ToggleOutbound(i) ==
    /\ outs[i] # None
    /\ outs' = [outs EXCEPT ![i].enabled = ~@]
    /\ UNCHANGED <<managed, template, ins, rules>>
    /\ Commits

ToggleRule(i) ==
    /\ rules[i] # None
    /\ rules' = [rules EXCEPT ![i].enabled = ~@]
    /\ UNCHANGED <<managed, template, ins, outs>>
    /\ Commits

\* A new sort key (a list of them in one request is the same, one after the other).
ReorderRules(i) ==
    /\ rules[i] # None
    /\ \E s \in Sorts \ {rules[i].sort} : rules' = [rules EXCEPT ![i].sort = s]
    /\ UNCHANGED <<managed, template, ins, outs>>
    /\ Commits

\* The tables as any requests before have left them: no tag twice.  Of the template managed
\* mode uses only whether it can be read, and legacy mode does not read the tables, which
\* are empty there (a bound); the mode itself does not change here.
Init ==
    /\ managed \in BOOLEAN
    /\ template \in IF managed THEN InManaged ELSE Templates
    /\ ins \in [Ins -> {"off", "plain", "tunnel"}]
    /\ outs \in [Oids -> IF managed THEN Outbound \cup {None} ELSE {None}]
    /\ rules \in [Rids -> IF managed THEN Row \cup {None} ELSE {None}]
    /\ \A i, j \in Oids : i # j /\ outs[i] # None /\ outs[j] # None
                            => outs[i].tag # outs[j].tag

Next ==
    \/ \E i \in Ins : UpdateInbound(i)
    \/ \E i \in Oids : ToggleOutbound(i)
    \/ \E i \in Rids : ToggleRule(i) \/ ReorderRules(i)

Spec == Init /\ [][Next]_vars

-----------------------------------------------------------------------------
(* Properties.                                                              *)

\* What the tables say: the first enabled rule that matches, by sort and id, names the
\* outbound; traffic of a rule whose outbound is disabled or gone goes nowhere, and
\* what no rule matches goes out directly.
Available(tag) == tag \in System \/ \E i \in UserOutbounds : outs[i].tag = tag

ByTables(x) ==
    LET hits == {i \in EnabledRules : Matches(rules[i].rule, x)}
    IN  IF hits = {} THEN "direct"
        ELSE LET first == CHOOSE i \in hits : \A j \in hits \ {i} : Earlier(i, j)
             IN  IF Available(rules[first].rule.tag) THEN rules[first].rule.tag ELSE "closed"

\* In managed mode the traffic of an inbound that is no tunnel goes where the tables say,
\* whatever order they are in, unless a rule names an outbound with the tunnels' tag.
RoutesByTables ==
    managed /\ Builds /\ (\A i \in EnabledRules : rules[i].rule.tag # Doko) =>
        LET c == XrayConfig
        IN  Accepts(c) => \A x \in Traffic :
              x.in \notin Tunnels \cup {"api"} => Route(c, x) = ByTables(x)

\* No rule and no outbound can cut the panel off from xray's API, which the traffic
\* statistics come from, unless a template does.
ApiReachable ==
    Builds /\ (managed \/ (template.rules # <<>> /\ template.rules[1] = ApiRule)) =>
        LET c == XrayConfig
        IN  \A x \in Traffic : x.in = "api" => Route(c, x) = "api"

\* Traffic of a tunnel goes out freely in both modes, whatever rules there are.
TunnelsUnrestricted ==
    Builds /\ Tunnels # {} =>
        LET c == XrayConfig
        IN  \A x \in Traffic : x.in \in Tunnels => Route(c, x) = Doko

\* A tunnel that is enabled, disabled or changed changes nothing for the traffic of other
\* inbounds, and never keeps a configuration from being built or makes xray refuse it,
\* unless the template in use has a field the panel does not know, or knows in another
\* form only (nothing can be built then, for any inbound), or no outbound, or a rule
\* names the tunnels' tag.
Lossless ==
    IF managed THEN \A i \in EnabledRules : rules[i].rule.tag # Doko
    ELSE /\ template.outs # <<>>
         /\ \A n \in 1..Len(template.rules) :
              template.rules[n].cond \subseteq KnownFields /\ template.rules[n].tag # Doko

TunnelsChangeNoOther ==
    [][\A i \in Ins : ins'[i] # ins[i] /\ Lossless =>
         LET c == XrayConfig
             d == XrayConfig'
         IN  /\ Builds /\ Accepts(c) <=> Builds' /\ Accepts(d)
             /\ Builds /\ Builds' => \A x \in Traffic : x.in # i /\ x.in \notin Tunnels =>
                  Route(c, x) = Route(d, x)]_vars
=============================================================================
