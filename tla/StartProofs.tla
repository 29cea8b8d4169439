----------------------------- MODULE StartProofs -----------------------------
(***************************************************************************)
(* What is started can do its work: xray with the configuration that       *)
(* ConfigBuild makes of the tables, and the panel with the settings that a *)
(* switch to or from HTTPS leaves (PanelHTTPS).  The two models share no   *)
(* state; each theorem names the specification it is about.                *)
(*                                                                         *)
(* ConfigBuild, for any number of inbounds, outbounds, rules and templates:*)
(* SortedRules is shown to list the enabled rules in their order; then the *)
(* first rule that matches in the configuration is the first one that      *)
(* matches in the tables.                                                  *)
(***************************************************************************)
EXTENDS ConfigBuild, PanelHTTPS, FiniteSetTheorems, SequenceTheorems, WellFoundedInduction, TLAPS

\* The rows keep their types.
LEMMA TypeStep == ASSUME TypeOK, [Next]_vars PROVE TypeOK'
<1>1. ASSUME NEW i \in Ins, UpdateInbound(i) PROVE TypeOK'
  BY <1>1 DEF TypeOK, UpdateInbound
<1>2. ASSUME NEW i \in Oids, ToggleOutbound(i) PROVE TypeOK'
  <2>1. outs[i] \in Outbound
    BY <1>2 DEF TypeOK, ToggleOutbound
  <2>2. [outs[i] EXCEPT !.enabled = ~@] \in Outbound
    BY <2>1 DEF Outbound
  <2> QED
    BY <1>2, <2>2 DEF TypeOK, ToggleOutbound
<1>3. ASSUME NEW i \in Rids, ToggleRule(i) \/ ReorderRules(i) PROVE TypeOK'
  <2>1. rules[i] \in Row
    BY <1>3 DEF TypeOK, ToggleRule, ReorderRules
  <2>2. /\ [rules[i] EXCEPT !.enabled = ~@] \in Row
        /\ \A s \in Sorts : [rules[i] EXCEPT !.sort = s] \in Row
    BY <2>1 DEF Row
  <2>3. CASE ToggleRule(i)
    BY <2>2, <2>3 DEF TypeOK, ToggleRule
  <2>4. CASE ReorderRules(i)
    BY <2>2, <2>4 DEF TypeOK, ReorderRules
  <2> QED
    BY <1>3, <2>3, <2>4
<1>4. CASE UNCHANGED vars
  BY <1>4 DEF vars, TypeOK
<1> QED
  BY <1>1, <1>2, <1>3, <1>4 DEF Next

\* Type correctness.
THEOREM TypeCorrect == Spec => []TypeOK
<1>1. Init => TypeOK
  BY TemplateAssumption DEF Init, TypeOK
<1> QED
  BY <1>1, TypeStep, PTL DEF Spec

-----------------------------------------------------------------------------
(* Lemmas about the operators.                                              *)

\* The least element of a set that has one.
LEMMA MinIs ==
    ASSUME NEW S \in SUBSET Int, NEW m \in S, \A y \in S : m <= y PROVE Min(S) = m
<1>1. Min(S) \in S /\ \A y \in S : Min(S) <= y
  <2>1. \E z \in S : \A y \in S : z <= y
    OBVIOUS
  <2> QED
    BY <2>1, Zenon DEF Min
<1>2. ASSUME NEW v \in S, \A y \in S : v <= y PROVE v = m
  BY <1>2
<1> QED
  BY <1>1, <1>2, Zenon

\* A set of naturals that is not empty has a least element.
LEMMA LeastNatural ==
    ASSUME NEW S \in SUBSET Nat, S # {} PROVE \E m \in S : \A n \in S : m <= n
<1> DEFINE R == {p \in Nat \X Nat : p[1] < p[2]}
<1>1. IsWellFoundedOn(R, Nat)
  BY NatLessThanWellFounded DEF OpToRel
<1>2. \E m \in S : \A n \in S : <<n, m>> \notin R
  <2> HIDE DEF R
  <2> QED
    BY <1>1, WFMin
<1>3. ASSUME NEW m \in S, NEW n \in S, <<n, m>> \notin R PROVE m <= n
  BY <1>3
<1> QED
  BY <1>2, <1>3

\* SetToSeq lists a finite set.
LEMMA SetToSeqLists ==
    ASSUME NEW S, IsFiniteSet(S)
    PROVE  /\ SetToSeq(S) \in Seq(S)
           /\ \A e \in S : \E n \in 1..Len(SetToSeq(S)) : SetToSeq(S)[n] = e
<1> DEFINE N == Cardinality(S)
<1>1. N \in Nat /\ ExistsBijection(1..N, S)
  BY FS_CardinalityType
<1>2. \E f \in [1..N -> S] : IsInjective(f)
  BY <1>1 DEF IsInjective, ExistsBijection, Bijection, Injection
<1>3. SetToSeq(S) \in [1..N -> S] /\ IsInjective(SetToSeq(S))
  BY <1>2, Zenon DEF SetToSeq
<1>4. SetToSeq(S) \in Injection(1..N, S)
  BY <1>3 DEF Injection, IsInjective
<1>5. IsFiniteSet(1..N) /\ Cardinality(1..N) = N
  BY <1>1, FS_Interval
<1>6. SetToSeq(S) \in Surjection(1..N, S)
  BY <1>4, <1>5, FS_Injection
<1>7. Len(SetToSeq(S)) = N /\ SetToSeq(S) \in Seq(S)
  <2> DEFINE f == SetToSeq(S)
  <2>1. N \in Nat /\ f \in [1..N -> S]
    BY <1>1, <1>3
  <2> HIDE DEF f, N
  <2>2. Len(f) = N /\ f \in Seq(S)
    BY <2>1
  <2> QED
    BY <2>2 DEF f
<1>8. \A e \in S : \E n \in 1..N : SetToSeq(S)[n] = e
  BY <1>6, Zenon DEF Surjection
<1> QED
  BY <1>7, <1>8, Zenon

\* The order of the rules is strict and total.
LEMMA EarlierOrder ==
    ASSUME TypeOK
    PROVE  \A i, j, k \in EnabledRules :
             /\ ~Earlier(i, i)
             /\ i # j => Earlier(i, j) \/ Earlier(j, i)
             /\ Earlier(i, j) /\ Earlier(j, k) => Earlier(i, k)
<1>1. \A i \in EnabledRules : i \in Nat /\ rules[i].sort \in Nat
  BY IdAssumption DEF TypeOK, EnabledRules, Row
<1> QED
  BY <1>1 DEF Earlier

\* SortedRules lists the enabled rules in their order.
LEMMA SortedRulesLists ==
    ASSUME TypeOK
    PROVE  LET N == Cardinality(EnabledRules)
           IN  /\ N \in Nat
               /\ SortedRules \in [1..N -> EnabledRules]
               /\ \A i \in EnabledRules : \E n \in 1..N : SortedRules[n] = i
               /\ \A m, n \in 1..N : m < n => Earlier(SortedRules[m], SortedRules[n])
<1> DEFINE E == EnabledRules
           N == Cardinality(E)
           rank == [i \in E |-> Cardinality(Before(i)) + 1]
<1>1. IsFiniteSet(E) /\ N \in Nat
  BY IdAssumption, FS_Subset, FS_CardinalityType DEF EnabledRules
<1>2. \A i \in E : /\ IsFiniteSet(Before(i)) /\ Before(i) \subseteq E
                   /\ Cardinality(Before(i)) \in Nat
  BY <1>1, FS_Subset, FS_CardinalityType DEF Before
<1>3. ASSUME NEW i \in E, NEW j \in E, Earlier(i, j) PROVE rank[i] < rank[j]
  <2>1. Before(i) \subseteq Before(j) /\ i \in Before(j) /\ i \notin Before(i)
    BY <1>3, EarlierOrder DEF Before
  <2>2. /\ Cardinality(Before(i)) <= Cardinality(Before(j))
        /\ Cardinality(Before(i)) # Cardinality(Before(j))
    BY <1>2, <2>1, FS_Subset
  <2> QED
    BY <1>2, <2>2
<1>4. ASSUME NEW i \in E PROVE rank[i] \in 1..N
  <2>1. i \notin Before(i)
    BY EarlierOrder DEF Before
  <2>2. Cardinality(Before(i)) <= N /\ Cardinality(Before(i)) # N
    BY <1>1, <1>2, <2>1, FS_Subset
  <2> QED
    BY <1>1, <1>2, <2>2
<1>5. rank \in Injection(E, 1..N)
  <2>1. rank \in [E -> 1..N]
    BY <1>4
  <2>2. \A i, j \in E : rank[i] = rank[j] => i = j
    BY <1>3, <1>4, EarlierOrder
  <2> QED
    BY <2>1, <2>2 DEF Injection, IsInjective
<1>6. \A n \in 1..N : \E i \in E : rank[i] = n
  <2>1. IsFiniteSet(1..N) /\ Cardinality(1..N) = N
    BY <1>1, FS_Interval
  <2>2. rank \in Surjection(E, 1..N)
    BY <1>1, <1>5, <2>1, FS_Injection
  <2> QED
    BY <2>2 DEF Surjection
<1>7. \A n \in 1..N : SortedRules[n] \in E /\ rank[SortedRules[n]] = n
  <2> SUFFICES ASSUME NEW n \in 1..N
               PROVE  SortedRules[n] \in E /\ rank[SortedRules[n]] = n
    OBVIOUS
  <2>1. SortedRules[n] = CHOOSE i \in E : Cardinality(Before(i)) = n - 1
    BY DEF SortedRules
  <2>2. \E i \in E : Cardinality(Before(i)) = n - 1
    <3>1. PICK i \in E : rank[i] = n
      BY <1>6
    <3>2. Cardinality(Before(i)) + 1 = n /\ Cardinality(Before(i)) \in Nat
      BY <1>2, <3>1
    <3> QED
      BY <3>2
  <2>3. SortedRules[n] \in E /\ Cardinality(Before(SortedRules[n])) = n - 1
    BY <2>1, <2>2, Zenon
  <2> QED
    BY <1>1, <1>2, <2>3
<1>8. SortedRules \in [1..N -> E]
  BY <1>7 DEF SortedRules
<1>9. \A i \in E : \E n \in 1..N : SortedRules[n] = i
  BY <1>4, <1>5, <1>7 DEF Injection, IsInjective
<1>10. \A m, n \in 1..N : m < n => Earlier(SortedRules[m], SortedRules[n])
  <2> SUFFICES ASSUME NEW m \in 1..N, NEW n \in 1..N, m < n
               PROVE  Earlier(SortedRules[m], SortedRules[n])
    OBVIOUS
  <2>1. rank[SortedRules[m]] < rank[SortedRules[n]]
    BY <1>7
  <2>2. SortedRules[m] \in E /\ SortedRules[n] \in E
    BY <1>7
  <2>3. ASSUME NEW i \in E, NEW j \in E, rank[i] < rank[j] PROVE Earlier(i, j)
    <3>1. i # j
      BY <2>3, <1>4
    <3>2. ~Earlier(j, i)
      BY <2>3, <1>3, <1>4
    <3> QED
      BY <3>1, <3>2, EarlierOrder
  <2> QED
    BY <2>1, <2>2, <2>3, Zenon
<1> QED
  BY <1>1, <1>8, <1>9, <1>10

\* The rule that decides is the first that matches.
LEMMA RouteFirst ==
    ASSUME NEW c, NEW x, Len(c.rules) \in Nat,
           NEW m \in 1..Len(c.rules), Matches(c.rules[m], x),
           \A n \in 1..Len(c.rules) : n < m => ~Matches(c.rules[n], x)
    PROVE  Route(c, x) = IF Handled(c, c.rules[m].tag) THEN c.rules[m].tag ELSE "closed"
<1> DEFINE hits == {n \in 1..Len(c.rules) : Matches(c.rules[n], x)}
<1>1. hits \in SUBSET Int /\ m \in hits /\ \A n \in hits : m <= n
  OBVIOUS
<1>2. Min(hits) = m
  <2> HIDE DEF hits
  <2> QED
    BY <1>1, MinIs
<1> QED
  BY <1>1, <1>2, Zenon DEF Route

\* In particular the first rule of all, or the second.
LEMMA RouteFirstOrSecond ==
    ASSUME NEW c, NEW x, Len(c.rules) \in Nat, NEW m \in 1..Len(c.rules),
           Matches(c.rules[m], x), m = 1 \/ (m = 2 /\ ~Matches(c.rules[1], x))
    PROVE  Route(c, x) = IF Handled(c, c.rules[m].tag) THEN c.rules[m].tag ELSE "closed"
<1>1. \A n \in 1..Len(c.rules) : n < m => n = 1 /\ m = 2
  OBVIOUS
<1>2. \A n \in 1..Len(c.rules) : n < m => ~Matches(c.rules[n], x)
  BY <1>1
<1> QED
  BY <1>2, RouteFirst

\* Without one, the default is taken.
LEMMA RouteNone ==
    ASSUME NEW c, NEW x, \A n \in 1..Len(c.rules) : ~Matches(c.rules[n], x)
    PROVE  Route(c, x) = Default(c)
<1>1. {n \in 1..Len(c.rules) : Matches(c.rules[n], x)} = {}
  OBVIOUS
<1> QED
  BY <1>1, Zenon DEF Route

\* What a list with one or two elements before it looks like.
LEMMA Prefixed ==
    ASSUME NEW S, NEW a \in S, NEW b \in S, NEW r \in Seq(S)
    PROVE  LET one == <<a>> \o <<>> \o r
               two == <<a>> \o <<b>> \o r
               leg == <<a>> \o r
           IN  /\ Len(one) = 1 + Len(r) /\ one[1] = a /\ \A n \in 1..Len(r) : one[1 + n] = r[n]
               /\ Len(leg) = 1 + Len(r) /\ leg[1] = a /\ \A n \in 1..Len(r) : leg[1 + n] = r[n]
               /\ Len(two) = 2 + Len(r) /\ two[1] = a /\ two[2] = b
               /\ \A n \in 1..Len(r) : two[2 + n] = r[n]
  OBVIOUS

\* And with a pair before it, seen from the whole list.
LEMMA AfterTwo ==
    ASSUME NEW S, NEW a \in S, NEW b \in S, NEW r \in Seq(S)
    PROVE  LET all == <<a, b>> \o r
           IN  /\ all \in Seq(S) /\ all # <<>> /\ all[1] = a /\ all[2] = b
               /\ Len(all) = 2 + Len(r)
               /\ \A n \in 1..Len(r) : all[2 + n] = r[n]
               /\ \A n \in 3..Len(all) : all[n] = r[n - 2]
  OBVIOUS

\* The rules of the configuration in managed mode.
LEMMA ManagedRulesAre ==
    ASSUME TypeOK
    PROVE  LET N == Cardinality(EnabledRules)
               k == IF Tunnels = {} THEN 1 ELSE 2
           IN  /\ Len(ManagedRules) = k + N /\ ManagedRules[1] = ApiRule
               /\ Tunnels # {} => ManagedRules[2] = TunnelRule
               /\ \A n \in 1..N : ManagedRules[k + n] = rules[SortedRules[n]].rule
<1> DEFINE N == Cardinality(EnabledRules)
           rows == [n \in 1..N |-> rules[SortedRules[n]].rule]
<1>1. N \in Nat /\ SortedRules \in [1..N -> EnabledRules] /\ Len(SortedRules) = N
  <2>1. N \in Nat /\ SortedRules \in [1..N -> EnabledRules]
    BY SortedRulesLists
  <2> HIDE DEF N
  <2> QED
    BY <2>1
<1>2. \A i \in EnabledRules : rules[i].rule \in Rule
  BY ShapeAssumption DEF TypeOK, EnabledRules, Row
<1>3. rows \in Seq(Rule) /\ Len(rows) = N
  <2>1. rows \in [1..N -> Rule]
    BY <1>1, <1>2
  <2> QED
    BY <1>1, <2>1
<1>4. ApiRule \in Rule /\ TunnelRule \in Rule
  <2>1. "api" \in Tags /\ Doko \in Tags
    BY DEF Tags
  <2>2. {"api"} \subseteq Ins \cup {"api"} /\ Tunnels \subseteq Ins \cup {"api"}
    BY DEF Tunnels
  <2> QED
    BY <2>1, <2>2 DEF ApiRule, TunnelRule, Rule
<1>5. ManagedRules = <<ApiRule>> \o (IF Tunnels = {} THEN <<>> ELSE <<TunnelRule>>) \o rows
  BY <1>1 DEF ManagedRules
<1>6. \A n \in 1..N : rows[n] = rules[SortedRules[n]].rule
  OBVIOUS
<1> HIDE DEF rows, N
<1>7. CASE Tunnels = {}
  BY <1>3, <1>4, <1>5, <1>6, <1>7, Prefixed DEF N
<1>8. CASE Tunnels # {}
  BY <1>3, <1>4, <1>5, <1>6, <1>8, Prefixed DEF N
<1> QED
  BY <1>7, <1>8

\* The outbounds a connection can go to, once the one for the tunnels is added.
LEMMA TunnelOutboundAdded ==
    ASSUME NEW tags \in Seq(Tags)
    PROVE  /\ \A t : Has(WithTunnelOutbound(tags), t)
                       <=> Has(tags, t) \/ (Tunnels # {} /\ t = Doko)
           /\ tags # <<>> => /\ WithTunnelOutbound(tags) # <<>>
                             /\ WithTunnelOutbound(tags)[1] = tags[1]
<1>1. CASE Tunnels = {} \/ Has(tags, Doko)
  BY <1>1 DEF WithTunnelOutbound, Has
<1>2. CASE ~(Tunnels = {} \/ Has(tags, Doko))
  <2> DEFINE new == Append(tags, Doko)
  <2>1. WithTunnelOutbound(tags) = new /\ Tunnels # {}
    BY <1>2, Zenon DEF WithTunnelOutbound
  <2>2. /\ Len(new) = Len(tags) + 1 /\ new[Len(tags) + 1] = Doko
        /\ \A n \in 1..Len(tags) : new[n] = tags[n]
    <3>1. Doko \in Tags
      BY DEF Tags
    <3> QED
      BY <3>1
  <2>3. \A t : Has(new, t) <=> Has(tags, t) \/ t = Doko
    <3> HIDE DEF new
    <3> QED
      BY <2>2 DEF Has
  <2> QED
    BY <2>1, <2>2, <2>3
<1> QED
  BY <1>1, <1>2

\* The outbounds in managed mode: those that are available, and "direct" first.
LEMMA ManagedOutboundsAre ==
    ASSUME TypeOK
    PROVE  /\ ManagedOutbounds \in Seq(Tags) /\ ManagedOutbounds # <<>>
           /\ ManagedOutbounds[1] = "direct"
           /\ \A t : Has(ManagedOutbounds, t) <=> Available(t)
<1> DEFINE ids == SetToSeq(UserOutbounds)
           more == [n \in 1..Len(ids) |-> outs[ids[n]].tag]
           two == <<"direct", "blocked">>
           all == two \o more
<1>1. IsFiniteSet(UserOutbounds) /\ UserOutbounds \subseteq Oids
  BY IdAssumption, FS_Subset DEF UserOutbounds
<1>2. /\ ids \in Seq(UserOutbounds)
      /\ \A e \in UserOutbounds : \E n \in 1..Len(ids) : ids[n] = e
  BY <1>1, SetToSeqLists
<1>3. \A i \in UserOutbounds : outs[i].tag \in Tags
  BY <1>1 DEF TypeOK, UserOutbounds, Outbound, Tags
<1>4. more \in Seq(Tags) /\ Len(more) = Len(ids)
  <2> HIDE DEF ids
  <2>1. Len(ids) \in Nat /\ \A n \in 1..Len(ids) : ids[n] \in UserOutbounds
    BY <1>2
  <2>2. more \in [1..Len(ids) -> Tags]
    BY <1>3, <2>1
  <2> QED
    BY <2>1, <2>2
<1>5. \A t : Has(more, t) <=> \E i \in UserOutbounds : outs[i].tag = t
  <2>1. \A n \in 1..Len(ids) : ids[n] \in UserOutbounds /\ more[n] = outs[ids[n]].tag
    BY <1>2
  <2> HIDE DEF ids, more
  <2> QED
    BY <1>2, <1>4, <2>1 DEF Has
<1>6. "direct" \in Tags /\ "blocked" \in Tags
  BY DEF Tags, System
<1>7. /\ all \in Seq(Tags) /\ all # <<>> /\ all[1] = "direct" /\ all[2] = "blocked"
      /\ Len(all) = 2 + Len(more)
      /\ \A n \in 1..Len(more) : all[2 + n] = more[n]
      /\ \A n \in 3..Len(all) : all[n] = more[n - 2]
  <2> HIDE DEF more
  <2> QED
    BY <1>4, <1>6, AfterTwo
<1>8. \A t : Has(all, t) <=> t \in System \/ Has(more, t)
  <2>1. Len(more) \in Nat
    BY <1>4
  <2> HIDE DEF all, more
  <2> SUFFICES ASSUME NEW t PROVE Has(all, t) <=> t \in System \/ Has(more, t)
    OBVIOUS
  <2>2. ASSUME Has(all, t) PROVE t \in System \/ Has(more, t)
    <3>1. PICK n \in 1..Len(all) : all[n] = t
      BY <2>2 DEF Has
    <3>2. CASE n \in {1, 2}
      BY <1>7, <3>1, <3>2 DEF System
    <3>3. CASE n \notin {1, 2}
      <4>1. n - 2 \in 1..Len(more) /\ more[n - 2] = t
        BY <1>7, <2>1, <3>1, <3>3
      <4> QED
        BY <4>1 DEF Has
    <3> QED
      BY <3>2, <3>3
  <2>3. ASSUME t \in System PROVE Has(all, t)
    <3>1. 1 \in 1..Len(all) /\ 2 \in 1..Len(all)
      BY <1>7, <2>1
    <3> QED
      BY <1>7, <2>3, <3>1 DEF Has, System
  <2>4. ASSUME Has(more, t) PROVE Has(all, t)
    <3>1. PICK n \in 1..Len(more) : more[n] = t
      BY <2>4 DEF Has
    <3>2. 2 + n \in 1..Len(all) /\ all[2 + n] = t
      BY <1>7, <2>1, <3>1
    <3> QED
      BY <3>2 DEF Has
  <2> QED
    BY <2>2, <2>3, <2>4
<1>9. ManagedOutbounds = all
  BY Zenon DEF ManagedOutbounds
<1> QED
  <2> HIDE DEF all, more
  <2> QED
    BY <1>5, <1>7, <1>8, <1>9 DEF Available

-----------------------------------------------------------------------------
(* The properties.                                                          *)

\* A rule about certain inbounds says nothing of traffic from others.
LEMMA OtherInbound ==
    ASSUME NEW r, NEW x, r.in # {}, x.in \notin r.in PROVE ~Matches(r, x)
  BY DEF Matches

\* What matches whatever the conditions: a rule on the inbound of the traffic only.
LEMMA ThisInbound ==
    ASSUME NEW r, NEW x, x.in \in r.in, r.cond = {} PROVE Matches(r, x)
  BY DEF Matches

LEMMA TunnelsAreInbounds == Tunnels \subseteq Ins /\ "api" \notin Tunnels
  BY InAssumption DEF Tunnels

\* The rule for the API has no condition to lose.
LEMMA RemarshalApi == Remarshal(ApiRule) = ApiRule
<1>1. Remarshal(ApiRule) = [in |-> {"api"}, cond |-> {} \cap KnownFields, tag |-> "api"]
  BY DEF Remarshal, ApiRule
<1>2. {} \cap KnownFields = {}
  OBVIOUS
<1> QED
  BY <1>1, <1>2, Zenon DEF ApiRule

\* The template's rules, and its first one after it has been through routingRule.
LEMMA LegacyRulesAre ==
    ASSUME TypeOK
    PROVE  /\ Tunnels = {} => LegacyRules = template.rules
           /\ Len(LegacyRules) \in Nat
           /\ Tunnels # {} =>
                /\ Len(LegacyRules) = 1 + Len(template.rules)
                /\ LegacyRules[1] = TunnelRule
                /\ template.rules # <<>> => LegacyRules[2] = Remarshal(template.rules[1])
<1> DEFINE old == template.rules
           new == [n \in 1..Len(old) |-> Remarshal(old[n])]
           Lists == {TunnelRule} \cup {Remarshal(r) : r \in Rule}
<1>1. old \in Seq(Rule)
  BY TemplateAssumption DEF TypeOK
<1>2. Len(old) \in Nat /\ \A n \in 1..Len(old) : old[n] \in Rule
  BY <1>1
<1>3. new \in Seq(Lists) /\ Len(new) = Len(old)
  <2>1. new \in [1..Len(old) -> Lists]
    BY <1>2
  <2> HIDE DEF Lists, new
  <2> QED
    BY <1>2, <2>1
<1>4. CASE Tunnels = {}
  BY <1>2, <1>4 DEF LegacyRules
<1>5. CASE Tunnels # {}
  <2>1. LegacyRules = <<TunnelRule>> \o new
    BY <1>5, Zenon DEF LegacyRules
  <2>2. TunnelRule \in Lists
    OBVIOUS
  <2>3. old # <<>> => 1 \in 1..Len(old)
    BY <1>1
  <2>4. old # <<>> => new[1] = Remarshal(old[1])
    BY <2>3
  <2> HIDE DEF Lists, new
  <2>5. /\ Len(LegacyRules) = 1 + Len(new) /\ LegacyRules[1] = TunnelRule
        /\ \A n \in 1..Len(new) : LegacyRules[1 + n] = new[n]
    BY <1>3, <2>1, <2>2, Prefixed
  <2>6. old # <<>> => LegacyRules[2] = Remarshal(old[1])
    BY <1>3, <2>3, <2>4, <2>5
  <2> QED
    BY <1>2, <1>3, <1>5, <2>5, <2>6
<1> QED
  BY <1>4, <1>5

\* No rule and no outbound of the tables can cut the panel off from xray's API.
LEMMA ApiReached == ASSUME TypeOK PROVE ApiReachable
<1> SUFFICES ASSUME Builds, managed \/ (template.rules # <<>> /\ template.rules[1] = ApiRule),
                    NEW x \in Traffic, x.in = "api"
             PROVE  Route(XrayConfig, x) = "api"
  BY DEF ApiReachable
<1> DEFINE c == XrayConfig
<1>1. Matches(ApiRule, x) /\ ApiRule.tag = "api"
  BY ThisInbound DEF ApiRule
<1>2. Tunnels # {} => ~Matches(TunnelRule, x)
  BY TunnelsAreInbounds, OtherInbound DEF TunnelRule
<1>3. /\ Len(c.rules) \in Nat /\ 1 <= Len(c.rules) /\ c.rules[1] = ApiRule
         => Route(c, x) = "api"
      /\ /\ Len(c.rules) \in Nat /\ 2 <= Len(c.rules) /\ c.rules[2] = ApiRule
         /\ ~Matches(c.rules[1], x)
         => Route(c, x) = "api"
  <2> HIDE DEF c
  <2>1. ASSUME NEW m \in {1, 2}, Len(c.rules) \in Nat, m <= Len(c.rules), c.rules[m] = ApiRule,
               m = 2 => ~Matches(c.rules[1], x)
        PROVE  Route(c, x) = "api"
    <3>1. m \in 1..Len(c.rules) /\ Matches(c.rules[m], x) /\ c.rules[m].tag = "api"
      BY <1>1, <2>1
    <3>2. Handled(c, c.rules[m].tag)
      BY <3>1 DEF Handled
    <3>3. m = 1 \/ (m = 2 /\ ~Matches(c.rules[1], x))
      BY <2>1
    <3> QED
      BY <2>1, <3>1, <3>2, <3>3, RouteFirstOrSecond
  <2> QED
    BY <2>1
<1>4. CASE managed
  <2>1. c.rules = ManagedRules
    BY <1>4 DEF XrayConfig
  <2>2. Len(ManagedRules) \in Nat /\ 1 <= Len(ManagedRules) /\ ManagedRules[1] = ApiRule
    BY ManagedRulesAre, SortedRulesLists
  <2>3. Len(c.rules) \in Nat /\ 1 <= Len(c.rules) /\ c.rules[1] = ApiRule
    BY <2>1, <2>2, Zenon
  <2> QED
    BY <1>3, <2>3, Zenon
<1>5. CASE ~managed
  <2>1. c.rules = LegacyRules
    BY <1>5 DEF XrayConfig
  <2>2. Len(template.rules) \in Nat /\ 1 <= Len(template.rules)
    BY <1>5, TemplateAssumption DEF TypeOK
  <2>3. template.rules[1] = ApiRule /\ template.rules # <<>>
    BY <1>5
  <2>4. CASE Tunnels = {}
    <3>1. c.rules = template.rules
      BY <2>1, <2>4, LegacyRulesAre
    <3>2. Len(c.rules) \in Nat /\ 1 <= Len(c.rules) /\ c.rules[1] = ApiRule
      BY <2>2, <2>3, <3>1, Zenon
    <3> QED
      BY <1>3, <3>2, Zenon
  <2>5. CASE Tunnels # {}
    <3>1. Remarshal(ApiRule) = ApiRule
      BY RemarshalApi
    <3>2. /\ Len(LegacyRules) = 1 + Len(template.rules)
          /\ LegacyRules[1] = TunnelRule /\ LegacyRules[2] = ApiRule
      BY <2>3, <2>5, <3>1, LegacyRulesAre
    <3>3. Len(LegacyRules) \in Nat /\ 2 <= Len(LegacyRules)
      BY <2>2, <3>2
    <3>4. Len(c.rules) \in Nat /\ 2 <= Len(c.rules) /\ c.rules[1] = TunnelRule /\ c.rules[2] = ApiRule
      BY <2>1, <3>2, <3>3, Zenon
    <3> QED
      BY <1>2, <1>3, <2>5, <3>4, Zenon
  <2> QED
    BY <2>4, <2>5
<1> QED
  BY <1>4, <1>5

\* Traffic of a tunnel meets the tunnels' rule before any other that could match.
LEMMA TunnelsFree == ASSUME TypeOK PROVE TunnelsUnrestricted
<1> SUFFICES ASSUME Builds, Tunnels # {}, NEW x \in Traffic, x.in \in Tunnels
             PROVE  Route(XrayConfig, x) = Doko
  BY DEF TunnelsUnrestricted
<1> DEFINE c == XrayConfig
<1>1. Matches(TunnelRule, x) /\ TunnelRule.tag = Doko
  BY ThisInbound DEF TunnelRule
<1>2. ~Matches(ApiRule, x)
  BY TunnelsAreInbounds, OtherInbound DEF ApiRule
<1>3. Has(c.outs, Doko)
  <2>1. template.outs \in Seq(Tags)
    BY TemplateAssumption DEF TypeOK
  <2> QED
    BY <2>1, ManagedOutboundsAre, TunnelOutboundAdded DEF XrayConfig
<1>4. /\ Len(c.rules) \in Nat /\ 1 <= Len(c.rules) /\ c.rules[1] = TunnelRule
         => Route(c, x) = Doko
      /\ /\ Len(c.rules) \in Nat /\ 2 <= Len(c.rules)
         /\ c.rules[1] = ApiRule /\ c.rules[2] = TunnelRule
         => Route(c, x) = Doko
  <2> HIDE DEF c
  <2>1. ASSUME NEW m \in {1, 2}, Len(c.rules) \in Nat, m <= Len(c.rules),
               c.rules[m] = TunnelRule, m = 2 => c.rules[1] = ApiRule
        PROVE  Route(c, x) = Doko
    <3>1. m \in 1..Len(c.rules) /\ Matches(c.rules[m], x) /\ c.rules[m].tag = Doko
      BY <1>1, <2>1
    <3>2. Handled(c, c.rules[m].tag)
      BY <1>3, <3>1 DEF Handled
    <3>3. m = 1 \/ (m = 2 /\ ~Matches(c.rules[1], x))
      BY <1>2, <2>1
    <3> QED
      BY <2>1, <3>1, <3>2, <3>3, RouteFirstOrSecond
  <2> QED
    BY <2>1
<1>5. CASE managed
  <2>1. c.rules = ManagedRules
    BY <1>5 DEF XrayConfig
  <2>2. /\ Len(ManagedRules) \in Nat /\ 2 <= Len(ManagedRules)
        /\ ManagedRules[1] = ApiRule /\ ManagedRules[2] = TunnelRule
    BY ManagedRulesAre, SortedRulesLists
  <2>3. /\ Len(c.rules) \in Nat /\ 2 <= Len(c.rules)
        /\ c.rules[1] = ApiRule /\ c.rules[2] = TunnelRule
    BY <2>1, <2>2, Zenon
  <2> QED
    BY <1>4, <2>3, Zenon
<1>6. CASE ~managed
  <2>1. c.rules = LegacyRules
    BY <1>6 DEF XrayConfig
  <2>2. Len(template.rules) \in Nat
    BY TemplateAssumption DEF TypeOK
  <2>3. Len(LegacyRules) \in Nat /\ 1 <= Len(LegacyRules) /\ LegacyRules[1] = TunnelRule
    BY <2>2, LegacyRulesAre
  <2>4. Len(c.rules) \in Nat /\ 1 <= Len(c.rules) /\ c.rules[1] = TunnelRule
    BY <2>1, <2>3, Zenon
  <2> QED
    BY <1>4, <2>4, Zenon
<1> QED
  BY <1>5, <1>6

\* The outbound a target resolves to is the one the tables say.
LEMMA HandledAsAvailable ==
    ASSUME TypeOK, managed, NEW i \in EnabledRules, rules[i].rule.tag # Doko
    PROVE  Handled(XrayConfig, rules[i].rule.tag) <=> Available(rules[i].rule.tag)
<1> DEFINE t == rules[i].rule.tag
<1>1. t \in System \cup UserTags
  BY ShapeAssumption DEF TypeOK, EnabledRules, Row
<1>2. t # "api"
  BY <1>1, TagAssumption DEF System
<1>3. XrayConfig.outs = WithTunnelOutbound(ManagedOutbounds)
  BY DEF XrayConfig
<1>4. Has(XrayConfig.outs, t) <=> Available(t)
  BY <1>3, ManagedOutboundsAre, TunnelOutboundAdded
<1> QED
  BY <1>2, <1>4 DEF Handled

\* In managed mode the first rule that matches in the configuration is the first one that
\* matches in the tables.
LEMMA ByTheTables == ASSUME TypeOK PROVE RoutesByTables
<1> DEFINE c == XrayConfig
           N == Cardinality(EnabledRules)
           k == IF Tunnels = {} THEN 1 ELSE 2
<1> SUFFICES ASSUME managed, Builds, \A i \in EnabledRules : rules[i].rule.tag # Doko,
                    NEW x \in Traffic, x.in \notin Tunnels \cup {"api"}
             PROVE  Route(XrayConfig, x) = ByTables(x)
  BY DEF RoutesByTables
<1> DEFINE hits == {i \in EnabledRules : Matches(rules[i].rule, x)}
           places == {n \in 1..N : SortedRules[n] \in hits}
<1>1. c.rules = ManagedRules
  BY DEF XrayConfig
<1>2. N \in Nat /\ k \in {1, 2} /\ Len(c.rules) = k + N /\ Len(c.rules) \in Nat
  BY <1>1, ManagedRulesAre, SortedRulesLists
<1>3. \A n \in 1..k : ~Matches(c.rules[n], x)
  <2>1. ~Matches(ApiRule, x) /\ (Tunnels # {} => ~Matches(TunnelRule, x))
    BY OtherInbound DEF ApiRule, TunnelRule
  <2>2. c.rules[1] = ApiRule /\ (Tunnels # {} => c.rules[2] = TunnelRule)
    BY <1>1, ManagedRulesAre
  <2>3. \A n \in 1..k : n = 1 \/ (n = 2 /\ Tunnels # {})
    OBVIOUS
  <2> HIDE DEF c, k
  <2> QED
    BY <2>1, <2>2, <2>3
<1>4. \A n \in 1..N : c.rules[k + n] = rules[SortedRules[n]].rule /\ SortedRules[n] \in EnabledRules
  BY <1>1, ManagedRulesAre, SortedRulesLists
<1>5. \A n \in 1..N : Matches(c.rules[k + n], x) <=> n \in places
  <2> HIDE DEF c, k, N
  <2> QED
    BY <1>4
<1>6. CASE places = {}
  <2>1. ASSUME NEW n \in 1..Len(c.rules) PROVE ~Matches(c.rules[n], x)
    <3>1. CASE n \in 1..k
      BY <1>3, <3>1
    <3>2. CASE n \notin 1..k
      <4> HIDE DEF c, k, N, places
      <4>1. n - k \in 1..N /\ k + (n - k) = n
        BY <1>2, <3>2
      <4>2. n - k \notin places
        BY <1>6
      <4> QED
        BY <1>5, <4>1, <4>2
    <3> QED
      BY <3>1, <3>2
  <2>2. Route(c, x) = Default(c)
    <3> HIDE DEF c
    <3> QED
      BY <2>1, RouteNone
  <2>3. Default(c) = "direct"
    BY ManagedOutboundsAre, TunnelOutboundAdded DEF XrayConfig, Default
  <2>4. hits = {}
    <3>1. \A i \in EnabledRules : \E n \in 1..N : SortedRules[n] = i
      BY SortedRulesLists
    <3> QED
      BY <1>6, <3>1
  <2> QED
    BY <2>2, <2>3, <2>4 DEF ByTables
<1>7. CASE places # {}
  <2>1. PICK m \in places : \A n \in places : m <= n
    <3>1. places \in SUBSET Nat
      BY <1>2
    <3> HIDE DEF places
    <3> QED
      BY <1>7, <3>1, LeastNatural
  <2> DEFINE i == SortedRules[m]
  <2>2. i \in hits /\ m \in 1..N
    OBVIOUS
  <2>3. \A j \in hits \ {i} : Earlier(i, j)
    <3> SUFFICES ASSUME NEW j \in hits, j # i PROVE Earlier(i, j)
      OBVIOUS
    <3>1. PICK n \in 1..N : SortedRules[n] = j
      BY SortedRulesLists
    <3>2. n \in places /\ m <= n /\ m # n
      BY <2>1, <3>1
    <3>3. m < n
      BY <1>2, <3>2
    <3> QED
      BY <3>1, <3>3, SortedRulesLists
  <2>4. (CHOOSE a \in hits : \A j \in hits \ {a} : Earlier(a, j)) = i
    <3>1. ASSUME NEW a \in hits, \A j \in hits \ {a} : Earlier(a, j) PROVE a = i
      <4>1. a # i => Earlier(a, i) /\ Earlier(i, a)
        BY <2>2, <2>3, <3>1
      <4>2. a \in EnabledRules /\ i \in EnabledRules
        BY <2>2
      <4> HIDE DEF i
      <4> QED
        BY <4>1, <4>2, EarlierOrder
    <3> HIDE DEF i, hits
    <3> QED
      BY <2>2, <2>3, <3>1, Zenon
  <2>5. hits # {} /\ i \in EnabledRules
    BY <2>2
  <2>6. ByTables(x) = IF Available(rules[i].rule.tag) THEN rules[i].rule.tag ELSE "closed"
    <3> DEFINE first == CHOOSE a \in hits : \A j \in hits \ {a} : Earlier(a, j)
    <3>1. ByTables(x) = IF hits = {} THEN "direct"
                        ELSE IF Available(rules[first].rule.tag) THEN rules[first].rule.tag
                        ELSE "closed"
      BY DEF ByTables
    <3> HIDE DEF hits, first, i
    <3> QED
      BY <2>4, <2>5, <3>1 DEF first
  <2>7. ASSUME NEW n \in 1..Len(c.rules), n < k + m PROVE ~Matches(c.rules[n], x)
    <3>1. CASE n \in 1..k
      BY <1>3, <3>1
    <3>2. CASE n \notin 1..k
      <4>1. m \in 1..N
        BY <2>2
      <4> HIDE DEF c, k, N, places
      <4>2. n - k \in 1..N /\ k + (n - k) = n /\ n - k < m
        BY <1>2, <2>7, <3>2, <4>1
      <4>3. n - k \notin places
        BY <2>1, <4>1, <4>2, <1>2
      <4> QED
        BY <1>5, <4>2, <4>3
    <3> QED
      BY <3>1, <3>2
  <2>8. /\ k + m \in 1..Len(c.rules) /\ Matches(c.rules[k + m], x)
        /\ c.rules[k + m] = rules[i].rule
    <3>1. m \in 1..N /\ m \in places
      BY <2>2
    <3>2. Matches(c.rules[k + m], x) /\ c.rules[k + m] = rules[i].rule
      BY <1>4, <1>5, <3>1
    <3> HIDE DEF c, k, N
    <3> QED
      BY <1>2, <3>1, <3>2
  <2>9. Route(c, x) = IF Handled(c, rules[i].rule.tag) THEN rules[i].rule.tag ELSE "closed"
    <3> DEFINE p == k + m
    <3>1. p \in 1..Len(c.rules) /\ Matches(c.rules[p], x) /\ c.rules[p] = rules[i].rule
      BY <2>8
    <3>2. \A n \in 1..Len(c.rules) : n < p => ~Matches(c.rules[n], x)
      BY <2>7
    <3> HIDE DEF c, p, i
    <3>3. Route(c, x) = IF Handled(c, c.rules[p].tag) THEN c.rules[p].tag ELSE "closed"
      BY <1>2, <3>1, <3>2, RouteFirst
    <3> QED
      BY <3>1, <3>3
  <2>10. Handled(c, rules[i].rule.tag) <=> Available(rules[i].rule.tag)
    BY <2>5, HandledAsAvailable
  <2> QED
    BY <2>6, <2>9, <2>10
<1> QED
  BY <1>6, <1>7

-----------------------------------------------------------------------------
(* A tunnel changes nothing for others: the configuration is compared, before  *)
(* and after the change, with the one the same tables give without tunnels.    *)

PlainRows == [n \in 1..Len(SortedRules) |-> rules[SortedRules[n]].rule]
Plain == IF managed THEN [outs |-> ManagedOutbounds, rules |-> <<ApiRule>> \o PlainRows] ELSE template

\* c is e but for one more rule, r, in place p, and the outbound for the tunnels.
WithRule(c, e, r, p) ==
    /\ Len(e.rules) \in Nat /\ Len(c.rules) = Len(e.rules) + 1 /\ p \in 1..Len(c.rules)
    /\ c.rules[p] = r
    /\ \A n \in 1..Len(e.rules) : /\ n < p => c.rules[n] = e.rules[n]
                                  /\ n >= p => c.rules[n + 1] = e.rules[n]

Effective(r) == r.in # {} \/ r.cond # {}
Distinct(s)  == \A m, n \in 1..Len(s) : m # n /\ s[m] # "" => s[m] # s[n]

\* Where the rules of the longer list come from.
LEMMA FromEither ==
    ASSUME NEW c, NEW e, NEW r, NEW p, WithRule(c, e, r, p), NEW n \in 1..Len(c.rules)
    PROVE  \/ n = p /\ c.rules[n] = r
           \/ n < p /\ n \in 1..Len(e.rules) /\ c.rules[n] = e.rules[n]
           \/ n > p /\ n - 1 \in 1..Len(e.rules) /\ c.rules[n] = e.rules[n - 1]
<1>1. Len(e.rules) \in Nat /\ p \in Nat /\ n \in Nat
  BY DEF WithRule
<1>2. CASE n > p
  <2>1. n - 1 \in 1..Len(e.rules) /\ n - 1 >= p /\ (n - 1) + 1 = n
    BY <1>1, <1>2 DEF WithRule
  <2> QED
    BY <1>2, <2>1 DEF WithRule
<1>3. CASE n < p
  <2>1. n \in 1..Len(e.rules)
    BY <1>1, <1>3 DEF WithRule
  <2> QED
    BY <1>3, <2>1 DEF WithRule
<1> QED
  BY <1>1, <1>2, <1>3 DEF WithRule

\* Where the rules of the shorter one are.
LEMMA ToEither ==
    ASSUME NEW c, NEW e, NEW r, NEW p, WithRule(c, e, r, p), NEW n \in 1..Len(e.rules)
    PROVE  LET k == IF n < p THEN n ELSE n + 1
           IN  k \in 1..Len(c.rules) /\ k # p /\ c.rules[k] = e.rules[n]
  BY DEF WithRule

\* A rule that does not match decides nothing.
LEMMA OneRuleMore ==
    ASSUME NEW c, NEW e, NEW r, NEW p, WithRule(c, e, r, p), NEW x, ~Matches(r, x),
           \A n \in 1..Len(e.rules) : Handled(c, e.rules[n].tag) <=> Handled(e, e.rules[n].tag),
           Default(c) = Default(e)
    PROVE  Route(c, x) = Route(e, x)
<1> DEFINE hits == {n \in 1..Len(e.rules) : Matches(e.rules[n], x)}
<1>1. CASE hits = {}
  <2>1. \A n \in 1..Len(e.rules) : ~Matches(e.rules[n], x)
    BY <1>1
  <2>2. ASSUME NEW n \in 1..Len(c.rules) PROVE ~Matches(c.rules[n], x)
    BY <2>1, FromEither
  <2> QED
    BY <2>1, <2>2, RouteNone
<1>2. CASE hits # {}
  <2>1. Len(e.rules) \in Nat /\ Len(c.rules) \in Nat /\ p \in Nat
    BY DEF WithRule
  <2>2. hits \in SUBSET Nat
    BY <2>1
  <2>3. PICK m \in hits : \A n \in hits : m <= n
    <3> HIDE DEF hits
    <3> QED
      BY <1>2, <2>2, LeastNatural
  <2>4. m \in 1..Len(e.rules) /\ Matches(e.rules[m], x)
    OBVIOUS
  <2>5. \A n \in 1..Len(e.rules) : n < m => ~Matches(e.rules[n], x)
    <3> SUFFICES ASSUME NEW n \in 1..Len(e.rules), n < m, Matches(e.rules[n], x) PROVE FALSE
      OBVIOUS
    <3>1. n \in hits /\ n \in Nat /\ m \in Nat
      BY <2>1, <2>4
    <3> HIDE DEF hits
    <3> QED
      BY <2>3, <3>1
  <2> HIDE DEF hits
  <2>6. Route(e, x) = IF Handled(e, e.rules[m].tag) THEN e.rules[m].tag ELSE "closed"
    BY <2>1, <2>4, <2>5, RouteFirst
  <2> DEFINE k == IF m < p THEN m ELSE m + 1
  <2>7. k \in 1..Len(c.rules) /\ c.rules[k] = e.rules[m]
    BY <2>4, ToEither
  <2>8. ASSUME NEW n \in 1..Len(c.rules), n < k PROVE ~Matches(c.rules[n], x)
    <3>1. CASE n = p /\ c.rules[n] = r
      BY <3>1
    <3>2. CASE n < p /\ n \in 1..Len(e.rules) /\ c.rules[n] = e.rules[n]
      <4>1. n < m
        BY <2>1, <2>4, <2>8, <3>2
      <4> QED
        BY <2>5, <3>2, <4>1
    <3>3. CASE n > p /\ n - 1 \in 1..Len(e.rules) /\ c.rules[n] = e.rules[n - 1]
      <4>1. n - 1 < m
        BY <2>1, <2>4, <2>8, <3>3
      <4> QED
        BY <2>5, <3>3, <4>1
    <3> QED
      BY <3>1, <3>2, <3>3, FromEither
  <2> HIDE DEF k
  <2>9. Route(c, x) = IF Handled(c, c.rules[k].tag) THEN c.rules[k].tag ELSE "closed"
    <3>1. Matches(c.rules[k], x)
      BY <2>4, <2>7
    <3> QED
      BY <2>1, <2>7, <2>8, <3>1, RouteFirst
  <2> QED
    BY <2>4, <2>6, <2>7, <2>9
<1> QED
  BY <1>1, <1>2

\* Nor does the outbound for the tunnels take a tag that is in use.
LEMMA StillDistinct ==
    ASSUME NEW tags \in Seq(Tags)
    PROVE  Distinct(WithTunnelOutbound(tags)) <=> Distinct(tags)
<1>1. CASE Tunnels = {} \/ Has(tags, Doko)
  BY <1>1 DEF WithTunnelOutbound
<1>2. CASE ~(Tunnels = {} \/ Has(tags, Doko))
  <2> DEFINE new == Append(tags, Doko)
  <2>1. WithTunnelOutbound(tags) = new
    BY <1>2, Zenon DEF WithTunnelOutbound
  <2>2. /\ Len(tags) \in Nat /\ Len(new) = Len(tags) + 1 /\ new[Len(tags) + 1] = Doko
        /\ \A n \in 1..Len(tags) : new[n] = tags[n]
    <3>1. Doko \in Tags
      BY DEF Tags
    <3> QED
      BY <3>1
  <2>3. \A n \in 1..Len(tags) : tags[n] # Doko
    BY <1>2 DEF Has
  <2> HIDE DEF new
  <2>4. ASSUME Distinct(tags), NEW m \in 1..Len(new), NEW n \in 1..Len(new), m # n, new[m] # ""
        PROVE  new[m] # new[n]
    <3>1. CASE m \in 1..Len(tags) /\ n \in 1..Len(tags)
      BY <2>2, <2>4, <3>1 DEF Distinct
    <3>2. CASE m = Len(tags) + 1 /\ n \in 1..Len(tags)
      BY <2>2, <2>3, <3>2
    <3>3. CASE m \in 1..Len(tags) /\ n = Len(tags) + 1
      BY <2>2, <2>3, <3>3
    <3>4. \A k \in 1..Len(new) : k \in 1..Len(tags) \/ k = Len(tags) + 1
      BY <2>2
    <3> QED
      BY <2>4, <3>1, <3>2, <3>3, <3>4
  <2>5. ASSUME Distinct(new) PROVE Distinct(tags)
    <3>1. \A k \in 1..Len(tags) : k \in 1..Len(new)
      BY <2>2
    <3> QED
      BY <2>2, <2>5, <3>1, Zenon DEF Distinct
  <2>6. Distinct(tags) => Distinct(new)
    BY <2>4 DEF Distinct
  <2> QED
    BY <2>1, <2>5, <2>6
<1> QED
  BY <1>1, <1>2

\* The configuration is the one without tunnels, or has the tunnels' rule besides, first or
\* second; its outbounds are the same but for the tunnels'.
LEMMA PlainOrMore ==
    ASSUME TypeOK, Lossless
    PROVE  /\ Plain.outs \in Seq(Tags) /\ Plain.outs # <<>>
           /\ XrayConfig.outs = WithTunnelOutbound(Plain.outs)
           /\ Len(Plain.rules) \in Nat
           /\ \A n \in 1..Len(Plain.rules) : Plain.rules[n].tag # Doko
           /\ Tunnels = {} => XrayConfig.rules = Plain.rules
           /\ Tunnels # {} => \E p \in {1, 2} : WithRule(XrayConfig, Plain, TunnelRule, p)
<1>1. CASE managed
  <2> DEFINE N == Cardinality(EnabledRules)
  <2>1. /\ N \in Nat /\ SortedRules \in [1..N -> EnabledRules] /\ Len(SortedRules) = N
    <3>1. N \in Nat /\ SortedRules \in [1..N -> EnabledRules]
      BY SortedRulesLists
    <3> HIDE DEF N
    <3> QED
      BY <3>1
  <2>2. Plain.outs = ManagedOutbounds /\ Plain.rules = <<ApiRule>> \o PlainRows
    BY <1>1 DEF Plain
  <2>3. \A i \in EnabledRules : rules[i].rule \in Rule
    BY ShapeAssumption DEF TypeOK, EnabledRules, Row
  <2>4. /\ PlainRows \in Seq(Rule) /\ Len(PlainRows) = N
        /\ \A n \in 1..N : PlainRows[n] = rules[SortedRules[n]].rule
    <3>1. PlainRows \in [1..N -> Rule]
      BY <2>1, <2>3 DEF PlainRows
    <3>2. \A n \in 1..N : PlainRows[n] = rules[SortedRules[n]].rule
      BY <2>1 DEF PlainRows
    <3> HIDE DEF N
    <3> QED
      BY <2>1, <3>1, <3>2
  <2>5. ApiRule \in Rule
    <3>1. "api" \in Tags
      BY DEF Tags
    <3> QED
      BY <3>1 DEF ApiRule, Rule
  <2>6. /\ Len(Plain.rules) = 1 + N /\ Plain.rules[1] = ApiRule
        /\ \A n \in 1..N : Plain.rules[1 + n] = rules[SortedRules[n]].rule
    BY <2>2, <2>4, <2>5, Prefixed
  <2> HIDE DEF N
  <2>7. \A n \in 1..Len(Plain.rules) : n # 1 => n - 1 \in 1..N /\ 1 + (n - 1) = n
    BY <2>1, <2>6
  <2>8. ASSUME NEW n \in 1..Len(Plain.rules) PROVE Plain.rules[n].tag # Doko
    <3>1. CASE n = 1
      BY <2>6, <3>1 DEF ApiRule, Doko
    <3>2. CASE n # 1
      <4>1. n - 1 \in 1..N /\ Plain.rules[n] = rules[SortedRules[n - 1]].rule
        BY <2>6, <2>7, <3>2
      <4>2. SortedRules[n - 1] \in EnabledRules
        BY <2>1, <4>1
      <4> QED
        BY <1>1, <4>1, <4>2 DEF Lossless
    <3> QED
      BY <3>1, <3>2
  <2>9. ASSUME Tunnels = {} PROVE XrayConfig.rules = Plain.rules
    <3>1. ManagedRules = <<ApiRule>> \o <<>> \o PlainRows
      BY <2>9, Zenon DEF ManagedRules, PlainRows
    <3>2. <<ApiRule>> \o <<>> \o PlainRows = <<ApiRule>> \o PlainRows
      BY <2>4, <2>5
    <3> QED
      BY <1>1, <2>2, <3>1, <3>2 DEF XrayConfig
  <2>10. ASSUME Tunnels # {} PROVE WithRule(XrayConfig, Plain, TunnelRule, 2)
    <3> DEFINE c == XrayConfig
    <3>1. c.rules = ManagedRules
      BY <1>1 DEF XrayConfig
    <3>2. /\ Len(c.rules) = 2 + N /\ c.rules[1] = ApiRule /\ c.rules[2] = TunnelRule
          /\ \A n \in 1..N : c.rules[2 + n] = rules[SortedRules[n]].rule
      BY <2>10, <3>1, ManagedRulesAre DEF N
    <3> HIDE DEF c
    <3>3. ASSUME NEW n \in 1..Len(Plain.rules), n >= 2 PROVE c.rules[n + 1] = Plain.rules[n]
      <4>1. n - 1 \in 1..N /\ 2 + (n - 1) = n + 1 /\ 1 + (n - 1) = n
        BY <2>1, <2>6, <3>3
      <4> QED
        BY <2>6, <3>2, <4>1
    <3>4. ASSUME NEW n \in 1..Len(Plain.rules), n < 2 PROVE c.rules[n] = Plain.rules[n]
      <4>1. n = 1
        BY <3>4
      <4> QED
        BY <2>6, <3>2, <4>1
    <3>5. /\ Len(Plain.rules) \in Nat /\ Len(c.rules) = Len(Plain.rules) + 1
          /\ 2 \in 1..Len(c.rules)
      BY <2>1, <2>6, <3>2
    <3> QED
      BY <3>2, <3>3, <3>4, <3>5 DEF WithRule, c
  <2>11. Len(Plain.rules) \in Nat
    BY <2>1, <2>6
  <2>12. XrayConfig.outs = WithTunnelOutbound(Plain.outs)
    BY <1>1, <2>2 DEF XrayConfig
  <2>13. Plain.outs \in Seq(Tags) /\ Plain.outs # <<>>
    BY <2>2, ManagedOutboundsAre
  <2> QED
    BY <2>8, <2>9, <2>10, <2>11, <2>12, <2>13
<1>2. CASE ~managed
  <2> DEFINE old == template.rules
             again == [n \in 1..Len(old) |-> Remarshal(old[n])]
  <2>1. Plain = template
    BY <1>2 DEF Plain
  <2>2. template.outs \in Seq(Tags) /\ old \in Seq(Rule) /\ template.outs # <<>>
    BY <1>2, TemplateAssumption DEF TypeOK, Lossless
  <2>3. Len(old) \in Nat /\ \A n \in 1..Len(old) : old[n] \in Rule
    BY <2>2
  <2>4. \A n \in 1..Len(old) : old[n].cond \subseteq KnownFields /\ old[n].tag # Doko
    BY <1>2 DEF Lossless
  <2>5. XrayConfig.rules = LegacyRules /\ XrayConfig.outs = WithTunnelOutbound(template.outs)
    BY <1>2 DEF XrayConfig
  <2>6. ASSUME NEW n \in 1..Len(old) PROVE again[n] = old[n]
    <3>1. again[n] = [old[n] EXCEPT !.cond = old[n].cond \cap KnownFields]
      BY DEF Remarshal
    <3>2. old[n].cond \cap KnownFields = old[n].cond
      BY <2>4
    <3>3. [old[n] EXCEPT !.cond = old[n].cond] = old[n]
      BY <2>3 DEF Rule
    <3> HIDE DEF again, old
    <3> QED
      BY <3>1, <3>2, <3>3
  <2>7. again \in Seq(Rule) /\ Len(again) = Len(old)
    <3>1. again \in [1..Len(old) -> Rule]
      <4>1. again = [n \in 1..Len(old) |-> again[n]]
        OBVIOUS
      <4>2. \A n \in 1..Len(old) : again[n] \in Rule
        BY <2>3, <2>6
      <4> HIDE DEF again, old
      <4> QED
        BY <4>1, <4>2
    <3> HIDE DEF again, old
    <3> QED
      BY <2>3, <3>1
  <2>8. ASSUME Tunnels # {} PROVE WithRule(XrayConfig, Plain, TunnelRule, 1)
    <3>1. LegacyRules = <<TunnelRule>> \o again
      BY <2>8, Zenon DEF LegacyRules
    <3>2. TunnelRule \in Rule
      <4>1. Doko \in Tags
        BY DEF Tags
      <4>2. Tunnels \subseteq Ins \cup {"api"}
        BY DEF Tunnels
      <4> QED
        BY <4>1, <4>2 DEF TunnelRule, Rule
    <3> HIDE DEF again
    <3>3. /\ Len(LegacyRules) = 1 + Len(again) /\ LegacyRules[1] = TunnelRule
          /\ \A n \in 1..Len(again) : LegacyRules[1 + n] = again[n]
      BY <2>7, <3>1, <3>2, Prefixed
    <3> HIDE DEF old
    <3>4. \A n \in 1..Len(old) : n + 1 = 1 + n /\ n >= 1
      BY <2>3
    <3>5. \A n \in 1..Len(old) : LegacyRules[n + 1] = old[n]
      BY <2>6, <2>7, <3>3, <3>4
    <3>6. 1 \in 1..Len(LegacyRules) /\ Len(LegacyRules) = Len(old) + 1
      BY <2>3, <2>7, <3>3
    <3>7. Plain.rules = old
      BY <2>1 DEF old
    <3>8. \A n \in 1..Len(old) : ~(n < 1)
      BY <2>3
    <3> QED
      BY <2>3, <2>5, <3>3, <3>5, <3>6, <3>7, <3>8 DEF WithRule
  <2>9. Tunnels = {} => XrayConfig.rules = Plain.rules
    BY <2>1, <2>5 DEF LegacyRules
  <2> HIDE DEF again
  <2> QED
    BY <2>1, <2>2, <2>3, <2>4, <2>5, <2>8, <2>9
<1> QED
  BY <1>1, <1>2

\* So xray accepts both or neither, and sends what comes from no tunnel the same way.
LikePlain ==
    Lossless =>
      /\ Accepts(XrayConfig) <=> Accepts(Plain)
      /\ \A x \in Traffic : x.in \notin Tunnels => Route(XrayConfig, x) = Route(Plain, x)

LEMMA AsWithoutTunnels == ASSUME TypeOK PROVE LikePlain
<1> SUFFICES ASSUME Lossless
             PROVE  /\ Accepts(XrayConfig) <=> Accepts(Plain)
                    /\ \A x \in Traffic : x.in \notin Tunnels => Route(XrayConfig, x) = Route(Plain, x)
  BY DEF LikePlain
<1> DEFINE c == XrayConfig
           e == Plain
<1>1. /\ e.outs \in Seq(Tags) /\ e.outs # <<>> /\ c.outs = WithTunnelOutbound(e.outs)
      /\ Len(e.rules) \in Nat /\ \A n \in 1..Len(e.rules) : e.rules[n].tag # Doko
      /\ Tunnels = {} => c.rules = e.rules
      /\ Tunnels # {} => \E p \in {1, 2} : WithRule(c, e, TunnelRule, p)
  BY PlainOrMore
<1> HIDE DEF c, e
<1>2. Default(c) = Default(e)
  <2>1. c.outs # <<>> /\ c.outs[1] = e.outs[1]
    BY <1>1, TunnelOutboundAdded
  <2> QED
    BY <1>1, <2>1 DEF Default
<1>3. \A n \in 1..Len(e.rules) : Handled(c, e.rules[n].tag) <=> Handled(e, e.rules[n].tag)
  <2>1. \A t : Has(c.outs, t) <=> Has(e.outs, t) \/ (Tunnels # {} /\ t = Doko)
    BY <1>1, TunnelOutboundAdded
  <2> QED
    BY <1>1, <2>1 DEF Handled
<1>4. Distinct(c.outs) <=> Distinct(e.outs)
  BY <1>1, StillDistinct
<1>5. \A a \in {c, e} : Accepts(a) <=> (\A n \in 1..Len(a.rules) : Effective(a.rules[n])) /\ Distinct(a.outs)
  BY DEF Accepts, Effective, Distinct
<1>6. CASE Tunnels = {}
  <2>1. c.rules = e.rules
    BY <1>1, <1>6
  <2>2. ASSUME NEW x \in Traffic PROVE Route(c, x) = Route(e, x)
    <3> DEFINE hits == {n \in 1..Len(e.rules) : Matches(e.rules[n], x)}
    <3>1. CASE hits = {}
      <4>1. \A n \in 1..Len(e.rules) : ~Matches(e.rules[n], x)
        BY <3>1
      <4> QED
        BY <1>2, <2>1, <4>1, RouteNone
    <3>2. CASE hits # {}
      <4>1. c.outs = e.outs
        BY <1>1, <1>6 DEF WithTunnelOutbound
      <4> QED
        BY <2>1, <3>2, <4>1 DEF Route, Handled
    <3> QED
      BY <3>1, <3>2
  <2> QED
    BY <1>4, <1>5, <2>1, <2>2 DEF c, e
<1>7. CASE Tunnels # {}
  <2>1. PICK p \in {1, 2} : WithRule(c, e, TunnelRule, p)
    BY <1>1, <1>7
  <2>2. ASSUME NEW x \in Traffic, x.in \notin Tunnels PROVE Route(c, x) = Route(e, x)
    <3>1. ~Matches(TunnelRule, x)
      BY <1>7, <2>2, OtherInbound DEF TunnelRule
    <3> QED
      BY <1>2, <1>3, <2>1, <3>1, OneRuleMore
  <2>3. Effective(TunnelRule)
    BY <1>7 DEF Effective, TunnelRule
  <2>4. (\A n \in 1..Len(c.rules) : Effective(c.rules[n]))
          <=> \A n \in 1..Len(e.rules) : Effective(e.rules[n])
    <3>1. ASSUME \A n \in 1..Len(c.rules) : Effective(c.rules[n]), NEW n \in 1..Len(e.rules)
          PROVE  Effective(e.rules[n])
      <4> DEFINE k == IF n < p THEN n ELSE n + 1
      <4>1. k \in 1..Len(c.rules) /\ c.rules[k] = e.rules[n]
        BY <2>1, ToEither
      <4> HIDE DEF k
      <4> QED
        BY <3>1, <4>1, Zenon
    <3>2. ASSUME \A n \in 1..Len(e.rules) : Effective(e.rules[n]), NEW n \in 1..Len(c.rules)
          PROVE  Effective(c.rules[n])
      BY <2>1, <2>3, <3>2, FromEither
    <3> QED
      BY <3>1, <3>2
  <2>5. Accepts(c) <=> Accepts(e)
    BY <1>4, <1>5, <2>4, Zenon
  <2> QED
    BY <2>2, <2>5 DEF c, e
<1> QED
  BY <1>6, <1>7

-----------------------------------------------------------------------------
(* The theorems.                                                            *)

\* The configuration xray is given carries out the tables: whatever their order and ids,
\* the first enabled rule that matches decides for the traffic of other inbounds.
THEOREM TablesDecide == Spec => []RoutesByTables
  BY TypeCorrect, ByTheTables, PTL

\* The statistics API stays reachable.
THEOREM ApiStays == Spec => []ApiReachable
  BY TypeCorrect, ApiReached, PTL

\* Tunnels are never restricted by a rule.
THEOREM TunnelsStayFree == Spec => []TunnelsUnrestricted
  BY TypeCorrect, TunnelsFree, PTL

\* A tunnel that is enabled, disabled or changed changes nothing for the traffic of other
\* inbounds, and never keeps a configuration from being built or makes xray refuse it, if
\* nothing is lost on the way: in legacy mode, if the panel's types hold the template.
THEOREM TunnelsAffectNoOther == Spec => TunnelsChangeNoOther
<1>1. ASSUME LikePlain, LikePlain', [Next]_vars
      PROVE  [\A i \in Ins : ins'[i] # ins[i] /\ Lossless =>
                LET c == XrayConfig
                    d == XrayConfig'
                IN  /\ Builds /\ Accepts(c) <=> Builds' /\ Accepts(d)
                    /\ Builds /\ Builds' => \A x \in Traffic : x.in # i /\ x.in \notin Tunnels =>
                         Route(c, x) = Route(d, x)]_vars
  <2> SUFFICES ASSUME Next, NEW i \in Ins, ins'[i] # ins[i], Lossless
               PROVE  /\ Builds <=> Builds'
                      /\ Accepts(XrayConfig) <=> Accepts(XrayConfig')
                      /\ \A x \in Traffic : x.in # i /\ x.in \notin Tunnels =>
                           Route(XrayConfig, x) = Route(XrayConfig', x)
    BY <1>1
  <2>1. PICK j \in Ins : UpdateInbound(j)
    BY DEF Next, ToggleOutbound, ToggleRule, ReorderRules
  <2>2. UNCHANGED <<managed, template, outs, rules>> /\ \A k \in Ins \ {i} : ins'[k] = ins[k]
    BY <2>1 DEF UpdateInbound
  <2>3. Plain' = Plain
    <3>1. UserOutbounds' = UserOutbounds /\ EnabledRules' = EnabledRules
      BY <2>2 DEF UserOutbounds, EnabledRules
    <3>2. ManagedOutbounds' = ManagedOutbounds
      BY <2>2, <3>1 DEF ManagedOutbounds
    <3>3. \A k : Before(k)' = Before(k)
      BY <2>2, <3>1 DEF Before, Earlier
    <3>4. SortedRules' = SortedRules
      BY <3>1, <3>3 DEF SortedRules
    <3>5. PlainRows' = PlainRows
      BY <2>2, <3>4 DEF PlainRows
    <3> QED
      BY <2>2, <3>2, <3>5 DEF Plain
  <2>4. Lossless'
    BY <2>2 DEF Lossless, EnabledRules
  <2>5. \A k \in Traffic : k.in # i /\ k.in \notin Tunnels => k.in \notin Tunnels'
    BY <2>2 DEF Tunnels
  <2>6. /\ Accepts(XrayConfig) <=> Accepts(Plain)
        /\ \A x \in Traffic : x.in \notin Tunnels => Route(XrayConfig, x) = Route(Plain, x)
    BY <1>1 DEF LikePlain
  <2>7. /\ Accepts(XrayConfig') <=> Accepts(Plain')
        /\ \A x \in Traffic : x.in \notin Tunnels' => Route(XrayConfig', x) = Route(Plain', x)
    BY <1>1, <2>4 DEF LikePlain
  <2>8. Builds <=> Builds'
    <3>1. managed' = managed /\ template' = template
      BY <2>2
    <3>2. Unmarshals <=> Unmarshals'
      BY <3>1, Zenon DEF Unmarshals
    <3>3. CASE managed
      BY <3>1, <3>2, <3>3, Zenon DEF Builds
    <3>4. CASE ~managed
      <4>1. Unmarshals
        BY <3>4, FieldsAssumption DEF Lossless, Unmarshals
      <4> QED
        BY <3>2, <4>1, Zenon DEF Builds
    <3> QED
      BY <3>3, <3>4
  <2> QED
    BY <2>3, <2>5, <2>6, <2>7, <2>8
<1>2. TypeOK => LikePlain
  BY AsWithoutTunnels
<1> QED
  BY <1>1, <1>2, TypeCorrect, PTL DEF Spec, TunnelsChangeNoOther

-----------------------------------------------------------------------------
(***************************************************************************)
(* PanelHTTPS, for any requests, timers and faults.  While no switch has   *)
(* been hurried, one request is at work at a time (Alone), and a restart   *)
(* is pending only while it waits for one (AtRest).  Knows says what it    *)
(* can rely on at each of its steps, and Starting the same of the main     *)
(* goroutine: in particular that what Start reads is one pair, which fits  *)
(* unless a file is missing (Sound).                                       *)
(***************************************************************************)

(* Types.                                                                   *)

\* The state of the requests, what lasts, and the panel.
RequestsTyped ==
    /\ pc \in [Requests -> Steps]
    /\ op \in [Requests -> {"none", "upload", "issue", "enable", "disable"}]
    /\ goal \in [Requests -> Conf] /\ snap \in [Requests -> Conf]
    /\ back \in [Requests -> BOOLEAN] /\ made \in [Requests -> Versions]

SettingsTyped ==
    /\ conf \in Conf /\ loopback \in BOOLEAN
    /\ files \in [Pairs -> [crt : Versions, key : Versions]] /\ begun \in Versions

PanelTyped ==
    /\ panel \in {"up", "stopped", "readkey", "load", "down"}
    /\ boot \in [cert : Paths, key : Paths]
    /\ serves \in {"closed", "http", "https"} /\ sig \in BOOLEAN
    /\ timers \in [Requests -> 0..MaxTimers]
    /\ faults \in 0..MaxFaults
    /\ unread \in BOOLEAN /\ hurried \in BOOLEAN

LEMMA TypedParts == HTTPSTypeOK <=> RequestsTyped /\ SettingsTyped /\ PanelTyped
BY DEF HTTPSTypeOK, RequestsTyped, SettingsTyped, PanelTyped

LEMMA Values ==
    /\ HTTP \in Conf /\ 0 \in Versions /\ \A n \in Versions : n \in Nat
    /\ \A p \in Pairs, m \in Modes : PairOf(p, m) \in Conf
    /\ \A n \in Versions : n < MaxRequests => n + 1 \in Versions
    /\ MaxFaults \in Nat /\ MaxTimers \in Nat /\ 0 \in 0..MaxTimers /\ 0 \in 0..MaxFaults
BY BoundAssumption DEF HTTP, Conf, Paths, Pairs, Modes, Versions, PairOf

LEMMA FinishTyped == ASSUME RequestsTyped, NEW t \in Requests, Finish(t) PROVE RequestsTyped'
BY Values DEF RequestsTyped, Finish, Goto, Steps

LEMMA ExitTyped ==
    ASSUME SettingsTyped, PanelTyped, Exit, faults' \in 0..MaxFaults, hurried' \in BOOLEAN
    PROVE  RequestsTyped' /\ SettingsTyped' /\ PanelTyped'
<1>1. RequestsTyped'
  BY Values DEF Exit, RequestsTyped, Steps
<1>2. SettingsTyped'
  BY DEF Exit, SettingsTyped
<1>3. PanelTyped'
  BY Values DEF Exit, PanelTyped, Paths
<1> QED
  BY <1>1, <1>2, <1>3

LEMMA BeginTyped ==
    ASSUME RequestsTyped, SettingsTyped, PanelTyped, NEW t \in Requests, NEW what, NEW step, NEW g \in Conf,
           Begin(t, what, step, g),
           what \in {"upload", "issue", "enable", "disable"}, step \in Steps,
           UNCHANGED files, snap' \in [Requests -> Conf], made' \in [Requests -> Versions]
    PROVE  RequestsTyped' /\ SettingsTyped' /\ PanelTyped'
<1>1. RequestsTyped'
  BY DEF Begin, Goto, RequestsTyped
<1>2. SettingsTyped'
  BY Values DEF Begin, SettingsTyped
<1>3. PanelTyped'
  BY DEF Begin, PanelTyped, mainVars
<1> QED
  BY <1>1, <1>2, <1>3

LEMMA RequestTyped ==
    ASSUME RequestsTyped, SettingsTyped, PanelTyped, NEW t \in Requests, Request(t)
    PROVE  RequestsTyped' /\ SettingsTyped' /\ PanelTyped'
<1>0. {"crt", "capture", "setcert"} \subseteq Steps
  BY DEF Steps
<1>1. CASE Upload(t) \/ IssueHTTP(t)
  <2>1. begun + 1 \in Versions
    BY <1>1, Values DEF Upload, IssueHTTP, Begin, SettingsTyped
  <2>2. snap' \in [Requests -> Conf] /\ made' \in [Requests -> Versions] /\ UNCHANGED files
    BY <1>1, <2>1 DEF Upload, IssueHTTP, RequestsTyped
  <2>3. PairOf("manual", "manual") \in Conf /\ PairOf("acme", "acme_http") \in Conf
    BY Values DEF Pairs, Modes
  <2> QED
    BY <1>0, <1>1, <2>2, <2>3, BeginTyped DEF Upload, IssueHTTP
<1>2. CASE EnableHTTPS(t)
  <2>1. EnablePaths \in Conf
    BY Values DEF EnablePaths, SettingsTyped, Conf, Modes, Pairs
  <2> QED
    BY <1>0, <1>2, <2>1, BeginTyped DEF EnableHTTPS, RequestsTyped
<1>3. CASE DisableHTTPS(t)
  <2>1. snap' \in [Requests -> Conf] /\ made' \in [Requests -> Versions] /\ UNCHANGED files
    BY <1>3 DEF DisableHTTPS, RequestsTyped, SettingsTyped
  <2> QED
    BY <1>0, <1>3, <2>1, Values, BeginTyped DEF DisableHTTPS
<1>4. CASE ReloadRequest(t)
  <2>1. RequestsTyped'
    BY <1>4 DEF ReloadRequest, reqVars, RequestsTyped
  <2>2. SettingsTyped'
    BY <1>4, Values DEF ReloadRequest, SettingsTyped
  <2>3. PanelTyped'
    BY <1>4, BoundAssumption DEF ReloadRequest, PanelTyped, mainVars
  <2> QED
    BY <2>1, <2>2, <2>3
<1> QED
  BY <1>1, <1>2, <1>3, <1>4 DEF Request

\* The steps of a request touch nothing of the panel but what the probe and RestartPanel do.
LEMMA ProceedTyped ==
    ASSUME RequestsTyped, SettingsTyped, PanelTyped, NEW t \in Requests, Proceed(t)
    PROVE  RequestsTyped' /\ SettingsTyped' /\ PanelTyped'
<1>1. PanelTyped'
  <2>1. CASE RestartPanel(t)
    BY <2>1, Values DEF RestartPanel, PanelTyped, mainVars
  <2>2. CASE ProbeTimeout(t)
    BY <2>2 DEF ProbeTimeout, PanelTyped, mainVars
  <2>3. CASE ~RestartPanel(t) /\ ~ProbeTimeout(t)
    <3>1. UNCHANGED <<mainVars, timers, faults, ghostVars>>
      BY <2>3 DEF Proceed, WriteCert, WriteKey, WriteFile, Capture, CaptureRefuses, SetCertFile,
                  SetKeyFile, SetWebCertMode, ProbeOk
    <3> QED
      BY <3>1 DEF PanelTyped, mainVars, ghostVars
  <2> QED
    BY <2>1, <2>2, <2>3
<1>2. RequestsTyped'
  <2>1. CASE WriteCert(t) \/ WriteKey(t)
    BY <2>1 DEF WriteCert, WriteKey, WriteFile, Written, Goto, RequestsTyped, Steps
  <2>2. CASE Capture(t) \/ SetCertFile(t) \/ SetKeyFile(t) \/ RestartPanel(t)
    BY <2>2 DEF Capture, SetCertFile, SetKeyFile, RestartPanel, Goto, RequestsTyped, SettingsTyped, Steps
  <2>3. CASE CaptureRefuses(t) \/ ProbeOk(t)
    BY <2>3, FinishTyped DEF CaptureRefuses, ProbeOk
  <2>4. CASE SetWebCertMode(t)
    BY <2>4, FinishTyped DEF SetWebCertMode, Goto, RequestsTyped, Steps
  <2>5. CASE ProbeTimeout(t)
    BY <2>5, FinishTyped DEF ProbeTimeout, Goto, RequestsTyped, Steps
  <2> QED
    BY <2>1, <2>2, <2>3, <2>4, <2>5 DEF Proceed
<1>3. SettingsTyped'
  <2>1. CASE WriteCert(t) \/ WriteKey(t)
    <3>1. files' \in [Pairs -> [crt : Versions, key : Versions]]
      <4>1. made[t] \in Versions
        BY DEF RequestsTyped
      <4>2. ASSUME goal[t].cert \in Pairs
            PROVE  /\ [files[goal[t].cert] EXCEPT !.crt = made[t]] \in [crt : Versions, key : Versions]
                   /\ [files[goal[t].cert] EXCEPT !.key = made[t]] \in [crt : Versions, key : Versions]
        BY <4>1, <4>2 DEF SettingsTyped
      <4> QED
        BY <2>1, <4>2 DEF WriteCert, WriteKey, WriteFile, SettingsTyped
    <3> QED
      BY <2>1, <3>1 DEF WriteCert, WriteKey, WriteFile, SettingsTyped
  <2>2. CASE Capture(t) \/ CaptureRefuses(t) \/ RestartPanel(t) \/ ProbeOk(t) \/ ProbeTimeout(t)
    BY <2>2 DEF Capture, CaptureRefuses, RestartPanel, ProbeOk, ProbeTimeout, SettingsTyped
  <2>3. CASE SetCertFile(t) \/ SetKeyFile(t) \/ SetWebCertMode(t)
    <3>1. goal[t] \in Conf /\ DisabledMode(t) \in Modes
      BY DEF RequestsTyped, DisabledMode, Modes
    <3> QED
      BY <2>3, <3>1 DEF SetCertFile, SetKeyFile, SetWebCertMode, SettingsTyped, Conf
  <2> QED
    BY <2>1, <2>2, <2>3 DEF Proceed
<1> QED
  BY <1>1, <1>2, <1>3

LEMMA MainTyped ==
    ASSUME RequestsTyped, SettingsTyped, PanelTyped, Main \/ StartPanel \/ StartError \/ Killed
    PROVE  RequestsTyped' /\ SettingsTyped' /\ PanelTyped'
<1>1. CASE StartFails \/ StartError \/ Killed
  <2>1. Exit /\ faults' \in 0..MaxFaults /\ hurried' \in BOOLEAN
    <3>1. CASE StartFails
      BY <3>1 DEF StartFails, PanelTyped
    <3>2. CASE StartError \/ Killed
      <4>1. Exit /\ faults < MaxFaults /\ faults' = faults + 1 /\ hurried' = TRUE
        BY <3>2 DEF StartError, Killed, Fault
      <4> QED
        BY <4>1, Values DEF PanelTyped
    <3> QED
      BY <1>1, <3>1, <3>2
  <2> QED
    BY <2>1, ExitTyped
<1>2. CASE Stop \/ GetCertFile \/ Listen \/ StartPanel
  <2>1. RequestsTyped'
    BY <1>2 DEF Stop, GetCertFile, Listen, StartPanel, reqVars, RequestsTyped
  <2>2. SettingsTyped'
    BY <1>2 DEF Stop, GetCertFile, Listen, StartPanel, SettingsTyped
  <2>3. boot' \in [cert : Paths, key : Paths]
    BY <1>2 DEF Stop, GetCertFile, Listen, StartPanel, PanelTyped, SettingsTyped, Conf, Paths
  <2>4. PanelTyped'
    BY <1>2, <2>3 DEF Stop, GetCertFile, Listen, StartPanel, PanelTyped, ghostVars
  <2> QED
    BY <2>1, <2>2, <2>4
<1>3. CASE GetKeyFile
  <2>1. RequestsTyped'
    BY <1>3 DEF GetKeyFile, reqVars, RequestsTyped
  <2>2. boot' \in [cert : Paths, key : Paths] /\ conf' \in Conf
    BY <1>3, Values DEF GetKeyFile, PanelTyped, SettingsTyped, Conf, Paths
  <2>3. SettingsTyped' /\ PanelTyped'
    BY <1>3, <2>2 DEF GetKeyFile, PanelTyped, SettingsTyped, ghostVars
  <2> QED
    BY <2>1, <2>3
<1> QED
  BY <1>1, <1>2, <1>3 DEF Main

LEMMA FaultTyped ==
    ASSUME RequestsTyped, SettingsTyped, PanelTyped,
           DeleteFiles \/ \E t \in Requests : SendSIGHUP(t) \/ SetFails(t) \/ WriteFails(t)
    PROVE  RequestsTyped' /\ SettingsTyped' /\ PanelTyped'
<1>1. CASE DeleteFiles
  <2>1. RequestsTyped'
    BY <1>1 DEF DeleteFiles, reqVars, RequestsTyped
  <2>2. PanelTyped'
    BY <1>1, BoundAssumption DEF DeleteFiles, Fault, PanelTyped, mainVars
  <2>3. SettingsTyped'
    BY <1>1, Values DEF DeleteFiles, SettingsTyped
  <2> QED
    BY <2>1, <2>2, <2>3
<1>2. ASSUME NEW t \in Requests, SendSIGHUP(t) PROVE RequestsTyped' /\ SettingsTyped' /\ PanelTyped'
  BY <1>2, BoundAssumption DEF SendSIGHUP, reqVars, ghostVars, RequestsTyped, SettingsTyped, PanelTyped
<1>3. ASSUME NEW t \in Requests, SetFails(t) \/ WriteFails(t)
      PROVE  RequestsTyped' /\ SettingsTyped' /\ PanelTyped'
  <2>1. SettingsTyped'
    BY <1>3 DEF SetFails, WriteFails, SettingsTyped
  <2>2. PanelTyped'
    <3>1. /\ UNCHANGED <<mainVars, timers, unread>> /\ hurried' = TRUE
          /\ faults < MaxFaults /\ faults' = faults + 1
      BY <1>3 DEF SetFails, WriteFails, Fault
    <3> QED
      BY <3>1, Values DEF PanelTyped, mainVars
  <2>3. RequestsTyped'
    BY <1>3, FinishTyped DEF SetFails, WriteFails, Goto, RequestsTyped, Steps
  <2> QED
    BY <2>1, <2>2, <2>3
<1> QED
  BY <1>1, <1>2, <1>3

\* All of the state keeps its types.
LEMMA HTTPSTypeStep == ASSUME HTTPSTypeOK, [HTTPSNext]_httpsVars PROVE HTTPSTypeOK'
<1>1. RequestsTyped /\ SettingsTyped /\ PanelTyped
  BY TypedParts
<1>2. CASE UNCHANGED httpsVars
  BY <1>2 DEF httpsVars, mainVars, reqVars, ghostVars, HTTPSTypeOK
<1>3. CASE HTTPSNext
  <2>1. RequestsTyped' /\ SettingsTyped' /\ PanelTyped'
    BY <1>1, <1>3, RequestTyped, ProceedTyped, MainTyped, FaultTyped DEF HTTPSNext
  <2> QED
    BY <2>1 DEF HTTPSTypeOK, RequestsTyped, SettingsTyped, PanelTyped
<1> QED
  BY <1>2, <1>3

-----------------------------------------------------------------------------
(* The invariant.                                                           *)

\* With the files f, the paths c are one pair, and nothing keeps a listener from loading
\* it but that a file is missing.
SoundIn(f, c) ==
    /\ c.cert = c.key
    /\ c.cert # "none" /\ f[c.cert].crt # 0 /\ f[c.cert].key # 0 => f[c.cert].crt = f[c.cert].key

Sound(c) == SoundIn(files, c)

\* One request at a time, and no restart is pending but while it waits or after it.
Alone  == \A s, t \in Requests : pc[s] # "idle" /\ pc[t] # "idle" => s = t
AtRest == \A t \in Requests : pc[t] \notin {"idle", "wait"} => ~Pending

\* What a request can rely on where it stands.
Knows(t) ==
    /\ pc[t] = "idle" => ~back[t]
    /\ back[t] => goal[t] = snap[t] /\ op[t] # "upload"
    /\ pc[t] \in {"crt", "key", "capture"} =>
         goal[t].cert = goal[t].key /\ goal[t].cert \in Pairs /\ ~back[t]
    /\ pc[t] \in {"crt", "capture", "restart", "wait"} => Sound(conf)
    /\ pc[t] = "key" => /\ conf.cert = conf.key
                        /\ conf.cert # goal[t].cert => Sound(conf)
                        /\ files[goal[t].cert].crt = made[t]
    /\ pc[t] \in {"setcert", "setkey", "setmode", "restart", "wait"} =>
         Sound(goal[t]) /\ (op[t] # "upload" => Sound(snap[t]))
    /\ pc[t] \in {"setkey", "setmode"} => conf.cert = goal[t].cert
    /\ pc[t] = "setmode" => conf.key = goal[t].key
    /\ pc[t] \in {"capture", "restart", "wait"} => op[t] # "upload"
    /\ pc[t] = "restart" /\ back[t] => conf = snap[t]
    /\ pc[t] = "wait" /\ back[t] => conf = snap[t] \/ conf = HTTP

\* The panel is not gone, and what a Start under way has read can be loaded.
Starting ==
    /\ panel # "down"
    /\ panel = "readkey" => boot.cert = conf.cert
    /\ panel = "load" /\ IsHTTPS(boot) => Exist(boot) /\ Match(boot)

Calm ==
    /\ Alone /\ AtRest /\ Starting
    /\ \A t \in Requests : Knows(t)
    /\ Idle => Sound(conf)

HTTPSInv == HTTPSTypeOK /\ (~hurried => Calm)

LEMMA Types ==
    ASSUME HTTPSTypeOK
    PROVE  /\ conf \in Conf /\ \A t \in Requests : goal[t] \in Conf /\ snap[t] \in Conf
           /\ \A t \in Requests : pc[t] \in Steps /\ timers[t] \in Nat /\ back[t] \in BOOLEAN
           /\ \A t \in Requests : made[t] \in Versions
           /\ hurried \in BOOLEAN
BY BoundAssumption DEF HTTPSTypeOK

LEMMA Unpended == ~Pending => panel = "up" /\ ~sig
BY DEF Pending

LEMMA SoundHTTP == ASSUME NEW f PROVE SoundIn(f, HTTP)
BY DEF SoundIn, HTTP

\* Only the two paths matter.
LEMMA SoundAlike ==
    ASSUME NEW f, NEW c, NEW d, c.cert = d.cert, c.key = d.key, SoundIn(f, c)
    PROVE  SoundIn(f, d)
BY DEF SoundIn

\* A request that is not at work knows nothing.
LEMMA IdleKnows ==
    ASSUME \A t \in Requests : pc'[t] = "idle" /\ ~back'[t] PROVE \A t \in Requests : Knows(t)'
BY DEF Knows

\* One request is at work; the others stay as they are.
LEMMA OneMoves ==
    ASSUME Calm, NEW t \in Requests, pc[t] # "idle" \/ Idle,
           \A s \in Requests : s # t => pc'[s] = pc[s] /\ back'[s] = back[s]
    PROVE  /\ Alone' /\ \A s \in Requests : s # t => Knows(s)' /\ pc'[s] = "idle"
           /\ Idle' <=> pc'[t] = "idle"
<1>1. \A s \in Requests : s # t => pc[s] = "idle" /\ ~back[s]
  BY DEF Calm, Alone, Idle, Knows
<1>2. \A s \in Requests : s # t => pc'[s] = "idle" /\ ~back'[s]
  BY <1>1
<1> QED
  BY <1>2 DEF Alone, Idle, Knows

\* A step of a request while no restart is under way.
LEMMA StepsCalm ==
    ASSUME Calm, NEW t \in Requests, pc[t] # "idle" \/ Idle, ~Pending,
           \A s \in Requests : s # t => pc'[s] = pc[s] /\ back'[s] = back[s],
           UNCHANGED <<mainVars, timers>>, Knows(t)', pc'[t] = "idle" => Sound(conf)'
    PROVE  Calm'
<1>1. Alone' /\ (\A s \in Requests : Knows(s)') /\ (Idle' => Sound(conf)')
  BY OneMoves
<1>2. ~Pending' /\ panel' = "up"
  BY Unpended DEF Pending, mainVars
<1> QED
  BY <1>1, <1>2 DEF Calm, AtRest, Starting

\* A step of the main goroutine, or of a timer, while a restart is pending: requests wait.
LEMMA WaitingCalm ==
    ASSUME Calm, Pending, UNCHANGED <<reqVars, files>>, conf' = conf \/ conf' = HTTP, Starting'
    PROVE  Calm'
<1>1. \A t \in Requests : pc[t] \in {"idle", "wait"}
  BY DEF Calm, AtRest
<1>2. UNCHANGED <<pc, op, goal, snap, back, files>>
  BY DEF reqVars
<1>3. Sound(conf) => Sound(conf)'
  BY <1>2, SoundHTTP DEF Sound
<1>4. ASSUME NEW t \in Requests PROVE Knows(t)'
  <2>1. Knows(t)
    BY DEF Calm
  <2>2. CASE pc[t] = "idle"
    BY <1>2, <2>1, <2>2 DEF Knows
  <2>3. CASE pc[t] = "wait"
    <3>1. Sound(conf)' /\ Sound(goal[t])' /\ Sound(snap[t])'
      BY <1>2, <1>3, <2>1, <2>3 DEF Knows, Sound
    <3> QED
      BY <1>2, <2>1, <2>3, <3>1 DEF Knows
  <2> QED
    BY <1>1, <2>2, <2>3
<1>5. Alone' /\ AtRest' /\ (Idle' => Sound(conf)')
  BY <1>1, <1>2, <1>3 DEF Calm, Alone, AtRest, Idle
<1> QED
  BY <1>4, <1>5 DEF Calm

-----------------------------------------------------------------------------
(* Requests.                                                                *)

LEMMA RequestCalm ==
    ASSUME HTTPSTypeOK, Calm, ~hurried', NEW t \in Requests, Request(t) PROVE Calm'
<1>1. CASE ReloadRequest(t)
  <2>1. Idle /\ ~Pending /\ UNCHANGED <<reqVars, mainVars, conf, files>>
    BY <1>1 DEF ReloadRequest
  <2>2. \A s \in Requests : pc'[s] = "idle" /\ ~back'[s]
    BY <2>1 DEF Idle, Calm, Knows, reqVars
  <2>3. Sound(conf)'
    BY <2>1 DEF Calm, Sound
  <2>4. Starting'
    BY <2>1, Unpended DEF Starting, mainVars
  <2> QED
    BY <2>2, <2>3, <2>4, IdleKnows DEF Calm, Alone, AtRest, Knows
<1>2. ASSUME NEW what, NEW step \in {"crt", "capture", "setcert"}, NEW g, Begin(t, what, step, g),
             UNCHANGED files, Knows(t)'
      PROVE  Calm'
  <2>1. Idle /\ ~Pending /\ UNCHANGED <<mainVars, timers>> /\ pc' = [pc EXCEPT ![t] = step] /\ back' = back
    BY <1>2 DEF Begin, Goto
  <2>2. pc'[t] # "idle" /\ \A s \in Requests : s # t => pc'[s] = pc[s]
    BY <2>1 DEF HTTPSTypeOK
  <2> QED
    BY <1>2, <2>1, <2>2, StepsCalm
<1>3. ASSUME NEW what, NEW step, NEW g, Begin(t, what, step, g)
      PROVE  /\ pc'[t] = step /\ op'[t] = what /\ goal'[t] = g /\ ~back'[t] /\ conf' = conf
             /\ Sound(conf)
  <2>1. ~back[t] /\ Sound(conf)
    BY <1>3 DEF Begin, Calm, Knows
  <2> QED
    BY <1>3, <2>1 DEF Begin, Goto, HTTPSTypeOK
<1>4. CASE Upload(t)
  <2>1. Begin(t, "upload", "crt", PairOf("manual", "manual")) /\ files' = files
    BY <1>4 DEF Upload
  <2>2. Knows(t)'
    BY <1>3, <2>1 DEF Knows, PairOf, Pairs, Sound
  <2> QED
    BY <1>2, <2>1, <2>2
<1>5. CASE IssueHTTP(t)
  <2>1. Begin(t, "issue", "crt", PairOf("acme", "acme_http")) /\ files' = files
    BY <1>5 DEF IssueHTTP
  <2>2. Knows(t)'
    BY <1>3, <2>1 DEF Knows, PairOf, Pairs, Sound
  <2> QED
    BY <1>2, <2>1, <2>2
<1>6. CASE EnableHTTPS(t)
  <2>1. Begin(t, "enable", "capture", EnablePaths) /\ files' = files
    BY <1>6 DEF EnableHTTPS
  <2>2. EnablePaths.cert = EnablePaths.key /\ EnablePaths.cert \in Pairs
    <3>1. Sound(conf) /\ conf \in Conf
      BY <1>3, <2>1, Types
    <3> QED
      BY <3>1 DEF Sound, SoundIn, Conf, EnablePaths, PairOf, Pairs, Paths, IsHTTPS
  <2>3. Knows(t)'
    BY <1>3, <2>1, <2>2 DEF Knows, Sound
  <2> QED
    BY <1>2, <2>1, <2>3
<1>7. CASE DisableHTTPS(t)
  <2>1. Begin(t, "disable", "setcert", HTTP) /\ files' = files /\ snap'[t] = conf
    BY <1>7 DEF DisableHTTPS, HTTPSTypeOK
  <2>2. Sound(goal[t])' /\ Sound(snap[t])'
    BY <1>3, <2>1, SoundHTTP DEF Sound
  <2>3. Knows(t)'
    BY <1>3, <2>1, <2>2 DEF Knows
  <2> QED
    BY <1>2, <2>1, <2>3
<1> QED
  BY <1>1, <1>4, <1>5, <1>6, <1>7 DEF Request

LEMMA WritesCalm ==
    ASSUME HTTPSTypeOK, Calm, NEW t \in Requests, WriteCert(t) \/ WriteKey(t) PROVE Calm'
<1> DEFINE p == goal[t].cert
<1>1. /\ pc[t] \in {"crt", "key"} /\ p \in Pairs /\ goal[t].key = p /\ ~back[t] /\ Knows(t)
      /\ made[t] \in Versions /\ conf \in Conf /\ ~Pending
  BY Types DEF WriteCert, WriteKey, WriteFile, Calm, AtRest, Knows
<1>2. /\ UNCHANGED <<conf, mainVars, timers, op, goal, snap, back, made>>
      /\ \A q \in Pairs : q # p => files'[q] = files[q]
      /\ \A s \in Requests : s # t => pc'[s] = pc[s]
  BY <1>1 DEF WriteCert, WriteKey, WriteFile, Goto, HTTPSTypeOK
<1>3. conf.cert # p /\ Sound(conf) => SoundIn(files', conf)
  BY <1>1, <1>2 DEF Sound, SoundIn, Conf, Paths
<1>4. CASE WriteCert(t)
  <2>1. pc[t] = "crt" /\ pc'[t] = "key" /\ files'[p].crt = made[t]
    BY <1>1, <1>4 DEF WriteCert, WriteFile, Goto, HTTPSTypeOK
  <2>2. conf.cert = conf.key
    BY <1>1, <2>1 DEF Knows, Sound, SoundIn
  <2>3. Knows(t)'
    BY <1>1, <1>2, <1>3, <2>1, <2>2 DEF Knows, Sound
  <2> QED
    BY <1>1, <1>2, <2>1, <2>3, StepsCalm
<1>5. CASE WriteKey(t)
  <2>1. /\ pc[t] = "key" /\ pc'[t] = IF op[t] = "upload" THEN "setcert" ELSE "capture"
        /\ files'[p].crt = files[p].crt /\ files'[p].key = made[t]
    BY <1>1, <1>5 DEF WriteKey, WriteFile, Written, Goto, HTTPSTypeOK
  <2>2. files'[p].crt = made[t] /\ conf.cert = conf.key
    BY <1>1, <2>1 DEF Knows
  <2>3. SoundIn(files', conf)
    BY <1>1, <1>3, <2>1, <2>2 DEF Knows, SoundIn
  <2>4. SoundIn(files', goal[t])
    BY <1>1, <2>1, <2>2 DEF SoundIn
  <2>5. Knows(t)'
    BY <1>1, <1>2, <2>1, <2>3, <2>4 DEF Knows, Sound
  <2> QED
    BY <1>1, <1>2, <2>1, <2>5, StepsCalm
<1> QED
  BY <1>4, <1>5

LEMMA CapturesCalm ==
    ASSUME HTTPSTypeOK, Calm, NEW t \in Requests, Capture(t) \/ CaptureRefuses(t) PROVE Calm'
<1>1. /\ pc[t] = "capture" /\ Knows(t) /\ Sound(conf) /\ ~Pending /\ ~back[t] /\ op[t] # "upload"
      /\ goal[t].cert = goal[t].key /\ goal[t].cert \in Pairs
      /\ UNCHANGED <<conf, files, mainVars, timers>>
  BY DEF Capture, CaptureRefuses, Calm, AtRest, Knows
<1>2. CASE Capture(t)
  <2>1. /\ pc'[t] = "setcert" /\ snap'[t] = conf /\ UNCHANGED <<op, goal, back>>
        /\ \A s \in Requests : s # t => pc'[s] = pc[s]
    BY <1>2 DEF Capture, Goto, HTTPSTypeOK
  <2>2. Sound(goal[t])
    BY <1>1, <1>2 DEF Capture, Readable, Match, Sound, SoundIn
  <2>3. Knows(t)'
    BY <1>1, <2>1, <2>2 DEF Knows, Sound
  <2> QED
    BY <1>1, <2>1, <2>3, StepsCalm
<1>3. CASE CaptureRefuses(t)
  <2>1. /\ pc'[t] = "idle" /\ ~back'[t]
        /\ \A s \in Requests : s # t => pc'[s] = pc[s] /\ back'[s] = back[s]
    BY <1>3 DEF CaptureRefuses, Finish, Goto, HTTPSTypeOK
  <2>2. Sound(conf)' /\ Knows(t)'
    BY <1>1, <2>1 DEF Knows, Sound
  <2> QED
    BY <1>1, <2>1, <2>2, StepsCalm
<1> QED
  BY <1>2, <1>3

LEMMA SetsCalm ==
    ASSUME HTTPSTypeOK, Calm, NEW t \in Requests,
           SetCertFile(t) \/ SetKeyFile(t) \/ SetWebCertMode(t)
    PROVE  Calm'
<1>1. /\ pc[t] \in {"setcert", "setkey", "setmode"} /\ Knows(t) /\ ~Pending
      /\ Sound(goal[t]) /\ (op[t] # "upload" => Sound(snap[t]))
      /\ back[t] => goal[t] = snap[t] /\ op[t] # "upload"
      /\ UNCHANGED <<files, mainVars, timers>>
      /\ conf \in Conf /\ goal[t] \in Conf
  BY Types DEF SetCertFile, SetKeyFile, SetWebCertMode, Calm, AtRest, Knows
<1>2. CASE SetCertFile(t)
  <2>1. /\ pc'[t] = "setkey" /\ UNCHANGED <<op, goal, snap, back>> /\ conf'.cert = goal[t].cert
        /\ \A s \in Requests : s # t => pc'[s] = pc[s]
    BY <1>1, <1>2 DEF SetCertFile, Goto, HTTPSTypeOK, Conf
  <2>2. Knows(t)'
    BY <1>1, <2>1 DEF Knows, Sound
  <2> QED
    BY <1>1, <2>1, <2>2, StepsCalm
<1>3. CASE SetKeyFile(t)
  <2>1. /\ pc'[t] = "setmode" /\ UNCHANGED <<op, goal, snap, back>>
        /\ conf'.cert = goal[t].cert /\ conf'.key = goal[t].key
        /\ \A s \in Requests : s # t => pc'[s] = pc[s]
    BY <1>1, <1>3 DEF SetKeyFile, Knows, Goto, HTTPSTypeOK, Conf
  <2>2. Knows(t)'
    BY <1>1, <2>1 DEF Knows, Sound
  <2> QED
    BY <1>1, <2>1, <2>2, StepsCalm
<1>4. CASE SetWebCertMode(t)
  <2>1. /\ conf.cert = goal[t].cert /\ conf.key = goal[t].key
        /\ conf'.cert = conf.cert /\ conf'.key = conf.key
        /\ back[t] => conf' = goal[t]
    BY <1>1, <1>4 DEF SetWebCertMode, Knows, Conf
  <2>2. SoundIn(files', conf')
    BY <1>1, <2>1, SoundAlike DEF Sound
  <2>3. CASE op[t] = "upload"
    <3>1. /\ pc'[t] = "idle" /\ ~back'[t]
          /\ \A s \in Requests : s # t => pc'[s] = pc[s] /\ back'[s] = back[s]
      BY <1>4, <2>3 DEF SetWebCertMode, Finish, Goto, HTTPSTypeOK
    <3>2. Knows(t)' /\ Sound(conf)'
      BY <2>2, <3>1 DEF Knows, Sound
    <3> QED
      BY <1>1, <3>1, <3>2, StepsCalm
  <2>4. CASE op[t] # "upload"
    <3>1. /\ pc'[t] = "restart" /\ UNCHANGED <<op, goal, snap, back>>
          /\ \A s \in Requests : s # t => pc'[s] = pc[s]
      BY <1>4, <2>4 DEF SetWebCertMode, Goto, HTTPSTypeOK
    <3>2. Knows(t)'
      BY <1>1, <2>1, <2>2, <2>4, <3>1 DEF Knows, Sound
    <3> QED
      BY <1>1, <3>1, <3>2, StepsCalm
  <2> QED
    BY <2>3, <2>4
<1> QED
  BY <1>2, <1>3, <1>4

LEMMA RestartCalm == ASSUME HTTPSTypeOK, Calm, NEW t \in Requests, RestartPanel(t) PROVE Calm'
<1>1. /\ pc[t] = "restart" /\ pc'[t] = "wait" /\ Knows(t) /\ panel = "up"
      /\ UNCHANGED <<conf, files, panel, op, goal, snap, back>>
      /\ \A s \in Requests : s # t => pc'[s] = pc[s]
  BY Unpended DEF RestartPanel, Goto, Calm, AtRest, mainVars, HTTPSTypeOK
<1>2. Knows(t)'
  BY <1>1 DEF Knows, Sound
<1>3. Alone' /\ (\A s \in Requests : s # t => Knows(s)' /\ pc'[s] = "idle") /\ ~Idle'
  BY <1>1, OneMoves
<1> QED
  BY <1>1, <1>2, <1>3 DEF Calm, AtRest, Starting

LEMMA ProbesCalm ==
    ASSUME HTTPSTypeOK, Calm, ~hurried', NEW t \in Requests, ProbeOk(t) \/ ProbeTimeout(t)
    PROVE  Calm'
<1>1. /\ pc[t] = "wait" /\ Knows(t) /\ Sound(conf) /\ op[t] # "upload" /\ Sound(snap[t])
      /\ UNCHANGED <<conf, files, mainVars, timers>>
  BY DEF ProbeOk, ProbeTimeout, Calm, Knows
<1>2. CASE Finish(t)
  <2>1. /\ pc'[t] = "idle" /\ ~back'[t]
        /\ \A s \in Requests : s # t => pc'[s] = pc[s] /\ back'[s] = back[s]
    BY <1>2 DEF Finish, Goto, HTTPSTypeOK
  <2>2. Knows(t)' /\ Sound(conf)'
    BY <1>1, <2>1 DEF Knows, Sound
  <2>3. Alone' /\ (\A s \in Requests : s # t => Knows(s)' /\ pc'[s] = "idle")
    BY <1>1, <2>1, OneMoves
  <2>4. Starting'
    BY <1>1 DEF Calm, Starting, Exist, Match, mainVars
  <2> QED
    BY <2>1, <2>2, <2>3, <2>4 DEF Calm, AtRest
<1>3. CASE ProbeTimeout(t) /\ ~back[t]
  <2>1. /\ pc'[t] = "setcert" /\ goal'[t] = snap[t] /\ UNCHANGED <<op, snap>> /\ ~Pending
        /\ \A s \in Requests : s # t => pc'[s] = pc[s] /\ back'[s] = back[s]
    BY <1>3 DEF ProbeTimeout, Goto, HTTPSTypeOK
  <2>2. Knows(t)'
    BY <1>1, <2>1 DEF Knows, Sound
  <2> QED
    BY <1>1, <2>1, <2>2, StepsCalm
<1> QED
  BY <1>2, <1>3 DEF ProbeOk, ProbeTimeout

-----------------------------------------------------------------------------
(* The main goroutine, and the outside.                                     *)

LEMMA MainCalm ==
    ASSUME HTTPSTypeOK, Calm, Main \/ \E t \in Requests : SendSIGHUP(t) PROVE Calm'
<1>1. Starting /\ \A t \in Requests : timers[t] \in Nat
  BY Types DEF Calm
<1>2. CASE \E t \in Requests : SendSIGHUP(t)
  <2>1. Pending /\ UNCHANGED <<reqVars, files, conf, panel, boot>>
    BY <1>2 DEF SendSIGHUP, Pending
  <2> QED
    BY <1>1, <2>1, WaitingCalm DEF Starting, Exist, Match
<1>3. CASE Stop
  <2>1. Pending /\ UNCHANGED <<reqVars, files, conf>> /\ panel' = "stopped"
    BY <1>3 DEF Stop, Pending
  <2> QED
    BY <2>1, WaitingCalm DEF Starting
<1>4. CASE GetCertFile
  <2>1. Pending /\ UNCHANGED <<reqVars, files, conf>> /\ panel' = "readkey" /\ boot'.cert = conf.cert
    BY <1>4 DEF GetCertFile, Pending, HTTPSTypeOK
  <2> QED
    BY <2>1, WaitingCalm DEF Starting
<1>5. CASE GetKeyFile
  <2>1. Pending /\ UNCHANGED <<reqVars, files>> /\ panel' = "load" /\ boot.cert = conf.cert
    BY <1>1, <1>5 DEF GetKeyFile, Pending, Starting
  <2>2. Sound(conf)
    <3>1. Idle \/ \E t \in Requests : pc[t] = "wait"
      BY <2>1 DEF Calm, AtRest, Idle
    <3> QED
      BY <3>1 DEF Calm, Knows
  <2>3. conf' = conf \/ conf' = HTTP
    BY <1>5 DEF GetKeyFile
  <2>4. IsHTTPS(boot') => Exist(boot') /\ Match(boot')
    BY <1>5, <2>1, <2>2 DEF GetKeyFile, IsHTTPS, Exist, Match, Sound, SoundIn, HTTPSTypeOK
  <2>5. Starting'
    BY <2>1, <2>4 DEF Starting, IsHTTPS, Exist, Match
  <2> QED
    BY <2>1, <2>3, <2>5, WaitingCalm
<1>6. CASE Listen
  <2>1. Pending /\ UNCHANGED <<reqVars, files, conf>> /\ panel' = "up"
    BY <1>6 DEF Listen, Pending
  <2> QED
    BY <2>1, WaitingCalm DEF Starting
<1>7. ~StartFails
  BY <1>1 DEF StartFails, Starting
<1> QED
  BY <1>2, <1>3, <1>4, <1>5, <1>6, <1>7 DEF Main

LEMMA DeleteCalm == ASSUME HTTPSTypeOK, Calm, ~hurried', DeleteFiles PROVE Calm'
<1>1. /\ Idle /\ panel \in {"up", "down"} /\ Sound(conf) /\ Starting
      /\ UNCHANGED <<conf, panel, boot, pc, back>> /\ conf \in Conf
  BY Types DEF DeleteFiles, Calm, mainVars, reqVars
<1>2. \A q \in Pairs : /\ files'[q].crt \in {0, files[q].crt}
                       /\ files'[q].key \in {0, files[q].key}
  BY DEF DeleteFiles, HTTPSTypeOK
<1>3. Sound(conf)'
  BY <1>1, <1>2 DEF Sound, SoundIn, Conf, Paths
<1>4. \A t \in Requests : pc'[t] = "idle" /\ ~back'[t]
  BY <1>1 DEF Idle, Calm, Knows
<1> QED
  BY <1>1, <1>3, <1>4, IdleKnows DEF Calm, Alone, AtRest, Starting

LEMMA HTTPSInitInv == HTTPSInit => HTTPSInv
<1> SUFFICES ASSUME HTTPSInit PROVE HTTPSInv
  OBVIOUS
<1>1. HTTPSTypeOK
  <2>1. RequestsTyped
    BY Values DEF HTTPSInit, RequestsTyped, Steps
  <2>2. SettingsTyped
    BY Values DEF HTTPSInit, SettingsTyped
  <2>3. PanelTyped
    BY Values DEF HTTPSInit, PanelTyped, Paths
  <2> QED
    BY <2>1, <2>2, <2>3, TypedParts
<1>2. Sound(conf)
  BY SoundHTTP DEF HTTPSInit, Sound
<1>3. Alone /\ AtRest /\ Starting /\ \A t \in Requests : Knows(t)
  BY DEF HTTPSInit, Alone, AtRest, Starting, Knows
<1> QED
  BY <1>1, <1>2, <1>3 DEF HTTPSInv, Calm

\* Nothing makes a hurried history unhurried.
LEMMA StaysHurried ==
    ASSUME HTTPSTypeOK, HTTPSNext, hurried PROVE hurried'
<1> USE DEF ghostVars
<1>1. ASSUME NEW t \in Requests, Request(t) PROVE hurried'
  BY <1>1 DEF Request, Upload, IssueHTTP, EnableHTTPS, DisableHTTPS, ReloadRequest, Begin
<1>2. ASSUME NEW t \in Requests, Proceed(t) PROVE hurried'
  BY <1>2 DEF Proceed, WriteCert, WriteKey, WriteFile, Capture, CaptureRefuses, SetCertFile,
              SetKeyFile, SetWebCertMode, RestartPanel, ProbeOk, ProbeTimeout
<1>3. ASSUME NEW t \in Requests, SendSIGHUP(t) \/ SetFails(t) \/ WriteFails(t) PROVE hurried'
  BY <1>3 DEF SendSIGHUP, SetFails, WriteFails
<1>4. CASE Main \/ StartPanel
  BY <1>4 DEF Main, Stop, GetCertFile, GetKeyFile, Listen, StartFails, StartPanel
<1>5. CASE StartError \/ Killed \/ DeleteFiles
  BY <1>5 DEF StartError, Killed, DeleteFiles
<1> QED
  BY <1>1, <1>2, <1>3, <1>4, <1>5 DEF HTTPSNext

LEMMA HTTPSStepInv == HTTPSInv /\ [HTTPSNext]_httpsVars => HTTPSInv'
<1> SUFFICES ASSUME HTTPSInv, [HTTPSNext]_httpsVars, ~hurried' PROVE Calm'
  BY HTTPSTypeStep DEF HTTPSInv
<1>1. HTTPSTypeOK
  BY DEF HTTPSInv
<1>2. CASE UNCHANGED httpsVars
  BY <1>2 DEF HTTPSInv, httpsVars, mainVars, reqVars, ghostVars, Calm, Alone, AtRest, Starting,
     Knows, Sound, Idle, Pending, Exist, Match
<1>3. CASE HTTPSNext
  <2>1. Calm
    BY <1>1, <1>3, StaysHurried DEF HTTPSInv
  <2>2. ASSUME NEW t \in Requests, Proceed(t) PROVE Calm'
    BY <1>1, <2>1, <2>2, WritesCalm, CapturesCalm, SetsCalm, RestartCalm, ProbesCalm DEF Proceed
  <2>3. ~StartPanel /\ ~StartError /\ ~Killed /\ \A t \in Requests : ~SetFails(t) /\ ~WriteFails(t)
    BY <2>1 DEF StartPanel, StartError, Killed, SetFails, WriteFails, Calm, Starting
  <2> QED
    BY <1>1, <1>3, <2>1, <2>2, <2>3, RequestCalm, MainCalm, DeleteCalm DEF HTTPSNext
<1> QED
  BY <1>2, <1>3

\* HTTPSInv is an invariant of cert.go, panel.go, main.go and web.go together.
THEOREM HTTPSInductive == HTTPSSpec => []HTTPSInv
BY HTTPSInitInv, HTTPSStepInv, PTL DEF HTTPSSpec

\* The types of the settings, the files, the requests and the panel.
THEOREM HTTPSTypeCorrect == HTTPSSpec => []HTTPSTypeOK
BY HTTPSInductive, PTL DEF HTTPSInv

\* Restartable: after switches that neither overlapped nor were hit by a fault the panel is up
\* or on its way, and the next Start (web.go) succeeds on the settings cert.go has left.
THEOREM NextStartSucceeds == HTTPSSpec => []Restartable
<1>1. HTTPSInv => Restartable
  BY DEF HTTPSInv, Calm, Starting, Restartable, Sound, SoundIn, IsHTTPS, Exist, Match
<1> QED
  BY <1>1, HTTPSInductive, PTL

\* RolledBack: rollbackListenerState puts back all the settings of the snapshot.
THEOREM RollsBack == HTTPSSpec => []RolledBack
<1>1. HTTPSInv => RolledBack
  BY DEF HTTPSInv, Calm, Knows, RolledBack
<1> QED
  BY <1>1, HTTPSInductive, PTL
=============================================================================
