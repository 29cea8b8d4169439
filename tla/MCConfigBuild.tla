---------------------------- MODULE MCConfigBuild ----------------------------
(* Small tables for ConfigBuild, and five templates: the one that is shipped,  *)
(* one with an outbound for the tunnels, one with a rule on a field the panel  *)
(* does not know, one with a port it cannot read and one without outbounds.    *)
EXTENDS ConfigBuild

MCRule(in, cond, tag) == [in |-> in, cond |-> cond, tag |-> tag]

MCShapes ==
    [in : {{"in2"}}, cond : {{}, {"ip"}}, tag : {"blocked", "t1"}]
      \cup [in : {{}}, cond : {{}, {"ip"}}, tag : {"t1"}] \cup {MCRule({}, {"ip"}, Doko)}

MCInManaged ==
    { [rules |-> <<ApiRule, MCRule({}, {"ip"}, "blocked")>>, outs |-> <<"", "blocked">>],
      [rules |-> <<ApiRule, MCRule({}, {"port53"}, "blocked")>>, outs |-> <<"direct", "blocked">>] }

MCTemplates ==
    MCInManaged \cup {
      [rules |-> <<ApiRule, MCRule({"in2"}, {}, "blocked")>>,
       outs  |-> <<"direct", "dokodemo-freedom", "blocked">>],
      [rules |-> <<MCRule({}, {"ip", "user"}, "blocked"), ApiRule>>, outs |-> <<"direct">>],
      [rules |-> <<ApiRule>>, outs |-> <<>>] }
==============================================================================
