------------------------------- MODULE Robots -------------------------------
(***************************************************************************)
(* robots.txt (gurtd/src/crawler/robots.rs): parse() collects the rules of *)
(* each user agent named, is_allowed() and crawl_delay() look them up for  *)
(* one crawler and one path.                                               *)
(*                                                                         *)
(* A line is a record of its key and value.  Of an agent token matter its  *)
(* length and whether the crawler's name contains it; of a rule's pattern  *)
(* its length if the path starts with it, and NoMatch if not.              *)
(***************************************************************************)
EXTENDS Integers, Sequences

CONSTANTS Agents, Star,  \* tokens, and "*" among them
          Length,        \* of each token
          Contained,     \* the tokens the crawler's name contains
          NoMatch, NoDelay

ASSUME RobotsAssumption ==
    /\ Star \in Agents /\ Length \in [Agents -> Nat] /\ Length[Star] = 1
    /\ Contained \subseteq Agents
    /\ NoMatch \notin Nat

Group(agent) == [agent |-> agent, allow |-> <<>>, disallow |-> <<>>, crawl_delay |-> NoDelay]

-----------------------------------------------------------------------------
(* parse.                                                                  *)

Ensure(groups, agent) ==
    IF \E i \in DOMAIN groups : groups[i].agent = agent THEN groups ELSE Append(groups, Group(agent))

\* A user-agent line adds to the agents that the lines to come are for; none is
\* ever removed, also not after a rule.  (An agent named twice gets each rule
\* twice, which changes no lookup; here it gets it once.)
CurrentAfter(current, agent) == Append(current, agent)

With(group, line) ==
    CASE line.key = "allow" -> [group EXCEPT !.allow = Append(@, line.value)]
      [] line.key = "disallow" -> [group EXCEPT !.disallow = Append(@, line.value)]
      [] line.key = "crawl-delay" -> [group EXCEPT !.crawl_delay = line.value]

\* A rule is for all current agents, and for "*" if there are none.
Rule(st, line) ==
    LET current == IF st.current = <<>> THEN <<Star>> ELSE st.current
        groups == IF st.current = <<>> THEN Ensure(st.groups, Star) ELSE st.groups
        Named(g) == \E i \in DOMAIN current : current[i] = g.agent
    IN  [current |-> current,
         groups |-> [i \in DOMAIN groups |->
                        IF Named(groups[i]) THEN With(groups[i], line) ELSE groups[i]]]

Parse(lines) ==
    LET Line(st, line) ==
            IF line.key = "user-agent"
            THEN [current |-> CurrentAfter(st.current, line.value),
                  groups |-> Ensure(st.groups, line.value)]
            ELSE Rule(st, line)
        after[n \in 0..Len(lines)] ==
            IF n = 0 THEN [current |-> <<>>, groups |-> <<>>] ELSE Line(after[n - 1], lines[n])
    IN  IF after[Len(lines)].groups = <<>> THEN <<Group(Star)>> ELSE after[Len(lines)].groups

-----------------------------------------------------------------------------
(* is_allowed and crawl_delay.                                             *)

\* The group with the longest agent token that applies, the first of equals;
\* 0 if none applies.
BestGroup(groups) ==
    LET Applies(i) == groups[i].agent = Star \/ groups[i].agent \in Contained
        best[n \in 0..Len(groups)] ==
            IF n = 0 THEN 0
            ELSE LET prev == best[n - 1] IN
                 IF ~Applies(n) THEN prev
                 ELSE IF prev = 0 THEN n
                 ELSE IF Length[groups[n].agent] > Length[groups[prev].agent] THEN n ELSE prev
    IN  best[Len(groups)]

NoRule == [allow |-> TRUE, length |-> 0]

\* Mutant: the later of two rules of the same length wins.
OverridesLast(rule, best) == rule.length >= best.length

\* A longer pattern overrides, and an allow rule one of the same length that is
\* not.  (best is NoRule, of length 0, until a rule matched.)
Overrides(rule, best) ==
    rule.length > best.length \/ (rule.length = best.length /\ rule.allow /\ ~best.allow)

\* most_specific_rule: the allow rules are looked at before the disallow rules.
MostSpecific(group) ==
    LET Rules(list, allow) == [i \in DOMAIN list |-> [allow |-> allow, length |-> list[i]]]
        rules == Rules(group.allow, TRUE) \o Rules(group.disallow, FALSE)
        Matches(rule) == rule.length # NoMatch /\ rule.length # 0
        best[n \in 0..Len(rules)] ==
            IF n = 0 THEN NoRule
            ELSE IF Matches(rules[n]) /\ Overrides(rules[n], best[n - 1]) THEN rules[n] ELSE best[n - 1]
    IN  best[Len(rules)]

\* If no group applies the first one is used, whatever its agent.
IsAllowed(groups) ==
    MostSpecific(groups[IF BestGroup(groups) = 0 THEN 1 ELSE BestGroup(groups)]).allow

CrawlDelay(groups) ==
    IF BestGroup(groups) = 0 THEN NoDelay ELSE groups[BestGroup(groups)].crawl_delay

-----------------------------------------------------------------------------
(* What the lines mean, without parsing them into groups.                  *)

IsRule(line) == line.key # "user-agent"

\* Rules from the first on are for "*" if no user-agent line precedes them.
NamedAt(lines) ==
    [i \in DOMAIN lines |->
        IF ~IsRule(lines[i]) THEN lines[i].value ELSE Star]
StartsAgent(lines, i) == ~IsRule(lines[i]) \/ \A j \in 1..i : IsRule(lines[j])
Starts(lines) == {i \in DOMAIN lines : StartsAgent(lines, i)}

\* The line from which on the rules are for this crawler: the first that names
\* the longest token contained in its name; 0 if there is none.
StartOfOurs(lines) ==
    LET Named(i) == NamedAt(lines)[i]
        ours == {i \in Starts(lines) : Named(i) \in Contained \cup {Star}}
        Before(i, j) ==
            \/ Length[Named(i)] > Length[Named(j)]
            \/ Length[Named(i)] = Length[Named(j)] /\ i < j
    IN  IF ours = {} THEN 0 ELSE CHOOSE i \in ours : \A j \in ours \ {i} : Before(i, j)

\* The rules of a group are for the agents of the user-agent lines it starts with,
\* between which there is no rule; those before all such lines are for "*".
AgentsOf(lines, i) ==
    LET before == {k \in 1..i : ~IsRule(lines[k])}
        head == {k \in before : \A l \in before : \A m \in k..l : ~IsRule(lines[m])}
    IN  IF before = {} THEN {Star} ELSE {lines[k].value : k \in head}
RulesFor(lines, agent) == {i \in DOMAIN lines : IsRule(lines[i]) /\ agent \in AgentsOf(lines, i)}

\* The path is allowed unless a disallow rule is longer than every allow rule.
Lengths(lines, rules, key) == {lines[i].value : i \in {k \in rules : lines[k].key = key}} \ {NoMatch, 0}
AllowedBy(lines, rules) ==
    \A d \in Lengths(lines, rules, "disallow") : \E a \in Lengths(lines, rules, "allow") : a >= d

\* The last crawl-delay line counts.
DelaysAt(lines, rules) == {i \in rules : lines[i].key = "crawl-delay"}
DelayBy(lines, rules) ==
    LET at == DelaysAt(lines, rules) IN
    IF at = {} THEN NoDelay ELSE lines[CHOOSE i \in at : \A j \in at : j <= i].value
=============================================================================
