---------------------------- MODULE RobotsRules ----------------------------
(***************************************************************************)
(* internal/robots/robots.go: which paths a robots.txt allows us.  Parse   *)
(* reads the lines one by one into groups and picks the group that names   *)
(* us best; Allowed compares the longest matching patterns; match walks    *)
(* the literal parts of a pattern greedily from left to right.             *)
(*                                                                         *)
(* The loop of Parse is the state machine of this module: a step reads a   *)
(* line.  A line is a record [field, value].  A pattern is split where the code   *)
(* splits it, at its '*': [parts, anchored].  Paths and parts are          *)
(* sequences of characters.                                                *)
(***************************************************************************)
EXTENDS Integers, Sequences, FiniteSets, SequencesExt

CONSTANTS
  AgentLen,          \* length of each agent token that our product token contains
  Lines(_),          \* bound: the lines that may follow those read so far
  Paths              \* instances: the paths asked for

ASSUME AgentAssumption ==
  /\ "*" \notin DOMAIN AgentLen
  /\ \A a \in DOMAIN AgentLen : AgentLen[a] \in Nat \ {0}

VARIABLES
  doc,               \* the lines read so far
  parser             \* the loop's groups, and whether the last one still takes agents

rulesVars == <<doc, parser>>

-----------------------------------------------------------------------------
(* Parse                                                                   *)

NoRules == [agents |-> {}, allow |-> {}, disallow |-> {}]

\* Mutated form of ReadLine: a rule does not end the run of User-agent lines.
ReadLineSticky(st, line) ==
  LET n == Len(st.groups) IN
  CASE line.field = "user-agent" ->
         [inAgents |-> TRUE,
          groups   |-> IF n = 0 \/ ~st.inAgents
                       THEN Append(st.groups, [NoRules EXCEPT !.agents = {line.value}])
                       ELSE [st.groups EXCEPT ![n].agents = @ \union {line.value}]]
    [] line.field \in {"allow", "disallow"} /\ n > 0 ->
         [st EXCEPT !.groups[n][line.field] = @ \union {line.value}]
    [] line.field = "junk" -> st
    [] OTHER -> [st EXCEPT !.inAgents = FALSE]

\* The state of the loop after one more line; a line without a colon ("junk") is skipped
\* before it can end a run of User-agent lines.
ReadLine(st, line) ==
  LET n == Len(st.groups) IN
  CASE line.field = "user-agent" ->
         [inAgents |-> TRUE,
          groups   |-> IF n = 0 \/ ~st.inAgents
                       THEN Append(st.groups, [NoRules EXCEPT !.agents = {line.value}])
                       ELSE [st.groups EXCEPT ![n].agents = @ \union {line.value}]]
    [] line.field \in {"allow", "disallow"} /\ n > 0 ->
         [inAgents |-> FALSE,
          groups   |-> [st.groups EXCEPT ![n][line.field] = @ \union {line.value}]]
    [] line.field = "junk" -> st
    [] OTHER -> [st EXCEPT !.inAgents = FALSE]

ParseBegins == doc = <<>> /\ parser = [inAgents |-> FALSE, groups |-> <<>>]

ParseLine ==
  \E line \in Lines(doc) :
    /\ doc' = Append(doc, line)
    /\ parser' = ReadLine(parser, line)

RulesSpec == ParseBegins /\ [][ParseLine]_rulesVars

\* How well a set of agent tokens names us: the longest token, "*" less than any, -1 not.
Specificity(agents) ==
  Max({AgentLen[a] : a \in agents \intersect DOMAIN AgentLen}
      \union (IF "*" \in agents THEN {0} ELSE {}) \union {-1})

\* What Parse returns: the first of the groups that name us best.
Parse(gs) ==
  LET best == {i \in DOMAIN gs :
                 /\ Specificity(gs[i].agents) >= 0
                 /\ \A j \in DOMAIN gs :
                      \/ Specificity(gs[j].agents) < Specificity(gs[i].agents)
                      \/ Specificity(gs[j].agents) = Specificity(gs[i].agents) /\ i <= j}
  IN IF best = {} THEN NoRules ELSE gs[CHOOSE i \in best : TRUE]

-----------------------------------------------------------------------------
(* match and Allowed                                                       *)

\* The length of a pattern as it is written: its parts and the '*' between them, and '$'.
PatternLen(pat) ==
  LET n == Len(pat.parts)
      len[i \in 0 .. n] == IF i = 0 THEN n - 1 ELSE len[i - 1] + Len(pat.parts[i])
  IN len[n] + (IF pat.anchored THEN 1 ELSE 0)

Occurs(part, path, at) ==
  at + Len(part) <= Len(path) /\ SubSeq(path, at + 1, at + Len(part)) = part

NoMatch == -1

\* Where in path the walk is after the i-th part of a pattern, from where it is before.
Advance(pat, path, i, pos) ==
  LET part  == pat.parts[i]
      found == {at \in pos .. Len(path) : Occurs(part, path, at)}
  IN IF pos = NoMatch \/ part = <<>> THEN pos
     ELSE IF i = 1 THEN (IF IsPrefix(part, path) THEN Len(part) ELSE NoMatch)
     ELSE IF found = {} THEN NoMatch ELSE Min(found) + Len(part)

Walk(pat, path) ==
  LET pos[i \in 0 .. Len(pat.parts)] ==
        IF i = 0 THEN 0 ELSE Advance(pat, path, i, pos[i - 1])
  IN pos

Position(pat, path) == Walk(pat, path)[Len(pat.parts)]

\* Mutated form of Match: an anchored pattern has to end where the greedy walk ends.
MatchEndsAtWalk(pat, path) ==
  LET last == pat.parts[Len(pat.parts)] IN
  IF Len(pat.parts) = 1
  THEN IF pat.anchored THEN path = last ELSE IsPrefix(last, path)
  ELSE /\ Position(pat, path) # NoMatch
       /\ pat.anchored => last = <<>> \/ Position(pat, path) = Len(path)

Match(pat, path) ==
  LET last == pat.parts[Len(pat.parts)] IN
  IF Len(pat.parts) = 1
  THEN IF pat.anchored THEN path = last ELSE IsPrefix(last, path)
  ELSE /\ Position(pat, path) # NoMatch
       /\ pat.anchored => last = <<>> \/ IsSuffix(last, path)

\* The length of the longest matching pattern, -1 if none; an empty one never matches.
MatchLen(pats, path) ==
  Max({PatternLen(p) : p \in {q \in pats : PatternLen(q) > 0 /\ Match(q, path)}}
      \union {-1})

Allowed(rules, path) ==
  LET disallow == MatchLen(rules.disallow, path)
  IN disallow < 0 \/ MatchLen(rules.allow, path) >= disallow

-----------------------------------------------------------------------------
(* Properties: reference definitions.                                      *)

\* What a pattern means, without a walk: its parts can be laid on the path in order,
\* without overlap, the first at the start and an anchored last one at the end.
Glob(pat, path) ==
  LET n == Len(pat.parts) IN
  \E at \in [1 .. n -> 0 .. Len(path)] :
    /\ at[1] = 0
    /\ \A i \in 1 .. n : Occurs(pat.parts[i], path, at[i])
    /\ \A i \in 1 .. n - 1 : at[i] + Len(pat.parts[i]) <= at[i + 1]
    /\ pat.anchored => at[n] + Len(pat.parts[n]) = Len(path)

\* match ('*', '$', prefixes) decides exactly that for every rule that is read, although it
\* never backtracks.
MatchIsGlob ==
  \A i \in DOMAIN doc : doc[i].field \in {"allow", "disallow"} =>
    \A path \in Paths : Match(doc[i].value, path) = Glob(doc[i].value, path)

\* The User-agent line that heads the group of line i: the first of the last unbroken run
\* of User-agent lines before it; 0 if there is none.
HeadOf(read, i) ==
  LET agents   == {j \in 1 .. i : read[j].field = "user-agent"}
      joined(j, k) == \A m \in j .. k : read[m].field \in {"user-agent", "junk"}
  IN IF agents = {} THEN 0 ELSE Min({j \in agents : joined(j, Max(agents))})

\* What the lines of one kind under a head say.
Under(read, field, head) ==
  {read[j].value : j \in {k \in DOMAIN read : read[k].field = field /\ HeadOf(read, k) = head}}

Heads(read) == {HeadOf(read, i) : i \in DOMAIN read} \ {0}
Naming(read, head) == Specificity(Under(read, "user-agent", head))

\* The head of the rules that bind us: the earliest of those that name us best; 0 if none does.
OurHead(read) ==
  LET top == Max({Naming(read, h) : h \in Heads(read)} \union {-1})
  IN IF top < 0 THEN 0 ELSE Min({h \in Heads(read) : Naming(read, h) = top})

\* By position in the file: a path is refused exactly when a line under our head refuses it
\* and no longer or equally long one under it allows it.
RefAllowed(read, path) ==
  LET ours    == OurHead(read)
      hits(f) == {p \in Under(read, f, ours) : /\ ours # 0
                                               /\ PatternLen(p) > 0 /\ Glob(p, path)}
  IN \A d \in hits("disallow") : \E a \in hits("allow") : PatternLen(a) >= PatternLen(d)

\* Parse and Allowed together give a file its meaning, wherever it ends.
RulesByPosition ==
  LET rules == Parse(parser.groups) IN
  \A path \in Paths : Allowed(rules, path) = RefAllowed(doc, path)
=============================================================================
