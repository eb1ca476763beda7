------------------------------ MODULE MCRobots ------------------------------
(* Instances: one host; files of up to four lines with two patterns, and     *)
(* files of one rule with any pattern of up to three parts over two          *)
(* characters.  A file is read in the states in which the host has one and   *)
(* nothing has happened yet.                                                 *)
(*                                                                           *)
(* Two kinds of hosts keep the instance small: one that has a file or fails, *)
(* and may change between the two, in one run of the crawl that respects it; *)
(* and one without a file, or that is not there, with several runs, a        *)
(* setting that changes, and without discovery.  (What discovery comes to,   *)
(* NewRulesReach, is about the first kind; the fairness leaves the second    *)
(* kind to the invariants.)                                                  *)
EXTENDS Robots, RobotsRules

CONSTANTS h1, w1

MCAgentLen == "bot" :> 3 @@ "ourbot" :> 6

Parts == {<<>>, <<"/">>, <<"a">>, <<"/", "a">>, <<"a", "a">>}
Patterns ==
  [parts : UNION {[1 .. n -> Parts] : n \in 1 .. 3}, anchored : BOOLEAN]
MCPaths == {<<"/">> \o p : p \in UNION {[1 .. n -> {"/", "a"}] : n \in 0 .. 4}}

Slash == [parts |-> <<<<"/">>>>, anchored |-> FALSE]
Deep  == [parts |-> <<<<"/">>, <<"a">>>>, anchored |-> TRUE]
Everyone == [field |-> "user-agent", value |-> "*"]

MCLines(read) ==
  LET short == Len(read) < 4 /\ \A i \in DOMAIN read :
                 read[i].field \in {"allow", "disallow"} => read[i].value \in {Slash, Deep}
  IN (IF ~short THEN {} ELSE
        [field : {"user-agent"}, value : {"*", "bot", "ourbot", "other"}]
        \union [field : {"allow", "disallow"}, value : {Slash, Deep}]
        \union [field : {"blank", "junk"}, value : {"-"}])
     \union (IF read = <<Everyone>> THEN [field : {"disallow"}, value : Patterns] ELSE {})

Varied == \A h \in Hosts : site[h] \in {"rules", "trouble"}
Ignored == \E h \in Hosts : "ignored" \in gave[h]
Instance ==
  IF Varied THEN run' <= 1 /\ Varied' /\ ~Ignored' ELSE site' = site /\ disc' = Idle

MCInit == Init /\ ParseBegins
MCNext ==
  \/ doc = <<>> /\ Next /\ Instance /\ UNCHANGED rulesVars
  \/ Init /\ (\A h \in Hosts : site[h] = "rules") /\ ParseLine /\ UNCHANGED vars
MCSafety == MCInit /\ [][MCNext]_<<vars, rulesVars>>
MCSpec == MCSafety /\ Fairness
=============================================================================
