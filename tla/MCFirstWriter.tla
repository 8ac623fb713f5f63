---------------------------- MODULE MCFirstWriter ----------------------------
(* Three places where the first of several racing writers must win, checked in *)
(* one run: the decision of a request (three writers, one of them in the other *)
(* deployment); the hour of a scheduled action (answers, reports, a crash),    *)
(* for a post and a comment of one account and for posts of two; the persona   *)
(* of an account (two runs over it, or one over two accounts).  A behaviour    *)
(* is about one of them.                                                       *)
EXTENDS PublishApprovalRefinement, FirstWriters, TLC

CONSTANTS a1, a2, r1, e1   \* accounts, runs, environments

VARIABLE part
mcVars == <<vars, scheduleVars, fillVars, part>>

ByProcess == [p \in Writers \cup Callers \cup Relays |-> IF ToString(p) = "w3" THEN "ol" ELSE "dev"]
PostsAndComments == {<<a1, "post">>, <<a1, "comment">>, <<a2, "post">>}
FirstMinute == [k \in Keys |-> 0]

(* The actions that fall due; the others are answered "no" from the start.     *)
Due == [account |-> {<<a1, "post">>, <<a1, "comment">>}, accounts |-> {<<a1, "post">>, <<a2, "post">>}]
OfPart == \A t \in ticks' : t.at.key \in Due[part] \cup {None}

\* Two runs over one account; one run over two accounts; one run over one,
\* with people and faults beside it.
OfFill ==
  /\ part # "fault" => faults' = {} /\ \A e \in FillEnvs : persona'[e] # "person" /\ (persona'[e] = Nothing => persona[e] = Nothing)
  /\ \A e \in FillEnvs \ {e1} :
       notice'[e] = Quiet /\ (part # "batch" => persona'[e] = Nothing /\ \A r \in Runs : target'[r][e] = Nothing)
  /\ part # "runs" => \A r \in Runs \ {r1} : fillRun'[r] = Nothing

MCInit ==
  /\ Init /\ ScheduleInit /\ FillInit /\ part \in {"register", "runs", "batch", "fault"} \cup DOMAIN Due
  /\ \A e \in FillEnvs \ {e1} : bound[e] = "bound"
  /\ part \notin {"batch", "fault"} => bound[e1] = "bound"
MCNext ==
  \/ part = "register" /\ Next /\ UNCHANGED <<scheduleVars, fillVars, part>>
  \/ part \in DOMAIN Due /\ ScheduleNext /\ OfPart /\ UNCHANGED <<vars, fillVars, part>>
  \/ part \in {"runs", "batch", "fault"} /\ FillNext /\ OfFill /\ UNCHANGED <<vars, scheduleVars, part>>
MCSpec == MCInit /\ [][MCNext]_mcVars

=============================================================================
