----------------------------- MODULE MCPlanning -----------------------------
(* Three objects in pages of two, and a fourth that is uploaded; the policies *)
(* are all pairs of a few rules that match and contradict one another.        *)
EXTENDS Planning, TLC

\* 1 and 2 are of one branch (or ref), 4 of another, and 3 of none.
Branch(id) == IF id \in {1, 2} THEN "main" ELSE "dev"

MCValues == [k \in Kind |-> [id \in Object |->
  IF k = "cache" THEN "repository" :> "project" @@ "key" :> "linux" @@ "ref" :> Branch(id)
  ELSE "repository" :> "project" @@ "workflow" :> "release" @@
       (IF id = 3 THEN <<>> ELSE "branch" :> Branch(id))]]

MCWorkflow == [id \in Object |-> 7]

MCBirth == 1 :> 0 @@ 2 :> 3 @@ 3 :> 5

\* A rule without selectors or action, to be filled in.
Blank(k, id) ==
  [id |-> id, resource |-> k, patterns |-> <<>>, keep_days |-> {}, keep_business_days |-> {},
   keep_unused_days |-> {}, keep_latest |-> {}, keep_latest_by |-> {}, protect |-> FALSE]

On(k, value) == (IF k = "cache" THEN "ref" ELSE "branch") :> {value}

Of(k) == "repository" :> {"project"} @@ On(k, "main")

\* Those of every kind of object; 70 days are more than MaxSeconds can tell.
Common(k) ==
  {[Blank(k, "latest") EXCEPT !.patterns = On(k, "main"), !.keep_latest = {2}],
   [Blank(k, "short") EXCEPT !.keep_days = {1}],
   [Blank(k, "long") EXCEPT !.patterns = On(k, "main"), !.keep_days = {3}],
   [Blank(k, "forever") EXCEPT !.patterns = On(k, "main"), !.keep_days = {41}],
   [Blank(k, "protect") EXCEPT !.patterns = "repository" :> {"project"} @@ On(k, "dev"), !.protect = TRUE]}

Rules(k) == Common(k) \cup
  (IF k = "cache"
   THEN {[Blank(k, "unused") EXCEPT !.patterns = On(k, "main"), !.keep_unused_days = {2}]}
   ELSE IF k = "workflow_run"
   THEN {[Blank(k, "business") EXCEPT !.keep_business_days = {2}],
         [Blank(k, "family") EXCEPT !.keep_latest = {2}, !.keep_latest_by = {"workflow"},
                                    !.keep_days = {0}]}
   ELSE {[Blank(k, "release") EXCEPT !.patterns = "workflow" :> {"release"}, !.protect = TRUE]})

MCConfigs == [k \in Kind |->
  {[rules |-> {r, s}, keep_days |-> 2, caches |-> [keep_days |-> 2, keep_unused_days |-> {1}],
    runs |-> [keep_days |-> {}, keep_business_days |-> {3}]] : r, s \in Rules(k)}]

MCShields == [k \in Kind |->
  {[Blank(k, "shield") EXCEPT !.patterns = Of(k), !.keep_latest = {1}],
   [Blank(k, "shield") EXCEPT !.patterns = Of(k), !.protect = TRUE]}]

MCRequests == {{1}, {2, 3}, {4}}
MCAges == {{}, {4}}
=============================================================================
