------------------------------- MODULE Cleanup -------------------------------
(***************************************************************************)
(* `apply` of an artifact plan and `purge apply` of a cache plan: the same *)
(* reviewed plan, applied once or again, from the revalidation over the    *)
(* consent to the DELETEs and the audit record.  An artifact is looked up  *)
(* by its id, its DELETE is believed, and there is a record at the end or  *)
(* none.  A cache is looked for in the pages of a list that others change, *)
(* its DELETE is verified the same way, a rate limit halts the rest, and   *)
(* an intent goes ahead of the first DELETE.                               *)
(*                                                                         *)
(* One step is one request.  The provider tells the truth about what a     *)
(* request meets, and an error says nothing about the effect of a DELETE.  *)
(***************************************************************************)
EXTENDS Listing, FiniteSets

CONSTANTS
  Object,     \* ids of artifacts or caches; the provider never reuses one
  Initial,    \* the provider's list at first, newest first
  Targets,    \* plan.targets()
  MaxApplies, \* bound: how often the plan is applied
  MaxMoves    \* bound: how often somebody else changes the list

InSeq(s) == {s[n] : n \in 1..Len(s)}

ASSUME PlanAssumption ==
  /\ Initial \in Seq(Object) /\ Targets \in Seq(Object)
  /\ Len(Targets) > 0
  /\ InSeq(Targets) \subseteq InSeq(Initial)
  /\ \A m, n \in 1..Len(Targets) : Targets[m] = Targets[n] => m = n
  /\ MaxApplies \in Nat \ {0} /\ MaxMoves \in Nat

VARIABLES
  kind,      \* what the plan is of
  store,     \* the list at the provider
  changed,   \* objects that differ from the plan's snapshot
  inflight,  \* objects with a DELETE whose effect is still to come
  apply,     \* the application of the plan that runs
  pc,        \* where it is
  at,        \* the target it is at
  look,      \* how far the lookup of the target has paged
  review,    \* the items of the revalidation, until the execution begins
  report,    \* the items of the targets it is done with
  halted,    \* halt_reason is set
  intents,   \* applications with a recorded intent
  records,   \* applications with a final record
  sent,      \* <<application, object>>: a DELETE has been sent
  recent,    \* objects that moved since the last request
  shifted,   \* the list has moved since the lookup began
  moves      \* how often others have changed the list

provider == <<store, changed, inflight>>
audit == <<intents, records>>
seen == <<recent, shifted>>
vars == <<kind, provider, apply, pc, at, look, review, report, halted, audit, sent, seen, moves>>

-----------------------------------------------------------------------------
(* Types *)

Kind == {"artifact", "cache"}

\* "Ready" is Unchanged where an artifact is reviewed.
ReviewState == {"Ready", "AlreadyAbsent", "Changed", "RevalidationFailed"}

ArtifactState ==
  {"Deleted", "AlreadyAbsent", "Changed", "RevalidationFailed", "DeleteFailed"}

CacheState == ArtifactState \cup {"VerificationFailed", "Blocked"}

Pc == {"review", "intent", "next", "check", "delete", "verify", "exit"}

\* limited: the error of the item says that the provider's rate limit is reached.
Item ==
  [state : IF kind = "artifact" THEN ArtifactState ELSE CacheState, limited : BOOLEAN]

TypeOK ==
  /\ kind \in Kind
  /\ store \in Seq(Object) /\ Cardinality(InSeq(store)) = Len(store)
  /\ changed \subseteq Object
  /\ inflight \subseteq InSeq(Targets)
  /\ apply \in 1..MaxApplies
  /\ pc \in Pc
  /\ at \in 1..(Len(Targets) + 1)
  /\ look \in [page : Nat \ {0}, read : Nat]
  /\ review \in Seq(ReviewState) /\ (pc = "review" => Len(review) = at - 1)
  /\ report \in Seq(Item)
  /\ pc \in {"next", "check", "delete", "verify"} => Len(report) = at - 1
  /\ halted \in BOOLEAN
  /\ intents \subseteq 1..apply /\ records \subseteq 1..apply
  /\ sent \subseteq (1..apply) \X InSeq(Targets)
  /\ recent \subseteq Object
  /\ shifted \in BOOLEAN
  /\ moves \in 0..MaxMoves

-----------------------------------------------------------------------------
(* Helpers *)

Target == Targets[at]

\* How a target compares with the plan: changed_fields, or inequality for a cache.
Met(o) == IF o \in changed THEN "changed" ELSE "same"

\* An artifact is asked for by its id.
ArtifactFound(o) == IF o \in InSeq(store) THEN Met(o) ELSE "absent"

\* Mutation of CacheFound: a page that is not full ends the listing unsearched.
FoundOnFullPages(o) ==
  LET page == Page(store, look.page)
  IN IF Len(page) < PerPage THEN "absent"
     ELSE IF o \in InSeq(page) THEN Met(o) ELSE "more"

\* A cache is looked for page by page, until the pages are said to be over.
CacheFound(o) ==
  LET page == Page(store, look.page)
  IN IF o \in InSeq(page) THEN Met(o)
     ELSE IF ListingEnds(page, look.read + Len(page), Len(store)) THEN "absent"
     ELSE "more"

FirstPage == [page |-> 1, read |-> 0]

\* A request closes the gap in which others could act unseen.
Requests == recent' = {} /\ UNCHANGED <<kind, moves, apply, audit>>

Silent == UNCHANGED <<kind, provider, apply, sent, seen, moves>>

\* The next request of the same lookup.
Turn ==
  /\ look' = [page |-> look.page + 1, read |-> look.read + Len(Page(store, look.page))]
  /\ Requests
  /\ UNCHANGED <<provider, pc, at, review, report, halted, sent, shifted>>

\* A lookup starts afresh.
LookAt(place) ==
  /\ pc' = place
  /\ look' = FirstPage
  /\ shifted' = FALSE

\* Mutation of Finish: the error of an item is not searched for the rate limit.
FinishUnlimited(state, limited, halt) ==
  /\ report' = Append(report, [state |-> state, limited |-> limited])
  /\ halted' = (halted \/ halt)
  /\ pc' = "next"
  /\ at' = at + 1
  /\ UNCHANGED <<look, review, shifted>>

\* The item is complete; a cache purge halts on the provider's rate limit.
Finish(state, limited, halt) ==
  /\ report' = Append(report, [state |-> state, limited |-> limited])
  /\ halted' = (halted \/ halt \/ (kind = "cache" /\ limited))
  /\ pc' = "next"
  /\ at' = at + 1
  /\ UNCHANGED <<look, review, shifted>>

\* The item of the revalidation is complete.
Judge(state, halt) ==
  /\ review' = Append(review, state)
  /\ halted' = (halted \/ halt)
  /\ at' = at + 1
  /\ LookAt("review")
  /\ UNCHANGED <<provider, report, sent>>

\* is_safe_to_apply
SafeToApply == InSeq(review) \subseteq {"Ready", "AlreadyAbsent"}

\* What execute accepts: the review is of this plan, target by target, and safe.
Reviewed == Len(review) = Len(Targets) /\ SafeToApply

\* The loop over the targets begins; nothing asks for the review any more.
Begin ==
  /\ pc' = "next"
  /\ at' = 1 /\ review' = <<>> /\ halted' = FALSE
  /\ UNCHANGED <<look, report>>

Without(o) ==
  IF o \notin InSeq(store) THEN store
  ELSE LET n == CHOOSE n \in 1..Len(store) : store[n] = o
       IN SubSeq(store, 1, n - 1) \o SubSeq(store, n + 1, Len(store))

-----------------------------------------------------------------------------
(* The command *)

Init ==
  /\ kind \in Kind
  /\ store = Initial
  /\ changed = {} /\ inflight = {}
  /\ apply = 1 /\ pc = "review" /\ at = 1
  /\ look = FirstPage
  /\ review = <<>> /\ report = <<>> /\ halted = FALSE
  /\ intents = {} /\ records = {} /\ sent = {}
  /\ recent = {} /\ shifted = FALSE /\ moves = 0

\* The same plan file is applied again, after whatever became of the last time.
Again ==
  /\ pc = "exit" /\ apply < MaxApplies
  /\ apply' = apply + 1
  /\ at' = 1 /\ review' = <<>> /\ report' = <<>> /\ halted' = FALSE
  /\ LookAt("review")
  /\ UNCHANGED <<kind, provider, audit, sent, recent, moves>>

\* The revalidation of an artifact.
ReviewArtifact ==
  /\ kind = "artifact" /\ pc = "review" /\ at <= Len(Targets)
  /\ Requests
  /\ \/ ArtifactFound(Target) = "same" /\ Judge("Ready", FALSE)
     \/ ArtifactFound(Target) = "changed" /\ Judge("Changed", FALSE)
     \/ ArtifactFound(Target) = "absent" /\ Judge("AlreadyAbsent", FALSE)
     \/ Judge("RevalidationFailed", FALSE)

\* The revalidation of a cache.  A rate limit, or telemetry that is down to the
\* headroom, halts it, and the rest is not looked at.
ReviewCache ==
  /\ kind = "cache" /\ pc = "review" /\ at <= Len(Targets)
  /\ \/ /\ Judge("RevalidationFailed", TRUE)
        /\ UNCHANGED <<kind, moves, apply, audit, recent>>
     \/ /\ ~halted
        /\ Requests
        /\ \/ CacheFound(Target) = "more" /\ Turn
           \/ CacheFound(Target) = "same" /\ Judge("Ready", FALSE)
           \/ CacheFound(Target) = "changed" /\ Judge("Changed", FALSE)
           \/ CacheFound(Target) = "absent" /\ Judge("AlreadyAbsent", FALSE)
           \/ \E limited \in BOOLEAN : Judge("RevalidationFailed", limited)

\* A plan that is not safe to apply any more.
Refuse ==
  /\ pc = "review" /\ at > Len(Targets) /\ ~SafeToApply
  /\ pc' = "exit"
  /\ Silent
  /\ UNCHANGED <<at, look, review, report, halted, audit>>

\* The typed "delete", or --yes; without it nothing happens.
ConsentToArtifacts ==
  /\ kind = "artifact" /\ pc = "review" /\ Reviewed
  /\ \/ Begin
     \/ pc' = "exit" /\ UNCHANGED <<at, look, review, report, halted>>
  /\ Silent
  /\ UNCHANGED audit

\* The typed phrase that counts the caches, or --yes; an intent comes next.
ConsentToCaches ==
  /\ kind = "cache" /\ pc = "review" /\ Reviewed
  /\ pc' \in {"intent", "exit"}
  /\ Silent
  /\ UNCHANGED <<at, look, review, report, halted, audit>>

\* Mutation of PersistIntent: without an intent there is only a warning.
PersistIntentOrWarn ==
  /\ pc = "intent"
  /\ intents' \in {intents, intents \cup {apply}}
  /\ Begin
  /\ Silent
  /\ UNCHANGED records

\* append_intent of the cache audit: no intent, no execution.
PersistIntent ==
  /\ pc = "intent"
  /\ \/ intents' = intents \cup {apply} /\ Begin
     \/ pc' = "exit" /\ UNCHANGED <<at, look, review, report, halted, intents>>
  /\ Silent
  /\ UNCHANGED records

\* A cache is Blocked after a halt, or when the telemetry is down to the headroom,
\* which halts the rest too.
Block ==
  /\ kind = "cache" /\ pc = "next" /\ at <= Len(Targets)
  /\ \E low \in BOOLEAN : (halted \/ low) /\ Finish("Blocked", FALSE, low)
  /\ UNCHANGED <<kind, provider, apply, audit, sent, recent, moves>>

\* The loop over the targets.
NextTarget ==
  /\ pc = "next" /\ at <= Len(Targets) /\ ~halted
  /\ LookAt("check")
  /\ UNCHANGED <<kind, provider, apply, at, review, report, halted, audit, sent, recent, moves>>

\* Mutation of CheckArtifact: the review was lookup enough.
CheckSkipped ==
  /\ kind = "artifact" /\ pc = "check"
  /\ pc' = "delete"
  /\ Silent
  /\ UNCHANGED <<at, look, review, report, halted, audit>>

\* The lookup just before the DELETE: only an unchanged target goes on.
CheckArtifact ==
  /\ kind = "artifact" /\ pc = "check"
  /\ Requests /\ UNCHANGED <<provider, sent>>
  /\ \/ /\ ArtifactFound(Target) = "same"
        /\ pc' = "delete"
        /\ UNCHANGED <<at, look, review, report, halted, shifted>>
     \/ ArtifactFound(Target) = "absent" /\ Finish("AlreadyAbsent", FALSE, FALSE)
     \/ ArtifactFound(Target) = "changed" /\ Finish("Changed", FALSE, FALSE)
     \/ \E limited \in BOOLEAN : Finish("RevalidationFailed", limited, FALSE)

CheckCache ==
  /\ kind = "cache" /\ pc = "check"
  /\ Requests /\ UNCHANGED <<provider, sent>>
  /\ \/ CacheFound(Target) = "more" /\ Turn
     \/ /\ CacheFound(Target) = "same"
        /\ pc' = "delete"
        /\ UNCHANGED <<at, look, review, report, halted, shifted>>
     \/ CacheFound(Target) = "absent" /\ Finish("AlreadyAbsent", FALSE, FALSE)
     \/ CacheFound(Target) = "changed" /\ Finish("Changed", FALSE, FALSE)
     \/ \E limited \in BOOLEAN : Finish("RevalidationFailed", limited, FALSE)

\* What the adapter makes of the answer to a DELETE: 404 is no error.
Outcome == {"Deleted", "AlreadyAbsent", "DeleteFailed"}

\* What a DELETE does: the effect may come late, or not at all with a failure; a
\* rate limit's refusal has none.
Effect(state, limited) ==
  /\ UNCHANGED changed
  /\ \/ state = "AlreadyAbsent" /\ Target \notin InSeq(store) /\ UNCHANGED <<store, inflight>>
     \/ state = "DeleteFailed" /\ UNCHANGED <<store, inflight>>
     \/ /\ ~limited
        /\ state = "DeleteFailed" \/ (state = "Deleted" /\ Target \in InSeq(store))
        /\ \/ store' = Without(Target) /\ UNCHANGED inflight
           \/ inflight' = inflight \cup {Target} /\ UNCHANGED store

\* The one DELETE request of an artifact, never retried; its answer is the outcome.
DeleteArtifact ==
  /\ kind = "artifact" /\ pc = "delete"
  /\ sent' = sent \cup {<<apply, Target>>}
  /\ Requests
  /\ \E outcome \in Outcome, limited \in BOOLEAN :
       /\ limited => outcome = "DeleteFailed"
       /\ Effect(outcome, limited)
       /\ Finish(outcome, limited, FALSE)

\* Mutation of DeleteCache: what failed is taken for a lookup that failed.
DeleteOrRevalidate ==
  /\ kind = "cache" /\ pc = "delete"
  /\ sent' = sent \cup {<<apply, Target>>}
  /\ Requests
  /\ \E outcome \in Outcome, limited \in BOOLEAN :
       /\ limited => outcome = "DeleteFailed"
       /\ Effect(outcome, limited)
       /\ \/ outcome = "Deleted" /\ LookAt("verify") /\ UNCHANGED <<at, review, report, halted>>
          \/ outcome = "AlreadyAbsent" /\ Finish(outcome, FALSE, FALSE)
          \/ outcome = "DeleteFailed" /\ Finish("RevalidationFailed", limited, FALSE)

\* The one DELETE request of a cache, never retried; a success is verified.
DeleteCache ==
  /\ kind = "cache" /\ pc = "delete"
  /\ sent' = sent \cup {<<apply, Target>>}
  /\ Requests
  /\ \E outcome \in Outcome, limited \in BOOLEAN :
       /\ limited => outcome = "DeleteFailed"
       /\ Effect(outcome, limited)
       /\ \/ outcome = "Deleted" /\ LookAt("verify") /\ UNCHANGED <<at, review, report, halted>>
          \/ outcome # "Deleted" /\ Finish(outcome, limited, FALSE)

\* The lookup after a success.
Verify ==
  /\ pc = "verify"
  /\ Requests /\ UNCHANGED <<provider, sent>>
  /\ \/ CacheFound(Target) = "more" /\ Turn
     \/ CacheFound(Target) = "absent" /\ Finish("Deleted", FALSE, FALSE)
     \/ /\ CacheFound(Target) \in {"same", "changed"}
        /\ Finish("VerificationFailed", FALSE, FALSE)
     \/ \E limited \in BOOLEAN : Finish("VerificationFailed", limited, FALSE)

\* append, append_with_intent: a failure ends the command with a warning.
Record ==
  /\ pc = "next" /\ at > Len(Targets)
  /\ records' \in {records, records \cup {apply}}
  /\ pc' = "exit"
  /\ Silent
  /\ UNCHANGED <<at, look, review, report, halted, intents>>

\* The process is killed, or fails where no other action says how.
Kill ==
  /\ pc # "exit"
  /\ pc' = "exit"
  /\ Silent
  /\ UNCHANGED <<at, look, review, report, halted, audit>>

-----------------------------------------------------------------------------
(* Everybody else *)

Moved(o) ==
  /\ moves < MaxMoves
  /\ moves' = moves + 1
  /\ recent' = recent \cup {o}
  /\ shifted' = TRUE
  /\ UNCHANGED <<kind, inflight, apply, pc, at, look, review, report, halted, audit, sent>>

\* A new object heads the list.
Upload ==
  \E o \in Object \ InSeq(Initial) :
    /\ o \notin InSeq(store) /\ o \notin changed
    /\ Moved(o)
    /\ store' = <<o>> \o store
    /\ changed' = changed \cup {o}

\* A cache is used, which takes it to the head of the list; an artifact expires.
Touch ==
  \E o \in InSeq(store) :
    /\ Moved(o)
    /\ changed' = changed \cup {o}
    /\ store' = IF kind = "cache" THEN <<o>> \o Without(o) ELSE store

Vanish ==
  \E o \in InSeq(store) :
    /\ Moved(o)
    /\ store' = Without(o)
    /\ UNCHANGED changed

\* A DELETE takes effect after its answer, or never.
Land ==
  \E o \in inflight :
    /\ inflight' = inflight \ {o}
    /\ store' \in {store, Without(o)}
    /\ shifted' = TRUE
    /\ UNCHANGED <<kind, changed, apply, pc, at, look, review, report, halted, audit,
                   sent, recent, moves>>

-----------------------------------------------------------------------------
Next ==
  \/ Again \/ ReviewArtifact \/ ReviewCache \/ Refuse
  \/ ConsentToArtifacts \/ ConsentToCaches \/ PersistIntent
  \/ NextTarget \/ Block \/ CheckArtifact \/ CheckCache
  \/ DeleteArtifact \/ DeleteCache \/ Verify \/ Record \/ Kill
  \/ Upload \/ Touch \/ Vanish \/ Land

Spec == Init /\ [][Next]_vars

-----------------------------------------------------------------------------
(* Properties *)

\* A DELETE is never based on the review, nor on an older look: what it meets is as
\* planned, or moved after the last request before it, in whichever application.
OnlyTheReviewedIsDeleted ==
  [][\A s \in sent' \ sent : s[2] \in changed => s[2] \in recent]_vars

\* The report owns up to every DELETE that was sent: none hides behind Blocked,
\* Changed or RevalidationFailed, and all of these are of targets left alone.
ReportOwnsUp ==
  \A j \in 1..Len(report) :
    report[j].state \in {"Blocked", "Changed", "RevalidationFailed"} =>
      <<apply, Targets[j]>> \notin sent

\* An item says that its target is gone only when the target is, but for an
\* artifact whose DELETE is believed, and for a cache whose list moved under the
\* lookup that missed it.
AbsentUnlessMoved ==
  [][\A j \in (Len(report) + 1)..Len(report') :
       report'[j].state \in {"Deleted", "AlreadyAbsent"} =>
         \/ Targets[j] \notin InSeq(store)
         \/ IF kind = "cache" THEN shifted ELSE report'[j].state = "Deleted"]_vars

\* After the provider's rate limit no later cache of the purge is touched.
HaltIsFinal ==
  \A j, k \in 1..Len(report) :
    kind = "cache" /\ j < k /\ report[j].limited =>
      report[k].state = "Blocked" /\ <<apply, Targets[k]>> \notin sent

\* A cache purge keeps the ledger that a run purge keeps: what an application
\* sends lies between its intent and its record, however often the plan is
\* applied and wherever it is killed.  An artifact cleanup keeps none.
Ledger ==
  INSTANCE PurgeLedger WITH
    Invocation <- 1..MaxApplies,
    Run <- Object,
    intents <- IF kind = "cache" THEN intents ELSE {},
    resolved <- IF kind = "cache" THEN records ELSE {},
    sent <- IF kind = "cache" THEN sent ELSE {}

LedgerSpec == Ledger!Spec

\* SAFETY.md: a cache purge "exact-lookups the cache again and accepts success only
\* when it is absent".
DeletedCacheIsAbsent ==
  [][\A j \in (Len(report) + 1)..Len(report') :
       kind = "cache" /\ report'[j].state = "Deleted" =>
         Targets[j] \notin InSeq(store)]_vars

\* SAFETY.md: "record every attempted result locally".
AttemptsAreRecorded ==
  pc = "exit" =>
    \A s \in sent : s[1] \in records \/ (kind = "cache" /\ s[1] \in intents)
=============================================================================
