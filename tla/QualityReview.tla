---------------------------- MODULE QualityReview ----------------------------
(***************************************************************************)
(* The human review of one analysed call of a company: service/            *)
(* qualityreview, with the edits of the transcript it is meant to hold     *)
(* back and the re-runs of the analysis it judges.                         *)
(*                                                                         *)
(* Every request is a transaction that locks the review first.  What is    *)
(* stale is what a person holds: the version of the review they last read. *)
(* Versions are only compared for equality, so a person is fresh or not:   *)
(* each change of the review makes everybody but its author stale.         *)
(* An edit asks for an open review in one statement and writes in a later  *)
(* transaction.                                                            *)
(***************************************************************************)
EXTENDS Naturals, Sequences, FiniteSets

CONSTANTS
  Reviewers,      \* those authorize lets review: the management and a leader
  Management,     \* owner and deputy
  Counted,        \* the uploader and the subjects of the call
  MaxVerdicts,    \* rows of call_quality_review_revisions (bound)
  MaxAppeals,     \* appeals (bound)
  MaxWords,       \* revisions of the transcript (bound)
  MaxReruns       \* re-runs of the analysis (bound)

ASSUME ReviewAssumption ==
  /\ Management \subseteq Reviewers
  /\ MaxVerdicts \in Nat /\ MaxAppeals \in Nat
  /\ MaxWords \in Nat \ {0} /\ MaxReruns \in Nat

Persons == Reviewers \cup Counted
Nobody == "nobody"

VARIABLES
  review,      \* the row of call_quality_reviews
  verdicts,    \* its revisions: drafts, the published one, superseded ones
  appeals,     \* its appeals
  challenged,  \* the row of call_quality_review_challenges exists
  fresh,       \* who has read the present version of the review
  words,       \* active revision of the transcript
  source,      \* the analysis under review
  editor       \* somebody who edits, after ensureNotUnderReview

reviewVars == <<review, verdicts, appeals, challenged, fresh, words, source, editor>>

ReviewStatus == {"none", "unassigned", "assigned", "in_review", "published",
                 "appealed", "resolved"}
OpenReview == {"unassigned", "assigned", "in_review", "appealed"}

ReviewRow(status, assignee, active, revision) ==
  [status |-> status, assignee |-> assignee, active |-> active, revision |-> revision]

ReviewTypeOK ==
  /\ review \in [status : ReviewStatus, assignee : Reviewers \cup {Nobody},
                 active : 0 .. Len(verdicts), revision : 0 .. MaxWords]
  /\ verdicts \in Seq([author : Reviewers, of : 0 .. MaxReruns,
                       status : {"draft", "published", "superseded", "discarded"}])
  /\ Len(verdicts) <= MaxVerdicts
  /\ appeals \in Seq([on : 1 .. Len(verdicts), by : Counted,
                      status : {"open", "accepted", "rejected"}])
  /\ Len(appeals) <= MaxAppeals
  /\ challenged \in BOOLEAN
  /\ fresh \subseteq Reviewers
  /\ words \in 1 .. MaxWords
  /\ source \in [run : 0 .. MaxReruns, revision : 1 .. MaxWords,
                 status : {"done", "processing", "stale"}]
  /\ editor \in {"no", "allowed"}

(* An analysed call that nobody has reviewed. *)
ReviewInit ==
  /\ review = ReviewRow("none", Nobody, 0, 0)
  /\ verdicts = <<>> /\ appeals = <<>> /\ challenged = FALSE
  /\ fresh = {} /\ words = 1 /\ editor = "no"
  /\ source = [run |-> 0, revision |-> 1, status |-> "done"]

-----------------------------------------------------------------------------
(* Helpers *)

VerdictsIn(states) == {i \in 1 .. Len(verdicts) : verdicts[i].status \in states}
DraftsOf(p) == {i \in VerdictsIn({"draft"}) : verdicts[i].author = p}
OpenAppeals == {i \in 1 .. Len(appeals) : appeals[i].status = "open"}

(* Management edits what is assigned to others. *)
MayEdit(p) == review.assignee \in {Nobody, p} \/ p \in Management

(* sourceOutdated compares the revision the analysis was made of. *)
SourceOutdated == source.revision # review.revision

(* Mutant of SourceKept: the revision alone stands for the analysis. *)
SourceKeptByRevision(i) == source.revision = review.revision

(* The hash of the analysis in the draft is that of the analysis now. *)
SourceKept(i) == verdicts[i].of = source.run

(* Mutant of AuthorDiffers: the second verdict may be by anyone. *)
AuthorDiffersNever(p) == TRUE

AuthorDiffers(p) == review.active # 0 => verdicts[review.active].author # p

Given == Cardinality(VerdictsIn({"published", "superseded"}))

Changed(p) == fresh' = {p} \cap Reviewers

-----------------------------------------------------------------------------
(* Opening a review *)

(* Create: not by anyone the call counts for; one per analysis. *)
CreateReview(p, assignee) ==
  /\ review.status = "none"
  /\ p \in Reviewers \ Counted
  /\ source.status = "done"
  /\ review' = ReviewRow(IF assignee = Nobody THEN "unassigned" ELSE "assigned",
                         assignee, 0, source.revision)
  /\ Changed(p)
  /\ UNCHANGED <<verdicts, appeals, challenged, words, source, editor>>

(* ChallengeAnalysis by the uploader: it opens a review, or an appeal       *)
(* against the verdict there is; each only once at a time.                  *)
ChallengeAnalysis(p) ==
  /\ p \in Counted /\ source.status = "done"
  /\ review.active = 0 => ~challenged
  /\ challenged' = TRUE
  /\ IF review.active = 0
     THEN /\ review' = IF review.status = "none"
                       THEN ReviewRow("unassigned", Nobody, 0, source.revision)
                       ELSE review
          /\ UNCHANGED <<appeals, fresh>>
     ELSE /\ OpenAppeals = {} /\ Len(appeals) < MaxAppeals
          /\ appeals' = Append(appeals, [on |-> review.active, by |-> p, status |-> "open"])
          /\ review' = [review EXCEPT !.status = "appealed", !.assignee = Nobody]
          /\ fresh' = {}
  /\ UNCHANGED <<verdicts, words, source, editor>>

-----------------------------------------------------------------------------
(* Reviewers *)

ReadReview(p) ==
  /\ review.status # "none" /\ p \notin fresh
  /\ fresh' = fresh \cup {p}
  /\ UNCHANGED <<review, verdicts, appeals, challenged, words, source, editor>>

(* Claim; the version is optional, and the status is not looked at. *)
ClaimReview(p) ==
  /\ review.status # "none" /\ review.assignee \in {Nobody, p}
  /\ review' = [review EXCEPT !.assignee = p, !.status = "in_review"]
  /\ Changed(p)
  /\ UNCHANGED <<verdicts, appeals, challenged, words, source, editor>>

SaveDraft(p) ==
  /\ p \in fresh /\ MayEdit(p)
  /\ ~SourceOutdated /\ source.status # "processing"
  /\ IF DraftsOf(p) # {}
     THEN verdicts' = [i \in 1 .. Len(verdicts) |->
                         IF i \in DraftsOf(p) THEN [verdicts[i] EXCEPT !.of = source.run]
                                              ELSE verdicts[i]]
     ELSE /\ Len(verdicts) < MaxVerdicts
          /\ verdicts' = Append(verdicts,
                           [author |-> p, of |-> source.run, status |-> "draft"])
  /\ review' = [review EXCEPT !.status = "in_review",
                              !.assignee = IF @ = Nobody THEN p ELSE @]
  /\ Changed(p)
  /\ UNCHANGED <<appeals, challenged, words, source, editor>>

DiscardDraft(p) ==
  /\ p \in fresh /\ MayEdit(p)
  /\ verdicts' = [i \in 1 .. Len(verdicts) |->
                    IF i \in DraftsOf(p) THEN [verdicts[i] EXCEPT !.status = "discarded"]
                                         ELSE verdicts[i]]
  /\ Changed(p)
  /\ UNCHANGED <<review, appeals, challenged, words, source, editor>>

(* What Publish asks, after the version and the draft. *)
MayPublish(p, i) ==
  /\ ~SourceOutdated /\ SourceKept(i)
  /\ Given < 2
  /\ Given = 1 => review.status = "appealed" \/ p \in Management
  /\ AuthorDiffers(p)

(* Mutant of Superseding: the first verdict stays published. *)
SupersedingNone(i) == {i}

(* The verdict that takes effect replaces the one in force. *)
Superseding(i) == {i, review.active}

PublishVerdict(p) ==
  /\ p \in fresh
  /\ \E i \in DraftsOf(p) :
       /\ MayPublish(p, i)
       /\ verdicts' = [v \in 1 .. Len(verdicts) |->
            CASE v = i                           -> [verdicts[v] EXCEPT !.status = "published"]
              [] v # i /\ v \in Superseding(i)   -> [verdicts[v] EXCEPT !.status = "superseded"]
              [] OTHER                           -> verdicts[v]]
       /\ review' = [review EXCEPT !.active = i,
                       !.status = IF Given = 1 THEN "resolved" ELSE "published"]
       /\ appeals' = IF Given = 0 THEN appeals
                     ELSE [a \in 1 .. Len(appeals) |->
                             IF a \in OpenAppeals
                             THEN [appeals[a] EXCEPT !.status = "accepted"] ELSE appeals[a]]
  /\ Changed(p)
  /\ UNCHANGED <<challenged, words, source, editor>>

-----------------------------------------------------------------------------
(* Appeals *)

(* CreateAppeal: not against the management; one per author and verdict. *)
CreateAppeal(p) ==
  /\ p \in Counted /\ review.active # 0
  /\ verdicts[review.active].author \notin Management
  /\ \A a \in OpenAppeals : ~(appeals[a].by = p /\ appeals[a].on = review.active)
  /\ Len(appeals) < MaxAppeals
  /\ appeals' = Append(appeals, [on |-> review.active, by |-> p, status |-> "open"])
  /\ review' = [review EXCEPT !.status = "appealed"]
  /\ fresh' = {}
  /\ UNCHANGED <<verdicts, challenged, words, source, editor>>

(* ResolveAppeal: accepting it takes another published verdict of the review. *)
ResolveAppeal(p) ==
  /\ p \in Management
  /\ \E a \in OpenAppeals, r \in {0} \cup VerdictsIn({"published"}) :
       /\ verdicts[appeals[a].on].author # p
       /\ r # appeals[a].on
       /\ appeals' = [appeals EXCEPT ![a].status = IF r = 0 THEN "rejected" ELSE "accepted"]
       /\ review' = [review EXCEPT !.status = "resolved",
                                   !.active = IF r = 0 THEN @ ELSE r]
       /\ verdicts' = IF r = 0 THEN verdicts
                      ELSE [verdicts EXCEPT ![review.active].status = "superseded"]
  /\ fresh' = {}
  /\ UNCHANGED <<challenged, words, source, editor>>

-----------------------------------------------------------------------------
(* The transcript and the analysis meanwhile *)

EnsureNotUnderReview ==
  /\ editor = "no" /\ words < MaxWords
  /\ review.status \notin OpenReview
  /\ editor' = "allowed"
  /\ UNCHANGED <<review, verdicts, appeals, challenged, fresh, words, source>>

EditWords ==
  /\ editor = "allowed"
  /\ words' = words + 1
  /\ source' = IF source.status = "done" THEN [source EXCEPT !.status = "stale"] ELSE source
  /\ editor' = "no"
  /\ UNCHANGED <<review, verdicts, appeals, challenged, fresh>>

(* A re-run drops the result when it begins; nothing asks for the review. *)
RerunBegins ==
  /\ source.run < MaxReruns /\ source.status # "processing"
  /\ source' = [run |-> source.run + 1, revision |-> words, status |-> "processing"]
  /\ UNCHANGED <<review, verdicts, appeals, challenged, fresh, words, editor>>

RerunEnds ==
  /\ source.status = "processing"
  /\ source' = [source EXCEPT !.status = IF source.revision = words THEN "done" ELSE "processing",
                              !.revision = words]
  /\ UNCHANGED <<review, verdicts, appeals, challenged, fresh, words, editor>>

-----------------------------------------------------------------------------
ReviewNext ==
  \/ \E p \in Reviewers :
       \/ \E a \in Reviewers \cup {Nobody} : CreateReview(p, a)
       \/ ReadReview(p) \/ ClaimReview(p) \/ SaveDraft(p) \/ DiscardDraft(p)
       \/ PublishVerdict(p) \/ ResolveAppeal(p)
  \/ \E p \in Counted : ChallengeAnalysis(p) \/ CreateAppeal(p)
  \/ EnsureNotUnderReview \/ EditWords \/ RerunBegins \/ RerunEnds

ReviewSpec == ReviewInit /\ [][ReviewNext]_reviewVars

-----------------------------------------------------------------------------
(* Properties *)

(* One verdict is in force, and it is the active one: appeals, second        *)
(* verdicts and late drafts never leave two (service.go:683, storage.go:398).*)
OneVerdictInForce ==
  VerdictsIn({"published"}) = IF review.active = 0 THEN {} ELSE {review.active}

(* A call gets at most two verdicts, and the second is somebody else's        *)
(* opinion (service.go:620, 632).                                             *)
SecondOpinionIsAnothers ==
  \A i, j \in VerdictsIn({"published", "superseded"}) :
    /\ i # j => verdicts[i].author # verdicts[j].author
    /\ Given <= 2

(* A verdict is of the analysis its author saw: one that was re-run between   *)
(* the draft and its publication is not judged unseen (service.go:641).       *)
VerdictOfSeenAnalysis ==
  [][review'.active \notin {0, review.active}
       => verdicts[review'.active].of = source.run]_reviewVars
=============================================================================
