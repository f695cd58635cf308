----------------------------- MODULE ReviewRounds -----------------------------
(***************************************************************************)
(* Rounds of review of one pull request (scripts/ai/src/m42_ai/review.py   *)
(* and code_review.py): finders (bots, or /code-review with its marker)    *)
(* submit reviews whose summary findings have no thread and no resolve     *)
(* button; an agent fetches the open work, replies, and fetches again.     *)
(* Which summaries are answered is not stored anywhere: every fetch        *)
(* derives it anew from the reviews and comments that its query returns,   *)
(* the first ReviewWindow reviews and the last CommentWindow comments.     *)
(***************************************************************************)
EXTENDS Integers, Sequences, SequencesExt

CONSTANTS Threads,          \* review threads that finders may open
          ReviewWindow,     \* reviews(first: 50)
          CommentWindow,    \* comments(last: 100)
          Naming,           \* agents name the review they answer, as their instructions ask
          MaxReviews,       \* bounds: reviews submitted,
          MaxUpsets,        \* comments and permalinks of people, failed calls,
          MaxClock          \* seconds

ASSUME ReviewAssumption == /\ ReviewWindow \in Nat \ {0} /\ CommentWindow \in Nat \ {0}
                           /\ Naming \in BOOLEAN

NoReview == 0

VARIABLES reviews,      \* submitted reviews, in the order of submission
          comments,     \* comments of the conversation
          threads,      \* "absent", "open", "resolved"
          clock,        \* GitHub's time, in seconds
          tree,         \* the checkout: "head" of the pull request; another branch, "clean" or "dirty"
          agent,        \* "idle", "gated", "working", "stopped"
          work,         \* what the last fetch reported: [threads, review]
          shown,        \* reviews whose findings some fetch has reported
          upsets

github == <<reviews, comments, threads, clock>>
reviewVars == <<github, tree, agent, work, shown, upsets>>

NoWork == [threads |-> {}, review |-> NoReview]

ReviewInit ==
  /\ reviews = <<>> /\ comments = <<>>
  /\ threads = [t \in Threads |-> "absent"] /\ clock = 0
  /\ tree \in {"head", "clean", "dirty"}
  /\ agent = "idle" /\ work = NoWork /\ shown = {} /\ upsets = 0

-----------------------------------------------------------------------------
(* shape_review_open *)

Earliest(n, s) == SubSeq(s, 1, IF Len(s) < n THEN Len(s) ELSE n)
Latest(n, s) == SubSeq(s, IF Len(s) <= n THEN 1 ELSE Len(s) - n + 1, Len(s))

\* is_finder_review and extract_summary_findings, on the reviews the query returns.
Suppressed == {n \in DOMAIN Earliest(ReviewWindow, reviews) : reviews[n].finder /\ reviews[n].findings}

\* Triage replies and posts that name a review: comments of anybody, reviews of people.
IsReply(post) == ~post.finder /\ (post.triage \/ post.names # NoReview)

\* Bug: a reply that names a review closes the latest one as well.
Close_Both(answered, reply) ==
  LET candidates == {n \in Suppressed \ answered : reviews[n].at <= reply.at}
  IN  answered \cup ({reply.names} \cap Suppressed) \cup {n \in candidates : \A k \in candidates : k <= n}

\* A reply closes the review it names, and only that; one that names none closes the latest
\* review that was still open when it was posted, to the second.
Close(answered, reply) ==
  LET candidates == {n \in Suppressed \ answered : reviews[n].at <= reply.at}
  IN  answered \cup (IF reply.names # NoReview THEN {reply.names} \cap Suppressed
                     ELSE {n \in candidates : \A k \in candidates : k <= n})

\* What the replies of time t among some posts close, one after the other.
AfterPosts(answered, posts, t) ==
  LET after[n \in 0 .. Len(posts)] ==
        IF n = 0 THEN answered
        ELSE IF IsReply(posts[n]) /\ posts[n].at = t THEN Close(after[n - 1], posts[n]) ELSE after[n - 1]
  IN  after[Len(posts)]

\* In the order of their time stamps, comments first where these are equal.
AfterSeconds[t \in 0 .. clock + 1] ==
  IF t = 0 THEN {}
  ELSE AfterPosts(AfterPosts(AfterSeconds[t - 1], Latest(CommentWindow, comments), t - 1),
                  Earliest(ReviewWindow, reviews), t - 1)

\* answered_suppressed_review_ids
Answered == AfterSeconds[clock + 1]

\* Bug: only the newest review is looked at.
OpenReview_Newest ==
  LET newest == {n \in Suppressed : \A k \in Suppressed : k <= n}
  IN  IF newest \subseteq Answered THEN NoReview ELSE CHOOSE n \in newest : TRUE

\* Of the reviews that are not answered, the open work has the latest only.
OpenReview == LET open == Suppressed \ Answered
              IN  IF open = {} THEN NoReview ELSE CHOOSE n \in open : \A k \in open : k <= n

Unresolved == {t \in Threads : threads[t] = "open"}

-----------------------------------------------------------------------------
(* What others do meanwhile. *)

Post(finder, findings, triage, names) ==
  [finder |-> finder, findings |-> findings, triage |-> triage, names |-> names, at |-> clock]

\* A bot reviews, or publish_report submits a marked report; threads may come with it.
FinderReviews ==
  /\ Len(reviews) < MaxReviews
  /\ \E findings \in BOOLEAN, new \in SUBSET {t \in Threads : threads[t] = "absent"} :
       /\ reviews' = Append(reviews, Post(TRUE, findings, FALSE, NoReview))
       /\ threads' = [t \in Threads |-> IF t \in new THEN "open" ELSE threads[t]]
  /\ UNCHANGED <<comments, clock, tree, agent, work, shown, upsets>>

\* publish_report: the review is refused and the report becomes a comment, in which no fetch
\* looks for findings; people comment, too, and may mention a review.
Chat ==
  /\ upsets < MaxUpsets /\ upsets' = upsets + 1
  /\ \E n \in {NoReview} \cup {k \in DOMAIN reviews : reviews[k].finder} :
       comments' = Append(comments, Post(FALSE, FALSE, FALSE, n))
  /\ UNCHANGED <<reviews, threads, clock, tree, agent, work, shown>>

\* A person reviews the pull request and answers a finder's review that has been reported.
PersonReviews ==
  /\ Len(reviews) < MaxReviews
  /\ \E n \in shown : reviews' = Append(reviews, Post(FALSE, FALSE, TRUE, IF Naming THEN n ELSE NoReview))
  /\ UNCHANGED <<comments, threads, clock, tree, agent, work, shown, upsets>>

Second == /\ clock < MaxClock /\ clock' = clock + 1
          /\ UNCHANGED <<reviews, comments, threads, tree, agent, work, shown, upsets>>

\* The user commits, edits, or changes branches.
UserWorks ==
  /\ agent \in {"idle", "stopped"}
  /\ \E t \in {"head", "clean", "dirty"} \ {tree} : tree' = t
  /\ UNCHANGED <<github, agent, work, shown, upsets>>

-----------------------------------------------------------------------------
(* The agent and its commands. *)

\* ensure_pr_head: nothing to do on the head, dirty or not; checkout from a clean branch only.
Gate ==
  /\ agent \in {"idle", "stopped"}
  /\ IF tree = "dirty" THEN agent' = "stopped" /\ UNCHANGED tree
                       ELSE agent' = "gated" /\ tree' = "head"
  /\ UNCHANGED <<github, work, shown, upsets>>

\* empty_head_ref, checkout_failed, checkout_branch_mismatch; a query that fails.
CallFails ==
  /\ upsets < MaxUpsets /\ upsets' = upsets + 1
  /\ \/ agent = "idle" /\ tree = "clean"
     \/ agent = "gated"
  /\ agent' = "stopped"
  /\ UNCHANGED <<github, tree, work, shown>>

\* fetch_review_open; with --review-id, which a person asks for, that review is reported.
Fetch ==
  /\ agent = "gated"
  /\ \E review \in {OpenReview} \cup IF upsets < MaxUpsets THEN shown ELSE {} :
       /\ work' = [threads |-> Unresolved, review |-> review]
       /\ shown' = shown \cup ({review} \cap Suppressed)
       /\ agent' = IF Unresolved = {} /\ review = NoReview THEN "idle" ELSE "working"
       /\ upsets' = IF review = OpenReview THEN upsets ELSE upsets + 1
  /\ UNCHANGED <<github, tree>>

\* review_reply on the thread, which leaves it open, and review_resolve.
Resolve ==
  /\ agent = "working"
  /\ \E t \in work.threads : /\ threads' = [threads EXCEPT ![t] = "resolved"]
                              /\ work' = [work EXCEPT !.threads = @ \ {t}]
  /\ UNCHANGED <<reviews, comments, clock, tree, agent, shown, upsets>>

\* review_reply --conversation for the summary; the call may fail after the comment was made.
ReplyToReview ==
  /\ agent = "working" /\ work.review # NoReview
  /\ comments' = Append(comments, Post(FALSE, FALSE, TRUE, IF Naming THEN work.review ELSE NoReview))
  /\ \/ work' = [work EXCEPT !.review = NoReview] /\ UNCHANGED upsets
     \/ upsets < MaxUpsets /\ upsets' = upsets + 1 /\ UNCHANGED work
  /\ UNCHANGED <<reviews, threads, clock, tree, agent, shown>>

RoundEnds ==
  /\ agent = "working" /\ work = NoWork
  /\ agent' = "idle"
  /\ UNCHANGED <<github, tree, work, shown, upsets>>

AgentStep == Gate \/ Fetch \/ Resolve \/ ReplyToReview \/ RoundEnds
ReviewNext == AgentStep \/ CallFails \/ FinderReviews \/ Chat \/ PersonReviews \/ Second \/ UserWorks

\* The agent is run again and again.
ReviewSpec == ReviewInit /\ [][ReviewNext]_reviewVars /\ WF_reviewVars(AgentStep)

-----------------------------------------------------------------------------
Mentioned == {comments[n].names : n \in {k \in DOMAIN comments : ~comments[k].triage}}

(* As long as replies name the review they answer, none is closed before its findings have
   been reported to somebody or a person has pointed at it, also when it arrives between a
   fetch and the replies to that, in the same second, or out of the query's window
   (review.py 553-609). *)
NoneLost == Naming => Answered \subseteq shown \cup Mentioned

(* The rounds come to an end: each summary that the query returns is closed at last, the
   latest first, then those that it had hidden, although replies leave the window of comments
   again; unless the gate keeps the agent from looking (review.py 612-720). *)
AllTriaged == <>[](Suppressed \subseteq Answered) \/ []<>(agent = "stopped")

(* scripts/ai/README.md 91-93: summary findings stay open work "until a triage reply names
   #pullrequestreview-<id>". *)
OpenUntilNamed ==
  Answered \subseteq {p.names : p \in {q \in ToSet(comments \o reviews) : q.triage}}
=============================================================================
