------------------------------ MODULE IssueGuard ------------------------------
(***************************************************************************)
(* The completion contract of release issues:                              *)
(* scripts/check_release_issue.py and release-issue-close.yml.             *)
(*                                                                         *)
(* Closing an issue starts a job with the issue as it was at that moment;  *)
(* the job checks it, reopens the issue, and leaves one comment, which it  *)
(* looks for before it writes.  People edit, close and reopen the issue    *)
(* meanwhile.  A body is                                                   *)
(*     [boxes : "none" | "open" | "checked", partial, successor : BOOLEAN] *)
(***************************************************************************)
EXTENDS Integers, FiniteSets

CONSTANTS Body,         \* the bodies an issue may have
          JobId,        \* one for each time the issue is closed
          NoIssue,
          NoEvent       \* a job that has not started

VARIABLES issue,     \* [open, release, reason, body]
          jobs,      \* [JobId -> [phase, event, found]]
          comments   \* how many comments carry the guard's marker

issVars == << issue, jobs, comments >>

Reason == {"completed", "not_planned"}

\* closure_violation: what is missing; the successor counts inside its section only.
ClosureViolation(event) ==
    IF ~event.release THEN {}
    ELSE IF event.reason = "not_planned"
    THEN (IF event.body.partial THEN {} ELSE {"partial outcome"})
         \cup (IF event.body.partial /\ event.body.successor THEN {} ELSE {"successor"})
    ELSE IF event.body.boxes = "checked" THEN {} ELSE {"criteria"}

NewJob == [phase |-> "none", event |-> NoEvent, found |-> FALSE]

IssInit ==
    /\ issue \in {NoIssue} \cup [open : {TRUE}, release : BOOLEAN, reason : {"completed"},
                                 body : Body]
    /\ jobs = [j \in JobId |-> NewJob]
    /\ comments = 0

Exists == issue # NoIssue
JobAt(j, phase) == jobs[j].phase = phase

\* After the check nothing reads the event again.
To(j, phase) == jobs' = [jobs EXCEPT ![j].phase = phase, ![j].event = NoEvent]

Edit(body) ==
    /\ Exists /\ issue' = [issue EXCEPT !.body = body]
    /\ UNCHANGED << jobs, comments >>

Close(j, reason) ==
    /\ Exists /\ issue.open /\ JobAt(j, "none")
    /\ issue' = [issue EXCEPT !.open = FALSE, !.reason = reason]
    /\ jobs' = [jobs EXCEPT ![j].phase = "check", ![j].event = issue']
    /\ UNCHANGED comments

Reopen ==
    /\ Exists /\ ~issue.open /\ issue' = [issue EXCEPT !.open = TRUE]
    /\ UNCHANGED << jobs, comments >>

\* The mutant looks at the issue when the job runs.
CheckedIssueNow(j) == issue
CheckedIssue(j) == jobs[j].event

\* The script reports a violation, or breaks: both are outcome failure.
Check(j) ==
    /\ JobAt(j, "check")
    /\ \/ ClosureViolation(CheckedIssue(j)) = {} /\ To(j, "done")
       \/ To(j, "reopen")
    /\ UNCHANGED << issue, comments >>

ReopenIssue(j) ==
    /\ JobAt(j, "reopen") /\ To(j, "find")
    /\ issue' = [issue EXCEPT !.open = TRUE]
    /\ UNCHANGED comments

FindComment(j) ==
    /\ JobAt(j, "find")
    /\ jobs' = [jobs EXCEPT ![j].phase = "write", ![j].found = comments > 0]
    /\ UNCHANGED << issue, comments >>

WriteComment(j) ==
    /\ JobAt(j, "write")
    /\ jobs' = [jobs EXCEPT ![j].phase = "done", ![j].found = FALSE]
    /\ comments' = IF jobs[j].found THEN comments ELSE comments + 1
    /\ UNCHANGED issue

\* The job loses its runner, or a call to GitHub fails.
JobFails(j) ==
    /\ jobs[j].phase \in {"check", "reopen", "find", "write"} /\ To(j, "failed")
    /\ UNCHANGED << issue, comments >>

Work(j) == Check(j) \/ ReopenIssue(j) \/ FindComment(j) \/ WriteComment(j)

IssNext ==
    \/ Reopen
    \/ \E body \in Body : Edit(body)
    \/ \E j \in JobId : Work(j) \/ JobFails(j) \/ \E reason \in Reason : Close(j, reason)

IssFairness == \A j \in JobId : WF_issVars(Work(j) \/ JobFails(j))

Complete(event) ==
    \/ event.reason = "completed" /\ event.body.boxes = "checked"
    \/ event.reason = "not_planned" /\ event.body.partial /\ event.body.successor

IsOpen == Exists /\ issue.open

(***************************************************************************)
(* Closing a release issue before it is complete does not last: whatever   *)
(* is edited or closed again meanwhile, the issue is open at some later    *)
(* moment, unless the job itself failed (release-issue-close.yml).         *)
(***************************************************************************)
UnmetClosureIsUndone ==
    \A j \in JobId :
        (JobAt(j, "check") /\ jobs[j].event.release /\ ~Complete(jobs[j].event))
            ~> (IsOpen \/ JobAt(j, "failed"))
================================================================================
