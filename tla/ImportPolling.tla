--------------------------- MODULE ImportPolling ---------------------------
(***************************************************************************)
(* The import page of the web frontend: what it shows of an import job     *)
(* while answers of the server come late, out of order or not at all       *)
(* (composables/useDataImport.ts, views/data/DataImportView.vue).          *)
(*                                                                         *)
(* JavaScript runs one callback at a time: a step is one piece of a        *)
(* function between two awaits.  A snapshot of a job carries its age, the  *)
(* number of times its status has changed.                                 *)
(***************************************************************************)
EXTENDS Naturals, FiniteSets

CONSTANTS
  Jobs,             \* import jobs
  Nothing,          \* no job, no answer, no timer
  Refused,          \* the answer to a call the server turns down
  MAX_POLL_ERRORS,
  MaxAge            \* bound: no ended job goes on once one has this age

VARIABLES
  server,   \* status and age of every job, as the server has them
  open,     \* the page is mounted
  shown,    \* currentJob, a snapshot
  polling,  \* isPolling
  version,  \* pollingVersion
  errors,   \* pollErrorCount
  timers,   \* timeouts that are running: the chain (version, job) of each
  timer,    \* pollingTimer, which outlives the timeout it names
  calls,    \* requests whose promise is not settled
  astray    \* history: since polling last started, something but a snapshot
            \* of the end has stopped it, an answer came outdated, or the
            \* server went on with a job that it had reported as ended

page == <<shown, polling, version, errors, timers, timer, astray>>
vars == <<server, open, page, calls>>

Terminal == {"completed", "failed", "cancelled"}
Snapshot(j) == [job |-> j, status |-> server[j].status, age |-> server[j].age]
Call(kind, j, v) == [kind |-> kind, job |-> j, version |-> v, answer |-> Nothing]
Answered(c) == c.answer \notin {Nothing, Refused}
CallOf(kind) == {c \in calls : c.kind = kind}

\* An answer of the polling that goes on is still to come.
PollUnderWay == \E c \in CallOf("poll") : c.version = version

Init ==
  /\ server = [j \in Jobs |-> [status |-> "none", age |-> 0]]
  /\ open = TRUE
  /\ shown = Nothing
  /\ polling = FALSE
  /\ version = 0
  /\ errors = 0
  /\ timers = {}
  /\ timer = Nothing
  /\ calls = {}
  /\ astray = FALSE

-----------------------------------------------------------------------------
(* The server.                                                             *)

Changes(j, s) == server' = [server EXCEPT ![j] = [status |-> s, age |-> @.age + 1]]

\* An import ends; one that somebody else cancels is to this page as one that
\* fails.
JobEnds(j) ==
  /\ server[j].status = "active"
  /\ \E s \in {"completed", "failed"} : Changes(j, s)
  /\ UNCHANGED <<open, page, calls>>

\* The page has been told, or is about to be, that the job has ended.
Reported(j) ==
  \/ shown # Nothing /\ shown.job = j /\ shown.status \in Terminal
  \/ \E c \in calls : Answered(c) /\ c.answer.job = j /\ c.answer.status \in Terminal

\* An end is not the last word: a run that outlives its revocation completes or
\* fails a cancelled job, two runs overwrite each other's end, and a message
\* that comes late or another user's resume starts the job again.
JobGoesOn(j) ==
  /\ server[j].status \in Terminal
  /\ \A i \in Jobs : server[i].age < MaxAge
  /\ \E s \in {"active", "completed", "failed"} \ {server[j].status} : Changes(j, s)
  /\ astray' = (astray \/ Reported(j))
  /\ UNCHANGED <<open, shown, polling, version, errors, timers, timer, calls>>

ReplyTo(c, answer) == calls' = (calls \ {c}) \union {[c EXCEPT !.answer = answer]}

\* The job after the request has taken effect.
ReplyChanged(c, j, s) ==
  /\ Changes(j, s)
  /\ ReplyTo(c, [job |-> j, status |-> s, age |-> server[j].age + 1])

ServesUpload(c) == \E j \in Jobs :
  /\ c.kind = "upload"
  /\ server[j].status = "none"
  /\ ReplyChanged(c, j, "active")

ServesPoll(c) ==
  /\ c.kind = "poll"
  /\ ReplyTo(c, Snapshot(c.job))
  /\ UNCHANGED server

ServesCancel(c) ==
  /\ c.kind = "cancel"
  /\ server[c.job].status = "active"
  /\ ReplyChanged(c, c.job, "cancelled")

ServesResume(c) ==
  /\ c.kind = "resume"
  /\ server[c.job].status \in {"failed", "cancelled"}
  /\ \A j \in Jobs : server[j].age < MaxAge
  /\ ReplyChanged(c, c.job, "active")

\* A status that has changed meanwhile, a station with another import.
Refuses(c) ==
  /\ c.kind # "poll"
  /\ ReplyTo(c, Refused)
  /\ UNCHANGED server

Serves(c) ==
  /\ c.answer = Nothing
  /\ ServesUpload(c) \/ ServesPoll(c) \/ ServesCancel(c) \/ ServesResume(c) \/ Refuses(c)
  /\ UNCHANGED <<open, page>>

-----------------------------------------------------------------------------
(* The user: at most one call of each kind is under way at a time, which   *)
(* the page itself ensures for uploads.                                    *)

Sends(kind, j) ==
  /\ open
  /\ CallOf(kind) = {}
  /\ calls' = calls \union {Call(kind, j, 0)}
  /\ UNCHANGED <<server, open, page>>

\* The uploader is offered while no job is shown.
Upload ==
  /\ shown = Nothing
  /\ \E j \in Jobs : server[j].status = "none"
  /\ Sends("upload", Nothing)

ClickCancel == shown # Nothing /\ shown.status = "active" /\ Sends("cancel", shown.job)

ClickResume == shown # Nothing /\ shown.status \in {"failed", "cancelled"} /\ Sends("resume", shown.job)

-----------------------------------------------------------------------------
(* Polling.  A chain of one version asks for the job, waits for the answer *)
(* and sets the timer again.                                               *)

SetTimer(t) == timer' = t /\ timers' = timers \union {t}

StopPolling == polling' = FALSE /\ timers' = timers \ {timer} /\ timer' = Nothing

StartPolling(j) == LET t == [version |-> version + 1, job |-> j] IN
  /\ polling' = TRUE
  /\ errors' = 0
  /\ version' = t.version
  /\ timers' = (timers \ {timer}) \union {t}
  /\ timer' = t
  /\ astray' = FALSE

\* Slip: the version is not compared.
RescheduleAnyVersion(c) ==
  IF polling
  THEN SetTimer([version |-> c.version, job |-> c.job]) /\ UNCHANGED polling
  ELSE UNCHANGED <<polling, timers, timer>>

\* The end of pollOnce.
Reschedule(c) ==
  IF polling /\ c.version = version
  THEN SetTimer([version |-> c.version, job |-> c.job]) /\ UNCHANGED polling
  ELSE UNCHANGED <<polling, timers, timer>>

TimerFires(t) ==
  /\ t \in timers
  /\ timers' = timers \ {t}
  /\ calls' = IF t.version = version THEN calls \union {Call("poll", t.job, t.version)} ELSE calls
  /\ UNCHANGED <<server, open, shown, polling, version, errors, timer, astray>>

\* An answer of an earlier version is dropped.
PollAnswered(c) ==
  /\ c.kind = "poll"
  /\ Answered(c)
  /\ calls' = calls \ {c}
  /\ IF c.version # version
     THEN UNCHANGED page
     ELSE /\ shown' = c.answer
          /\ errors' = 0
          /\ IF c.answer.status \in Terminal THEN StopPolling ELSE Reschedule(c)
          /\ UNCHANGED <<version, astray>>
  /\ UNCHANGED <<server, open>>

\* Slip: the poll that failed is not repeated.
PollFailsForGood(c) ==
  /\ c.kind = "poll"
  /\ calls' = calls \ {c}
  /\ errors' = errors + 1
  /\ IF errors' >= MAX_POLL_ERRORS
     THEN StopPolling /\ astray' = TRUE
     ELSE UNCHANGED <<polling, timers, timer, astray>>
  /\ UNCHANGED <<server, open, shown, version>>

\* A poll without an answer, whatever the server has made of it.  The version
\* is not compared here: a failure of an earlier chain counts as well.
PollFails(c) ==
  /\ c.kind = "poll"
  /\ calls' = calls \ {c}
  /\ errors' = errors + 1
  /\ IF errors' >= MAX_POLL_ERRORS
     THEN StopPolling /\ astray' = TRUE
     ELSE Reschedule(c) /\ UNCHANGED astray
  /\ UNCHANGED <<server, open, shown, version>>

-----------------------------------------------------------------------------
(* Answers to the user's calls.                                            *)

UploadAnswered(c) ==
  /\ c.kind = "upload"
  /\ Answered(c)
  /\ calls' = calls \ {c}
  /\ shown' = c.answer
  /\ StartPolling(c.answer.job)
  /\ UNCHANGED <<server, open>>

CancelAnswered(c) ==
  /\ c.kind = "cancel"
  /\ Answered(c)
  /\ calls' = calls \ {c}
  /\ shown' = c.answer
  /\ StopPolling
  /\ astray' = (astray \/ PollUnderWay \/ c.answer # Snapshot(c.answer.job))
  /\ UNCHANGED <<server, open, version, errors>>

ResumeAnswered(c) ==
  /\ c.kind = "resume"
  /\ Answered(c)
  /\ calls' = calls \ {c}
  /\ shown' = c.answer
  /\ StartPolling(c.answer.job)
  /\ UNCHANGED <<server, open>>

\* A message tells the user; a resume that has begun is not noticed.
CallFails(c) ==
  /\ c.kind # "poll"
  /\ c.answer # Nothing
  /\ calls' = calls \ {c}
  /\ astray' = (astray \/ (c.kind = "resume" /\ Answered(c)))
  /\ UNCHANGED <<server, open, shown, polling, version, errors, timers, timer>>

\* resetCurrentJob: back to the uploader, or another tab.
Reset ==
  /\ open
  /\ shown # Nothing
  /\ shown' = Nothing
  /\ StopPolling
  /\ astray' = (astray \/ PollUnderWay)
  /\ UNCHANGED <<server, open, version, errors, calls>>

\* The page is unmounted; promises go on.
Leave ==
  /\ open
  /\ open' = FALSE
  /\ StopPolling
  /\ UNCHANGED <<server, shown, version, errors, calls, astray>>

-----------------------------------------------------------------------------
Settles(c) ==
  \/ PollAnswered(c) \/ PollFails(c)
  \/ UploadAnswered(c) \/ CancelAnswered(c) \/ ResumeAnswered(c) \/ CallFails(c)

Next ==
  \/ \E j \in Jobs : JobEnds(j) \/ JobGoesOn(j)
  \/ \E c \in calls : Serves(c) \/ Settles(c)
  \/ \E t \in timers : TimerFires(t)
  \/ Upload \/ ClickCancel \/ ClickResume \/ Reset \/ Leave

Spec == Init /\ [][Next]_vars

\* The browser gives up a call after a time, and timers fire.  The server need
\* not end a job: the one of a killed worker stays active.
Fairness ==
  /\ \A k \in {"upload", "poll", "cancel", "resume"} :
       /\ WF_vars(\E c \in CallOf(k) : Serves(c))
       /\ WF_vars(\E c \in CallOf(k) : Settles(c))
  /\ WF_vars(\E t \in timers : TimerFires(t))

FairSpec == Spec /\ Fairness

-----------------------------------------------------------------------------
\* One poller: while the page polls, the version that goes on has one timeout or
\* one call, never both and never two; a page that does not poll has no timeout
\* left.  (startPolling, stopPolling and the end of pollOnce.)
OnePoller ==
  /\ polling =>
       /\ timers \subseteq {[version |-> version, job |-> j] : j \in Jobs}
       /\ Cardinality(timers) + Cardinality({c \in CallOf("poll") : c.version = version}) = 1
  /\ ~polling => timers = {}

\* However calls fail and overlap, polling ends once no job is active for good,
\* also of a page that is left while an upload is on its way; and the job an
\* open page then shows has the status the server gives it, unless the polling
\* was stopped half-way or the server went on with a job that it had reported
\* as ended, which no page that has stopped polling can notice.
PollingSettles ==
  (\A j \in Jobs : <>[](server[j].status # "active"))
    => <>[](/\ ~polling
            /\ ~open \/ astray \/ shown = Nothing \/ shown = Snapshot(shown.job))
=============================================================================
