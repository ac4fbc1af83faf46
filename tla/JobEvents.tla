----------------------------- MODULE JobEvents -----------------------------
(***************************************************************************)
(* How the events of the agent jobs of one chat reach one browser page:    *)
(* the server keeps the last events of a job under sequence numbers, the   *)
(* page that sent a prompt reads them as a stream, and a page that boots   *)
(* while a job runs polls for them.  A boot during a stream (a profile is  *)
(* saved) makes both run side by side; a reload ends both.  The page drops *)
(* an event it has processed, and stores the place to resume from for each *)
(* chat, not for each job.                                                 *)
(*                                                                         *)
(* An event is its sequence number, the last one of a job its "done" or    *)
(* "error".  What an event changes on the page is not modelled, nor is the *)
(* limit of 600 remembered events.                                         *)
(*                                                                         *)
(* jobStatus is the status of a job.  It and the parts of the              *)
(* specification have names of their own, so that a module can extend both *)
(* this one and AgentJobs.                                                 *)
(***************************************************************************)
EXTENDS Naturals, Sequences

CONSTANTS
    MaxJobs,    \* jobs of the chat
    MaxEvents,  \* events of one job
    Cap,        \* events of a job the server keeps
    MaxBoots,   \* boots and reloads of the page after the first boot
    Streams     \* names for the streams the page reads at a time

ASSUME EventAssumption ==
    /\ MaxJobs \in Nat \ {0} /\ MaxEvents \in Nat \ {0}
    /\ Cap \in Nat \ {0} /\ MaxBoots \in Nat

ChatJobs == 1..MaxJobs

VARIABLES
    job,        \* the chat's entry of agentJobs, 0 if it has none
    jobStatus,  \* jobStatus[j]: "unused", "running" or "ended"
    next,       \* next[j]: nextSeq
    first,      \* first[j]: the oldest event the server still has
    post,       \* the page's POST /api/agent: "none", "sent", or "orphan" of
                \* a page that was reloaded
    stream,     \* stream[r]: an answer being streamed to the page, or NoStream
    wire,       \* wire[r]: events written to the stream and not yet read
    poll,       \* pollAgentJob: [cursor, of, answer] or NoPoll; of: the job
                \* its cursor counts (history)
    boot,       \* "ready", "asked" for the running jobs, or "answered"
    resumes,    \* the running job of that answer, 0 for none
    busy,       \* busyChatIds has the chat
    processed,  \* processedAgentEvents, which a reload reads back
    stored,     \* the chat's resume point in localStorage: [cursor, of]
    boots,      \* boots and reloads so far
    order,      \* order[j]: pairs of events of which processAgentEvent got the
                \* second when it had got the first (history)
    over,       \* jobs whose end a stream or poll went by (history)
    misled      \* jobs polled from another job's resume point (history)

serverVars == <<job, jobStatus, next, first>>
eventHistory == <<order, over, misled>>
eventVars == <<job, jobStatus, next, first, post, stream, wire, poll, boot, resumes, busy,
          processed, stored, boots, order, over, misled>>

NoStream == [job |-> 0, cursor |-> 0, ended |-> FALSE]
NoAnswer == [job |-> 0, from |-> 0, to |-> 0, ended |-> FALSE, came |-> FALSE]
NoPoll == [on |-> FALSE, cursor |-> 0, of |-> 0, answer |-> NoAnswer]
Seqs == 0..MaxEvents

EventsTypeOK ==
    /\ job \in 0..MaxJobs
    /\ jobStatus \in [ChatJobs -> {"unused", "running", "ended"}]
    /\ next \in [ChatJobs -> Seqs] /\ first \in [ChatJobs -> Seqs]
    /\ post \in {"none", "sent", "orphan"}
    /\ stream \in [Streams -> [job : 0..MaxJobs, cursor : Seqs, ended : BOOLEAN]]
    /\ wire \in [Streams -> Seq(Seqs)]
    /\ poll \in [on : BOOLEAN, cursor : Seqs, of : 0..MaxJobs,
                 answer : [job : 0..MaxJobs, from : Seqs, to : Seqs, ended : BOOLEAN,
                           came : BOOLEAN]]
    /\ boot \in {"ready", "asked", "answered"} /\ resumes \in 0..MaxJobs
    /\ busy \in BOOLEAN
    /\ processed \subseteq ChatJobs \X Seqs
    /\ stored \in [cursor : Seqs, of : 0..MaxJobs]
    /\ boots \in 0..MaxBoots
    /\ order \in [ChatJobs -> SUBSET (Seqs \X Seqs)]
    /\ over \subseteq ChatJobs /\ misled \subseteq ChatJobs

EventsInit ==
    /\ job = 0
    /\ jobStatus = [j \in ChatJobs |-> "unused"]
    /\ next = [j \in ChatJobs |-> 0] /\ first = [j \in ChatJobs |-> 0]
    /\ post = "none" /\ poll = NoPoll
    /\ stream = [r \in Streams |-> NoStream] /\ wire = [r \in Streams |-> <<>>]
    /\ boot = "asked" /\ resumes = 0
    /\ busy = FALSE /\ processed = {} /\ stored = [cursor |-> 0, of |-> 0] /\ boots = 0
    /\ order = [j \in ChatJobs |-> {}] /\ over = {} /\ misled = {}

ChatRuns == job # 0 /\ jobStatus[job] = "running"

-----------------------------------------------------------------------------
(* The server.                                                             *)

\* pushAgentJobEvent: the oldest events make room.
PushEvent(j) ==
    /\ next' = [next EXCEPT ![j] = @ + 1]
    /\ first' = [first EXCEPT ![j] = IF next[j] + 1 - @ > Cap THEN next[j] + 1 - Cap ELSE @]

\* An event of the turn; MaxEvents leaves room for the last one.
Progress(j) ==
    /\ jobStatus[j] = "running"
    /\ next[j] + 1 < MaxEvents
    /\ PushEvent(j)
    /\ UNCHANGED <<job, jobStatus, post, stream, wire, poll, boot, resumes, busy, processed,
                   stored, boots, eventHistory>>

\* executeAgentJob ends: "done" or "error", an abort included.
EndJob(j) ==
    /\ jobStatus[j] = "running"
    /\ PushEvent(j)
    /\ jobStatus' = [jobStatus EXCEPT ![j] = "ended"]
    /\ UNCHANGED <<job, post, stream, wire, poll, boot, resumes, busy, processed, stored,
                   boots, eventHistory>>

\* startAgentJob, with the limits that leave room for it.
Start ==
    /\ ~ChatRuns
    /\ \E j \in ChatJobs :
          /\ jobStatus[j] = "unused" /\ \A i \in ChatJobs : i < j => jobStatus[i] # "unused"
          /\ job' = j
          /\ jobStatus' = [jobStatus EXCEPT ![j] = "running"]
    /\ UNCHANGED <<next, first>>

\* Another page of the same user sends a prompt in this chat.
OtherStarts ==
    /\ Start
    /\ UNCHANGED <<post, stream, wire, poll, boot, resumes, busy, processed, stored, boots,
                   eventHistory>>

\* resetAgentHistory, or the removal of a job that ended 15 minutes ago.  A job
\* that runs is aborted and ends later; a stream keeps its hold of it.
RemoveJob ==
    /\ job # 0
    /\ job' = 0
    /\ UNCHANGED <<jobStatus, next, first, post, stream, wire, poll, boot, resumes, busy,
                   processed, stored, boots, eventHistory>>

\* agentJobEventsSince: the events from cursor on that are still there.
Since(j, cursor) ==
    LET from == IF cursor > first[j] THEN cursor ELSE first[j]
    IN [k \in 1..(next[j] - from) |-> from + k - 1]

\* One tick of streamAgentJobToSse that has something to do.
SseTick(r) ==
    /\ stream[r].job # 0 /\ ~stream[r].ended
    /\ LET j == stream[r].job
           events == Since(j, stream[r].cursor)
       IN /\ events # <<>> \/ jobStatus[j] = "ended"
          /\ wire' = [wire EXCEPT ![r] = @ \o events]
          /\ stream' = [stream EXCEPT ![r].cursor = IF events = <<>> THEN @ ELSE next[j],
                                      ![r].ended = jobStatus[j] = "ended"]
    /\ UNCHANGED <<serverVars, post, poll, boot, resumes, busy, processed, stored, boots,
                   eventHistory>>

Idle == {r \in Streams : stream[r].job = 0}

\* POST /api/agent arrives.  While a job runs, the answer streams that job from
\* its first event, and the prompt is not looked at.
PostArrives ==
    /\ post # "none"
    /\ IF ChatRuns THEN UNCHANGED serverVars ELSE Start
    /\ post' = "none"
    /\ IF post = "sent"
       THEN \E r \in Idle :
               stream' = [stream EXCEPT ![r] = [job |-> job', cursor |-> 0, ended |-> FALSE]]
       ELSE UNCHANGED stream
    /\ UNCHANGED <<wire, poll, boot, resumes, busy, processed, stored, boots, eventHistory>>

-----------------------------------------------------------------------------
(* The page.                                                               *)

\* sendPrompt, streamAgent: the workspace is ready and the chat is not busy.  A
\* poll that ends frees a chat whose stream goes on; Streams bounds what is sent
\* then.
Send ==
    /\ boot = "ready" /\ ~busy /\ post = "none"
    /\ Idle # {}
    /\ busy' = TRUE
    /\ post' = "sent"
    /\ UNCHANGED <<serverVars, stream, wire, poll, boot, resumes, processed, stored, boots,
                   eventHistory>>

\* The request is lost, or the server has its four jobs; finishAgentRun.
PostFails ==
    /\ post # "none"
    /\ busy' = IF post = "sent" THEN FALSE ELSE busy
    /\ post' = "none"
    /\ UNCHANGED <<serverVars, stream, wire, poll, boot, resumes, processed, stored, boots,
                   eventHistory>>

\* Mutant: nothing is remembered.
FreshAlways(j, s) == TRUE

\* shouldProcessAgentEvent
Fresh(j, s) == <<j, s>> \notin processed

Handled(j) == {s \in Seqs : <<j, s>> \in processed}

\* processAgentEvent gets these events, in the order of their numbers.
Process(j, events) ==
    /\ processed' = processed \cup {<<j, s>> : s \in events}
    /\ order' = [order EXCEPT ![j] = @ \cup
                   {p \in Seqs \X events :
                       p[1] \in Handled(j) \/ (p[1] \in events /\ p[1] < p[2])}]

\* One event of a stream (consumeAgentSseStream).
ReadEvent(r) ==
    /\ wire[r] # <<>>
    /\ wire' = [wire EXCEPT ![r] = Tail(@)]
    /\ LET j == stream[r].job
           s == Head(wire[r])
       IN IF Fresh(j, s)
          THEN /\ Process(j, {s})
               /\ stored' = [cursor |-> s + 1, of |-> j]
          ELSE UNCHANGED <<processed, stored, order>>
    /\ UNCHANGED <<serverVars, post, stream, poll, boot, resumes, busy, boots, over, misled>>

\* A stream is read to its end; finishAgentRun.
StreamEnds(r) ==
    /\ stream[r].ended /\ wire[r] = <<>>
    /\ stream' = [stream EXCEPT ![r] = NoStream]
    /\ busy' = FALSE
    /\ over' = over \cup {stream[r].job}
    /\ UNCHANGED <<serverVars, post, wire, poll, boot, resumes, processed, stored, boots,
                   order, misled>>

\* The connection breaks: what was not read is gone.
StreamBreaks(r) ==
    /\ stream[r].job # 0
    /\ stream' = [stream EXCEPT ![r] = NoStream]
    /\ wire' = [wire EXCEPT ![r] = <<>>]
    /\ busy' = FALSE
    /\ UNCHANGED <<serverVars, post, poll, boot, resumes, processed, stored, boots,
                   eventHistory>>

\* GET /api/agent/job?since=cursor
PollServed ==
    /\ poll.on /\ ~poll.answer.came
    /\ poll' = [poll EXCEPT !.answer =
                  IF job = 0 THEN [NoAnswer EXCEPT !.came = TRUE]
                  ELSE [job |-> job, from |-> first[job], to |-> next[job],
                        ended |-> jobStatus[job] = "ended", came |-> TRUE]]
    /\ UNCHANGED <<serverVars, post, stream, wire, boot, resumes, busy, processed, stored,
                   boots, eventHistory>>

\* Mutant: a chat without a job is asked for again.
PollOverWhenEnded(answer) == answer.ended

\* The answers that end a poll: no job, or one that has ended.
PollOver(answer) == answer.job = 0 \/ answer.ended

\* The poll's next request, or its end (finishAgentRun).
PollGoesOn(cursor, of) ==
    IF PollOver(poll.answer)
    THEN poll' = NoPoll /\ busy' = FALSE
    ELSE poll' = [poll EXCEPT !.cursor = cursor, !.of = of, !.answer = NoAnswer] /\ UNCHANGED busy

\* pollAgentJob takes an answer: every event of it moves the resume point, the
\* fresh ones are processed.  The cursor is kept from job to job.
PollTaken ==
    /\ poll.on /\ poll.answer.came
    /\ LET j == poll.answer.job
           events == {s \in poll.answer.from..(poll.answer.to - 1) : s >= poll.cursor}
       IN IF events = {}
          THEN /\ PollGoesOn(poll.cursor, poll.of)
               /\ UNCHANGED <<processed, stored, order>>
          ELSE /\ PollGoesOn(poll.answer.to, j)
               /\ Process(j, {s \in events : Fresh(j, s)})
               /\ stored' = [cursor |-> poll.answer.to, of |-> j]
    /\ over' = over \cup (IF poll.answer.ended THEN {poll.answer.job} ELSE {})
    /\ misled' = misled \cup
          (IF poll.cursor > 0 /\ poll.of # poll.answer.job THEN {poll.answer.job} \ {0} ELSE {})
    /\ UNCHANGED <<serverVars, post, stream, wire, boot, resumes, boots>>

\* The request fails; pollAgentJob shows the error and ends.
PollFails ==
    /\ poll.on /\ ~poll.answer.came
    /\ poll' = NoPoll
    /\ busy' = FALSE
    /\ UNCHANGED <<serverVars, post, stream, wire, boot, resumes, processed, stored, boots,
                   eventHistory>>

\* GET /api/agent/jobs
BootServed ==
    /\ boot = "asked"
    /\ boot' = "answered"
    /\ resumes' = IF ChatRuns THEN job ELSE 0
    /\ UNCHANGED <<serverVars, post, stream, wire, poll, busy, processed, stored, boots,
                   eventHistory>>

\* resumeAgentJobs: poll for a running job, unless a poll for the chat goes on.
BootEnds ==
    /\ boot = "answered"
    /\ boot' = "ready" /\ resumes' = 0
    /\ IF resumes # 0 /\ ~poll.on
       THEN /\ poll' = [on |-> TRUE, cursor |-> stored.cursor, of |-> stored.of,
                        answer |-> NoAnswer]
            /\ busy' = TRUE
       ELSE UNCHANGED <<poll, busy>>
    /\ UNCHANGED <<serverVars, post, stream, wire, processed, stored, boots, eventHistory>>

\* boot() without a reload, after a change of the profiles.
Reboot ==
    /\ boot = "ready" /\ boots < MaxBoots
    /\ boot' = "asked" /\ boots' = boots + 1
    /\ UNCHANGED <<serverVars, post, stream, wire, poll, resumes, busy, processed, stored,
                   eventHistory>>

\* The page is loaded anew: memory goes, what was stored stays, and a request
\* on its way may still arrive.
Reload ==
    /\ boots < MaxBoots
    /\ boots' = boots + 1
    /\ post' = IF post = "sent" THEN "orphan" ELSE post
    /\ stream' = [r \in Streams |-> NoStream] /\ wire' = [r \in Streams |-> <<>>]
    /\ poll' = NoPoll
    /\ boot' = "asked" /\ resumes' = 0 /\ busy' = FALSE
    /\ UNCHANGED <<serverVars, processed, stored, eventHistory>>

Answers == PostArrives \/ PostFails
EventsNext ==
    \/ \E j \in ChatJobs : Progress(j) \/ EndJob(j)
    \/ OtherStarts \/ RemoveJob \/ Send \/ Answers
    \/ \E r \in Streams : SseTick(r) \/ ReadEvent(r) \/ StreamEnds(r) \/ StreamBreaks(r)
    \/ PollServed \/ PollTaken \/ PollFails
    \/ BootServed \/ BootEnds \/ Reboot \/ Reload

\* Agent turns end, the server's timers fire and it answers requests, and the
\* page reads what arrives.  Nobody has to send a prompt or to load the page.
Fairness ==
    /\ \A j \in ChatJobs : WF_eventVars(EndJob(j))
    /\ \A r \in Streams : /\ WF_eventVars(SseTick(r)) /\ WF_eventVars(ReadEvent(r))
                          /\ WF_eventVars(StreamEnds(r))
    /\ WF_eventVars(Answers)
    /\ WF_eventVars(PollServed) /\ WF_eventVars(PollTaken)
    /\ WF_eventVars(BootServed) /\ WF_eventVars(BootEnds)

EventsSpec == EventsInit /\ [][EventsNext]_eventVars /\ Fairness

-----------------------------------------------------------------------------
(* Properties *)

Dropped(j, s) == s < first[j]

\* A page processes the events of a job once, in the order the job pushed them
\* and without gaps, through streams, polls and reloads, but for the events the
\* server no longer keeps; when it has gone by the end of a job, it has
\* processed its last event.  Exempt are jobs polled from the resume point of
\* an earlier job, which the store, one number for each chat, cannot tell apart.
HandledAsPushed ==
    \A j \in ChatJobs \ misled :
        /\ \A p \in order[j] : p[1] < p[2] \/ (p[1] # p[2] /\ Dropped(j, p[2]))
        /\ \A s \in Handled(j) : \A r \in first[j]..(s - 1) : r \in Handled(j)
        /\ j \in over => (next[j] - 1) \in Handled(j)

\* The chat does not stay busy: every stream and every poll ends, whether its
\* job ends, is removed or is followed by another.
BusyEnds == busy ~> ~busy
=============================================================================
