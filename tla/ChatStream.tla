----------------------------- MODULE ChatStream -----------------------------
(***************************************************************************)
(* What PersonalChatRunController (packages/client/src/conversation-run.ts)*)
(* shows of a running run's text.  The owner's event stream has no cursor: *)
(* each subscription replays the run from its beginning, the text of       *)
(* attempts that were paused included.  The controller counts the resumes  *)
(* it knows of and hides the replayed text before that many markers.       *)
(*                                                                         *)
(* One run, from the moment it is subscribed; ChatRun has the rest of the  *)
(* controller: its calls overlap there, here there is one at a time.       *)
(***************************************************************************)
EXTENDS Integers, Sequences, FiniteSets

CONSTANTS
  OtherClients,  \* TRUE: someone else pauses and resumes the run too
  ResumeLost,    \* TRUE: the answer to a resume may be lost
  MaxLog         \* bound on the events of the run

ASSUME StreamAssumption == OtherClients \in BOOLEAN /\ ResumeLost \in BOOLEAN /\ MaxLog \in Nat

VARIABLES
  log, status,   \* the run at its owner: its events so far, and its status
  attempt,       \* the markers in the log when the user's last resume took effect
  phase, output, \* the view: its text is the positions of the deltas shown
  required,      \* resumeMarkersRequired
  sub,           \* the subscription: what it has read, awaitingResumeMarker
  call,          \* the control or read in flight
  uncounted      \* a run.resumed came that no answer told the controller of

owner == <<log, status, attempt>>
controller == <<phase, output, required, sub>>
vars == <<owner, controller, call, uncounted>>

\* Number.MAX_SAFE_INTEGER: more markers than there will ever be.
Unknown == MaxLog + 1
NoSub == [next |-> 0, markers |-> 0, awaiting |-> FALSE]
NoCall == [op |-> "none", ans |-> "none"]

Deltas == {i \in DOMAIN log : log[i] = "delta"}
MarkersBefore(i) == Cardinality({j \in DOMAIN log : j < i /\ log[j] = "resumed"})
Markers == MarkersBefore(Len(log) + 1)

StreamTypeOK ==
  /\ log \in Seq({"delta", "resumed"}) /\ status \in {"running", "paused", "ended"}
  /\ attempt \in Nat /\ uncounted \in BOOLEAN
  /\ phase \in {"running", "paused", "submitting", "interrupted", "completed"}
  /\ output \in Seq(Deltas) /\ required \in 0..Unknown
  /\ sub # NoSub => phase = "running" /\ sub.next \in 1..(Len(log) + 1)
                    /\ sub.markers <= Markers
  /\ call.op \in {"none", "pause", "resume", "readback", "check", "reconnect"}
  /\ call.ans \in {"none", "running", "paused", "ended", "refused", "lost"}

----------------------------------------------------------------------------
(* The owner *)

OwnerWrites ==
  /\ status = "running" /\ Len(log) < MaxLog
  /\ log' = Append(log, "delta")
  /\ UNCHANGED <<status, attempt, controller, call>>

OwnerEnds ==
  /\ status = "running" /\ status' = "ended"
  /\ UNCHANGED <<log, attempt, controller, call>>

Pauses == status = "running" /\ status' = "paused" /\ UNCHANGED log
Resumes ==
  /\ status = "paused" /\ Len(log) < MaxLog
  /\ status' = "running" /\ log' = Append(log, "resumed")

OtherControls ==
  /\ OtherClients
  /\ Pauses \/ Resumes
  /\ uncounted' = (uncounted \/ log' # log)
  /\ UNCHANGED <<attempt, controller, call>>

OwnerAnswers ==
  /\ call.op # "none" /\ call.ans = "none"
  /\ \/ call.op = "pause" /\ Pauses /\ UNCHANGED attempt
     \/ call.op = "resume" /\ Resumes /\ attempt' = Markers + 1
     \/ /\ call.op = "pause" => status # "running"
        /\ call.op = "resume" => status # "paused"
        /\ UNCHANGED owner
  /\ call' = [call EXCEPT !.ans =
       IF owner' = owner /\ call.op \in {"pause", "resume"} THEN "refused" ELSE status']
  /\ UNCHANGED controller

AnswerLost ==
  /\ call.op # "none" /\ call.op = "resume" => ResumeLost
  /\ call' = [call EXCEPT !.ans = "lost"]
  /\ uncounted' = (uncounted \/ call = [op |-> "resume", ans |-> "running"])
  /\ UNCHANGED <<owner, controller>>

----------------------------------------------------------------------------
(* The user: what each operation does before its answer *)

Control(op) ==
  /\ IF op = "pause" THEN phase = "running" ELSE phase = "paused"
  /\ phase' = "submitting" /\ output' = << >> /\ sub' = NoSub
  /\ call' = [op |-> op, ans |-> "none"]
  /\ UNCHANGED <<owner, required>>

Reconnect ==
  /\ phase = "interrupted"
  /\ phase' = "submitting" /\ output' = << >>
  /\ call' = [op |-> "reconnect", ans |-> "none"]
  /\ UNCHANGED <<owner, required, sub>>

Check ==
  /\ phase # "submitting" /\ call = NoCall
  /\ call' = [op |-> "check", ans |-> "none"]
  /\ UNCHANGED <<owner, controller>>

----------------------------------------------------------------------------
(* The answers *)

PhaseOf(s) == IF s = "ended" THEN "completed" ELSE s

\* subscribe(): from the beginning, waiting for r markers.
Subscribe(r) == sub' = [next |-> 1, markers |-> 0, awaiting |-> r > 0]

Streams(s) == s = "running"

\* The view shows what the owner said, a running one with a new stream.
Shows(s, r) ==
  /\ phase' = PhaseOf(s) /\ output' = << >> /\ required' = r
  /\ IF Streams(s) THEN Subscribe(r) ELSE sub' = NoSub

Interrupts == phase' = "interrupted" /\ UNCHANGED <<output, required, sub>>

\* checkpoint(): a resume the owner acknowledged counts as one more marker.
CountsNone == FALSE
Counts == call.op = "resume" /\ call.ans = "running"
OneMore == IF required = Unknown THEN Unknown ELSE required + 1
ControlSettles ==
  /\ call.op \in {"pause", "resume"}
  /\ \/ /\ call.ans \in {"running", "paused", "ended"}
        /\ Shows(call.ans, IF Counts THEN OneMore ELSE required) /\ call' = NoCall
     \/ /\ call.ans = "refused" /\ call' = [op |-> "readback", ans |-> "none"]
        /\ UNCHANGED controller
     \/ call.ans = "lost" /\ Interrupts /\ call' = NoCall
  /\ UNCHANGED owner

\* The readback of a refused control, and reconnect().
ReadSettles ==
  /\ call.op \in {"readback", "reconnect"} /\ call.ans # "none"
  /\ IF call.ans = "lost" THEN Interrupts ELSE Shows(call.ans, required)
  /\ call' = NoCall
  /\ UNCHANGED owner

\* refreshStatus(): a running view keeps its stream; one that was not waits
\* for the final reply, as it cannot know how often the run was resumed.
CheckSettles ==
  /\ call.op = "check" /\ call.ans # "none"
  /\ call' = NoCall
  /\ IF \/ call.ans = "lost"
        \/ call.ans = "running" /\ phase = "running"
        \/ call.ans # "ended" /\ phase = "completed"
     THEN UNCHANGED controller
     ELSE Shows(call.ans, IF call.ans = "running" THEN Unknown ELSE required)
  /\ UNCHANGED owner

----------------------------------------------------------------------------
(* The stream *)

Enough(n) == n >= required
StreamHears ==
  /\ sub # NoSub /\ sub.next <= Len(log)
  /\ IF log[sub.next] = "resumed"
     THEN /\ sub' = [next |-> sub.next + 1, markers |-> sub.markers + 1,
                     awaiting |-> sub.awaiting /\ ~Enough(sub.markers + 1)]
          /\ UNCHANGED output
     ELSE /\ sub' = [sub EXCEPT !.next = @ + 1]
          /\ output' = IF sub.awaiting THEN output ELSE Append(output, sub.next)
  /\ UNCHANGED <<owner, phase, required, call>>

\* The last event leads to the canonical answer (reconcile).
StreamEnds ==
  /\ sub # NoSub /\ sub.next > Len(log) /\ status = "ended"
  /\ phase' = "completed" /\ output' = << >> /\ sub' = NoSub
  /\ UNCHANGED <<owner, required, call>>

StreamBreaks ==
  /\ sub # NoSub /\ sub' = NoSub /\ phase' = "interrupted"
  /\ UNCHANGED <<owner, output, required, call>>

----------------------------------------------------------------------------
Init ==
  /\ log = << >> /\ status = "running" /\ attempt = 0
  /\ phase = "running" /\ output = << >> /\ required = 0
  /\ sub = [NoSub EXCEPT !.next = 1] /\ call = NoCall
  /\ uncounted = FALSE

Counted ==
  \/ OwnerWrites \/ OwnerEnds \/ OwnerAnswers
  \/ Control("pause") \/ Control("resume") \/ Reconnect \/ Check
  \/ ControlSettles \/ ReadSettles \/ CheckSettles
  \/ StreamHears \/ StreamEnds \/ StreamBreaks

Next ==
  \/ OtherControls \/ AnswerLost
  \/ Counted /\ UNCHANGED uncounted

Spec == Init /\ [][Next]_vars

----------------------------------------------------------------------------
(* Properties *)

\* The text of a running view is exactly the text read since the last
\* subscription after as many markers as are required: in order, nothing
\* twice, nothing left out (520-544).
Increasing(s) == \A a, b \in DOMAIN s : a < b => s[a] < s[b]
Projected == {i \in Deltas : i < sub.next /\ MarkersBefore(i) >= required}

\* No more markers are waited for than the stream will bring: a run the user
\* resumed is not mute.  And none of the text of its earlier attempts is shown
\* ("required before accepting new partial output; old SSE replay can contain
\* several prior cycles", 140-141), as long as the controller was told of every
\* resume: it counts each acknowledged one, and does not guess after a check
\* (433-434, 485).
ProjectionExact ==
  /\ StreamTypeOK
  /\ sub # NoSub =>
       Increasing(output) /\ {output[a] : a \in DOMAIN output} = Projected
  /\ required # Unknown => required <= Markers
  /\ phase = "running" /\ ~uncounted =>
       \A i \in DOMAIN output : MarkersBefore(output[i]) >= attempt
=============================================================================
