---------------------------- MODULE ChatRunProps ----------------------------
(***************************************************************************)
(* What must hold of ChatRun.                                              *)
(***************************************************************************)
EXTENDS ChatRun

\* A terminal phase is the owner's: the run of the view has ended that way,
\* and a completed view shows the owner's whole output, whatever order the
\* answers of create, reconnect, stop, checkpoint, check and reconcile came
\* in (requireVerifiedCompletion, conversation-run.ts:100-108).
VerifiedOutcome ==
  view.phase \in Terminal =>
    /\ view.run # NoAsk
    /\ PhaseOf(runs[view.run].status) = view.phase
    /\ view.phase = "completed" => runs[view.run].out = "final" /\ view.out = "final"

\* The view of a message that was sent shows the run of that message and of
\* no other: answers of earlier epochs never repaint it (valid(), 196-199).
OwnRunShown ==
  request # NoRequest /\ view.run # NoAsk => view.run = request.key

\* "Never leave a "running" view with its stream detached" (577-579): a
\* running view has a stream whose callbacks it hears, or a reconcile or a
\* reconnect on its way that settles it.
RunningIsWatched ==
  view.phase = "running" =>
    \/ sub # NoSub /\ Heard
    \/ \E c \in calls : c.op \in {"reconcile", "reconnect"} /\ Fresh(c)

\* A closed or retargeted view stays as it is until the user acts, whatever
\* answers of its past are still to come (close, 185-195; reset, 168-179).
IdleStaysQuiet ==
  [][view.phase = "idle" /\ epoch' = epoch
       => UNCHANGED <<view, confirmed, limited, sub>>]_vars

\* The step is the continuation of a check whose answer lacks the output.
UnverifiedCheck ==
  \E c \in calls \ calls' : c.op = "refresh" /\ c.ans.is = "run" /\ ~Verified(c.ans)

\* Until the user acts, an outcome the view has verified stays as it is,
\* whichever answers arrive late ("Never replace that verified terminal
\* state", 313-316).  A check whose own answer lacks the output is apart:
\* see VerifiedNotDowngraded.
VerifiedKept ==
  [][view.phase \in Terminal /\ epoch' = epoch /\ ~UnverifiedCheck
       => view' = view]_vars

\* "A delayed GET must not downgrade a locally verified terminal result"
\* (conversation-run.ts:422), without exception.
VerifiedNotDowngraded ==
  [][view.phase \in Terminal /\ epoch' = epoch => view'.phase \in Terminal]_vars

\* A view that waits for an answer does not wait for ever, and a running view
\* learns that its run has ended.
WaitsEnd ==
  /\ view.phase = "submitting" ~> view.phase # "submitting"
  /\ (view.phase = "running" /\ runs[view.run].status \in FinalStatus)
       ~> view.phase # "running"

\* The owner made the run a before the run b.
LoggedBefore(a, b) == \E i, j \in DOMAIN log : i < j /\ log[i] = a /\ log[j] = b

\* The confirmed turns are those VerifiedConversation allows.
Conversation == INSTANCE VerifiedConversation WITH
  answered <- {k \in Asks : runs[k].status = "completed" /\ runs[k].out = "final"},
  asking <- request.key,
  turns <- confirmed

\* The chat view implements VerifiedConversation: only canonical final
\* answers enter the context, once and in order (confirmCanonicalOutput).
TurnsAreVerified == Conversation!ConversationSpec
=============================================================================
