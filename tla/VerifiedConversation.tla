------------------------ MODULE VerifiedConversation ------------------------
(***************************************************************************)
(* What a chat view promises about the context it sends to the model: a    *)
(* conversation is a list of turns, and a turn enters it only when the     *)
(* canonical owner holds the final answer to the question being asked.  A  *)
(* turn enters once, behind the turns before it; only the oldest turns are *)
(* ever dropped; a conversation restored from the owner's history holds    *)
(* answered questions only.  ChatRun implements this specification.        *)
(***************************************************************************)
EXTENDS Naturals, Sequences

CONSTANTS Asks, NoAsk

VARIABLES answered,  \* the questions whose final answer the owner holds
          asking,    \* the question put last, or NoAsk
          turns      \* the confirmed turns

cvars == <<answered, asking, turns>>

Turn(k) == [ask |-> k, run |-> k]
Turns == {Turn(k) : k \in Asks}

Occurs(t, s) == \E i \in 1..Len(s) : s[i] = t
IsTail(s, t) == \E i \in 1..Len(t)+1 : s = SubSeq(t, i, Len(t))
Distinct(s) == \A i, j \in 1..Len(s) : s[i] = s[j] => i = j

ConversationInit ==
  /\ answered = {}
  /\ asking = NoAsk
  /\ turns = << >>

\* The owner finishes any number of answers.
Answer ==
  /\ answered \subseteq answered' /\ answered' \subseteq Asks
  /\ UNCHANGED <<asking, turns>>

\* A new question keeps the newest turns.
Ask ==
  /\ asking' \in Asks
  /\ IsTail(turns', turns)
  /\ UNCHANGED answered

\* The owner's answer to the question being asked becomes a turn.
Admit ==
  /\ asking \in answered
  /\ ~Occurs(Turn(asking), turns)
  /\ IsTail(turns', Append(turns, Turn(asking)))
  /\ UNCHANGED <<answered, asking>>

\* The view forgets the conversation, or takes one from the owner's history.
Restore ==
  /\ asking' = NoAsk
  /\ \A i \in 1..Len(turns') : \E k \in answered : turns'[i] = Turn(k)
  /\ Distinct(turns')
  /\ UNCHANGED answered

ConversationNext == Answer \/ Ask \/ Admit \/ Restore

ConversationSpec == ConversationInit /\ [][ConversationNext]_cvars
=============================================================================
