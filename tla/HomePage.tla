--------------------------------- MODULE HomePage ---------------------------------
(***************************************************************************)
(* What the home page (pages/HomePage.tsx) does with its requests: chat    *)
(* replies with their placeholder and their timer, missions being created, *)
(* and the results that are read out.  Requests are answered in any order; *)
(* the missions are those of the live store, which may show an earlier     *)
(* state again (LiveStore), and the page may be left and opened again.     *)
(*                                                                         *)
(* One action is one turn of the browser's event loop with the effects     *)
(* React runs after it.  The voice itself is in VoiceController.           *)
(***************************************************************************)
EXTENDS Naturals

CONSTANTS Ids,          \* missions
          MaxChats,     \* bound: inputs sent to the chat endpoint
          MaxCreates    \* bound: missions being created at once

VARIABLES
  missions,      \* [Ids -> Shown]: the list of the live store
  voiceReplies,  \* the preference, also in localStorage
  spoken,        \* spokenMissions
  said,          \* history: [Ids -> 0..2], results read out since the page was opened
  command,       \* the input holds text
  reply,         \* chatReply, with the chat it belongs to
  replyTimer,    \* chatReplyTimer is pending
  chats,         \* chats without an answer yet
  chatsAsked,    \* chats so far
  creating,      \* the flag that disables the input
  creates        \* createMission calls in progress

results  == <<missions, voiceReplies, spoken, said>>
chat     == <<reply, replyTimer, chats, chatsAsked>>
making   == <<creating, creates>>
homeVars == <<results, command, chat, making>>

\* A mission as the page tells it apart: not in the list, active, ended with a text to
\* read, or ended without one.
Shown == {"absent", "active", "ended", "silent"}
Reply == [text : {"none", "thinking", "answer"}, chat : 0..MaxChats]
NoReply == [text |-> "none", chat |-> 0]

HomeInit ==
  /\ missions = [m \in Ids |-> "absent"] /\ voiceReplies \in BOOLEAN
  /\ spoken = {} /\ said = [m \in Ids |-> 0]
  /\ command = FALSE
  /\ reply = NoReply /\ replyTimer = FALSE /\ chats = {} /\ chatsAsked = 0
  /\ creating = FALSE /\ creates = 0
-------------------------------------------------------------------------------
\* A mutant: what has left the list is forgotten.
SpeakResultsPruned(list, on, before, heard) ==
  LET ended == {m \in Ids : list[m] \in {"ended", "silent"}}
      fresh == IF on THEN ended \ before ELSE {}
  IN  /\ spoken' = (before \cap ended) \cup fresh
      /\ said' = [m \in Ids |-> IF m \in fresh /\ list[m] = "ended" /\ heard[m] < 2
                                     THEN heard[m] + 1 ELSE heard[m]]

\* The effect that reads results out, after a render with this list.
SpeakResults(list, on, before, heard) ==
  LET ended == {m \in Ids : list[m] \in {"ended", "silent"}}
      fresh == IF on THEN ended \ before ELSE {}
  IN  /\ spoken' = before \cup fresh
      /\ said' = [m \in Ids |-> IF m \in fresh /\ list[m] = "ended" /\ heard[m] < 2
                                     THEN heard[m] + 1 ELSE heard[m]]

\* notify: the live store has another list.
ListChanges ==
  /\ missions' \in [Ids -> Shown]
  /\ SpeakResults(missions', voiceReplies, spoken, said)
  /\ UNCHANGED <<voiceReplies, command, chat, making>>

ToggleVoiceReplies ==
  /\ voiceReplies' = ~voiceReplies
  /\ SpeakResults(missions, voiceReplies', spoken, said)
  /\ UNCHANGED <<missions, command, chat, making>>

\* The page is left and opened again: a new component.  What the old one awaited
\* goes on without it.
Reopen ==
  /\ SpeakResults(missions, voiceReplies, {}, [m \in Ids |-> 0])
  /\ command' = FALSE
  /\ reply' = NoReply /\ replyTimer' = FALSE /\ chats' = {}
  /\ creating' = FALSE /\ creates' = 0
  /\ UNCHANGED <<missions, voiceReplies, chatsAsked>>
-------------------------------------------------------------------------------
ShowChatReply(text, of) ==
  /\ reply' = [text |-> text, chat |-> of] /\ replyTimer' = TRUE

ReplyTimer ==
  /\ replyTimer /\ replyTimer' = FALSE /\ reply' = NoReply
  /\ UNCHANGED <<results, command, chats, chatsAsked, making>>

Dismiss ==
  /\ reply # NoReply /\ reply' = NoReply
  /\ UNCHANGED <<results, command, replyTimer, chats, chatsAsked, making>>

Type ==
  /\ command' \in BOOLEAN
  /\ UNCHANGED <<results, chat, making>>

\* classifyInput, on the groups of patterns an input matches: words of action anywhere,
\* an action verb in front, at most three characters, small talk (greetings, farewells,
\* thanks, questions about KERAI).  What it knows no words for goes to the chat.
Traits == {"keyword", "verb", "short", "smallTalk"}

Classify(traits) ==
  IF traits \cap {"keyword", "verb"} # {} THEN "action"
  ELSE IF traits # {} THEN "local" ELSE "chat"

CreateMission ==
  /\ creates < MaxCreates /\ creates' = creates + 1
  /\ creating' = TRUE

\* handleInput: an input classifyInput answers itself, ...
AnswerLocally ==
  /\ command' = FALSE /\ ShowChatReply("answer", 0)
  /\ UNCHANGED <<results, chats, chatsAsked, making>>

\* ... one for the chat endpoint, ...
AskChat ==
  /\ chatsAsked < MaxChats /\ chatsAsked' = chatsAsked + 1
  /\ chats' = chats \cup {chatsAsked'}
  /\ command' = FALSE /\ ShowChatReply("thinking", chatsAsked')
  /\ UNCHANGED <<results, making>>

\* ... and one that becomes a mission, and stays in the input until that is done.
MakeMission(typed) ==
  /\ CreateMission /\ command' = typed
  /\ UNCHANGED <<results, chat>>

HandleInput(traits) ==
  \/ Classify(traits) = "local" /\ AnswerLocally
  \/ Classify(traits) = "chat" /\ AskChat
  \/ Classify(traits) = "action" /\ MakeMission(TRUE)

\* The submit button and the Enter key, not while busy.
Submit ==
  /\ command /\ ~creating
  /\ \E traits \in SUBSET Traits : HandleInput(traits)

\* onTranscript: a spoken input is not held up by anything.
Heard == \E traits \in SUBSET Traits : HandleInput(traits)

QuickAction == MakeMission(command)

\* A mutant: a failed chat says nothing.
ChatFailsSilently(c) ==
  /\ c \in chats /\ chats' = chats \ {c}
  /\ UNCHANGED <<results, command, chatsAsked, reply, replyTimer, making>>

\* An answer, or the words for a failure, whatever is shown by then.
ChatAnswered(c) ==
  /\ c \in chats /\ chats' = chats \ {c}
  /\ ShowChatReply("answer", c)
  /\ UNCHANGED <<results, command, chatsAsked, making>>

CreateEnds ==
  /\ creates > 0 /\ creates' = creates - 1 /\ creating' = FALSE
  /\ \E succeeds \in BOOLEAN : command' = IF succeeds THEN FALSE ELSE command
  /\ UNCHANGED <<results, chat>>

HomeNext ==
  \/ ListChanges \/ ToggleVoiceReplies \/ Reopen
  \/ ReplyTimer \/ Dismiss \/ Type
  \/ Submit \/ Heard \/ QuickAction
  \/ CreateEnds
  \/ \E c \in 1..MaxChats : ChatAnswered(c)

HomeSpec == HomeInit /\ [][HomeNext]_homeVars
-------------------------------------------------------------------------------
HomeTypeOK ==
  /\ missions \in [Ids -> Shown] /\ voiceReplies \in BOOLEAN
  /\ spoken \subseteq Ids /\ said \in [Ids -> 0..2]
  /\ command \in BOOLEAN
  /\ reply \in Reply /\ replyTimer \in BOOLEAN
  /\ chats \subseteq 1..chatsAsked /\ chatsAsked \in 0..MaxChats
  /\ creating \in BOOLEAN /\ creates \in 0..MaxCreates

\* A result is read out once while the page is open, however often the list goes back
\* to an earlier state and voice replies are switched.
SpokenOnce == \A m \in Ids : said[m] <= 1

\* "KERAI is thinking" stands there only while that very question is unanswered.
ThinkingIsTrue == reply.text = "thinking" => reply.chat \in chats
===============================================================================
