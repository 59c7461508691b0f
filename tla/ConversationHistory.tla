-------------------------- MODULE ConversationHistory --------------------------
(***************************************************************************)
(* History of conversation/history.py: the transcript a prompt is made of, *)
(* cut from the old end, a turn at a time, to a budget of turns and one of *)
(* characters that the system prompt shares.                               *)
(*                                                                         *)
(* A message is its role and its length.                                   *)
(***************************************************************************)
EXTENDS Integers, Sequences, SequencesExt

CONSTANTS MaxTurns,      \* max_turns
          MaxChars,      \* max_chars
          PromptSizes,   \* lengths a system prompt may have, 0 for none
          MessageSizes,  \* lengths a message may have
          MaxMessages,   \* bound on the messages since the last clear
          MaxTurnsEver   \* bound on the user turns counted

ASSUME HistoryAssumption == /\ MaxTurns \in Nat \ {0} /\ MaxChars \in Nat \ {0}
                            /\ PromptSizes \cup MessageSizes \subseteq Nat

VARIABLES systemPrompt,  \* _system_prompt, as its length
          messages,      \* _messages
          trimmedTurns,  \* _trimmed_turns
          transcript,    \* history: all messages since the last clear or restore
          turnsEver      \* history: user turns added, less those cleared

historyVars == <<systemPrompt, messages, trimmedTurns, transcript, turnsEver>>

HistoryInit ==
    /\ systemPrompt \in PromptSizes
    /\ messages = <<>> /\ trimmedTurns = 0
    /\ transcript = <<>> /\ turnsEver = 0

\* _turn_starts(), turn_count and total_chars.
TurnStarts(msgs) == SelectSeq([k \in DOMAIN msgs |-> k], LAMBDA k : msgs[k].role = "user")
TurnCount(msgs) == Len(TurnStarts(msgs))
TotalChars(prompt, msgs) == FoldLeft(LAMBDA sum, m : sum + m.size, prompt, msgs)

\* Seeded bug: a message is dropped, not a turn.
Bug_DropOldestMessage(msgs) == IF Len(msgs) < 2 THEN msgs ELSE SubSeq(msgs, 2, Len(msgs))

\* _drop_oldest_turn(): everything before the second turn, unless there is none.
DropOldest(msgs) ==
    LET starts == TurnStarts(msgs)
    IN IF Len(starts) < 2 THEN msgs ELSE SubSeq(msgs, starts[2], Len(msgs))

\* _trim(): drop while over a budget, first that of turns, then that of
\* characters. Len(msgs) rounds are enough, each one drops a message at least.
Trim(prompt, msgs) ==
    LET round(over(_), m) == IF over(m) THEN DropOldest(m) ELSE m
        times == [k \in DOMAIN msgs |-> k]
        byTurns == FoldLeft(LAMBDA m, k : round(LAMBDA x : TurnCount(x) > MaxTurns, m), msgs, times)
    IN FoldLeft(LAMBDA m, k : round(LAMBDA x : TotalChars(prompt, x) > MaxChars, m), byTurns, times)

\* The window over these messages, with the evicted turns counted.
Rewindow(prompt, msgs) ==
    /\ systemPrompt' = prompt
    /\ messages' = Trim(prompt, msgs)
    /\ trimmedTurns' = trimmedTurns + TurnCount(msgs) - TurnCount(messages')

-----------------------------------------------------------------------------

\* set_system_prompt(), also by way of add() of a system message.
SetSystemPrompt(size) ==
    /\ Rewindow(size, messages)
    /\ UNCHANGED <<transcript, turnsEver>>

\* add() of one message, extend() and add_turn() of several: one trim at the
\* end. A system message among them replaces the prompt.
Extend(prompt, new) ==
    /\ Len(transcript) + Len(new) <= MaxMessages
    /\ turnsEver + TurnCount(new) <= MaxTurnsEver
    /\ Rewindow(prompt, messages \o new)
    /\ transcript' = transcript \o new
    /\ turnsEver' = turnsEver + TurnCount(new)

ClearHistory(keepSystemPrompt) ==
    /\ messages' = <<>> /\ transcript' = <<>>
    /\ turnsEver' = turnsEver - TurnCount(messages)
    /\ systemPrompt' = IF keepSystemPrompt THEN systemPrompt ELSE 0
    /\ UNCHANGED trimmedTurns

\* restore() of a snapshot() that another build may have written: entries with
\* a role this one does not know are left out.
Restore(unreadable) ==
    LET readable == IF unreadable = 0 THEN messages ELSE RemoveAt(messages, unreadable)
    IN /\ Rewindow(systemPrompt, readable)
       /\ transcript' = IF readable = messages THEN transcript ELSE readable
       /\ turnsEver' = turnsEver - (TurnCount(messages) - TurnCount(readable))

Spoken == [role : {"user", "assistant"}, size : MessageSizes]

HistoryNext ==
    \/ \E size \in PromptSizes : SetSystemPrompt(size)
    \/ \E m \in Spoken : Extend(systemPrompt, <<m>>)
    \/ \E q, a \in MessageSizes, prompt \in PromptSizes :
          Extend(prompt, <<[role |-> "user", size |-> q], [role |-> "assistant", size |-> a]>>)
    \/ \E keep \in BOOLEAN : ClearHistory(keep)
    \/ \E unreadable \in 0 .. Len(messages) : Restore(unreadable)

HistorySpec == HistoryInit /\ [][HistoryNext]_historyVars

-----------------------------------------------------------------------------

OverBudget(prompt, msgs) == TurnCount(msgs) > MaxTurns \/ TotalChars(prompt, msgs) > MaxChars

\* What is kept is the newest part of the conversation: within both budgets,
\* unless a single turn is left; cut at a turn, so that the first message
\* kept after a cut is the user's; and every turn that is gone is counted.
NewestTurnsKept ==
    LET cut == Len(transcript) - Len(messages)
    IN /\ OverBudget(systemPrompt, messages) => TurnCount(messages) < 2
       /\ messages = SubSeq(transcript, cut + 1, Len(transcript))
       /\ cut > 0 => messages # <<>> /\ messages[1].role = "user"
       /\ trimmedTurns + TurnCount(messages) = turnsEver

\* A step that evicts does not evict one turn more than the budgets demand.
\* What comes before the first turn belongs to it.
NoTurnTooMany ==
    trimmedTurns' > trimmedTurns =>
        LET starts == TurnStarts(transcript')
            gone   == Len(starts) - TurnCount(messages')
            from   == IF gone = 1 THEN 1 ELSE starts[gone]
        IN OverBudget(systemPrompt', SubSeq(transcript', from, Len(transcript')))

\* The window keeps the newest turns that fit, no fewer and no more, after
\* any mixture of single messages, turns, new prompts, clears and restores of
\* snapshots, some of whose entries cannot be read (history.py:217-230).
HistoryWindow == [][NewestTurnsKept' /\ NoTurnTooMany]_historyVars
==============================================================================
