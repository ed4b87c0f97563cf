------------------------- MODULE ConversationMemory -------------------------
(***************************************************************************)
(* ConversationMemoryService and, above it, ConversationalRAGService.  A   *)
(* turn is added by reading the conversation, extending it and writing it  *)
(* back.  In Redis the reader gets a copy; in the in-memory fallback it    *)
(* gets the stored object itself, and extends that.                        *)
(* A conversational request reads the conversation twice, generates an     *)
(* answer, and then adds the turn.                                         *)
(***************************************************************************)
EXTENDS Integers, Sequences, FiniteSets, SequencesExt

CONSTANTS Conversations,    \* of one user
          Callers,          \* concurrent requests
          Chunks,           \* lengths of an answer, in tokens
          TurnLimit,        \* maxTurnsPerConversation: 20
          TokenLimit,       \* maxTokensPerConversation: 8000
          MaxSaved          \* bound: turns ever saved to a conversation

ASSUME MemoryAssumption ==
    /\ TurnLimit \in Nat \ {0} /\ TokenLimit \in Nat /\ MaxSaved \in Nat
    /\ Chunks \subseteq Nat \ {0}

VARIABLES storage,    \* "redis" or "memory"; never changes
          talks,      \* per conversation: its turns and totalTokens
          present,    \* conversations the store has
          caller,     \* per request: where it stands
          saved,      \* history, per conversation: the turns saved, in order
          collided    \* history: conversations that were deleted or expired, or two
                      \* additions to which overlapped

memoryVars == <<storage, talks, present, caller, saved, collided>>

NewTalk == [turns |-> << >>, totalTokens |-> 0]
Away == [phase |-> "away"]

MemoryInit ==
    /\ storage \in {"redis", "memory"}
    /\ talks = [v \in Conversations |-> NewTalk]
    /\ present = {}
    /\ caller = [c \in Callers |-> Away]
    /\ saved = [v \in Conversations |-> << >>]
    /\ collided = {}

Enter(c, where) == caller' = [caller EXCEPT ![c] = where]
Leave(c) == Enter(c, Away)

\* createConversation; an id is not used twice.
CreateConversation(v) ==
    /\ v \notin present \cup collided /\ saved[v] = << >>
    /\ present' = present \cup {v}
    /\ UNCHANGED <<storage, talks, caller, saved, collided>>

\* generateInConversation and its streaming twin: a missing conversation is an
\* error; its recent turns go into the prompt.
Ask(c, v, streamed) ==
    /\ caller[c] = Away /\ v \in present
    /\ Len(saved[v]) < MaxSaved
    /\ Enter(c, [phase |-> "asked", conversation |-> v, streamed |-> streamed])
    /\ UNCHANGED <<storage, talks, present, saved, collided>>

\* tokensUsed of an answer.  The stream numbers its chunks 1, 2, 3 ... and
\* generateStream adds these numbers up.
TokensUsed(chunks, streamed) ==
    IF streamed THEN (chunks * (chunks + 1)) \div 2 ELSE chunks

\* The answer arrives, or does not: then no turn is kept.
GenerateReply(c) ==
    /\ caller[c].phase = "asked"
    /\ \/ \E n \in Chunks : Enter(c,
               [phase |-> "generated", conversation |-> caller[c].conversation,
                turn |-> [by |-> c, tokens |-> TokensUsed(n, caller[c].streamed)]])
       \/ Leave(c)
    /\ UNCHANGED <<storage, talks, present, saved, collided>>

AddingTo(v) == {c \in Callers : caller[c].phase = "adding" /\ caller[c].conversation = v}

\* addTurn reads the conversation again.  If it is gone the turn is lost.
ReadForTurn(c) ==
    LET v == caller[c].conversation
    IN  /\ caller[c].phase = "generated"
        /\ IF v \in present
           THEN /\ Enter(c, [phase |-> "adding", conversation |-> v,
                             turn |-> caller[c].turn, talk |-> talks[v]])
                /\ collided' = IF storage = "redis" /\ AddingTo(v) # {}
                               THEN collided \cup {v} ELSE collided
           ELSE Leave(c) /\ UNCHANGED collided
        /\ UNCHANGED <<storage, talks, present, saved>>

SumTokens(turns) == FoldSeq(LAMBDA turn, sum : turn.tokens + sum, 0, turns)
ShouldPrune(t) == Len(t.turns) > TurnLimit \/ t.totalTokens > TokenLimit

\* Turns leave from the front, down to the number allowed and then down to half
\* of the tokens allowed, but never the last one.  (The code compares with
\* TokenLimit * 0.5, so the comparison is doubled here.)
\* Two slips: the total is not taken down, or the latest turns leave.
DroppingKeepsTotal(t, n) == [t EXCEPT !.turns = SubSeq(@, n + 1, Len(@))]
DroppingTheLatest(t, n) ==
    [turns |-> SubSeq(t.turns, 1, Len(t.turns) - n),
     totalTokens |-> SumTokens(SubSeq(t.turns, 1, Len(t.turns) - n))]

Dropping(t, n) ==
    [turns |-> SubSeq(t.turns, n + 1, Len(t.turns)),
     totalTokens |-> t.totalTokens - SumTokens(SubSeq(t.turns, 1, n))]
PruneConversation(t) ==
    LET Enough(n) == /\ Len(t.turns) - n <= TurnLimit
                     /\ \/ 2 * Dropping(t, n).totalTokens <= TokenLimit
                        \/ Len(t.turns) - n <= 1
        n == CHOOSE m \in 0 .. Len(t.turns) :
                Enough(m) /\ \A k \in 0 .. m - 1 : ~Enough(k)
    IN  Dropping(t, n)

\* What addTurn makes of the conversation it holds.
Extended(t, turn) ==
    LET longer == [turns |-> Append(t.turns, turn),
                   totalTokens |-> t.totalTokens + turn.tokens]
    IN  IF ShouldPrune(longer) THEN PruneConversation(longer) ELSE longer

\* The conversation is written back: in Redis the copy that was read, extended;
\* in memory the object itself.  Either brings a deleted conversation back.
SaveTurn(c) ==
    LET v == caller[c].conversation
        held == IF storage = "redis" THEN caller[c].talk ELSE talks[v]
    IN  /\ caller[c].phase = "adding"
        /\ talks' = [talks EXCEPT ![v] = Extended(held, caller[c].turn)]
        /\ present' = present \cup {v}
        /\ saved' = [saved EXCEPT ![v] = Append(@, caller[c].turn)]
        /\ Leave(c)
        /\ UNCHANGED <<storage, collided>>

Forget(v) ==
    /\ present' = present \ {v}
    /\ collided' = collided \cup {v}
    /\ UNCHANGED <<storage, talks, saved>>

\* A conversation is deleted by its id, or runs out its hour in Redis.
DeleteConversation(v) == v \in present /\ Forget(v) /\ UNCHANGED caller
Expire(v) == storage = "redis" /\ v \in present /\ Forget(v) /\ UNCHANGED caller

\* clearUserConversations lists the conversations and deletes them one by one.
ClearUserConversations(c) ==
    \/ /\ caller[c] = Away
       /\ Enter(c, [phase |-> "clearing", todo |-> present])
       /\ UNCHANGED <<storage, talks, present, saved, collided>>
    \/ /\ caller[c].phase = "clearing"
       /\ \E v \in caller[c].todo :
            Forget(v) /\ Enter(c, [caller[c] EXCEPT !.todo = @ \ {v}])
    \/ /\ caller[c].phase = "clearing" /\ caller[c].todo = {}
       /\ Leave(c)
       /\ UNCHANGED <<storage, talks, present, saved, collided>>

MemoryNext ==
    \/ \E v \in Conversations : CreateConversation(v) \/ DeleteConversation(v) \/ Expire(v)
    \/ \E c \in Callers :
        \/ \E v \in Conversations, streamed \in BOOLEAN : Ask(c, v, streamed)
        \/ GenerateReply(c) \/ ReadForTurn(c) \/ SaveTurn(c) \/ ClearUserConversations(c)
MemorySpec == MemoryInit /\ [][MemoryNext]_memoryVars

-----------------------------------------------------------------------------
\* The books of a conversation: totalTokens is the sum over the turns it still
\* has, also after pruning and after two requests wrote over each other, and
\* what is kept is within the limits, or a single turn that exceeds them.
TotalsMatchTurns ==
    \A v \in Conversations :
        /\ talks[v].totalTokens = SumTokens(talks[v].turns)
        /\ Len(talks[v].turns) <= TurnLimit
        /\ talks[v].totalTokens <= TokenLimit \/ Len(talks[v].turns) = 1

\* Nothing but pruning takes turns away: as long as no two additions overlapped
\* in Redis and nobody deleted the conversation, it holds the most recent turns
\* that were saved, in order, and the latest among them.
KeepsTheLatestTurns ==
    \A v \in Conversations \ collided :
        /\ IsSuffix(talks[v].turns, saved[v])
        /\ saved[v] # << >> => talks[v].turns # << >>
=============================================================================
