-------------------------------- MODULE Conversation --------------------------------
(* What the engine remembers of the running session: ContextManager of
   ale-core/src/context.rs.  The messages and an estimate of their tokens, which the
   oldest ones leave for a summary when it comes near to the budget, and the
   descriptions of the last pictures.  A message is known by its number and has a
   size in tokens. *)
EXTENDS Naturals, Sequences

CONSTANTS TokenSizes,     \* estimates of a message's tokens
          Budget,         \* the tokens at which messages are summed up
          KeepMessages,           \* messages that stay; six in the code
          Fewest,         \* messages that a summary is worth: three in the code
          SummaryRoom,    \* messages that a summary has room for
          Pictures,       \* descriptions of pictures
          MaxPictures,    \* five in the code
          MaxMessages     \* bound: messages

ASSUME ConversationAssumption ==
    /\ TokenSizes \subseteq Nat
    /\ {Budget, KeepMessages, SummaryRoom, MaxPictures, MaxMessages} \subseteq Nat
    /\ Fewest \in Nat \ {0}

VARIABLES
    conversation,  \* the messages
    tokens,        \* current_tokens
    summary,       \* the messages that are summed up
    visual,        \* visual_memory
    added          \* messages added since the last clear
conversationVars == <<conversation, tokens, summary, visual, added>>

ConversationInit ==
    /\ conversation = << >>
    /\ tokens = 0
    /\ summary = << >>
    /\ visual = << >>
    /\ added = 0

Tokens(messages) ==
    LET sum[i \in 0..Len(messages)] ==
            IF i = 0 THEN 0 ELSE sum[i - 1] + messages[i].tokens
    IN sum[Len(messages)]
Newest(messages, n) ==
    IF Len(messages) <= n THEN messages
    ELSE SubSeq(messages, Len(messages) - n + 1, Len(messages))

\* Each of the messages that go gives its tokens back, down to zero (saturating_sub).
GivenBack(sum, messages) ==
    LET left[i \in 0..Len(messages)] ==
            IF i = 0 THEN sum
            ELSE IF messages[i].tokens > left[i - 1] THEN 0
            ELSE left[i - 1] - messages[i].tokens
    IN left[Len(messages)]

\* maybe_compact.
Compacted(messages, sum) ==
    LET gone == Len(messages) - KeepMessages IN
    IF sum < Budget \/ Len(messages) < KeepMessages + Fewest
    THEN [messages |-> messages, tokens |-> sum, summary |-> summary]
    ELSE [messages |-> Newest(messages, KeepMessages),
          tokens |-> GivenBack(sum, SubSeq(messages, 1, gone)),
          summary |-> Newest(summary \o SubSeq(messages, 1, gone), SummaryRoom)]

\* add_user_message, add_assistant_message.
AddMessage ==
    /\ added < MaxMessages
    /\ \E size \in TokenSizes :
          LET message == [number |-> added + 1, tokens |-> size]
              c == Compacted(Append(conversation, message), tokens + size) IN
          /\ conversation' = c.messages
          /\ tokens' = c.tokens
          /\ summary' = c.summary
    /\ added' = added + 1
    /\ UNCHANGED visual

\* add_frame_summary: the same picture again is not added.
AddPicture ==
    /\ \E p \in Pictures :
          /\ visual # << >> => visual[Len(visual)] # p
          /\ visual' = Newest(Append(visual, p), MaxPictures)
    /\ UNCHANGED <<conversation, tokens, summary, added>>

ClearContext ==
    /\ conversation' = << >>
    /\ tokens' = 0
    /\ summary' = << >>
    /\ visual' = << >>
    /\ added' = 0

ConversationNext == AddMessage \/ AddPicture \/ ClearContext

--------------------------------------------------------------------------------
\* Nothing is forgotten but what the summary has no room for: the summary and the
\* conversation are the newest messages, in order and without a gap, the estimate is the
\* sum of what is still there, and what is over the budget are at most the messages
\* that are not worth a summary (maybe_compact).
ConversationIsWhole ==
    LET all == summary \o conversation IN
    /\ \A i \in DOMAIN all : all[i].number = added - Len(all) + i
    /\ Len(all) < added => Len(summary) = SummaryRoom
    /\ tokens = Tokens(conversation)
    /\ tokens >= Budget => Len(conversation) < KeepMessages + Fewest

\* The pictures are the last ones, and no two in a row are the same.
PicturesDiffer ==
    /\ Len(visual) <= MaxPictures
    /\ \A i \in 1..Len(visual) - 1 : visual[i] # visual[i + 1]

ContextIsWhole == ConversationIsWhole /\ PicturesDiffer
================================================================================
