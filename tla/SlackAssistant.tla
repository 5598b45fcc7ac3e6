--------------------------- MODULE SlackAssistant ---------------------------
(***************************************************************************)
(* The employee assistant in Slack.  When the web process starts, it       *)
(* connects to its MCP servers, or goes on without one; then it registers  *)
(* the agents, each with the tools there are by then, and listens.  A      *)
(* mention makes the assistant read the thread, think, and post an answer, *)
(* or say that it cannot.                                                  *)
(***************************************************************************)
EXTENDS Naturals

CONSTANTS
    Clients,        \* the MCP services
    Mentions,
    ReplyFaults,    \* what may become of a call to Slack that errors
    MaxTroubles     \* bound: such errors, and restarts

ASSUME AssistantAssumption ==
    ReplyFaults \subseteq {"lost", "late"} /\ MaxTroubles \in Nat

VARIABLES
    client,         \* how each MCP client fared at this start
    registered,     \* the registry has the assistant
    tools,          \* the clients whose tools it was given
    listening,      \* the process answers webhooks
    reply,          \* where the handler of each mention is
    stopped,        \* mentions whose reply the user stopped
    said,           \* what was posted for each: answers and apologies
    troubles        \* errors and restarts so far

startVars == <<client, registered, tools, listening>>
replyVars == <<reply, stopped, said>>
assistantVars == <<startVars, replyVars, troubles>>

AssistantTypeOK ==
    /\ client \in [Clients -> {"connecting", "connected", "unavailable"}]
    /\ registered \in BOOLEAN /\ listening \in BOOLEAN
    /\ tools \subseteq Clients
    /\ reply \in [Mentions -> {"new", "typing", "reading", "generating",
                               "answering", "failing", "caught", "ended"}]
    /\ stopped \subseteq Mentions
    /\ said \in [Mentions -> [answers : 0..1, apologies : 0..2]]
    /\ troubles \in 0..MaxTroubles

AssistantInit ==
    /\ client = [c \in Clients |-> "connecting"]
    /\ registered = FALSE /\ tools = {} /\ listening = FALSE
    /\ reply = [m \in Mentions |-> "new"]
    /\ stopped = {}
    /\ said = [m \in Mentions |-> [answers |-> 0, apologies |-> 0]]
    /\ troubles = 0

-----------------------------------------------------------------------------
Trouble == troubles < MaxTroubles /\ troubles' = troubles + 1

Answers == {"ok"} \cup ReplyFaults

Answered(o) == IF o = "ok" THEN UNCHANGED troubles ELSE Trouble

(* onModuleInit of an MCP service: an error is only logged.                *)
Connect(c, ok) ==
    /\ client[c] = "connecting"
    /\ client' = [client EXCEPT ![c] = IF ok THEN "connected" ELSE "unavailable"]
    /\ UNCHANGED <<registered, tools, listening, replyVars, troubles>>

(* getTools                                                                *)
Available == {c \in Clients : client[c] = "connected"}

(* Variants, each named for the slip it makes, stand before what they      *)
(* replace: the runs show that the properties tell them apart.             *)
RegisterAtInit ==
    /\ ~registered
    /\ registered' = TRUE /\ tools' = Available
    /\ UNCHANGED <<client, listening, replyVars, troubles>>

(* onApplicationBootstrap comes after every onModuleInit.                  *)
Register ==
    /\ ~registered
    /\ \A c \in Clients : client[c] # "connecting"
    /\ registered' = TRUE /\ tools' = Available
    /\ UNCHANGED <<client, listening, replyVars, troubles>>

(* app.listen, which initialises the application first.                    *)
Listen ==
    /\ registered /\ ~listening
    /\ \A c \in Clients : client[c] # "connecting"
    /\ listening' = TRUE
    /\ UNCHANGED <<client, registered, tools, replyVars, troubles>>

-----------------------------------------------------------------------------
(* The chat library hands each mention over once.  An error of the seen    *)
(* reaction is swallowed.                                                  *)
OnNewMention(m) ==
    /\ listening /\ reply[m] = "new"
    /\ reply' = [reply EXCEPT ![m] = "typing"]
    /\ UNCHANGED <<startVars, stopped, said, troubles>>

(* Outside of the try: an error ends the handler.                          *)
StartTyping(m, o) ==
    /\ reply[m] = "typing"
    /\ Answered(o)
    /\ reply' = [reply EXCEPT ![m] = IF o = "ok" THEN "reading" ELSE "ended"]
    /\ UNCHANGED <<startVars, stopped, said>>

(* catch: a reply that was stopped ends in silence.                        *)
Caught(m) == IF m \in stopped THEN "ended" ELSE "caught"

ReadThreadHistory(m, o) ==
    /\ reply[m] = "reading"
    /\ Answered(o)
    /\ reply' = [reply EXCEPT ![m] = IF o = "ok" /\ registered THEN "generating"
                                                              ELSE Caught(m)]
    /\ UNCHANGED <<startVars, stopped, said>>

(* The user may stop the reply as long as it is under way.                 *)
StopReply(m) ==
    /\ reply[m] \notin {"new", "ended"} /\ m \notin stopped
    /\ stopped' = stopped \cup {m}
    /\ UNCHANGED <<startVars, reply, said, troubles>>

GenerateSilently(m, r) ==
    /\ reply[m] = "generating"
    /\ reply' = [reply EXCEPT ![m] = CASE r = "text"  -> "answering"
                                       [] r = "threw" -> Caught(m)
                                       [] OTHER       -> "ended"]
    /\ UNCHANGED <<startVars, stopped, said, troubles>>

(* The agent ends with a text, or none, or at the limit of its steps; or   *)
(* it throws, as it does when it is stopped.                               *)
GenerateReply(m, r) ==
    /\ reply[m] = "generating"
    /\ reply' = [reply EXCEPT ![m] = CASE r = "text"  -> "answering"
                                       [] r = "threw" -> Caught(m)
                                       [] OTHER       -> "failing"]
    /\ UNCHANGED <<startVars, stopped, said, troubles>>

Say(m, what, o) ==
    said' = IF o = "lost" THEN said ELSE [said EXCEPT ![m][what] = @ + 1]

PostAnswer(m, o) ==
    /\ reply[m] = "answering"
    /\ Answered(o)
    /\ Say(m, "answers", o)
    /\ reply' = [reply EXCEPT ![m] = IF o = "ok" THEN "ended" ELSE Caught(m)]
    /\ UNCHANGED <<startVars, stopped>>

(* Inside of the try: when it errs, the catch posts it again.              *)
PostFailure(m, o) ==
    /\ reply[m] = "failing"
    /\ Answered(o)
    /\ Say(m, "apologies", o)
    /\ reply' = [reply EXCEPT ![m] = IF o = "ok" THEN "ended" ELSE Caught(m)]
    /\ UNCHANGED <<startVars, stopped>>

Apologize(m, o) ==
    /\ reply[m] = "caught"
    /\ Answered(o)
    /\ Say(m, "apologies", o)
    /\ reply' = [reply EXCEPT ![m] = "ended"]
    /\ UNCHANGED <<startVars, stopped>>

(* The process dies with its handlers, and starts again.                   *)
Restart ==
    /\ listening /\ Trouble
    /\ client' = [c \in Clients |-> "connecting"]
    /\ registered' = FALSE /\ tools' = {} /\ listening' = FALSE
    /\ reply' = [m \in Mentions |-> IF reply[m] = "new" THEN "new" ELSE "ended"]
    /\ UNCHANGED <<stopped, said>>

Start == (\E c \in Clients, ok \in BOOLEAN : Connect(c, ok)) \/ Register \/ Listen

(* What is sure to go on: everything but the agent's own work.             *)
Handle(m) ==
    \E o \in Answers : \/ StartTyping(m, o) \/ ReadThreadHistory(m, o)
                       \/ PostAnswer(m, o) \/ PostFailure(m, o) \/ Apologize(m, o)

AssistantNext ==
    \/ Start \/ Restart
    \/ \E m \in Mentions :
         \/ OnNewMention(m) \/ Handle(m) \/ StopReply(m)
         \/ \E r \in {"text", "empty", "tool-calls", "threw"} : GenerateReply(m, r)

AssistantSpec == AssistantInit /\ [][AssistantNext]_assistantVars

(* A call to Slack or to an MCP server returns, or errs.                   *)
AssistantProgress == Start \/ \E m \in Mentions : Handle(m)

AssistantFairness == WF_assistantVars(AssistantProgress)

-----------------------------------------------------------------------------
(* While webhooks are answered, the assistant is registered and has the    *)
(* tools of every server that was reached, in whatever order they were.    *)
ListensFullyEquipped ==
    listening => registered /\ tools = Available /\ \A c \in Clients : client[c] # "connecting"

(* Unless Slack errs or the process dies, a mention gets an answer or an   *)
(* apology, not both and not neither, however the agent ends and unless    *)
(* the user stops the reply, which silences it at most.                    *)
OneReplyPerMention ==
    troubles = 0 => \A m \in Mentions :
      LET posts == said[m].answers + said[m].apologies
      IN  /\ posts <= 1
          /\ reply[m] = "ended" /\ m \notin stopped => posts = 1

(* The handlers all end, unless an agent never returns.                    *)
EveryMentionEnds ==
    \/ \E m \in Mentions : <>[](reply[m] = "generating")
    \/ []<>(\A m \in Mentions : reply[m] \in {"new", "ended"})
=============================================================================
