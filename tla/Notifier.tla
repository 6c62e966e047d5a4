------------------------------ MODULE Notifier ------------------------------
(***************************************************************************)
(* The notifier (notify/service.py, notify/channels.py): journal events    *)
(* become queued messages, a worker thread sends them, a poller thread     *)
(* obeys the owner's /stop, and the runtime's tick sends one summary a     *)
(* day.  One channel; its settings and offset are one file.  The bot API   *)
(* keeps an update until a later offset is asked for.                      *)
(***************************************************************************)
EXTENDS Naturals, Sequences

CONSTANTS
    Chats,          \* chats that may write to the bot
    EventKeys,      \* situations the journal reports (Message.key)
    DedupeFor,      \* DEDUPE_SEC
    CommandAge,     \* COMMAND_MAX_AGE_SEC
    QueueMost,      \* the queue's maxlen
    DayHours,       \* clock units in a day; the summary is due in the last one
    NtHorizon,      \* bound: clock
    MaxUpdates      \* bound: messages written to the bot

ASSUME NotifierAssumption ==
    /\ {DedupeFor, CommandAge, NtHorizon, MaxUpdates} \subseteq Nat
    /\ QueueMost \in Nat \ {0} /\ DayHours \in Nat \ {0}

VARIABLES
    hour,           \* the wall clock
    channel,        \* settings["channels"]: enabled, with the chat and commands
    inbox,          \* the updates the bot API holds; an update's id is its index
    offset,         \* _poll_loop's offset
    savedOffset,    \* settings["offsets"] on file
    poll,           \* poll_once: the chat it read, the updates it got, how many it did
    killed,         \* the kill switch
    through,        \* ghost: the last update of a completed, saved poll
    replayed,       \* ghost: updates obeyed after that
    lastQueued,     \* _recent: when each key was queued
    outgoing,       \* _queue
    dailyLast,      \* settings["daily_last"] in memory
    savedDaily,     \* and on file
    summaries       \* ghost: how often each day's summary was queued

ntVars == <<hour, channel, inbox, offset, savedOffset, poll, killed, through, replayed,
            lastQueued, outgoing, dailyLast, savedDaily, summaries>>
inVars == <<inbox, offset, savedOffset, poll, killed, through, replayed>>
outVars == <<lastQueued, outgoing, dailyLast, savedDaily, summaries>>

Days == 0..(NtHorizon \div DayHours)
NoPoll == [on |-> FALSE, chat |-> "none", upto |-> 0, at |-> 0]
Never == NtHorizon + DedupeFor + 1

NtInit ==
    /\ hour = 0 /\ channel = [enabled |-> FALSE, chat |-> "none", commands |-> FALSE]
    /\ inbox = <<>> /\ offset = 0 /\ savedOffset = 0 /\ poll = NoPoll /\ killed = FALSE
    /\ through = 0 /\ replayed = {}
    /\ lastQueued = [k \in EventKeys |-> Never] /\ outgoing = <<>>
    /\ dailyLast = Never /\ savedDaily = Never /\ summaries = [d \in Days |-> 0]

-----------------------------------------------------------------------------
(* The owner, the world                                                    *)

\* save_channel: a chat is needed to enable the channel.
SaveChannel ==
    \E c \in Chats \cup {"none"}, on, commands \in BOOLEAN :
        /\ on => c # "none"
        /\ channel' = [enabled |-> on, chat |-> c, commands |-> commands]
        /\ UNCHANGED <<hour, inVars, outVars>>

WriteToBot ==
    \E c \in Chats, word \in {"/stop", "/status"} :
        /\ Len(inbox) < MaxUpdates
        /\ inbox' = Append(inbox, [from |-> c, word |-> word, at |-> hour])
        /\ UNCHANGED <<hour, channel, offset, savedOffset, poll, killed, through, replayed, outVars>>

\* The dashboard releases the switch; no message does.
Dashboard == killed /\ killed' = FALSE /\ UNCHANGED <<hour, channel, inbox, offset, savedOffset, poll, through, replayed, outVars>>

NtTick == hour < NtHorizon /\ hour' = hour + 1 /\ UNCHANGED <<channel, inVars, outVars>>

-----------------------------------------------------------------------------
(* The poller thread                                                       *)

\* _poll_loop and poll_once: the chat is read, then the long poll answers.
PollBegins ==
    /\ ~poll.on /\ channel.enabled /\ channel.commands /\ Len(inbox) > offset
    /\ poll' = [on |-> TRUE, chat |-> channel.chat, upto |-> Len(inbox), at |-> offset]
    /\ UNCHANGED <<hour, channel, inbox, offset, savedOffset, killed, through, replayed, outVars>>

Heard(u) == /\ inbox[u].from = poll.chat
            /\ hour - inbox[u].at <= CommandAge

\* command: /stop engages the kill switch, whatever its state.
Obey(u) ==
    /\ replayed' = IF u <= through THEN replayed \cup {u} ELSE replayed
    /\ killed' = (killed \/ inbox[u].word = "/stop")

\* One update of the batch; a heard one is obeyed and answered.
PollStep ==
    /\ poll.on /\ poll.at < poll.upto
    /\ LET u == poll.at + 1
       IN  /\ poll' = [poll EXCEPT !.at = u]
           /\ IF Heard(u) THEN Obey(u) ELSE UNCHANGED <<replayed, killed>>
    /\ UNCHANGED <<hour, channel, inbox, offset, savedOffset, through, outVars>>

\* The answer cannot be sent: the whole batch is abandoned, obeyed or not.
ReplyFails ==
    /\ poll.on /\ poll.at < poll.upto /\ Heard(poll.at + 1)
    /\ Obey(poll.at + 1) /\ poll' = NoPoll
    /\ UNCHANGED <<hour, channel, inbox, offset, savedOffset, through, outVars>>

\* Fault: the offset is kept in memory only.
SavedOffsetAfterNone == savedOffset

\* The offset is saved with the settings.
SavedOffsetAfter == poll.upto

\* The batch is through: the offset moves on, in memory and on file.
PollEnds ==
    /\ poll.on /\ poll.at = poll.upto
    /\ offset' = poll.upto /\ savedOffset' = SavedOffsetAfter
    /\ through' = (IF poll.upto > through THEN poll.upto ELSE through) /\ poll' = NoPoll
    /\ UNCHANGED <<hour, channel, inbox, killed, replayed, outVars>>

-----------------------------------------------------------------------------
(* The sending side                                                        *)

\* A deque at its length drops the oldest.
Queued(q, m) == LET full == Append(q, m)
                IN  IF Len(full) > QueueMost THEN Tail(full) ELSE full

\* on_audit and enqueue, for a category the channel wants: a repeat inside the
\* window is collapsed.
OnAudit ==
    \E k \in EventKeys :
        /\ channel.enabled
        /\ lastQueued[k] = Never \/ hour - lastQueued[k] >= DedupeFor
        /\ lastQueued' = [lastQueued EXCEPT ![k] = hour]
        /\ outgoing' = Queued(outgoing, k)
        /\ UNCHANGED <<hour, channel, inVars, dailyLast, savedDaily, summaries>>

\* drain: a message that cannot be sent is counted and lost.
Drain ==
    /\ outgoing # <<>> /\ outgoing' = Tail(outgoing)
    /\ UNCHANGED <<hour, channel, inVars, lastQueued, dailyLast, savedDaily, summaries>>

Today == hour \div DayHours
DueHour == hour % DayHours = DayHours - 1

\* Fault: the day is remembered in memory only.
SavedDayNone == savedDaily

\* _save, before the message is queued.
SavedDay == Today

\* tick: the day is marked, in memory and on file, before the summary is queued.
MarkDaily ==
    /\ DueHour /\ dailyLast # Today
    /\ dailyLast' = Today /\ savedDaily' = SavedDay
    /\ IF channel.enabled
       THEN outgoing' = Queued(outgoing, "daily") /\ summaries' = [summaries EXCEPT ![Today] = @ + 1]
       ELSE UNCHANGED <<outgoing, summaries>>
    /\ UNCHANGED <<hour, channel, inVars, lastQueued>>

\* The process dies after the save: the summary of the day is gone.
MarkDailyDies ==
    /\ DueHour /\ dailyLast # Today
    /\ dailyLast' = Today /\ savedDaily' = SavedDay
    /\ outgoing' = <<>> /\ lastQueued' = [k \in EventKeys |-> Never]
    /\ offset' = savedOffset /\ poll' = NoPoll
    /\ UNCHANGED <<hour, channel, inbox, savedOffset, killed, through, replayed, summaries>>

\* A restart reads the settings; the queue and the dedupe marks are memory.
NtRestart ==
    /\ offset' = savedOffset /\ poll' = NoPoll
    /\ dailyLast' = savedDaily
    /\ outgoing' = <<>> /\ lastQueued' = [k \in EventKeys |-> Never]
    /\ UNCHANGED <<hour, channel, inbox, savedOffset, killed, through, replayed, savedDaily, summaries>>

\* What both directions meet.
ServiceNext == SaveChannel \/ NtTick \/ NtRestart

CommandNext ==
    \/ ServiceNext \/ WriteToBot \/ Dashboard
    \/ PollBegins \/ PollStep \/ ReplyFails \/ PollEnds

MessageNext == ServiceNext \/ OnAudit \/ Drain \/ MarkDaily \/ MarkDailyDies

NtNext == CommandNext \/ MessageNext

NtSpec == NtInit /\ [][NtNext]_ntVars

-----------------------------------------------------------------------------
(* Properties                                                              *)

\* A command whose batch was completed is not obeyed again, across any number
\* of restarts: a switch the owner has since released stays released.
CompletedNotReobeyed == replayed = {}

\* At most one summary a day, whatever restarts happen inside the due hour.
DailyAtMostOnce == \A d \in Days : summaries[d] <= 1
=============================================================================
