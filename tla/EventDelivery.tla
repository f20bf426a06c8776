--------------------------- MODULE EventDelivery ---------------------------
(***************************************************************************)
(* From the projector to a mission's page: an API process that listens to  *)
(* the projector's notifications keeps the last Buffer of them and sends   *)
(* them on to the open streams, and the page fetches the read models again *)
(* when an event of a watched type arrives.                                *)
(*                                                                         *)
(* The process's connection, the process and the stream can each break.    *)
(* What is notified while nobody listens is gone, a restarted process has  *)
(* an empty buffer, and a stream comes back with the id of the last event  *)
(* it received, if it received one (Last-Event-ID).                        *)
(***************************************************************************)
EXTENDS OutboxProjector, SequencesExt

CONSTANTS Watched,     \* events of the types the page listens to
          Buffer,      \* notifications an API process keeps (100 in the code)
          MaxBreaks    \* bound: broken connections, processes and streams

ASSUME DeliveryAssumption ==
    Watched \subseteq Events /\ Buffer \in Nat \ {0} /\ MaxBreaks \in Nat

VARIABLES
    history,    \* what the API process keeps of the mission's events
    stream,     \* the page's EventSource: "none", "open" or "broken"
    last,       \* the id it reconnects with
    inbox,      \* messages on the open stream
    stale,      \* the page is to fetch (again)
    page,       \* the changes all parts of the page show
    owed,       \* history: watched events that were recorded while the page
                \*   had an id to come back with
    again,      \* history: recorded events that were not announced for the
                \*   first time
    missed,     \* history: what the page was owed and did not show yet when it
                \*   came back with the id of one of those
    breaks

pageVars == <<stream, last, inbox, stale, page>>
debtVars == <<owed, again, missed>>
deliveryVars == <<history, pageVars, debtVars, breaks>>
allVars == <<vars, deliveryVars>>

\* The message stream.reset_required, which has no id.
Reset == None

DeliveryInit ==
    /\ Init
    /\ history = <<>> /\ breaks = 0 /\ owed = {} /\ again = {} /\ missed = {}
    /\ stream = "none" /\ last = None /\ inbox = <<>> /\ stale = TRUE /\ page = {}

-----------------------------------------------------------------------------
KeptOldest(events) == SubSeq(events, 1, Buffer)   \* mutant: a full buffer takes no more
Kept(events) == SubSeq(events, 1 + Max({0, Len(events) - Buffer}), Len(events))

\* record(), in the process that hears the notification of e, be it the first
\* for this event or not: into the buffer, and to every open stream.
Record(e) ==
    /\ history' = Kept(Append(history, e))
    /\ inbox' = IF stream = "open" THEN Append(inbox, e) ELSE inbox
    /\ owed' = IF last # None THEN owed \cup ({e} \cap Watched) ELSE owed
    /\ again' = again \cup ({e} \cap notified)
    /\ UNCHANGED <<stream, last, stale, page, missed, breaks>>

\* The commands, the projector and time.
Command(e) == AppendEvent(e) /\ UNCHANGED deliveryVars

ProjectOn(p) ==
    /\ Project(p)
    /\ IF pc[p] = "notify" THEN Record(current[p]) ELSE UNCHANGED deliveryVars

Stumble(p) ==
    \/ (Fail(p) \/ Crash(p)) /\ UNCHANGED deliveryVars
    \/ LoseAnswer(p) /\ Record(current[p])

Elapse(e) == (ExpireLease(e) \/ BecomeDue(e)) /\ UNCHANGED deliveryVars

-----------------------------------------------------------------------------
\* The page.

\* What a stream that comes back is sent first: all that follows the first
\* occurrence of its id, or the request to start over.
ReplayOrNothing(id) ==   \* mutant: a page that was away too long is not told
    IF id \notin ToSet(history) THEN <<>>
    ELSE SubSeq(history, 1 + SelectInSeq(history, LAMBDA e : e = id), Len(history))
Replay(id) ==
    IF id = None THEN <<>>
    ELSE IF id \notin ToSet(history) THEN <<Reset>>
    ELSE SubSeq(history, 1 + SelectInSeq(history, LAMBDA e : e = id), Len(history))

\* What every part of it shows when it is fetched now.
Visible == timeline \cap dashboard \cap progress

\* The server renders the page, and a refetch replaces what it shows.
Fetch ==
    /\ stale
    /\ stale' = FALSE /\ page' = Visible
    /\ UNCHANGED <<vars, history, stream, last, inbox, debtVars, breaks>>

\* The effect of SseBridge runs when the page is there; later the browser
\* connects again by itself.
Connect ==
    /\ stream = "broken" \/ (stream = "none" /\ ~stale)
    /\ stream' = "open" /\ inbox' = Replay(last)
    /\ missed' = IF last \in again THEN missed \cup (owed \ page) ELSE missed
    /\ UNCHANGED <<vars, history, last, stale, page, owed, again, breaks>>

\* Every event's id is kept, watched or not; the reset has none.
Receive ==
    /\ inbox # <<>>
    /\ inbox' = Tail(inbox)
    /\ last' = IF Head(inbox) = Reset THEN last ELSE Head(inbox)
    /\ stale' = (stale \/ Head(inbox) \in Watched \cup {Reset})
    /\ UNCHANGED <<vars, history, stream, page, debtVars, breaks>>

-----------------------------------------------------------------------------
\* What can break.

Break ==
    /\ breaks < MaxBreaks /\ breaks' = breaks + 1
    /\ UNCHANGED <<vars, last, stale, page, debtVars>>

LoseStream ==
    /\ stream = "open" /\ stream' = "broken" /\ inbox' = <<>>
    /\ UNCHANGED history
    /\ Break

\* Nobody listens when p notifies.
LoseNotification(p) ==
    /\ Announce(p)
    /\ breaks < MaxBreaks /\ breaks' = breaks + 1
    /\ UNCHANGED <<history, pageVars, debtVars>>

RestartProcess ==
    /\ history' = <<>> /\ inbox' = <<>>
    /\ stream' = IF stream = "open" THEN "broken" ELSE stream
    /\ Break

-----------------------------------------------------------------------------
DeliveryNext ==
    \/ \E e \in Events : Command(e) \/ Elapse(e)
    \/ \E p \in Projectors : ProjectOn(p) \/ Stumble(p) \/ LoseNotification(p)
    \/ Fetch \/ Connect \/ Receive
    \/ LoseStream \/ RestartProcess

DeliverySpec == DeliveryInit /\ [][DeliveryNext]_allVars

\* As for the projector; an open page goes on as well, and connects again.
FairDelivery ==
    /\ DeliverySpec
    /\ \A p \in Projectors : WF_allVars(ProjectOn(p))
    /\ \A e \in Events : WF_allVars(Elapse(e))
    /\ WF_allVars(Fetch) /\ WF_allVars(Connect) /\ WF_allVars(Receive)

-----------------------------------------------------------------------------
\* Once a page has received an event, every watched event the API process
\* records later is shown in the end, whichever streams break, however much the
\* page has missed, and whether the process was started anew; unless the page
\* comes back with the id of an event that was announced twice, as that may
\* have moved behind what the page has not seen (EventStreamService.stream,
\* SseBridge).
PageCatchesUp == \A e \in Events : e \in owed ~> e \in page \cup missed

\* With an open stream and nothing more to receive or to fetch.
Quiet == stream = "open" /\ inbox = <<>> /\ ~stale /\ last # None

\* A quiet page shows every watched event it was owed, with the same exception:
\* no event reaches the page before the read models do, and none is dropped on
\* the way.
QuietPageIsCurrent == Quiet => owed \ missed \subseteq page

\* "Reconnect uses Last-Event-ID; the server retains a bounded recent buffer and
\* the client falls back to a full refetch when necessary" (docs/api.md:147),
\* without an exception.
RefetchesWhenNecessary == Quiet => owed \subseteq page
=============================================================================
