---------------------------- MODULE RealtimePage ----------------------------
(***************************************************************************)
(* The realtime console (RealtimeClient.tsx, its server actions and the    *)
(* route that passes Core's stream on).  The browser listens to one        *)
(* collection, polls the number of its listeners, and sends events to it;  *)
(* what is asked for one collection may be answered on the screen of       *)
(* another.                                                                *)
(***************************************************************************)
EXTENDS Naturals

CONSTANTS
  RtCollections, \* the collections of the project
  NoRt           \* no stream, no number, no call

\* A stream of the page, and what a poll is.
Streams == [collection : RtCollections, open : BOOLEAN]
Polls == [collection : RtCollections, mounted : BOOLEAN]

ASSUME NoRtAssumption == NoRt \notin Streams

VARIABLES
  rtEntitled,  \* the cookie still selects the project of the page
  rtShown,     \* selectedCollection
  rtConnected, \* connected
  rtStream,    \* eventSourceRef: its collection, and whether it is open
  rtLeft,      \* the collections of streams that pages left behind
  rtEvents,    \* the collections that the listed events are of
  rtPresence,  \* the collection that the number shown is of; NoRt: zero
  rtPolls,     \* the polls that have no answer yet, and whether they count
  rtJsonError, \* jsonError is not empty
  rtCall       \* the publication that has been sent

rtVars == <<rtEntitled, rtShown, rtConnected, rtStream, rtLeft, rtEvents, rtPresence, rtPolls,
            rtJsonError, rtCall>>
rtListenVars == <<rtConnected, rtStream, rtPresence>>

RealtimeInit ==
  /\ rtEntitled = TRUE
  /\ rtShown \in RtCollections
  /\ rtConnected = FALSE /\ rtStream = NoRt /\ rtPresence = NoRt
  /\ rtLeft = {} /\ rtEvents = {} /\ rtPolls = {}
  /\ rtJsonError = FALSE /\ rtCall = NoRt
-----------------------------------------------------------------------------
Poll(c, mounted) == [collection |-> c, mounted |-> mounted]
\* Mutant: the polling effect has no cleanup.
StillMounted(polls) == polls

\* The cleanup of the polling effect.
Unmounted(polls) == {Poll(p.collection, FALSE) : p \in polls}

StopListening ==
  /\ rtConnected' = FALSE /\ rtStream' = NoRt /\ rtPresence' = NoRt

\* Selecting stops the stream after the page is drawn, when the polling
\* effect has already asked for the new collection.
SelectRtCollection(c) ==
  /\ c # rtShown
  /\ rtShown' = c
  /\ StopListening
  /\ rtPolls' = Unmounted(rtPolls) \cup (IF rtConnected THEN {Poll(c, FALSE)} ELSE {})
  /\ UNCHANGED <<rtEntitled, rtLeft, rtEvents, rtJsonError, rtCall>>

StartListening ==
  /\ ~rtConnected
  /\ rtConnected' = TRUE
  /\ rtStream' = [collection |-> rtShown, open |-> FALSE]
  /\ rtPresence' = NoRt /\ rtEvents' = {}
  /\ rtPolls' = rtPolls \cup {Poll(rtShown, TRUE)}
  /\ UNCHANGED <<rtEntitled, rtShown, rtLeft, rtJsonError, rtCall>>

HandleStop ==
  /\ rtConnected
  /\ StopListening
  /\ rtPolls' = Unmounted(rtPolls)
  /\ UNCHANGED <<rtEntitled, rtShown, rtLeft, rtEvents, rtJsonError, rtCall>>

\* The page goes, its stream does not; the next one starts afresh.
LeaveRealtimePage ==
  /\ rtLeft' = IF rtStream = NoRt THEN rtLeft ELSE rtLeft \cup {rtStream.collection}
  /\ rtShown' \in RtCollections
  /\ StopListening
  /\ rtPolls' = Unmounted(rtPolls)
  /\ rtEvents' = {} /\ rtJsonError' = FALSE /\ rtCall' = NoRt
  /\ rtEntitled' = TRUE

HandlePayloadChange ==
  /\ rtJsonError' = ~rtJsonError
  /\ UNCHANGED <<rtEntitled, rtShown, rtListenVars, rtLeft, rtEvents, rtPolls, rtCall>>

HandlePublish ==
  /\ ~rtJsonError /\ rtConnected /\ rtCall = NoRt
  /\ rtCall' = [collection |-> rtShown, published |-> FALSE]
  /\ UNCHANGED <<rtEntitled, rtShown, rtListenVars, rtLeft, rtEvents, rtPolls, rtJsonError>>

UseRealtimeWidgets ==
  \/ StartListening \/ HandleStop \/ LeaveRealtimePage \/ HandlePayloadChange \/ HandlePublish
  \/ \E c \in RtCollections : SelectRtCollection(c)
-----------------------------------------------------------------------------
\* The route asks once whether the project is the one that is selected; what
\* it opens stays open.  A stream that breaks is opened again by the browser.
SubscribeRoute ==
  /\ rtStream # NoRt /\ ~rtStream.open /\ rtEntitled
  /\ rtStream' = [rtStream EXCEPT !.open = TRUE]
  /\ UNCHANGED <<rtConnected, rtPresence, rtEvents, rtPolls>>
StreamBreaks ==
  /\ rtStream # NoRt /\ rtStream.open
  /\ rtStream' = [rtStream EXCEPT !.open = FALSE]
  /\ UNCHANGED <<rtConnected, rtPresence, rtEvents, rtPolls>>
\* A stream that is refused is not tried again.
StreamIsRefused ==
  /\ rtStream # NoRt /\ ~rtStream.open
  /\ StopListening
  /\ rtPolls' = Unmounted(rtPolls)
  /\ UNCHANGED rtEvents

\* A write or a publication, by anyone.
ReceiveEvent ==
  /\ rtStream # NoRt /\ rtStream.open
  /\ rtEvents' = rtEvents \cup {rtStream.collection}
  /\ UNCHANGED <<rtListenVars, rtPolls>>

FetchPresence ==
  /\ rtConnected
  /\ rtPolls' = rtPolls \cup {Poll(rtShown, TRUE)}
  /\ UNCHANGED <<rtListenVars, rtEvents>>

GetPresenceAction(p) ==
  /\ p \in rtPolls
  /\ rtPolls' = rtPolls \ {p}
  /\ rtPresence' \in {rtPresence} \cup
       (IF p.mounted /\ rtEntitled THEN {p.collection} ELSE {})
  /\ UNCHANGED <<rtConnected, rtStream, rtEvents>>

RunRealtime ==
  /\ \/ SubscribeRoute \/ StreamBreaks \/ StreamIsRefused \/ ReceiveEvent \/ FetchPresence
     \/ \E p \in rtPolls : GetPresenceAction(p)
  /\ UNCHANGED <<rtEntitled, rtShown, rtLeft, rtJsonError, rtCall>>

\* Core publishes, and its stream brings the event back like any other; or
\* the call fails.
PublishEventAction ==
  /\ rtCall # NoRt /\ ~rtCall.published
  /\ \/ /\ rtEntitled
        /\ rtEvents' = IF rtStream = [collection |-> rtCall.collection, open |-> TRUE]
                       THEN rtEvents \cup {rtCall.collection} ELSE rtEvents
     \/ UNCHANGED rtEvents
  /\ rtCall' = [rtCall EXCEPT !.published = TRUE]
  /\ UNCHANGED <<rtEntitled, rtShown, rtListenVars, rtLeft, rtPolls, rtJsonError>>

AnswerPublish ==
  /\ rtCall # NoRt /\ rtCall.published
  /\ rtCall' = NoRt
  /\ UNCHANGED <<rtEntitled, rtShown, rtListenVars, rtLeft, rtEvents, rtPolls, rtJsonError>>

\* Another tab selects another project, or signs out.
OtherTabChangesProject ==
  /\ rtEntitled' = ~rtEntitled
  /\ UNCHANGED <<rtShown, rtListenVars, rtLeft, rtEvents, rtPolls, rtJsonError, rtCall>>

RealtimeNext ==
  \/ UseRealtimeWidgets \/ RunRealtime \/ PublishEventAction \/ AnswerPublish
  \/ OtherTabChangesProject

RealtimeSpec == RealtimeInit /\ [][RealtimeNext]_rtVars
-----------------------------------------------------------------------------
\* The console, its stream, and the calls.
RealtimeTypeOK ==
  /\ rtEntitled \in BOOLEAN /\ rtConnected \in BOOLEAN /\ rtJsonError \in BOOLEAN
  /\ rtShown \in RtCollections /\ rtPresence \in RtCollections \cup {NoRt}
  /\ rtLeft \in SUBSET RtCollections /\ rtEvents \in SUBSET RtCollections
  /\ rtStream \in {NoRt} \cup Streams
  /\ rtPolls \in SUBSET Polls
  /\ rtCall \in {NoRt} \cup [collection : RtCollections, published : BOOLEAN]

\* While the console listens, its stream, the events it lists and the number
\* it shows are those of the collection it names, and when it does not, it
\* has no stream and no number: whatever polls and streams of a collection
\* shown before are answered late.
ConsoleShowsItsCollection ==
  IF rtConnected
  THEN /\ rtStream # NoRt /\ rtStream.collection = rtShown
       /\ rtEvents \subseteq {rtShown}
       /\ rtPresence \in {NoRt, rtShown}
  ELSE rtStream = NoRt /\ rtPresence = NoRt
=============================================================================
