--------------------------- MODULE LiveDocuments ---------------------------
(***************************************************************************)
(* How the data page keeps up with its collection (DataClient.tsx,         *)
(* data/page.tsx): a page is loaded for the address, by a refresh, after   *)
(* an own action, and half a second after an event of the collection's     *)
(* stream.  A stream that breaks is opened again by the browser, with the  *)
(* number of the last event it received, from which Core replays.          *)
(* A collection is the number of the writes it has seen.                   *)
(***************************************************************************)
EXTENDS Naturals

CONSTANTS
  LiveCollections, \* the names collections may have
  NoLive,          \* no collection, no page on its way, no rows
  MaxLiveWrites    \* bounds the writes of all clients together

ASSUME LiveAssumption == MaxLiveWrites \in Nat

VARIABLES
  liveCore,    \* the writes each collection has seen; NoLive: it is gone
  liveUrl,     \* the collection the address asks for
  liveShown,   \* selectedCollection
  liveRows,    \* the writes the rows reflect; NoLive: cut, or an error is shown
  liveError,   \* loadError
  liveWanted,  \* router.refresh() or a navigation waits for its turn
  liveLoad,    \* the page the server has read, on its way to the browser
  liveStream,  \* the collection of the EventSource, while it is connected
  liveSource,  \* the EventSource: new, known (it has the number of an event), or refused
  liveReplay,  \* writes that Core will replay when it connects again
  liveEvent,   \* a message of that stream is on its way
  liveTimer,   \* refreshTimeoutRef
  liveMissed,  \* a write since the last page read that no stream will report
  liveWrites   \* writes so far

liveVars == <<liveCore, liveUrl, liveShown, liveRows, liveError, liveWanted, liveLoad,
              liveStream, liveSource, liveReplay, liveEvent, liveTimer, liveMissed, liveWrites>>
liveScreenVars == <<liveShown, liveRows, liveError>>
liveStreamVars == <<liveStream, liveSource, liveReplay, liveEvent, liveTimer>>

Existing == {c \in LiveCollections : liveCore[c] # NoLive}

LiveInit ==
  /\ liveCore = [c \in LiveCollections |-> 0]
  /\ liveShown \in LiveCollections
  /\ liveUrl = liveShown
  /\ liveRows = 0 /\ liveError = FALSE
  /\ liveWanted = FALSE /\ liveLoad = NoLive
  /\ liveStream = NoLive /\ liveSource = "new" /\ liveReplay = FALSE
  /\ liveEvent = FALSE /\ liveTimer = FALSE
  /\ liveMissed = FALSE /\ liveWrites = 0
-----------------------------------------------------------------------------
BuildHref(c) ==
  /\ liveUrl' = c
  /\ liveWanted' = TRUE
  /\ UNCHANGED <<liveCore, liveScreenVars, liveLoad, liveStreamVars, liveMissed, liveWrites>>

\* The links of the page may name a collection that is gone.
ChooseCollection(c) == BuildHref(c)

\* The search form and the pager stay with the collection on the screen.
SubmitSearch == liveShown # NoLive /\ BuildHref(liveShown)
TurnPage == liveShown # NoLive /\ BuildHref(liveShown)

RefreshDocuments ==
  /\ liveWanted' = TRUE
  /\ UNCHANGED <<liveCore, liveUrl, liveScreenVars, liveLoad, liveStreamVars, liveMissed,
                 liveWrites>>

\* The answer to an own deletion cuts rows and asks for a refresh.
OwnActionEnds ==
  /\ liveShown # NoLive /\ ~liveError
  /\ liveRows' \in {liveRows, NoLive}
  /\ liveWanted' = TRUE
  /\ UNCHANGED <<liveCore, liveUrl, liveShown, liveError, liveLoad, liveStreamVars,
                 liveMissed, liveWrites>>

\* The collection of the address, or the first of those that exist.
SelectedCollections ==
  IF liveUrl \in Existing THEN {liveUrl}
  ELSE IF Existing # {} THEN Existing ELSE {NoLive}

\* The documents are listed after the collections: one that goes in between
\* is an empty list, and a failure is an error with no rows.
ReadDocuments ==
  /\ liveWanted /\ liveLoad = NoLive
  /\ liveWanted' = FALSE /\ liveMissed' = FALSE
  /\ \E c \in SelectedCollections, failed \in BOOLEAN :
       liveLoad' = [collection |-> c, failed |-> failed,
                    rows |-> IF c = NoLive \/ failed THEN NoLive ELSE liveCore[c]]
  /\ UNCHANGED <<liveCore, liveUrl, liveScreenVars, liveStreamVars, liveWrites>>

\* Mutant: every page that arrives clears the timer.
ArriveAndClearTimer ==
  /\ liveLoad # NoLive
  /\ liveLoad' = NoLive
  /\ liveShown' = liveLoad.collection
  /\ liveRows' = liveLoad.rows
  /\ liveError' = liveLoad.failed
  /\ IF liveLoad.collection = liveShown
     THEN UNCHANGED <<liveStream, liveSource, liveReplay, liveEvent>>
     ELSE /\ liveStream' = NoLive /\ liveSource' = "new"
          /\ liveReplay' = FALSE /\ liveEvent' = FALSE
  /\ liveTimer' = FALSE
  /\ UNCHANGED <<liveCore, liveUrl, liveWanted, liveMissed, liveWrites>>

\* Another collection closes the stream and clears the timer.
ArriveDocuments ==
  /\ liveLoad # NoLive
  /\ liveLoad' = NoLive
  /\ liveShown' = liveLoad.collection
  /\ liveRows' = liveLoad.rows
  /\ liveError' = liveLoad.failed
  /\ IF liveLoad.collection = liveShown
     THEN UNCHANGED liveStreamVars
     ELSE /\ liveStream' = NoLive /\ liveSource' = "new"
          /\ liveReplay' = FALSE /\ liveEvent' = FALSE /\ liveTimer' = FALSE
  /\ UNCHANGED <<liveCore, liveUrl, liveWanted, liveMissed, liveWrites>>

Connecting == liveShown # NoLive /\ liveStream = NoLive /\ liveSource # "refused"

OpenStream ==
  /\ Connecting
  /\ liveStream' = liveShown
  /\ liveEvent' = liveReplay /\ liveReplay' = FALSE
  /\ UNCHANGED <<liveCore, liveUrl, liveScreenVars, liveWanted, liveLoad, liveSource, liveTimer,
                 liveMissed, liveWrites>>

\* A browser does not try again what was answered with an error.
LiveStreamIsRefused ==
  /\ Connecting
  /\ liveSource' = "refused"
  /\ liveReplay' = FALSE /\ liveMissed' = (liveMissed \/ liveReplay)
  /\ UNCHANGED <<liveCore, liveUrl, liveScreenVars, liveWanted, liveLoad, liveStream, liveEvent,
                 liveTimer, liveWrites>>

\* What was on its way is lost, and for good if it was the stream's first.
LiveStreamBreaks ==
  /\ liveStream # NoLive
  /\ liveStream' = NoLive /\ liveEvent' = FALSE
  /\ liveReplay' = (liveEvent /\ liveSource = "known")
  /\ liveMissed' = (liveMissed \/ (liveEvent /\ liveSource = "new"))
  /\ UNCHANGED <<liveCore, liveUrl, liveScreenVars, liveWanted, liveLoad, liveSource, liveTimer,
                 liveWrites>>

\* A message while the timer runs is dropped: the refresh to come shows it.
ThrottledRefresh ==
  /\ liveEvent
  /\ liveEvent' = FALSE /\ liveTimer' = TRUE /\ liveSource' = "known"
  /\ UNCHANGED <<liveCore, liveUrl, liveScreenVars, liveWanted, liveLoad, liveStream, liveReplay,
                 liveMissed, liveWrites>>

TimerFires ==
  /\ liveTimer
  /\ liveTimer' = FALSE /\ liveWanted' = TRUE
  /\ UNCHANGED <<liveCore, liveUrl, liveScreenVars, liveLoad, liveStream, liveSource,
                 liveReplay, liveEvent, liveMissed, liveWrites>>

\* The collections whose documents the browser has, or will have when the
\* page on its way arrives.
OnScreen == {liveShown} \cup (IF liveLoad = NoLive THEN {} ELSE {liveLoad.collection})

\* The stream of c is broken, and will resume where it was.
Resumes(c) == liveShown = c /\ liveStream = NoLive /\ liveSource = "known"

\* A write by anyone: the stream of its collection reports it, if it is open
\* or will resume.
Change(c, writes) ==
  /\ liveWrites < MaxLiveWrites
  /\ liveWrites' = liveWrites + 1
  /\ liveCore' = [liveCore EXCEPT ![c] = writes]
  /\ UNCHANGED <<liveUrl, liveScreenVars, liveWanted, liveLoad, liveStream, liveSource,
                 liveTimer>>

WriteDocuments(c) ==
  /\ c \in Existing
  /\ Change(c, liveCore[c] + 1)
  /\ liveEvent' = (liveEvent \/ liveStream = c)
  /\ liveReplay' = (liveReplay \/ Resumes(c))
  /\ liveMissed' = (liveMissed \/ (c \in OnScreen /\ liveStream # c /\ ~Resumes(c)))

\* Deleting a collection publishes nothing.
DropCollection(c) ==
  /\ c \in Existing
  /\ Change(c, NoLive)
  /\ liveMissed' = (liveMissed \/ c \in OnScreen)
  /\ UNCHANGED <<liveEvent, liveReplay>>

LiveNext ==
  \/ \E c \in LiveCollections : ChooseCollection(c) \/ WriteDocuments(c) \/ DropCollection(c)
  \/ SubmitSearch \/ TurnPage \/ RefreshDocuments \/ OwnActionEnds
  \/ ReadDocuments \/ ArriveDocuments \/ ThrottledRefresh \/ TimerFires
  \/ OpenStream \/ LiveStreamIsRefused \/ LiveStreamBreaks
-----------------------------------------------------------------------------
\* The collections, the page and the stream.
LiveTypeOK ==
  LET collection == LiveCollections \cup {NoLive}
      writes == 0..MaxLiveWrites \cup {NoLive}
  IN  /\ liveCore \in [LiveCollections -> writes] /\ liveWrites \in 0..MaxLiveWrites
      /\ liveUrl \in LiveCollections /\ liveShown \in collection /\ liveStream \in collection
      /\ liveRows \in writes
      /\ liveLoad \in {NoLive} \cup [collection : collection, failed : BOOLEAN, rows : writes]
      /\ liveSource \in {"new", "known", "refused"}
      /\ {liveError, liveWanted, liveReplay, liveEvent, liveTimer, liveMissed} \subseteq BOOLEAN

\* Whether the rows differ from the documents of the collection on the screen.
DocumentsBehind ==
  /\ liveShown # NoLive /\ ~liveError /\ ~liveMissed
  /\ liveRows # liveCore[liveShown]
=============================================================================
