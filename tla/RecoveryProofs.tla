--------------------------- MODULE RecoveryProofs ---------------------------
(***************************************************************************)
(* Proofs about Recovery, for any number of windows, starts and captures.  *)
(***************************************************************************)
EXTENDS Recovery, TLAPS

\* A start that has opened a window and not returned yet.
Holds(t) == start[t].pc \in {"observe", "recheck", "save", "remove"}

\* A start that is about to open an isolated window.
Cleared(t) ==
    /\ start[t].isolated
    /\ \/ start[t].pc = "setup"
       \/ start[t].pc = "prune" /\ ~start[t].shared

\* Then no isolated recovery has a window open.
ClearedIsAlone ==
    \A t \in Starter : Cleared(t) =>
        \A w \in OpenIncognito : window[w].purpose # "incognito"

\* Whoever records a recovery as isolated, in storage or in a copy that may be
\* written back, speaks of a window that was opened for one.
RecordsAreTrue(records) ==
    \A w \in Window :
        records[w] = "incognito" => window[w].purpose = "incognito"

AllRecordsTrue ==
    /\ RecordsAreTrue(contexts)
    /\ \A t \in Starter : RecordsAreTrue(start[t].contexts)
    /\ \A c \in Capturer : RecordsAreTrue(capture[c].contexts)
    /\ \A w \in Window : RecordsAreTrue(removal[w].contexts)

\* Handlers that speak of a window have one.
Placed ==
    /\ \A t \in Starter : Holds(t) => start[t].window \in Window
    /\ \A c \in Capturer : capture[c].pc # "idle" => capture[c].window \in Window

Shapes == RecoveryTypeOK /\ Placed

\* The window of a running start is its own and not yet anybody's recovery.
HeldWindows ==
    /\ \A t \in Starter : Holds(t) =>
         /\ window[start[t].window].purpose = recoveryMode(start[t].isolated)
         /\ start[t].window \notin started
         /\ start[t].pc = "remove" => start[t].isolated
    /\ \A t, u \in Starter :
         Holds(t) /\ Holds(u) /\ start[t].window = start[u].window => t = u
    /\ \A w \in started : window[w].purpose # "none"

\* What a capture knows of its window at each of its steps.
CapturesKnow ==
    \A c \in Capturer :
        /\ capture[c].pc \in {"complete", "close"}
             => capture[c].window \in published
        /\ capture[c].pc = "close"
             => window[capture[c].window].purpose = "incognito"

\* Nobody but its start, or a capture that has published, closes a window
\* that is held.
HeldNotClosed ==
    \A t \in Starter :
        Holds(t) /\ window[start[t].window].state = "removed"
          => start[t].window \in published

Exclusion == Shapes /\ FlagHasOwner /\ ClearedIsAlone
               /\ OneIsolatedWindow

Ownership == Shapes /\ AllRecordsTrue /\ HeldWindows /\ CapturesKnow
               /\ HeldNotClosed /\ ClosesOnlyItsOwn

----------------------------------------------------------------------------

\* The values that the variables start from have their shapes.
LEMMA Rests ==
  /\ NoContexts \in Records
  /\ Unused \in WindowState
  /\ Waiting \in StartState
  /\ Listening \in CaptureState
  /\ Quiet \in RemovalState
  <1>1. NoContexts \in Records
    BY DEF NoContexts, Records
  <1> QED  BY <1>1 DEF Unused, WindowState, Waiting, StartState, Listening,
                       CaptureState, Quiet, RemovalState

\* The types hold at first.
LEMMA TypeInit == RecoveryInit => RecoveryTypeOK
  BY Rests DEF RecoveryInit, RecoveryTypeOK

\* A start that leaves keeps the types of what it changes;
LEMMA LeaveType ==
  ASSUME RecoveryTypeOK, NEW t \in Starter, Leave(t)
  PROVE  start' \in [Starter -> StartState] /\ isolatedStartInFlight' \in BOOLEAN
  BY Rests DEF RecoveryTypeOK, Leave

\* Chrome's windows and the events it sends keep their shapes.
LEMMA ShutType ==
  ASSUME RecoveryTypeOK, NEW w \in Window, NEW state \in {"closed", "removed"},
         Shut(w, state)
  PROVE  /\ window' \in [Window -> WindowState]
         /\ removal' \in [Window -> RemovalState]
  <1>1. CASE IsOpen(w)
    <2>1. window' \in [Window -> WindowState]
      BY <1>1 DEF RecoveryTypeOK, Shut, WindowState
    <2>2. removal' \in [Window -> RemovalState]
      BY <1>1 DEF RecoveryTypeOK, Shut, RemovalState
    <2> QED  BY <2>1, <2>2
  <1>2. CASE ~IsOpen(w)
    BY <1>2 DEF RecoveryTypeOK, Shut
  <1> QED  BY <1>1, <1>2

\* so does a window that opens.
LEMMA OpenType ==
  ASSUME RecoveryTypeOK, NEW w \in Window, NEW incognito \in BOOLEAN,
         NEW purpose \in Mode \cup {"user"}, Open(w, incognito, purpose)
  PROVE  window' \in [Window -> WindowState]
  BY DEF RecoveryTypeOK, Open, WindowState

\* Steps of starts keep the types,
LEMMA StartType ==
  ASSUME Shapes, NEW t \in Starter, StartStep(t)
  PROVE  RecoveryTypeOK'
  <1> USE DEF Shapes, RecoveryTypeOK, history
  <1>m. \A b \in BOOLEAN : recoveryMode(b) \in Mode
    BY DEF recoveryMode, Mode
  <1>1. ASSUME NEW isolated \in BOOLEAN, Begin(t, isolated)
        PROVE  RecoveryTypeOK'
    <2>1. isolatedStartInFlight' \in BOOLEAN
      BY <1>1 DEF Begin
    <2>2. start' = [start EXCEPT ![t].pc = "load", ![t].isolated = isolated]
      BY <1>1 DEF Begin
    <2>3. start' \in [Starter -> StartState]
      <3>1. start[t] \in StartState
        OBVIOUS
      <3>2. [start[t] EXCEPT !.pc = "load", !.isolated = isolated]
              \in StartState
        BY <3>1 DEF StartState
      <3>3. start' = [start EXCEPT ![t] =
                        [start[t] EXCEPT !.pc = "load", !.isolated = isolated]]
        BY <2>2
      <3> QED  BY <3>2, <3>3
    <2> QED  BY <1>1, <2>1, <2>3 DEF Begin
  <1>2. CASE loadContexts(t)
    BY <1>2 DEF loadContexts, StartState
  <1>3. CASE CheckWindows(t)
    <2>1. Pruned(start[t].contexts) \in Records
      BY DEF Pruned, Records, StartState
    <2>2. CASE Leave(t)
      BY <1>3, <2>2, LeaveType DEF CheckWindows
    <2>3. CASE ~Leave(t)
      BY <1>3, <2>1, <2>3 DEF CheckWindows, StartState
    <2> QED  BY <2>2, <2>3
  <1>4. CASE SavePruned(t)
    <2>1. start[t].contexts \in Records
      BY DEF StartState
    <2>2. CASE Leave(t)
      BY <1>4, <2>1, <2>2, LeaveType DEF SavePruned
    <2>3. CASE ~Leave(t)
      BY <1>4, <2>1, <2>3 DEF SavePruned, StartState
    <2> QED  BY <2>2, <2>3
  <1>5. CASE Setup(t)
    <2>1. start[t].isolated \in BOOLEAN
      BY DEF StartState
    <2>2. window' \in [Window -> WindowState]
      BY <1>5, <1>m, <2>1, OpenType DEF Setup
    <2>3. CASE Leave(t)
      BY <1>5, <2>2, <2>3, LeaveType DEF Setup
    <2>4. CASE ~Leave(t)
      BY <1>5, <2>2, <2>4 DEF Setup, StartState
    <2> QED  BY <2>3, <2>4
  <1>6. CASE observeRecoveryWindow(t)
    <2>1. CASE Leave(t)
      BY <1>6, <2>1, LeaveType DEF observeRecoveryWindow
    <2>2. CASE ~Leave(t)
      BY <1>6, <2>2 DEF observeRecoveryWindow, Failing, StartState
    <2> QED  BY <2>1, <2>2
  <1>7. CASE RecheckWindows(t)
    <2>1. CASE Leave(t)
      BY <1>7, <2>1, LeaveType DEF RecheckWindows
    <2>2. CASE ~Leave(t)
      BY <1>7, <2>2 DEF RecheckWindows, Failing, StartState
    <2> QED  BY <2>1, <2>2
  <1>8. CASE SaveContext(t)
    <2>1. [start[t].contexts EXCEPT ![start[t].window] =
              recoveryMode(start[t].isolated)] \in Records
      BY <1>m DEF StartState, Records
    <2>2. contexts' \in Records
      BY <1>8, <2>1 DEF SaveContext
    <2>3. start[t].window \in Window
      BY <1>8 DEF SaveContext, Placed, Holds
    <2>4. CASE Leave(t)
      BY <1>8, <2>2, <2>3, <2>4, LeaveType DEF SaveContext
    <2>5. CASE ~Leave(t)
      BY <1>8, <2>2, <2>3, <2>5 DEF SaveContext, Failing, StartState
    <2> QED  BY <2>4, <2>5
  <1>9. CASE RemoveWindow(t)
    <2>1. start[t].window \in Window
      BY <1>9 DEF RemoveWindow, Placed, Holds
    <2> QED  BY <1>9, <2>1, LeaveType, ShutType DEF RemoveWindow
  <1> QED  BY <1>1, <1>2, <1>3, <1>4, <1>5, <1>6, <1>7, <1>8, <1>9
           DEF StartStep

\* and so do steps of captures
LEMMA CaptureType ==
  ASSUME Shapes, NEW c \in Capturer, CaptureStep(c)
  PROVE  RecoveryTypeOK'
  <1> USE DEF Shapes, RecoveryTypeOK, history
  <1>1. ASSUME NEW w \in Window, Arrives(c, w)
        PROVE  RecoveryTypeOK'
    BY <1>1 DEF Arrives, CaptureState
  <1>2. CASE Resolve(c)
    BY <1>2, Rests DEF Resolve, CaptureState
  <1>3. CASE UploadEnds(c)
    <2>1. capture[c].window \in Window
      BY <1>3 DEF UploadEnds, Placed
    <2>2. capture' \in [Capturer -> CaptureState]
      BY <1>3, Rests DEF UploadEnds, CaptureState
    <2> QED  BY <1>3, <2>1, <2>2 DEF UploadEnds
  <1>4. CASE complete(c)
    <2>1. [capture[c].contexts EXCEPT ![capture[c].window] = "none"] \in Records
      BY DEF CaptureState, Records
    <2>2. capture' \in [Capturer -> CaptureState]
      BY <1>4, Rests DEF complete, CaptureState
    <2> QED  BY <1>4, <2>1, <2>2 DEF complete
  <1>5. CASE CloseWindow(c)
    <2>1. capture[c].window \in Window
      BY <1>5 DEF CloseWindow, Placed
    <2> QED  BY <1>5, <2>1, Rests, ShutType DEF CloseWindow
  <1> QED  BY <1>1, <1>2, <1>3, <1>4, <1>5 DEF CaptureStep

\* and of windows.
LEMMA WindowType ==
  ASSUME Shapes, NEW w \in Window, WindowStep(w)
  PROVE  RecoveryTypeOK'
  <1> USE DEF Shapes, RecoveryTypeOK, history
  <1>1. CASE LoadRemoved(w)
    BY <1>1, Rests DEF LoadRemoved, RemovalState
  <1>2. CASE SaveRemoved(w)
    <2>1. [removal[w].contexts EXCEPT ![w] = "none"] \in Records
      BY DEF RemovalState, Records
    <2> QED  BY <1>2, <2>1, Rests DEF SaveRemoved
  <1>3. CASE UserOpens(w)
    BY <1>3, OpenType DEF UserOpens
  <1>4. CASE UserCloses(w)
    BY <1>4, ShutType DEF UserCloses
  <1> QED  BY <1>1, <1>2, <1>3, <1>4 DEF WindowStep

\* Every step keeps the shapes.
LEMMA ShapesStep ==
  ASSUME Shapes, [RecoveryNext]_recoveryVars
  PROVE  Shapes'
  <1>1. RecoveryTypeOK'
    <2>1. CASE Stop
      BY <2>1, Rests DEF Shapes, RecoveryTypeOK, Stop, history
    <2>2. CASE UNCHANGED recoveryVars
      BY <2>2 DEF Shapes, RecoveryTypeOK, recoveryVars, history
    <2> QED  BY <2>1, <2>2, StartType, CaptureType, WindowType DEF RecoveryNext
  <1>2. Placed'
    <2> USE DEF Shapes, RecoveryTypeOK, Placed, Holds
    <2>1. ASSUME NEW t \in Starter, StartStep(t)
          PROVE  Placed'
      BY <2>1 DEF StartStep, Begin, loadContexts, CheckWindows, SavePruned,
           Setup, observeRecoveryWindow, RecheckWindows, SaveContext,
           RemoveWindow, Failing, Leave, Waiting, StartState
    <2>2. ASSUME NEW c \in Capturer, CaptureStep(c)
          PROVE  Placed'
      BY <2>2 DEF CaptureStep, Arrives, Resolve, UploadEnds, complete,
           CloseWindow, Listening, CaptureState
    <2>3. ASSUME NEW w \in Window, WindowStep(w)
          PROVE  Placed'
      BY <2>3 DEF WindowStep, LoadRemoved, SaveRemoved, UserOpens, UserCloses
    <2>4. CASE Stop
      BY <2>4 DEF Stop, Waiting, Listening
    <2>5. CASE UNCHANGED recoveryVars
      BY <2>5 DEF recoveryVars
    <2> QED  BY <2>1, <2>2, <2>3, <2>4, <2>5 DEF RecoveryNext
  <1> QED  BY <1>1, <1>2 DEF Shapes

\* Whatever handlers overlap, fail or are stopped, windows, records and the
\* state of the handlers keep their shapes.
THEOREM RecoveryTypeCorrect == RecoverySpec => []RecoveryTypeOK
  <1>1. RecoveryInit => Shapes
    BY TypeInit DEF RecoveryInit, Shapes, Placed, Holds, Waiting, Listening
  <1>2. Shapes /\ [RecoveryNext]_recoveryVars => Shapes'
    BY ShapesStep
  <1>3. Shapes => RecoveryTypeOK
    BY DEF Shapes
  <1> QED  BY <1>1, <1>2, <1>3, PTL DEF RecoverySpec

----------------------------------------------------------------------------
(* Exclusion of isolated recoveries.                                       *)

\* Every way out of start() gives the flag back.
LEMMA FlagStep ==
  ASSUME Shapes, FlagHasOwner, [RecoveryNext]_recoveryVars
  PROVE  FlagHasOwner'
  <1> USE DEF Shapes, RecoveryTypeOK, FlagHasOwner
  <1>l. ASSUME NEW t \in Starter, Leave(t)
        PROVE  FlagHasOwner'
    BY <1>l DEF Leave, Waiting, StartState
  <1>k. ASSUME NEW t \in Starter,
               \A u \in Starter : start'[u].isolated = start[u].isolated,
               UNCHANGED isolatedStartInFlight
        PROVE  FlagHasOwner'
    BY <1>k
  <1>1. ASSUME NEW t \in Starter, StartStep(t)
        PROVE  FlagHasOwner'
    <2>1. ASSUME NEW isolated \in BOOLEAN, Begin(t, isolated)
          PROVE  FlagHasOwner'
      BY <2>1 DEF Begin, Waiting, StartState
    <2>2. CASE Leave(t)
      BY <1>l, <2>2
    <2>3. CASE /\ ~Leave(t)
               /\ ~\E isolated \in BOOLEAN : Begin(t, isolated)
      <3>1. UNCHANGED isolatedStartInFlight
        BY <1>1, <2>3 DEF StartStep, loadContexts, CheckWindows, SavePruned,
             Setup, observeRecoveryWindow, RecheckWindows, SaveContext,
             RemoveWindow, Failing
      <3>2. \A u \in Starter : start'[u].isolated = start[u].isolated
        BY <1>1, <2>3 DEF StartStep, loadContexts, CheckWindows, SavePruned,
             Setup, observeRecoveryWindow, RecheckWindows, SaveContext,
             RemoveWindow, Failing, StartState
      <3> QED  BY <1>k, <3>1, <3>2
    <2> QED  BY <2>1, <2>2, <2>3
  <1>2. ASSUME NEW c \in Capturer, CaptureStep(c)
        PROVE  FlagHasOwner'
    BY <1>2 DEF CaptureStep, Arrives, Resolve, UploadEnds, complete,
         CloseWindow
  <1>3. ASSUME NEW w \in Window, WindowStep(w)
        PROVE  FlagHasOwner'
    <2>1. UNCHANGED <<start, isolatedStartInFlight>>
      BY <1>3 DEF WindowStep, LoadRemoved, SaveRemoved, UserOpens, UserCloses
    <2> QED  BY <2>1
  <1>4. CASE Stop
    BY <1>4 DEF Stop, Waiting
  <1>5. CASE UNCHANGED recoveryVars
    BY <1>5 DEF recoveryVars
  <1> QED  BY <1>1, <1>2, <1>3, <1>4, <1>5 DEF RecoveryNext

\* Chrome shutting a window, or leaving all as they are, opens none.
LEMMA NoneOpened ==
  ASSUME Shapes,
         \/ UNCHANGED window
         \/ \E w \in Window, state \in {"closed", "removed"} : Shut(w, state)
  PROVE  /\ OpenIncognito' \subseteq OpenIncognito
         /\ \A w \in Window : /\ window'[w].purpose = window[w].purpose
                              /\ window'[w].incognito = window[w].incognito
  <1>1. CASE UNCHANGED window
    BY <1>1 DEF OpenIncognito, IsOpen
  <1>2. ASSUME NEW w \in Window, NEW state \in {"closed", "removed"},
               Shut(w, state), ~UNCHANGED window
        PROVE  /\ window'[w].state # "open"
               /\ window'[w].purpose = window[w].purpose
               /\ window'[w].incognito = window[w].incognito
               /\ \A v \in Window \ {w} : window'[v] = window[v]
    BY <1>2 DEF Shapes, RecoveryTypeOK, Shut, WindowState
  <1> QED  BY <1>1, <1>2 DEF OpenIncognito, IsOpen

\* Isolated windows are opened one at a time: a start that found no incognito
\* window is still alone when it opens its own, for nobody else may open an
\* isolated one before the flag is given back.
LEMMA AloneStep ==
  ASSUME Exclusion, [RecoveryNext]_recoveryVars
  PROVE  ClearedIsAlone' /\ OneIsolatedWindow'
  <1> USE DEF Exclusion, Shapes, RecoveryTypeOK
  <1>k. ASSUME OpenIncognito' \subseteq OpenIncognito,
               \A w \in Window : window'[w].purpose = window[w].purpose,
               \A t \in Starter : Cleared(t)' => Cleared(t)
        PROVE  ClearedIsAlone' /\ OneIsolatedWindow'
    BY <1>k DEF ClearedIsAlone, OneIsolatedWindow, OpenIncognito
  <1>1. ASSUME NEW t \in Starter, StartStep(t)
        PROVE  ClearedIsAlone' /\ OneIsolatedWindow'
    <2>l. Leave(t) => \A u \in Starter : Cleared(u)' => Cleared(u)
      BY DEF Leave, Cleared, Waiting, StartState
    <2>1. ASSUME NEW isolated \in BOOLEAN, Begin(t, isolated)
          PROVE  ClearedIsAlone' /\ OneIsolatedWindow'
      <3>1. \A u \in Starter : Cleared(u)' => Cleared(u)
        BY <2>1 DEF Begin, Cleared, StartState
      <3> QED  BY <1>k, <2>1, <3>1, NoneOpened DEF Begin
    <2>2. CASE loadContexts(t)
      <3>1. \A u \in Starter : Cleared(u)' => Cleared(u)
        BY <2>2 DEF loadContexts, Cleared, StartState
      <3> QED  BY <1>k, <2>2, <3>1, NoneOpened DEF loadContexts
    <2>3. CASE CheckWindows(t)
      <3>1. CASE Leave(t)
        BY <1>k, <2>l, <2>3, <3>1, NoneOpened DEF CheckWindows
      <3>2. CASE ~Leave(t)
        <4>1. UNCHANGED window /\ OpenIncognito' = OpenIncognito
          BY <2>3 DEF CheckWindows, OpenIncognito, IsOpen
        <4>2. Cleared(t)' => OpenIncognito = {}
          BY <2>3, <3>2 DEF CheckWindows, Cleared, StartState
        <4>3. \A u \in Starter \ {t} : Cleared(u)' => Cleared(u)
          BY <2>3, <3>2 DEF CheckWindows, Cleared, StartState
        <4> QED  BY <4>1, <4>2, <4>3 DEF ClearedIsAlone, OneIsolatedWindow
      <3> QED  BY <3>1, <3>2
    <2>4. CASE SavePruned(t)
      <3>1. \A u \in Starter : Cleared(u)' => Cleared(u)
        BY <2>l, <2>4 DEF SavePruned, Cleared, StartState
      <3> QED  BY <1>k, <2>4, <3>1, NoneOpened DEF SavePruned
    <2>5. CASE Setup(t)
      <3>1. CASE UNCHANGED window
        <4>1. \A u \in Starter : Cleared(u)' => Cleared(u)
          BY <2>l, <2>5, <3>1 DEF Setup, Cleared, StartState
        <4> QED  BY <1>k, <3>1, <4>1, NoneOpened
      <3>2. ASSUME NEW w \in Window, NEW incognito \in BOOLEAN,
                   Open(w, incognito, recoveryMode(start[t].isolated))
            PROVE  ClearedIsAlone' /\ OneIsolatedWindow'
        <4>1. OpenIncognito' \subseteq OpenIncognito \cup {w}
          BY <3>2 DEF Open, OpenIncognito, IsOpen, WindowState
        <4>2. /\ \A v \in Window \ {w} : window'[v] = window[v]
              /\ window'[w].purpose = recoveryMode(start[t].isolated)
          BY <3>2 DEF Open
        <4>3. \A u \in Starter : Cleared(u)' => Cleared(u) /\ u # t
          <5>1. CASE Leave(t)
            BY <2>l, <5>1 DEF Leave, Cleared, Waiting
          <5>2. CASE ~Leave(t)
            <6>1. PICK v \in Window : start' =
                      [start EXCEPT ![t].pc = "observe", ![t].window = v]
              BY <2>5, <5>2 DEF Setup
            <6> QED  BY <6>1 DEF Cleared, StartState
          <5> QED  BY <5>1, <5>2
        <4>4. CASE start[t].isolated
          <5>1. Cleared(t)
            BY <2>5, <4>4 DEF Setup, Cleared
          <5>2. \A u \in Starter : ~Cleared(u)'
            BY <4>3, <4>4 DEF FlagHasOwner, Cleared
          <5> QED  BY <4>1, <4>2, <5>1, <5>2
                   DEF ClearedIsAlone, OneIsolatedWindow, OpenIncognito
        <4>5. CASE ~start[t].isolated
          <5>1. window'[w].purpose # "incognito"
            BY <4>2, <4>5 DEF recoveryMode
          <5> QED  BY <4>1, <4>2, <4>3, <5>1
                   DEF ClearedIsAlone, OneIsolatedWindow, OpenIncognito
        <4> QED  BY <4>4, <4>5
      <3> QED  BY <2>5, <3>1, <3>2 DEF Setup
    <2>6. CASE observeRecoveryWindow(t)
      <3>1. \A u \in Starter : Cleared(u)' => Cleared(u)
        BY <2>l, <2>6 DEF observeRecoveryWindow, Failing, Cleared, StartState
      <3> QED  BY <1>k, <2>6, <3>1, NoneOpened DEF observeRecoveryWindow
    <2>7. CASE RecheckWindows(t)
      <3>1. \A u \in Starter : Cleared(u)' => Cleared(u)
        BY <2>l, <2>7 DEF RecheckWindows, Failing, Cleared, StartState
      <3> QED  BY <1>k, <2>7, <3>1, NoneOpened DEF RecheckWindows
    <2>8. CASE SaveContext(t)
      <3>1. \A u \in Starter : Cleared(u)' => Cleared(u)
        BY <2>l, <2>8 DEF SaveContext, Failing, Cleared, StartState
      <3> QED  BY <1>k, <2>8, <3>1, NoneOpened DEF SaveContext
    <2>9. CASE RemoveWindow(t)
      <3>1. start[t].window \in Window
        BY <2>9 DEF RemoveWindow, Placed, Holds
      <3> QED  BY <1>k, <2>l, <2>9, <3>1, NoneOpened DEF RemoveWindow
    <2> QED  BY <1>1, <2>1, <2>2, <2>3, <2>4, <2>5, <2>6, <2>7, <2>8, <2>9
             DEF StartStep
  <1>2. ASSUME NEW c \in Capturer, CaptureStep(c)
        PROVE  ClearedIsAlone' /\ OneIsolatedWindow'
    <2>1. UNCHANGED start
      BY <1>2 DEF CaptureStep, Arrives, Resolve, UploadEnds, complete,
           CloseWindow
    <2>2. UNCHANGED window \/ CloseWindow(c)
      BY <1>2 DEF CaptureStep, Arrives, Resolve, UploadEnds, complete
    <2>3. CloseWindow(c) => \E w \in Window : Shut(w, "removed")
      BY DEF CloseWindow, Placed
    <2> QED  BY <1>k, <2>1, <2>2, <2>3, NoneOpened DEF Cleared
  <1>3. ASSUME NEW w \in Window, WindowStep(w)
        PROVE  ClearedIsAlone' /\ OneIsolatedWindow'
    <2>1. UNCHANGED start
      BY <1>3 DEF WindowStep, LoadRemoved, SaveRemoved, UserOpens, UserCloses
    <2>2. CASE UserOpens(w)
      <3>1. /\ OpenIncognito' \subseteq OpenIncognito \cup {w}
            /\ window'[w].purpose = "user"
            /\ \A v \in Window \ {w} : window'[v] = window[v]
        BY <2>2 DEF UserOpens, Open, OpenIncognito, IsOpen, WindowState
      <3> QED  BY <2>1, <3>1 DEF ClearedIsAlone, OneIsolatedWindow, Cleared,
                                 OpenIncognito
    <2>3. CASE ~UserOpens(w)
      <3>1. UNCHANGED window \/ Shut(w, "closed")
        BY <1>3, <2>3 DEF WindowStep, LoadRemoved, SaveRemoved, UserCloses
      <3> QED  BY <1>k, <2>1, <3>1, NoneOpened DEF Cleared
    <2> QED  BY <2>2, <2>3
  <1>4. CASE Stop
    <2>1. \A t \in Starter : ~Cleared(t)'
      BY <1>4 DEF Stop, Waiting, Cleared
    <2> QED  BY <1>k, <1>4, <2>1, NoneOpened DEF Stop
  <1>5. CASE UNCHANGED recoveryVars
    BY <1>k, <1>5, NoneOpened DEF recoveryVars, Cleared
  <1> QED  BY <1>1, <1>2, <1>3, <1>4, <1>5 DEF RecoveryNext

\* Exclusion always holds.
LEMMA ExclusionHolds == RecoverySpec => []Exclusion
  <1>1. RecoveryInit => Exclusion
    <2>1. RecoveryInit => Shapes
      BY TypeInit DEF RecoveryInit, Shapes, Placed, Holds, Waiting, Listening
    <2> QED  BY <2>1 DEF RecoveryInit, Exclusion, FlagHasOwner,
                ClearedIsAlone, Cleared, OneIsolatedWindow, OpenIncognito,
                IsOpen, Waiting, Unused
  <1>2. Exclusion /\ [RecoveryNext]_recoveryVars => Exclusion'
    BY ShapesStep, FlagStep, AloneStep DEF Exclusion
  <1> QED  BY <1>1, <1>2, PTL DEF RecoverySpec

\* Isolated recoveries exclude each other, for any number of starts, windows
\* of the user, lost records and stops of the worker.
THEOREM IsolationKept == RecoverySpec => []OneIsolatedWindow
  <1>1. Exclusion => OneIsolatedWindow
    BY DEF Exclusion
  <1> QED  BY <1>1, ExclusionHolds, PTL

\* No way out of start() leaves the flag set, and no two starts have it.
THEOREM FlagIsReleased == RecoverySpec => []FlagHasOwner
  <1>1. Exclusion => FlagHasOwner
    BY DEF Exclusion
  <1> QED  BY <1>1, ExclusionHolds, PTL

----------------------------------------------------------------------------
(* Which windows the extension closes.                                     *)

\* What a window was opened for never changes.
LEMMA PurposeKept ==
  ASSUME Shapes, [RecoveryNext]_recoveryVars, NEW w \in Window,
         window[w].purpose # "none"
  PROVE  window'[w].purpose = window[w].purpose
  <1> USE DEF Shapes, RecoveryTypeOK
  <1>1. ASSUME NEW v \in Window, NEW i \in BOOLEAN, NEW p, Open(v, i, p)
        PROVE  window'[w].purpose = window[w].purpose
    BY <1>1 DEF Open, Unused
  <1>2. ASSUME NEW t \in Starter, StartStep(t)
        PROVE  window'[w].purpose = window[w].purpose
    <2>1. CASE RemoveWindow(t)
      <3>1. start[t].window \in Window
        BY <2>1 DEF RemoveWindow, Placed, Holds
      <3> QED  BY <2>1, <3>1, NoneOpened DEF RemoveWindow
    <2>2. CASE Setup(t)
      BY <1>1, <2>2 DEF Setup
    <2>3. CASE ~RemoveWindow(t) /\ ~Setup(t)
      BY <1>2, <2>3 DEF StartStep, Begin, loadContexts, CheckWindows,
           SavePruned, observeRecoveryWindow, RecheckWindows, SaveContext
    <2> QED  BY <2>1, <2>2, <2>3
  <1>3. ASSUME NEW c \in Capturer, CaptureStep(c)
        PROVE  window'[w].purpose = window[w].purpose
    <2>1. UNCHANGED window \/ CloseWindow(c)
      BY <1>3 DEF CaptureStep, Arrives, Resolve, UploadEnds, complete
    <2>2. CloseWindow(c) => \E v \in Window : Shut(v, "removed")
      BY DEF CloseWindow, Placed
    <2> QED  BY <2>1, <2>2, NoneOpened
  <1>4. ASSUME NEW v \in Window, WindowStep(v)
        PROVE  window'[w].purpose = window[w].purpose
    <2>1. CASE UserOpens(v)
      BY <1>1, <2>1 DEF UserOpens
    <2>2. CASE ~UserOpens(v)
      <3>1. UNCHANGED window \/ Shut(v, "closed")
        BY <1>4, <2>2 DEF WindowStep, LoadRemoved, SaveRemoved, UserCloses
      <3> QED  BY <3>1, NoneOpened
    <2> QED  BY <2>1, <2>2
  <1>5. CASE Stop \/ UNCHANGED recoveryVars
    BY <1>5 DEF Stop, recoveryVars
  <1> QED  BY <1>2, <1>3, <1>4, <1>5 DEF RecoveryNext

\* Records are written back late but never made up.
LEMMA RecordsStep ==
  ASSUME Ownership, [RecoveryNext]_recoveryVars
  PROVE  AllRecordsTrue'
  <1> USE DEF Ownership, Shapes, RecoveryTypeOK
  <1> DEFINE Good(R) == \A w \in Window :
                R[w] = "incognito" => window'[w].purpose = "incognito"
  <1>g. /\ Good(contexts) /\ Good(NoContexts)
        /\ \A t \in Starter : Good(start[t].contexts)
        /\ \A c \in Capturer : Good(capture[c].contexts)
        /\ \A w \in Window : Good(removal[w].contexts)
    <2>1. ASSUME NEW R, RecordsAreTrue(R)
          PROVE  Good(R)
      BY <2>1, PurposeKept DEF RecordsAreTrue
    <2>2. Good(NoContexts)
      BY DEF NoContexts
    <2> HIDE DEF Good
    <2> QED  BY <2>1, <2>2 DEF AllRecordsTrue
  <1>s. SUFFICES /\ Good(contexts')
                 /\ \A t \in Starter : Good(start'[t].contexts)
                 /\ \A c \in Capturer : Good(capture'[c].contexts)
                 /\ \A w \in Window : Good(removal'[w].contexts)
    BY DEF AllRecordsTrue, RecordsAreTrue
  <1>e. ASSUME NEW R \in Records, NEW w \in Window, Good(R)
        PROVE  Good([R EXCEPT ![w] = "none"])
    BY <1>e DEF Records
  <1>h. ASSUME NEW w \in Window, NEW state, Shut(w, state)
        PROVE  \A v \in Window : removal'[v].contexts = removal[v].contexts
    BY <1>h DEF Shut, RemovalState
  <1>1. ASSUME NEW t \in Starter, StartStep(t)
        PROVE  /\ Good(contexts')
               /\ \A u \in Starter : Good(start'[u].contexts)
               /\ \A c \in Capturer : Good(capture'[c].contexts)
               /\ \A w \in Window : Good(removal'[w].contexts)
    <2>1. UNCHANGED capture /\ \A w \in Window : Good(removal'[w].contexts)
      <3>1. CASE RemoveWindow(t)
        <4>1. start[t].window \in Window
          BY <3>1 DEF RemoveWindow, Placed, Holds
        <4> HIDE DEF Good
        <4> QED  BY <1>g, <1>h, <3>1, <4>1 DEF RemoveWindow
      <3>2. CASE ~RemoveWindow(t)
        <4> HIDE DEF Good
        <4>1. UNCHANGED <<capture, removal>>
          BY <1>1, <3>2 DEF StartStep, Begin, loadContexts, CheckWindows,
               SavePruned, Setup, observeRecoveryWindow, RecheckWindows,
               SaveContext
        <4> QED  BY <1>g, <4>1
      <3> QED  BY <3>1, <3>2
    <2>2. Good(contexts')
      <3>1. CASE SaveContext(t)
        <4>1. window[start[t].window].purpose = recoveryMode(start[t].isolated)
          BY <3>1 DEF SaveContext, HeldWindows, Holds
        <4>2. start[t].window \in Window /\ start[t].contexts \in Records
          BY <3>1 DEF SaveContext, Placed, Holds, StartState
        <4>3. /\ recoveryMode(start[t].isolated) # "none"
              /\ UNCHANGED window
          BY <3>1 DEF SaveContext, recoveryMode
        <4>4. Good([start[t].contexts EXCEPT ![start[t].window] =
                      recoveryMode(start[t].isolated)])
          BY <1>g, <4>1, <4>2, <4>3 DEF Records
        <4> HIDE DEF Good
        <4> QED  BY <1>g, <3>1, <4>4 DEF SaveContext
      <3>2. CASE ~SaveContext(t)
        <4> HIDE DEF Good
        <4>1. UNCHANGED contexts \/ contexts' = start[t].contexts
          BY <1>1, <3>2 DEF StartStep, Begin, loadContexts, CheckWindows,
               SavePruned, Setup, observeRecoveryWindow, RecheckWindows,
               RemoveWindow
        <4> QED  BY <1>g, <4>1
      <3> QED  BY <3>1, <3>2
    <2>3. \A u \in Starter : Good(start'[u].contexts)
      <3>p. Good(Pruned(start[t].contexts))
        BY <1>g DEF Pruned
      <3> HIDE DEF Good
      <3>1. \A u \in Starter :
               start'[u].contexts \in {start[u].contexts, contexts, NoContexts,
                                       Pruned(start[t].contexts)}
        BY <1>1 DEF StartStep, Begin, loadContexts, CheckWindows, SavePruned,
             Setup, observeRecoveryWindow, RecheckWindows, SaveContext,
             RemoveWindow, Failing, Leave, Waiting, StartState
      <3> QED  BY <1>g, <3>p, <3>1
    <2> HIDE DEF Good
    <2> QED  BY <1>g, <2>1, <2>2, <2>3
  <1>2. ASSUME NEW c \in Capturer, CaptureStep(c)
        PROVE  /\ Good(contexts')
               /\ \A u \in Starter : Good(start'[u].contexts)
               /\ \A d \in Capturer : Good(capture'[d].contexts)
               /\ \A w \in Window : Good(removal'[w].contexts)
    <2> HIDE DEF Good
    <2>1. Good(contexts')
      <3>1. CASE complete(c)
        <4>1. capture[c].window \in Window /\ capture[c].contexts \in Records
          BY <3>1 DEF complete, Placed, CaptureState
        <4>2. Good([capture[c].contexts EXCEPT ![capture[c].window] = "none"])
          BY <1>e, <1>g, <4>1
        <4> QED  BY <1>g, <3>1, <4>2 DEF complete
      <3>2. CASE ~complete(c)
        BY <1>2, <1>g, <3>2 DEF CaptureStep, Arrives, Resolve, UploadEnds,
             CloseWindow
      <3> QED  BY <3>1, <3>2
    <2>2. UNCHANGED start
      BY <1>2 DEF CaptureStep, Arrives, Resolve, UploadEnds, complete,
           CloseWindow
    <2>3. \A d \in Capturer :
             capture'[d].contexts \in {capture[d].contexts, contexts, NoContexts}
      BY <1>2 DEF CaptureStep, Arrives, Resolve, UploadEnds, complete,
           CloseWindow, Listening, CaptureState
    <2>4. \A w \in Window : removal'[w].contexts = removal[w].contexts
      <3>1. CASE CloseWindow(c)
        <4>1. capture[c].window \in Window
          BY <3>1 DEF CloseWindow, Placed
        <4> QED  BY <1>h, <3>1, <4>1 DEF CloseWindow
      <3>2. CASE ~CloseWindow(c)
        BY <1>2, <3>2 DEF CaptureStep, Arrives, Resolve, UploadEnds, complete
      <3> QED  BY <3>1, <3>2
    <2> QED  BY <1>g, <2>1, <2>2, <2>3, <2>4
  <1>3. ASSUME NEW w \in Window, WindowStep(w)
        PROVE  /\ Good(contexts')
               /\ \A u \in Starter : Good(start'[u].contexts)
               /\ \A d \in Capturer : Good(capture'[d].contexts)
               /\ \A v \in Window : Good(removal'[v].contexts)
    <2> HIDE DEF Good
    <2>1. UNCHANGED <<start, capture>>
      BY <1>3 DEF WindowStep, LoadRemoved, SaveRemoved, UserOpens, UserCloses
    <2>2. CASE SaveRemoved(w)
      <3>1. removal[w].contexts \in Records
        BY DEF RemovalState
      <3>2. Good(contexts')
        BY <1>e, <1>g, <2>2, <3>1 DEF SaveRemoved
      <3>3. \A v \in Window :
               removal'[v].contexts \in {removal[v].contexts, NoContexts}
        BY <2>2 DEF SaveRemoved, Quiet
      <3> QED  BY <1>g, <2>1, <3>2, <3>3
    <2>3. CASE LoadRemoved(w)
      <3>1. \A v \in Window :
               removal'[v].contexts \in {removal[v].contexts, contexts, NoContexts}
        BY <2>3 DEF LoadRemoved, Quiet
      <3> QED  BY <1>g, <2>1, <2>3, <3>1 DEF LoadRemoved
    <2>4. CASE UserOpens(w) \/ UserCloses(w)
      BY <1>g, <1>h, <2>1, <2>4 DEF UserOpens, UserCloses
    <2> QED  BY <1>3, <2>2, <2>3, <2>4 DEF WindowStep
  <1>4. CASE Stop
    <2> HIDE DEF Good
    <2>1. \A w \in Window :
             removal'[w].contexts \in {removal[w].contexts, NoContexts}
      BY <1>4 DEF Stop, Quiet
    <2> QED  BY <1>g, <1>4, <2>1 DEF Stop, Waiting, Listening
  <1>5. CASE UNCHANGED recoveryVars
    <2> HIDE DEF Good
    <2> QED  BY <1>g, <1>5 DEF recoveryVars
  <1> HIDE DEF Good
  <1> QED  BY <1>1, <1>2, <1>3, <1>4, <1>5 DEF RecoveryNext

\* A window has one start, and no recovery before that start has succeeded.
LEMMA HeldStep ==
  ASSUME Ownership, [RecoveryNext]_recoveryVars
  PROVE  HeldWindows'
  <1> USE DEF Ownership, Shapes, RecoveryTypeOK
  <1>m. \A b \in BOOLEAN : recoveryMode(b) # "none"
    BY DEF recoveryMode
  <1>p. /\ \A t \in Starter : Holds(t) =>
             /\ window[start[t].window].purpose # "none"
             /\ window'[start[t].window].purpose
                   = window[start[t].window].purpose
        /\ \A w \in started : window'[w].purpose # "none"
    <2>1. \A t \in Starter : Holds(t) =>
             /\ start[t].window \in Window
             /\ window[start[t].window].purpose # "none"
      BY <1>m DEF HeldWindows, Placed, StartState
    <2> QED  BY <2>1, PurposeKept DEF HeldWindows
  <1>k. ASSUME UNCHANGED started,
               \A t \in Starter : Holds(t)' =>
                   /\ Holds(t)
                   /\ start'[t].window = start[t].window
                   /\ start'[t].isolated = start[t].isolated
                   /\ start'[t].pc = "remove" => start[t].isolated
        PROVE  HeldWindows'
    BY <1>k, <1>p DEF HeldWindows, recoveryMode
  <1>l. ASSUME NEW t \in Starter, Leave(t)
        PROVE  \A u \in Starter : Holds(u)' =>
                   Holds(u) /\ u # t /\ start'[u] = start[u]
    BY <1>l DEF Leave, Holds, Waiting
  <1>n. ASSUME NEW t \in Starter, Leave(t), UNCHANGED started
        PROVE  HeldWindows'
    <2>1. \A u \in Starter : Holds(u)' =>
             /\ Holds(u)
             /\ start'[u].window = start[u].window
             /\ start'[u].isolated = start[u].isolated
             /\ start'[u].pc = "remove" => start[u].isolated
      BY <1>l, <1>n DEF HeldWindows
    <2> QED  BY <1>k, <1>n, <2>1
  <1>1. ASSUME NEW t \in Starter, StartStep(t)
        PROVE  HeldWindows'
    <2>1. CASE Setup(t) /\ ~Leave(t)
      <3>1. PICK w \in Window, incognito \in BOOLEAN :
               /\ Open(w, incognito, recoveryMode(start[t].isolated))
               /\ start' = [start EXCEPT ![t].pc = "observe", ![t].window = w]
        BY <2>1 DEF Setup
      <3>2. /\ window[w].purpose = "none"
            /\ window'[w].purpose = recoveryMode(start[t].isolated)
        BY <3>1 DEF Open, Unused
      <3>3. w \notin started /\ UNCHANGED started
        BY <2>1, <3>2 DEF HeldWindows, Setup, history
      <3>4. /\ start'[t].window = w /\ start'[t].pc = "observe"
            /\ start'[t].isolated = start[t].isolated
            /\ \A u \in Starter \ {t} : start'[u] = start[u]
        BY <3>1 DEF StartState
      <3>5. \A u \in Starter \ {t} : Holds(u)' =>
               Holds(u) /\ start'[u].window # w
        BY <1>p, <3>2, <3>4 DEF Holds
      <3> QED  BY <1>p, <3>2, <3>3, <3>4, <3>5 DEF HeldWindows, recoveryMode
    <2>2. CASE SaveContext(t) /\ started' # started
      <3>1. Leave(t) /\ started' = started \cup {start[t].window}
        BY <2>2 DEF SaveContext
      <3>2. Holds(t)
        BY <2>2 DEF SaveContext, Holds
      <3>3. \A u \in Starter : Holds(u)' =>
               /\ Holds(u) /\ start'[u] = start[u]
               /\ start[u].window # start[t].window
        BY <1>l, <3>1, <3>2 DEF HeldWindows
      <3> QED  BY <1>p, <3>1, <3>2, <3>3 DEF HeldWindows, recoveryMode
    <2>3. CASE ~(Setup(t) /\ ~Leave(t)) /\ started' = started
      <3>1. CASE Leave(t)
        BY <1>n, <2>3, <3>1
      <3>2. CASE ~Leave(t)
        <4>1. \A u \in Starter : Holds(u)' =>
                 /\ Holds(u)
                 /\ start'[u].window = start[u].window
                 /\ start'[u].isolated = start[u].isolated
                 /\ start'[u].pc = "remove" => start[u].isolated
          BY <1>1, <2>3, <3>2 DEF StartStep, Begin, loadContexts,
               CheckWindows, SavePruned, observeRecoveryWindow,
               RecheckWindows, SaveContext, RemoveWindow, Failing, Holds,
               StartState, HeldWindows
        <4> QED  BY <1>k, <2>3, <4>1
      <3> QED  BY <3>1, <3>2
    <2>4. started' = started \/ SaveContext(t)
      BY <1>1 DEF StartStep, Begin, loadContexts, CheckWindows, SavePruned,
           Setup, observeRecoveryWindow, RecheckWindows, RemoveWindow, history
    <2> QED  BY <2>1, <2>2, <2>3, <2>4
  <1>2. ASSUME NEW c \in Capturer, CaptureStep(c)
        PROVE  HeldWindows'
    <2>1. UNCHANGED <<start, started>>
      BY <1>2 DEF CaptureStep, Arrives, Resolve, UploadEnds, complete,
           CloseWindow, history
    <2> QED  BY <1>k, <2>1 DEF Holds, HeldWindows
  <1>3. ASSUME NEW w \in Window, WindowStep(w)
        PROVE  HeldWindows'
    <2>1. UNCHANGED <<start, started>>
      BY <1>3 DEF WindowStep, LoadRemoved, SaveRemoved, UserOpens, UserCloses,
           history
    <2> QED  BY <1>k, <2>1 DEF Holds, HeldWindows
  <1>4. CASE Stop
    BY <1>k, <1>4 DEF Stop, Waiting, Holds, history
  <1>5. CASE UNCHANGED recoveryVars
    BY <1>k, <1>5 DEF recoveryVars, Holds, history, HeldWindows
  <1> QED  BY <1>1, <1>2, <1>3, <1>4, <1>5 DEF RecoveryNext

\* A capture goes on to close a window only when it has published, and has
\* found it recorded as isolated.
LEMMA CapturesStep ==
  ASSUME Ownership, [RecoveryNext]_recoveryVars
  PROVE  CapturesKnow'
  <1> USE DEF Ownership, Shapes, RecoveryTypeOK
  <1>p. \A c \in Capturer : capture[c].pc = "close" =>
           window'[capture[c].window].purpose = "incognito"
    <2>1. \A c \in Capturer : capture[c].pc = "close" =>
             capture[c].window \in Window
      BY DEF Placed
    <2> QED  BY <2>1, PurposeKept DEF CapturesKnow
  <1>k. ASSUME UNCHANGED capture, published \subseteq published'
        PROVE  CapturesKnow'
    BY <1>k, <1>p DEF CapturesKnow
  <1>1. ASSUME NEW t \in Starter, StartStep(t)
        PROVE  CapturesKnow'
    BY <1>k, <1>1 DEF StartStep, Begin, loadContexts, CheckWindows,
         SavePruned, Setup, observeRecoveryWindow, RecheckWindows,
         SaveContext, RemoveWindow, history
  <1>2. ASSUME NEW c \in Capturer, CaptureStep(c)
        PROVE  CapturesKnow'
    <2>1. /\ published \subseteq published'
          /\ \A d \in Capturer \ {c} : capture'[d] = capture[d]
      BY <1>2 DEF CaptureStep, Arrives, Resolve, UploadEnds, complete,
           CloseWindow, history
    <2>2. /\ capture'[c].pc \in {"complete", "close"}
                => capture'[c].window \in published'
          /\ capture'[c].pc = "close"
                => window'[capture'[c].window].purpose = "incognito"
      <3>1. CASE complete(c)
        <4>1. /\ capture[c].window \in Window /\ UNCHANGED window
              /\ capture[c].window \in published /\ UNCHANGED published
          BY <3>1 DEF complete, Placed, CapturesKnow, history
        <4>2. capture[c].contexts[capture[c].window] = "incognito"
                => window[capture[c].window].purpose = "incognito"
          BY <4>1 DEF AllRecordsTrue, RecordsAreTrue
        <4> QED  BY <3>1, <4>1, <4>2 DEF complete, Listening, CaptureState
      <3>2. CASE ~complete(c)
        BY <1>2, <3>2 DEF CaptureStep, Arrives, Resolve, UploadEnds,
             CloseWindow, Listening, CaptureState
      <3> QED  BY <3>1, <3>2
    <2> QED  BY <1>p, <2>1, <2>2 DEF CapturesKnow
  <1>3. ASSUME NEW w \in Window, WindowStep(w)
        PROVE  CapturesKnow'
    BY <1>k, <1>3 DEF WindowStep, LoadRemoved, SaveRemoved, UserOpens,
         UserCloses, history
  <1>4. CASE Stop
    BY <1>4 DEF Stop, Listening, CapturesKnow
  <1>5. CASE UNCHANGED recoveryVars
    BY <1>k, <1>5 DEF recoveryVars, history
  <1> QED  BY <1>1, <1>2, <1>3, <1>4, <1>5 DEF RecoveryNext

\* Windows are removed in two places only.
LEMMA RemovedStep ==
  ASSUME Ownership, [RecoveryNext]_recoveryVars, NEW w \in Window,
         window'[w].state = "removed", window[w].state # "removed"
  PROVE  \/ \E t \in Starter : RemoveWindow(t) /\ start[t].window = w
         \/ \E c \in Capturer : CloseWindow(c) /\ capture[c].window = w
  <1> USE DEF Ownership, Shapes, RecoveryTypeOK
  <1>h. ASSUME NEW v \in Window, NEW state, Shut(v, state)
        PROVE  v = w /\ state = "removed"
    BY <1>h DEF Shut, WindowState
  <1>1. ASSUME NEW t \in Starter, StartStep(t)
        PROVE  RemoveWindow(t) /\ start[t].window = w
    <2>1. CASE RemoveWindow(t)
      <3>1. start[t].window \in Window
        BY <2>1 DEF RemoveWindow, Placed, Holds
      <3> QED  BY <1>h, <2>1, <3>1 DEF RemoveWindow
    <2>2. CASE ~RemoveWindow(t)
      BY <1>1, <2>2 DEF StartStep, Begin, loadContexts, CheckWindows,
           SavePruned, Setup, Open, observeRecoveryWindow, RecheckWindows,
           SaveContext
    <2> QED  BY <2>1, <2>2
  <1>2. ASSUME NEW c \in Capturer, CaptureStep(c)
        PROVE  CloseWindow(c) /\ capture[c].window = w
    <2>1. CASE CloseWindow(c)
      <3>1. capture[c].window \in Window
        BY <2>1 DEF CloseWindow, Placed
      <3> QED  BY <1>h, <2>1, <3>1 DEF CloseWindow
    <2>2. CASE ~CloseWindow(c)
      BY <1>2, <2>2 DEF CaptureStep, Arrives, Resolve, UploadEnds, complete
    <2> QED  BY <2>1, <2>2
  <1>3. ASSUME NEW v \in Window, WindowStep(v)
        PROVE  FALSE
    BY <1>h, <1>3 DEF WindowStep, LoadRemoved, SaveRemoved, UserOpens, Open,
         UserCloses
  <1>4. CASE Stop \/ UNCHANGED recoveryVars
    BY <1>4 DEF Stop, recoveryVars
  <1> QED  BY <1>1, <1>2, <1>3, <1>4 DEF RecoveryNext

\* The histories only grow, and a window enters one at the end of its start.
LEMMA HistoryStep ==
  ASSUME Ownership, [RecoveryNext]_recoveryVars
  PROVE  /\ published \subseteq published'
         /\ \A w \in started' \ started : \E t \in Starter :
               SaveContext(t) /\ start[t].window = w
  <1>1. ASSUME NEW t \in Starter, StartStep(t)
        PROVE  /\ published = published'
               /\ started' # started => SaveContext(t)
               /\ SaveContext(t) => started' \subseteq started \cup {start[t].window}
    BY <1>1 DEF StartStep, Begin, loadContexts, CheckWindows, SavePruned,
         Setup, observeRecoveryWindow, RecheckWindows, SaveContext,
         RemoveWindow, history
  <1>2. ASSUME NEW c \in Capturer, CaptureStep(c)
        PROVE  published \subseteq published' /\ UNCHANGED started
    BY <1>2 DEF CaptureStep, Arrives, Resolve, UploadEnds, complete,
         CloseWindow, history
  <1>3. ASSUME NEW w \in Window, WindowStep(w)
        PROVE  UNCHANGED history
    BY <1>3 DEF WindowStep, LoadRemoved, SaveRemoved, UserOpens, UserCloses
  <1>4. CASE Stop \/ UNCHANGED recoveryVars
    BY <1>4 DEF Stop, recoveryVars, history
  <1> QED  BY <1>1, <1>2, <1>3, <1>4 DEF RecoveryNext, history

\* What a start holds after a step it held before, or has just opened.
LEMMA HeldBefore ==
  ASSUME Ownership, [RecoveryNext]_recoveryVars, NEW t \in Starter, Holds(t)'
  PROVE  \/ Holds(t) /\ start'[t].window = start[t].window
         \/ window'[start'[t].window].state = "open"
  <1> USE DEF Ownership, Shapes, RecoveryTypeOK
  <1>1. ASSUME NEW u \in Starter, StartStep(u)
        PROVE  \/ Holds(t) /\ start'[t].window = start[t].window
               \/ window'[start'[t].window].state = "open"
    <2>1. CASE Setup(u)
      <3>1. CASE Leave(u)
        BY <3>1 DEF Leave, Holds, Waiting
      <3>2. CASE ~Leave(u)
        <4>1. PICK w \in Window, incognito \in BOOLEAN :
                 /\ Open(w, incognito, recoveryMode(start[u].isolated))
                 /\ start' = [start EXCEPT ![u].pc = "observe", ![u].window = w]
          BY <2>1, <3>2 DEF Setup
        <4> QED  BY <4>1 DEF Open, Holds, StartState
      <3> QED  BY <3>1, <3>2
    <2>2. CASE ~Setup(u)
      BY <1>1, <2>2 DEF StartStep, Begin, loadContexts, CheckWindows,
           SavePruned, observeRecoveryWindow, RecheckWindows, SaveContext,
           RemoveWindow, Failing, Leave, Waiting, Holds, StartState
    <2> QED  BY <2>1, <2>2
  <1>2. ASSUME NEW c \in Capturer, CaptureStep(c)
        PROVE  Holds(t) /\ start'[t].window = start[t].window
    BY <1>2 DEF CaptureStep, Arrives, Resolve, UploadEnds, complete,
         CloseWindow, Holds
  <1>3. ASSUME NEW w \in Window, WindowStep(w)
        PROVE  Holds(t) /\ start'[t].window = start[t].window
    BY <1>3 DEF WindowStep, LoadRemoved, SaveRemoved, UserOpens, UserCloses,
         Holds
  <1>4. CASE Stop
    BY <1>4 DEF Stop, Waiting, Holds
  <1>5. CASE UNCHANGED recoveryVars
    BY <1>5 DEF recoveryVars, Holds
  <1> QED  BY <1>1, <1>2, <1>3, <1>4, <1>5 DEF RecoveryNext

\* A step closes no window that a run holds, and only its own.
LEMMA ClosedStep ==
  ASSUME Ownership, [RecoveryNext]_recoveryVars
  PROVE  HeldNotClosed' /\ ClosesOnlyItsOwn'
  <1> USE DEF Ownership, Shapes, RecoveryTypeOK
  <1>1. HeldNotClosed'
    <2> SUFFICES ASSUME NEW t \in Starter, Holds(t)',
                        window'[start'[t].window].state = "removed"
                 PROVE  start'[t].window \in published'
      BY DEF HeldNotClosed
    <2>1. Holds(t) /\ start'[t].window = start[t].window
      BY HeldBefore
    <2>2. start[t].window \in Window
      BY <2>1 DEF Placed
    <2>3. CASE window[start[t].window].state = "removed"
      BY <2>1, <2>3, HistoryStep DEF HeldNotClosed
    <2>4. ASSUME NEW u \in Starter, RemoveWindow(u),
                 start[u].window = start[t].window
          PROVE  FALSE
      <3>1. u = t
        BY <2>1, <2>4 DEF HeldWindows, RemoveWindow, Holds
      <3> QED  BY <2>4, <3>1 DEF RemoveWindow, Leave, Holds, Waiting
    <2>5. ASSUME NEW c \in Capturer, CloseWindow(c),
                 capture[c].window = start[t].window
          PROVE  start'[t].window \in published'
      BY <2>1, <2>5, HistoryStep DEF CloseWindow, CapturesKnow
    <2> QED  BY <2>1, <2>2, <2>3, <2>4, <2>5, RemovedStep
  <1>2. ClosesOnlyItsOwn'
    <2> SUFFICES ASSUME NEW w \in Window, window'[w].state = "removed"
                 PROVE  /\ window'[w].purpose = "incognito"
                        /\ w \in started' => w \in published'
      BY DEF ClosesOnlyItsOwn
    <2>1. CASE window[w].state = "removed"
      <3>1. window'[w].purpose = "incognito"
        BY <2>1, PurposeKept DEF ClosesOnlyItsOwn
      <3>2. ASSUME NEW t \in Starter, SaveContext(t), start[t].window = w
            PROVE  w \in published'
        BY <2>1, <3>2, HistoryStep DEF HeldNotClosed, SaveContext, Holds
      <3> QED  BY <2>1, <3>1, <3>2, HistoryStep DEF ClosesOnlyItsOwn
    <2>2. ASSUME NEW t \in Starter, RemoveWindow(t), start[t].window = w
          PROVE  window'[w].purpose = "incognito" /\ w \notin started'
      <3>1. /\ window[w].purpose = "incognito" /\ w \notin started
        BY <2>2 DEF RemoveWindow, HeldWindows, Holds, recoveryMode
      <3> QED  BY <2>2, <3>1, PurposeKept DEF RemoveWindow, history
    <2>3. ASSUME NEW c \in Capturer, CloseWindow(c), capture[c].window = w
          PROVE  window'[w].purpose = "incognito" /\ w \in published'
      <3>1. window[w].purpose = "incognito" /\ w \in published
        BY <2>3 DEF CloseWindow, CapturesKnow
      <3> QED  BY <3>1, PurposeKept, HistoryStep
    <2> QED  BY <2>1, <2>2, <2>3, RemovedStep
  <1> QED  BY <1>1, <1>2

\* The extension closes only windows that it opened for isolated recovery,
\* and one whose recovery has started only after publication, for any number
\* of overlapping starts, captures and closings and in spite of records that
\* are written back late.
THEOREM OthersLeftOpen == RecoverySpec => []ClosesOnlyItsOwn
  <1>1. RecoveryInit => Ownership
    <2>1. RecoveryInit => Shapes
      BY TypeInit DEF RecoveryInit, Shapes, Placed, Holds, Waiting, Listening
    <2>2. RecoveryInit => AllRecordsTrue
      BY DEF RecoveryInit, AllRecordsTrue, RecordsAreTrue, NoContexts,
             Waiting, Listening, Quiet
    <2>3. RecoveryInit => /\ HeldWindows /\ CapturesKnow
                          /\ HeldNotClosed /\ ClosesOnlyItsOwn
      BY DEF RecoveryInit, HeldWindows, CapturesKnow, HeldNotClosed,
             ClosesOnlyItsOwn, Holds, Waiting, Listening, Unused
    <2> QED  BY <2>1, <2>2, <2>3 DEF Ownership
  <1>2. Ownership /\ [RecoveryNext]_recoveryVars => Ownership'
    BY ShapesStep, RecordsStep, HeldStep, CapturesStep, ClosedStep
       DEF Ownership
  <1>3. Ownership => ClosesOnlyItsOwn
    BY DEF Ownership
  <1> QED  BY <1>1, <1>2, <1>3, PTL DEF RecoverySpec
============================================================================
