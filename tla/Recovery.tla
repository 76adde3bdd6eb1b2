------------------------------ MODULE Recovery ------------------------------
(***************************************************************************)
(* The extension's recovery workflow (extension/recovery.js and the        *)
(* listeners of service-worker.js): a window is opened for the user to     *)
(* sign in, recorded in chrome.storage.local, and when its tab arrives at  *)
(* the hand-off page its cookies are published; an isolated (incognito)    *)
(* window is closed afterwards.  start(), tabs.onUpdated and               *)
(* windows.onRemoved run concurrently and each reads the whole map of      *)
(* records, waits, and writes the whole map back, unless the write fails.  *)
(*                                                                         *)
(* Left out: the provider and profile of a record, which no step compares  *)
(* with anything else, and the tab, which stands and falls with its        *)
(* window.                                                                 *)
(***************************************************************************)
EXTENDS FiniteSets

CONSTANTS
    Window,   \* ids that Chrome gives to windows, each of them once
    Starter,  \* slots for calls of start()
    Capturer, \* slots for tabs.onUpdated
    NoWindow  \* no window yet

ASSUME WindowAssumption == NoWindow \notin Window

VARIABLES
    window,          \* Chrome's windows: state, incognito, opened for what
    contexts,        \* storage: the mode of a recorded recovery, or "none"
    isolatedStartInFlight,
    start,           \* calls of start()
    capture,         \* runs of tabs.onUpdated
    removal,         \* runs of windows.onRemoved, by their window
    started,         \* history: windows whose start() has succeeded
    published        \* history: windows whose cookies were published

history == <<started, published>>
recoveryVars == <<window, contexts, isolatedStartInFlight, start, capture,
                  removal, history>>

Mode == {"normal", "incognito"}
NoContexts == [w \in Window |-> "none"]

Unused == [state |-> "unused", incognito |-> FALSE, purpose |-> "none"]
Waiting == [pc |-> "idle", isolated |-> FALSE, contexts |-> NoContexts,
            shared |-> FALSE, window |-> NoWindow]
Listening == [pc |-> "idle", window |-> NoWindow, contexts |-> NoContexts]
Quiet == [pc |-> "idle", contexts |-> NoContexts]

RecoveryInit ==
    /\ window = [w \in Window |-> Unused]
    /\ contexts = NoContexts
    /\ isolatedStartInFlight = FALSE
    /\ start = [t \in Starter |-> Waiting]
    /\ capture = [c \in Capturer |-> Listening]
    /\ removal = [w \in Window |-> Quiet]
    /\ started = {}
    /\ published = {}

\* Mutant: another word for the same mode.
recoveryModeRenamed(isolated) == IF isolated THEN "isolated" ELSE "normal"

recoveryMode(isolated) == IF isolated THEN "incognito" ELSE "normal"

IsOpen(w) == window[w].state = "open"

OpenIncognito == {w \in Window : IsOpen(w) /\ window[w].incognito}

\* Chrome opens a window.
Open(w, incognito, purpose) ==
    /\ window[w] = Unused
    /\ window' = [window EXCEPT ![w] = [state |-> "open",
                                         incognito |-> incognito,
                                         purpose |-> purpose]]

\* windows.remove, or the user's click: Chrome tells the listeners.
Shut(w, state) ==
    IF IsOpen(w)
    THEN /\ window' = [window EXCEPT ![w].state = state]
         /\ removal' = [removal EXCEPT ![w].pc = "event"]
    ELSE UNCHANGED <<window, removal>>

----------------------------------------------------------------------------
(* start().                                                                *)

\* Only isolated starts exclude each other.
Begin(t, isolated) ==
    /\ start[t] = Waiting
    /\ ~(isolated /\ isolatedStartInFlight)
    /\ start' = [start EXCEPT ![t].pc = "load", ![t].isolated = isolated]
    /\ isolatedStartInFlight' = (isolatedStartInFlight \/ isolated)
    /\ UNCHANGED <<window, contexts, capture, removal, history>>

\* Mutant: only a start that has opened a window clears the flag.
LeaveOpened(t) ==
    /\ start' = [start EXCEPT ![t] = Waiting]
    /\ isolatedStartInFlight' =
          (isolatedStartInFlight
             /\ ~(start[t].isolated /\ start[t].window # NoWindow))

\* start() returns, and its finally clears the flag.
Leave(t) ==
    /\ start' = [start EXCEPT ![t] = Waiting]
    /\ isolatedStartInFlight' = (isolatedStartInFlight /\ ~start[t].isolated)

loadContexts(t) ==
    /\ start[t].pc = "load"
    /\ start' = [start EXCEPT ![t].contexts = contexts,
          ![t].pc = IF start[t].isolated THEN "windows" ELSE "setup"]
    /\ UNCHANGED <<window, contexts, isolatedStartInFlight, capture, removal,
                   history>>

\* What is left of the records when those of closed windows are pruned.
Pruned(records) ==
    [w \in Window |-> IF records[w] = "incognito" /\ w \notin OpenIncognito
                      THEN "none" ELSE records[w]]

\* Mutant: only incognito windows that are on record count.
CheckRecorded(t) ==
    /\ start[t].pc = "windows"
    /\ LET kept == Pruned(start[t].contexts) IN
       \/ Leave(t)
       \/ /\ \A w \in OpenIncognito : start[t].contexts[w] # "incognito"
          /\ start' = [start EXCEPT
                ![t].pc = IF kept # start[t].contexts THEN "prune"
                                                      ELSE "setup",
                ![t].contexts = kept]
          /\ UNCHANGED isolatedStartInFlight
    /\ UNCHANGED <<window, contexts, capture, removal, history>>

\* isAllowedIncognitoAccess may forbid it; otherwise the open windows decide.
CheckWindows(t) ==
    /\ start[t].pc = "windows"
    /\ LET kept == Pruned(start[t].contexts) IN
       \/ Leave(t)
       \/ /\ \A w \in OpenIncognito : start[t].contexts[w] # "incognito"
          /\ kept # start[t].contexts \/ OpenIncognito = {}
          /\ start' = [start EXCEPT
                ![t].pc = IF kept # start[t].contexts THEN "prune"
                                                      ELSE "setup",
                ![t].contexts = kept,
                ![t].shared = OpenIncognito # {}]
          /\ UNCHANGED isolatedStartInFlight
    /\ UNCHANGED <<window, contexts, capture, removal, history>>

\* The pruned records are saved; other incognito windows are refused only now.
SavePruned(t) ==
    /\ start[t].pc = "prune"
    /\ \/ /\ contexts' = start[t].contexts
          /\ IF start[t].shared THEN Leave(t)
             ELSE /\ start' = [start EXCEPT ![t].pc = "setup"]
                  /\ UNCHANGED isolatedStartInFlight
       \/ Leave(t) /\ UNCHANGED contexts
    /\ UNCHANGED <<window, capture, removal, history>>

\* provider.setup: Chrome opens a window, not always of the kind asked for, or
\* refuses; an error after that leaves the window to itself.
Setup(t) ==
    /\ start[t].pc = "setup"
    /\ \/ Leave(t) /\ UNCHANGED window
       \/ \E w \in Window, incognito \in BOOLEAN :
            /\ Open(w, incognito, recoveryMode(start[t].isolated))
            /\ Leave(t)
       \/ \E w \in Window, incognito \in BOOLEAN :
            /\ Open(w, incognito, recoveryMode(start[t].isolated))
            /\ start' = [start EXCEPT ![t].pc = "observe", ![t].window = w]
            /\ UNCHANGED isolatedStartInFlight
    /\ UNCHANGED <<contexts, capture, removal, history>>

\* An error: an isolated start still has to remove its window.
Failing(t) ==
    IF start[t].isolated
    THEN /\ start' = [start EXCEPT ![t].pc = "remove"]
         /\ UNCHANGED isolatedStartInFlight
    ELSE Leave(t)

observeRecoveryWindow(t) ==
    LET w == start[t].window IN
    /\ start[t].pc = "observe"
    /\ IF IsOpen(w) /\ window[w].incognito = start[t].isolated
       THEN /\ start' = [start EXCEPT
                  ![t].pc = IF start[t].isolated THEN "recheck" ELSE "save"]
            /\ UNCHANGED isolatedStartInFlight
       ELSE Failing(t)
    /\ UNCHANGED <<window, contexts, capture, removal, history>>

\* No other incognito window may have been opened meanwhile.
RecheckWindows(t) ==
    /\ start[t].pc = "recheck"
    /\ IF OpenIncognito \subseteq {start[t].window}
       THEN /\ start' = [start EXCEPT ![t].pc = "save"]
            /\ UNCHANGED isolatedStartInFlight
       ELSE Failing(t)
    /\ UNCHANGED <<window, contexts, capture, removal, history>>

\* The new record joins the records that were loaded at the beginning.
SaveContext(t) ==
    /\ start[t].pc = "save"
    /\ \/ /\ contexts' = [start[t].contexts EXCEPT ![start[t].window] =
                            recoveryMode(start[t].isolated)]
          /\ started' = started \cup {start[t].window}
          /\ Leave(t)
       \/ Failing(t) /\ UNCHANGED <<contexts, started>>
    /\ UNCHANGED <<window, capture, removal, published>>

RemoveWindow(t) ==
    /\ start[t].pc = "remove"
    /\ Shut(start[t].window, "removed")
    /\ Leave(t)
    /\ UNCHANGED <<contexts, capture, history>>

----------------------------------------------------------------------------
(* tabs.onUpdated: capture, upload and complete().                         *)

\* The tab of a recorded recovery has arrived at the hand-off page.
Arrives(c, w) ==
    /\ capture[c] = Listening
    /\ IsOpen(w)
    /\ contexts[w] = recoveryMode(window[w].incognito)
    /\ capture' = [capture EXCEPT ![c] = [pc |-> "resolve", window |-> w,
                                           contexts |-> contexts]]
    /\ UNCHANGED <<window, contexts, isolatedStartInFlight, start, removal,
                   history>>

\* resolveRecoveryCaptureContext refuses a window that is gone.
Resolve(c) ==
    LET w == capture[c].window IN
    /\ capture[c].pc = "resolve"
    /\ capture' = [capture EXCEPT ![c] =
          IF IsOpen(w) /\ capture[c].contexts[w]
                            = recoveryMode(window[w].incognito)
          THEN [@ EXCEPT !.pc = "upload"] ELSE Listening]
    /\ UNCHANGED <<window, contexts, isolatedStartInFlight, start, removal,
                   history>>

\* Mutant: the result of upload() is not looked at.
UploadEndsAnyhow(c) ==
    /\ capture[c].pc = "upload"
    /\ capture' = [capture EXCEPT ![c].pc = "complete"]
    /\ \/ published' = published \cup {capture[c].window}
       \/ UNCHANGED published
    /\ UNCHANGED <<window, contexts, isolatedStartInFlight, start, removal,
                   started>>

\* upload(): published, or nothing to publish, refused or out of attempts.
UploadEnds(c) ==
    /\ capture[c].pc = "upload"
    /\ \/ /\ published' = published \cup {capture[c].window}
          /\ capture' = [capture EXCEPT ![c].pc = "complete"]
       \/ /\ capture' = [capture EXCEPT ![c] = Listening]
          /\ UNCHANGED published
    /\ UNCHANGED <<window, contexts, isolatedStartInFlight, start, removal,
                   started>>

\* complete(): the records as they were before the upload, less this one, are
\* saved; an isolated window remains to be closed.
complete(c) ==
    LET w == capture[c].window IN
    /\ capture[c].pc = "complete"
    /\ \/ /\ contexts' = [capture[c].contexts EXCEPT ![w] = "none"]
          /\ capture' = [capture EXCEPT ![c] =
                IF capture[c].contexts[w] = "incognito"
                THEN [@ EXCEPT !.pc = "close"] ELSE Listening]
       \/ /\ capture' = [capture EXCEPT ![c] = Listening]
          /\ UNCHANGED contexts
    /\ UNCHANGED <<window, isolatedStartInFlight, start, removal, history>>

CloseWindow(c) ==
    /\ capture[c].pc = "close"
    /\ Shut(capture[c].window, "removed")
    /\ capture' = [capture EXCEPT ![c] = Listening]
    /\ UNCHANGED <<contexts, isolatedStartInFlight, start, history>>

----------------------------------------------------------------------------
(* windows.onRemoved.                                                      *)

LoadRemoved(w) ==
    /\ removal[w].pc = "event"
    /\ removal' = [removal EXCEPT ![w] =
          IF contexts[w] = "none" THEN Quiet
          ELSE [pc |-> "save", contexts |-> contexts]]
    /\ UNCHANGED <<window, contexts, isolatedStartInFlight, start, capture,
                   history>>

SaveRemoved(w) ==
    /\ removal[w].pc = "save"
    /\ \/ contexts' = [removal[w].contexts EXCEPT ![w] = "none"]
       \/ UNCHANGED contexts
    /\ removal' = [removal EXCEPT ![w] = Quiet]
    /\ UNCHANGED <<window, isolatedStartInFlight, start, capture, history>>

----------------------------------------------------------------------------
(* The user and Chrome.                                                    *)

UserOpens(w) ==
    /\ Open(w, TRUE, "user")
    /\ UNCHANGED <<contexts, isolatedStartInFlight, start, capture, removal,
                   history>>

UserCloses(w) ==
    /\ IsOpen(w)
    /\ Shut(w, "closed")
    /\ UNCHANGED <<contexts, isolatedStartInFlight, start, capture, history>>

\* The service worker is stopped; an event not yet handled starts it again.
Stop ==
    /\ isolatedStartInFlight' = FALSE
    /\ start' = [t \in Starter |-> Waiting]
    /\ capture' = [c \in Capturer |-> Listening]
    /\ removal' = [w \in Window |-> IF removal[w].pc = "save" THEN Quiet
                                    ELSE removal[w]]
    /\ UNCHANGED <<window, contexts, history>>

StartStep(t) ==
    \/ \E isolated \in BOOLEAN : Begin(t, isolated)
    \/ loadContexts(t) \/ CheckWindows(t) \/ SavePruned(t) \/ Setup(t)
    \/ observeRecoveryWindow(t) \/ RecheckWindows(t) \/ SaveContext(t)
    \/ RemoveWindow(t)

CaptureStep(c) ==
    \/ \E w \in Window : Arrives(c, w)
    \/ Resolve(c) \/ UploadEnds(c) \/ complete(c) \/ CloseWindow(c)

WindowStep(w) ==
    LoadRemoved(w) \/ SaveRemoved(w) \/ UserOpens(w) \/ UserCloses(w)

RecoveryNext ==
    \/ \E t \in Starter : StartStep(t)
    \/ \E c \in Capturer : CaptureStep(c)
    \/ \E w \in Window : WindowStep(w)
    \/ Stop

RecoverySpec == RecoveryInit /\ [][RecoveryNext]_recoveryVars

----------------------------------------------------------------------------
(* Properties.                                                             *)

Records == [Window -> Mode \cup {"none"}]
WindowState == [state : {"unused", "open", "closed", "removed"},
                incognito : BOOLEAN, purpose : Mode \cup {"none", "user"}]
StartState == [pc : {"idle", "load", "windows", "prune", "setup", "observe",
                     "recheck", "save", "remove"},
               isolated : BOOLEAN, contexts : Records, shared : BOOLEAN,
               window : Window \cup {NoWindow}]
CaptureState == [pc : {"idle", "resolve", "upload", "complete", "close"},
                 window : Window \cup {NoWindow}, contexts : Records]
RemovalState == [pc : {"idle", "event", "save"}, contexts : Records]

\* Shapes of Chrome's windows, the records and the running handlers.
RecoveryTypeOK ==
    /\ window \in [Window -> WindowState]
    /\ contexts \in Records
    /\ isolatedStartInFlight \in BOOLEAN
    /\ start \in [Starter -> StartState]
    /\ capture \in [Capturer -> CaptureState]
    /\ removal \in [Window -> RemovalState]
    /\ started \subseteq Window
    /\ published \subseteq Window

\* Isolated recoveries never share a session with each other: of the windows
\* opened for isolated recovery at most one incognito window is open, whatever
\* is lost from the records and whenever the worker is stopped.
OneIsolatedWindow ==
    \A v, w \in OpenIncognito :
        window[v].purpose = "incognito" /\ window[w].purpose = "incognito"
          => v = w

\* The flag that excludes isolated starts is held by exactly one running
\* start() or by nobody: no way out of start() leaves recovery locked.
FlagHasOwner ==
    LET isolated == {t \in Starter : start[t].isolated} IN
    /\ isolatedStartInFlight <=> isolated # {}
    /\ \A t, u \in isolated : t = u

\* The extension closes no window of the user and no window of a normal
\* recovery, and one whose recovery has started only after its cookies were
\* published.
ClosesOnlyItsOwn ==
    \A w \in Window : window[w].state = "removed" =>
        /\ window[w].purpose = "incognito"
        /\ w \in started => w \in published

\* A recovery that has started is on record until it is published or its
\* window is closed ("records the broker-created window/tab", SECURITY.md).
\* The code does not have this property: a handler that read the records
\* earlier writes them back and with them erases the new one.
RecoveryIsRecorded ==
    \A w \in started :
        IsOpen(w) /\ w \notin published => contexts[w] # "none"
============================================================================
