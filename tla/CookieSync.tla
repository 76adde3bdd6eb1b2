----------------------------- MODULE CookieSync -----------------------------
(***************************************************************************)
(* A consumer host: the cookie-sync daemon and its report command          *)
(* (cmd/cookie-sync/main.go) against the broker's store.  The daemon       *)
(* fetches each target in turn and replaces two files, the cookie file and *)
(* its metadata sidecar, one after the other; the report command, another  *)
(* process, reads the same two files one after the other.                  *)
(*                                                                         *)
(* There is one target per scope (parseTargets refuses a second one).  A   *)
(* file is known by the sha256 of its bytes, which the sidecar records; it *)
(* is not the sha256 of the cookie set, which the broker sends as ETag:    *)
(* sets that differ in same_site only are rendered to the same bytes.  A   *)
(* GET or POST is one step of the broker here (BrokerApi shows that it     *)
(* behaves so); its response travels.                                      *)
(***************************************************************************)
EXTENDS BrokerStore

CONSTANTS
    Reader,     \* the user the host logs in as, and its password
    Secret,
    Metadata,   \* COOKIE_SYNC_METADATA
    File,       \* cookie files that the broker renders
    renderNetscape,  \* the file rendered from a cookie set
    NoFile,     \* the file is missing
    Foreign,    \* a valid Netscape file that the broker never served
    Broken,     \* a file that does not start with the Netscape header
    MaxFaults   \* bound: failures, crashes and local changes together

ASSUME HostAssumption ==
    /\ Reader \in User /\ Secret \in Password
    /\ Metadata \in BOOLEAN
    /\ MaxFaults \in Nat
    /\ renderNetscape \in [Hash -> File]
    /\ NoFile \notin Hash
    /\ File \cap {NoFile, Foreign, Broken} = {}
    /\ Broken \notin {NoFile, Foreign} /\ Foreign # NoFile

VARIABLES
    cookie,     \* cookie file of each target
    sidecar,    \* its <file>.meta.json
    combined,   \* content of each target in the combined jar
    mem,        \* what the daemon trusts: content, sidecar, and its etag
    daemon,     \* step of the daemon, target, response in hand
    left,       \* targets still to be fetched in this round
    report,     \* step of the report command and what it has read
    faults,     \* faults so far
    confirmed,  \* history: what the last fetch of a target, if good, said
    touched     \* history: targets changed by others since it began

files == <<cookie, sidecar, combined>>
history == <<confirmed, touched>>
syncVars == <<storeVars, files, mem, daemon, left, report, faults, history>>

NoMeta == [revision |-> 0, sha256 |-> NoFile]
Nothing == [content |-> NoFile, sidecar |-> NoMeta, etag |-> NoFile]
NoResponse == [revision |-> 0, sha256 |-> NoFile, etag |-> NoFile]
Resting == [pc |-> "idle", target |-> NoFile, got |-> NoResponse]
NoReport == [pc |-> "idle", scope |-> NoFile, data |-> NoFile,
             revision |-> 0]

SyncInit ==
    /\ Init
    /\ cookie = [s \in Scope |-> NoFile]
    /\ sidecar = [s \in Scope |-> NoMeta]
    /\ combined = [s \in Scope |-> NoFile]
    /\ mem = [s \in Scope |-> Nothing]
    /\ daemon = Resting
    /\ left = {}
    /\ report = NoReport
    /\ faults = 0
    /\ confirmed = [s \in Scope |-> NoMeta]
    /\ touched = {}

----------------------------------------------------------------------------
validCookieFile(data) == data \in File \cup {Foreign}

\* Mutant: the files are not read again.
trustsMemory(s) == validCookieFile(mem[s].content)

\* Files and memory agree on the content that the broker was asked about.
localMatchesTrustedContent(s) ==
    /\ validCookieFile(mem[s].content)
    /\ cookie[s] = mem[s].content
    /\ Metadata => sidecar[s] # NoMeta /\ sidecar[s] = mem[s].sidecar

\* Mutant: only what this process has fetched itself.
fetchedContent(s) == mem[s].content

\* Mutant: whatever the file has, when nothing was fetched.
uncheckedContent(s) ==
    IF validCookieFile(mem[s].content) THEN mem[s].content ELSE cookie[s]

lastGoodContent(s) ==
    IF validCookieFile(mem[s].content) THEN mem[s].content
    ELSE IF validCookieFile(cookie[s]) THEN cookie[s] ELSE NoFile

Fault == faults < MaxFaults /\ faults' = faults + 1

Reachable(s) == Authenticate(Reader, Secret, "reader", s)

----------------------------------------------------------------------------
(* The daemon.                                                             *)

\* syncAll begins: at the start of the process and at every tick.
StartRound ==
    /\ daemon = Resting
    /\ left' = Scope
    /\ daemon' = [Resting EXCEPT !.pc = "next"]
    /\ UNCHANGED <<storeVars, files, mem, report, faults, history>>

NextTarget ==
    /\ daemon.pc = "next"
    /\ \E s \in left :
         /\ left' = left \ {s}
         /\ daemon' = [pc |-> "request", target |-> s, got |-> NoResponse]
         /\ confirmed' = [confirmed EXCEPT ![s] = NoMeta]
         /\ touched' = touched \ {s}
    /\ UNCHANGED <<storeVars, files, mem, report, faults>>

\* The target is given up for this round.
GiveUp == daemon' = [Resting EXCEPT !.pc = "next"]

\* GET cookies.txt is answered with the current row; If-None-Match turns an
\* equal content into 304.
Request ==
    LET s == daemon.target IN
    /\ daemon.pc = "request"
    /\ Reachable(s)
    /\ \E r \in CurrentRow(s) :
         /\ daemon' = [pc |-> IF mem[s].etag = r.sha256 THEN "304" ELSE "200",
                       target |-> s,
                       got |-> [revision |-> r.revision,
                                sha256 |-> renderNetscape[r.sha256],
                                etag |-> r.sha256]]
         /\ RecordConsumerSeen(Reader, s, r.revision)
    /\ UNCHANGED <<files, mem, left, report, faults, history>>

\* 401 or 404.
RequestRefused ==
    /\ daemon.pc = "request"
    /\ ~Reachable(daemon.target) \/ CurrentRow(daemon.target) = {}
    /\ GiveUp
    /\ UNCHANGED <<storeVars, files, mem, left, report, faults, history>>

\* The broker cannot be reached, answers 5xx, or the body is cut or invalid.
RequestFails ==
    /\ daemon.pc \in {"request", "200"}
    /\ Fault
    /\ GiveUp
    /\ UNCHANGED <<storeVars, files, mem, left, report, history>>

\* The metadata of the response in hand.
Received ==
    [revision |-> daemon.got.revision, sha256 |-> daemon.got.sha256]

\* fetch returns nil.
Success(s) ==
    /\ confirmed' = [confirmed EXCEPT ![s] = Received]
    /\ UNCHANGED touched
    /\ GiveUp

NotModified ==
    LET s == daemon.target IN
    /\ daemon.pc = "304"
    /\ localMatchesTrustedContent(s)
    /\ Success(s)
    /\ UNCHANGED <<storeVars, files, mem, left, report, faults>>

\* Mutant: the mismatch is an error, and the ETag stays.
RefetchNever ==
    /\ daemon.pc = "304"
    /\ ~localMatchesTrustedContent(daemon.target)
    /\ GiveUp
    /\ UNCHANGED <<storeVars, files, mem, left, report, faults, history>>

\* The local files are not what the ETag stands for: ask again without it.
Refetch ==
    LET s == daemon.target IN
    /\ daemon.pc = "304"
    /\ ~localMatchesTrustedContent(s)
    /\ mem' = [mem EXCEPT ![s].etag = NoFile]
    /\ daemon' = [daemon EXCEPT !.pc = "request", !.got = NoResponse]
    /\ UNCHANGED <<storeVars, files, left, report, faults, history>>

\* atomicWrite of the cookie file.
WriteCookie ==
    LET s == daemon.target IN
    /\ daemon.pc = "200"
    /\ cookie' = [cookie EXCEPT ![s] = daemon.got.sha256]
    /\ daemon' = [daemon EXCEPT !.pc = "meta"]
    /\ UNCHANGED <<storeVars, sidecar, combined, mem, left, report, faults,
                   history>>

\* Mutant: the sidecar describes the file as it is on disk by now.
AcceptFromDisk ==
    LET s == daemon.target
        m == [Received EXCEPT !.sha256 = cookie[s]]
    IN  /\ daemon.pc = "meta"
        /\ sidecar' = IF Metadata THEN [sidecar EXCEPT ![s] = m] ELSE sidecar
        /\ mem' = [mem EXCEPT ![s] = [content |-> daemon.got.sha256,
                                      sidecar |-> m,
                                      etag |-> daemon.got.etag]]
        /\ Success(s)
        /\ UNCHANGED <<storeVars, cookie, combined, left, report, faults>>

\* atomicWrite of the sidecar, if there is one; only then does the daemon
\* trust what it has written.
Accept ==
    LET s == daemon.target
        m == IF Metadata THEN Received ELSE NoMeta
    IN  /\ daemon.pc = "meta"
        /\ sidecar' = IF Metadata THEN [sidecar EXCEPT ![s] = m] ELSE sidecar
        /\ mem' = [mem EXCEPT ![s] = [content |-> daemon.got.sha256,
                                      sidecar |-> m,
                                      etag |-> daemon.got.etag]]
        /\ Success(s)
        /\ UNCHANGED <<storeVars, cookie, combined, left, report, faults>>

\* atomicWrite fails, before or after the rename.
WriteFails ==
    LET s == daemon.target IN
    /\ Fault
    /\ \/ /\ daemon.pc = "200"
          /\ cookie' \in {cookie, [cookie EXCEPT ![s] = daemon.got.sha256]}
          /\ UNCHANGED sidecar
       \/ /\ daemon.pc = "meta"
          /\ Metadata
          /\ sidecar' \in {sidecar, [sidecar EXCEPT ![s] = Received]}
          /\ UNCHANGED cookie
    /\ GiveUp
    /\ UNCHANGED <<storeVars, combined, mem, left, report, history>>

\* The combined jar is built from what each target has; it is left alone when
\* there is nothing at all.
Combine ==
    LET jar == [s \in Scope |-> lastGoodContent(s)] IN
    /\ daemon.pc = "next"
    /\ left = {}
    /\ daemon' = Resting
    /\ combined' = IF \E s \in Scope : jar[s] # NoFile THEN jar ELSE combined
    /\ UNCHANGED <<storeVars, cookie, sidecar, mem, left, report, faults,
                   history>>

CombineFails ==
    /\ daemon.pc = "next"
    /\ left = {}
    /\ Fault
    /\ daemon' = Resting
    /\ UNCHANGED <<storeVars, files, mem, left, report, history>>

\* The daemon is killed and started again with empty memory.
Crash ==
    /\ Fault
    /\ mem' = [s \in Scope |-> Nothing]
    /\ daemon' = Resting
    /\ left' = {}
    /\ UNCHANGED <<storeVars, files, report, history>>

----------------------------------------------------------------------------
(* Other programs on the host.                                             *)

\* A downloader rewrites its cookie file, or a file is truncated or deleted.
LocalChange(s) ==
    /\ Fault
    /\ \/ \E data \in {NoFile, Foreign, Broken} :
            /\ cookie' = [cookie EXCEPT ![s] = data]
            /\ UNCHANGED sidecar
       \/ /\ sidecar' = [sidecar EXCEPT ![s] = NoMeta]
          /\ UNCHANGED cookie
    /\ touched' = touched \cup {s}
    /\ UNCHANGED <<storeVars, combined, mem, daemon, left, report, confirmed>>

\* cookie-sync report: the cookie file is read first ...
ReadCookie(s) ==
    /\ report = NoReport
    /\ validCookieFile(cookie[s])
    /\ report' = [pc |-> "cookie", scope |-> s, data |-> cookie[s],
                  revision |-> 0]
    /\ UNCHANGED <<storeVars, files, mem, daemon, left, faults, history>>

\* Mutant: the sidecar is believed unread.
ReadSidecarOnly ==
    LET m == sidecar[report.scope] IN
    /\ report.pc = "cookie"
    /\ report' = IF m # NoMeta
                 THEN [report EXCEPT !.pc = "send", !.revision = m.revision]
                 ELSE NoReport
    /\ UNCHANGED <<storeVars, files, mem, daemon, left, faults, history>>

\* ... then the sidecar, which must be about the bytes just read.
ReadSidecar ==
    LET m == sidecar[report.scope] IN
    /\ report.pc = "cookie"
    /\ report' = IF m # NoMeta /\ m.sha256 = report.data
                 THEN [report EXCEPT !.pc = "send", !.revision = m.revision]
                 ELSE NoReport
    /\ UNCHANGED <<storeVars, files, mem, daemon, left, faults, history>>

SendReport ==
    /\ report.pc = "send"
    /\ \E kind \in Kind :
         PutHealthReport(Reader, report.scope, report.revision, kind)
    /\ report' = NoReport
    /\ UNCHANGED <<files, mem, daemon, left, faults, history>>

\* The report is refused (access, pruned revision) or lost on the way.
SendFails ==
    /\ report.pc = "send"
    /\ report' = NoReport
    /\ UNCHANGED <<storeVars, files, mem, daemon, left, faults, history>>

----------------------------------------------------------------------------
Broker ==
    /\ PublisherNext \/ AdminNext
    /\ UNCHANGED <<files, mem, daemon, left, report, faults, history>>

Daemon ==
    \/ StartRound \/ NextTarget \/ Request \/ RequestRefused \/ NotModified
    \/ Refetch \/ WriteCookie \/ Accept \/ Combine

Faulty ==
    \/ RequestFails \/ WriteFails \/ CombineFails \/ Crash
    \/ \E s \in Scope : LocalChange(s)

Reporter ==
    \/ \E s \in Scope : ReadCookie(s)
    \/ ReadSidecar \/ SendReport \/ SendFails

SyncNext == Broker \/ Daemon \/ Faulty \/ Reporter

SyncSpec == SyncInit /\ [][SyncNext]_syncVars

\* The daemon loops on its ticker until it is stopped, and every step of a
\* round returns (requests have a timeout of 20 seconds).
FairSyncSpec == SyncSpec /\ WF_syncVars(Daemon)

----------------------------------------------------------------------------
(* Properties.                                                             *)

Meta == [revision : Nat, sha256 : File] \cup {NoMeta}
Response == [revision : Nat, sha256 : File, etag : Hash] \cup {NoResponse}
Data == File \cup {NoFile, Foreign, Broken}

\* Shapes of the host's state; the combined jar is always usable.
SyncTypeOK ==
    /\ TypeOK
    /\ cookie \in [Scope -> Data]
    /\ sidecar \in [Scope -> Meta]
    /\ combined \in [Scope -> Data \ {Broken}]
    /\ mem \in [Scope -> [content : File \cup {NoFile}, sidecar : Meta,
                          etag : Hash \cup {NoFile}]]
    /\ daemon \in [pc : {"idle", "next", "request", "304", "200", "meta"},
                   target : Scope \cup {NoFile}, got : Response]
    /\ left \subseteq Scope
    /\ report \in [pc : {"idle", "cookie", "send"},
                   scope : Scope \cup {NoFile}, data : Data, revision : Nat]
    /\ faults \in 0..MaxFaults
    /\ confirmed \in [Scope -> Meta]
    /\ touched \subseteq Scope

\* The file is the rendering of what was published as revision n.
Renders(s, n, file) ==
    \E p \in published :
        p.scope = s /\ p.revision = n /\ renderNetscape[p.sha256] = file

\* A report names the revision whose cookies its sender really read, although
\* the daemon replaces the two files one at a time under the command's feet,
\* crashes between them, and other programs rewrite the cookie file.
ReportNamesItsCookies ==
    report.pc = "send" =>
        Renders(report.scope, report.revision, report.data)

\* Tampered bytes are never promoted to trusted metadata: a sidecar, on disk
\* or in the daemon's memory, describes a revision as it was published.
SidecarsAreHonest ==
    \A s \in Scope : \A m \in {sidecar[s], mem[s].sidecar} :
        m # NoMeta => Renders(s, m.revision, m.sha256)

\* After a fetch that returned without error (200 or 304) the cookie file has
\* the content the broker spoke of and the sidecar describes that content,
\* whatever crashes, failed writes and changes by others came before this
\* fetch began; only a change made since then may undo it.
SuccessMeansInSync ==
    \A s \in Scope \ touched : confirmed[s] # NoMeta =>
        /\ cookie[s] = confirmed[s].sha256
        /\ Metadata => sidecar[s].sha256 = confirmed[s].sha256

\* Last known good: no failure, crash or bad response takes a target out of
\* the combined jar; it drops out only when the daemon trusts nothing and the
\* file on disk has become unusable.
JarKeepsTargets ==
    [][\A s \in Scope : combined[s] # NoFile /\ combined'[s] = NoFile =>
          mem[s] = Nothing /\ ~validCookieFile(cookie[s])]_syncVars

Serves(s, h) == Reachable(s) /\ \E r \in CurrentRow(s) : r.sha256 = h

\* When the broker settles on some cookies for a scope and the reader keeps
\* its access, the cookie file, the sidecar and the combined jar end up with
\* them and stay so, whatever failures, crashes and local changes happened
\* (finitely many of them).
Converges ==
    \A s \in Scope, h \in Hash :
        <>[]Serves(s, h) =>
            <>[](/\ cookie[s] = renderNetscape[h]
                 /\ Metadata => sidecar[s].sha256 = renderNetscape[h]
                 /\ combined[s] = renderNetscape[h])

\* The feedback loop of the README: a consumer whose last fetch confirmed the
\* current revision reports that its cookies no longer authenticate; when the
\* broker accepts the report, its state asks for a refresh.
ReportIsObserved ==
    [][\A p \in reports' \ reports :
         /\ p.kind = "authentication_required"
         /\ confirmed[p.scope].revision = current[p.scope]
         /\ confirmed[p.scope].sha256 = report.data
         => Alarm(p.scope)']_syncVars
============================================================================
