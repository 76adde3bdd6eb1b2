-------------------------- MODULE CookieSyncProofs --------------------------
(***************************************************************************)
(* The files of a consumer host, for any number of targets, revisions and  *)
(* faults.                                                                 *)
(***************************************************************************)
EXTENDS CookieSync, BrokerStoreProofs

\* SyncTypeOK without the tables.
HostTyped ==
    /\ cookie \in [Scope -> Data]
    /\ sidecar \in [Scope -> Meta]
    /\ combined \in [Scope -> Data \ {Broken}]
    /\ mem \in [Scope -> [content : File \cup {NoFile}, sidecar : Meta,
                          etag : Hash \cup {NoFile}]]
    /\ daemon \in [pc : {"idle", "next", "request", "304", "200", "meta"},
                   target : Scope \cup {NoFile}, got : Response]
    /\ left \subseteq Scope
    /\ report \in [pc : {"idle", "cookie", "send"},
                   scope : Scope \cup {NoFile}, data : Data, revision : Nat]
    /\ faults \in 0..MaxFaults
    /\ confirmed \in [Scope -> Meta]
    /\ touched \subseteq Scope

\* A response in hand is about a publication for the target being fetched.
ResponseInHand ==
    /\ daemon.pc \in {"request", "304", "200", "meta"} =>
          daemon.target \in Scope
    /\ daemon.pc \in {"304", "200", "meta"} =>
          /\ daemon.got \in [revision : Nat, sha256 : File, etag : Hash]
          /\ daemon.got.sha256 = renderNetscape[daemon.got.etag]
          /\ Renders(daemon.target, daemon.got.revision, daemon.got.sha256)

\* The report command is about a target of this host.
ReportInHand == report.pc # "idle" => report.scope \in Scope

\* What the daemon trusts is one response, or nothing.
TrustIsWhole ==
    \A s \in Scope :
        /\ mem[s].content = NoFile => mem[s] = Nothing
        /\ mem[s].etag # NoFile => mem[s].content = renderNetscape[mem[s].etag]
        /\ Metadata /\ mem[s].content # NoFile =>
              mem[s].sidecar.sha256 = mem[s].content

\* How far the fetch in progress has come: it has confirmed nothing yet, a
\* 304 answers the ETag still in memory, and once the cookie file is written
\* only others can have changed it.
FetchInProgress ==
    /\ daemon.pc \in {"request", "304", "200", "meta"} =>
          confirmed[daemon.target] = NoMeta
    /\ daemon.pc = "304" => mem[daemon.target].etag = daemon.got.etag
    /\ daemon.pc = "meta" /\ daemon.target \notin touched =>
          cookie[daemon.target] = daemon.got.sha256

Honest == ResponseInHand /\ ReportInHand /\ SidecarsAreHonest
          /\ ReportNamesItsCookies
Synced == TrustIsWhole /\ FetchInProgress /\ SuccessMeansInSync

SyncInv == TypeWindow /\ Ledger /\ HostTyped /\ Honest /\ Synced

----------------------------------------------------------------------------
\* An empty broker and a host without files.
LEMMA SyncInvInit == SyncInit => SyncInv
<1> SUFFICES ASSUME SyncInit PROVE SyncInv
  OBVIOUS
<1>1. TypeWindow /\ Ledger
  BY TypeWindowInit, LedgerInit DEF SyncInit
<1>2. HostTyped
  BY HostAssumption
  DEF SyncInit, HostTyped, Data, Meta, Response, Resting, NoReport, Nothing,
      NoMeta, NoResponse
<1>3. Honest
  BY DEF SyncInit, Honest, ResponseInHand, ReportInHand, SidecarsAreHonest,
         ReportNamesItsCookies, Resting, NoReport, Nothing
<1>4. Synced
  BY DEF SyncInit, Synced, TrustIsWhole, FetchInProgress, SuccessMeansInSync,
         Resting, Nothing
<1> QED
  BY <1>1, <1>2, <1>3, <1>4 DEF SyncInv

\* Steps of the broker leave the host alone, and never forget a publication.
LEMMA BrokerKeepsHost ==
  ASSUME HostTyped, Honest, Synced, published \subseteq published',
         UNCHANGED <<files, mem, daemon, left, report, faults, history>>
  PROVE  HostTyped' /\ Honest' /\ Synced'
<1>1. HostTyped'
  BY DEF HostTyped, files, history
<1>2. Honest'
  BY DEF Honest, ResponseInHand, ReportInHand, SidecarsAreHonest,
         ReportNamesItsCookies, Renders, files
<1>3. Synced'
  BY DEF Synced, TrustIsWhole, FetchInProgress, SuccessMeansInSync, files,
         history
<1> QED
  BY <1>1, <1>2, <1>3

\* A step of the report command leaves the files and the daemon alone.
LEMMA ReporterKeepsHost ==
  ASSUME HostTyped, Honest, Synced, published' = published,
         UNCHANGED <<files, mem, daemon, left, faults, history>>,
         report' \in [pc : {"idle", "cookie", "send"},
                      scope : Scope \cup {NoFile}, data : Data, revision : Nat],
         ReportInHand', ReportNamesItsCookies'
  PROVE  HostTyped' /\ Honest' /\ Synced'
<1>1. HostTyped'
  BY DEF HostTyped, files, history
<1>2. Honest'
  BY DEF Honest, ResponseInHand, SidecarsAreHonest, Renders, files
<1>3. Synced'
  BY DEF Synced, TrustIsWhole, FetchInProgress, SuccessMeansInSync, files,
         history
<1> QED
  BY <1>1, <1>2, <1>3

\* The report command's own steps.
LEMMA ReporterStep ==
  ASSUME SyncInv, Reporter
  PROVE  [Next]_storeVars /\ HostTyped' /\ Honest' /\ Synced'
<1>a. TypeOK /\ RetentionWindow /\ HostTyped /\ Honest /\ Synced
      /\ SidecarsAreHonest /\ ReportNamesItsCookies /\ ReportInHand
  BY DEF SyncInv, TypeWindow, Honest
<1>b. NoReport \in [pc : {"idle", "cookie", "send"},
                    scope : Scope \cup {NoFile}, data : Data, revision : Nat]
      /\ NoReport.pc = "idle"
  BY DEF NoReport, Data
<1>1. ASSUME NEW s \in Scope, ReadCookie(s)
      PROVE  [Next]_storeVars /\ HostTyped' /\ Honest' /\ Synced'
  <2>1. UNCHANGED storeVars /\ published' = published
        /\ UNCHANGED <<files, mem, daemon, left, faults, history>>
    BY <1>1 DEF ReadCookie, storeVars
  <2>2. report' = [pc |-> "cookie", scope |-> s, data |-> cookie[s],
                   revision |-> 0]
        /\ cookie[s] \in Data
    BY <1>1, <1>a DEF ReadCookie, HostTyped
  <2>3. ReportInHand' /\ ReportNamesItsCookies'
    BY <2>2 DEF ReportInHand, ReportNamesItsCookies
  <2> QED
    BY <1>a, <2>1, <2>2, <2>3, ReporterKeepsHost
<1>2. CASE ReadSidecar
  <2> DEFINE m == sidecar[report.scope]
  <2>1. UNCHANGED storeVars /\ published' = published
        /\ UNCHANGED <<files, mem, daemon, left, faults, history>>
    BY <1>2 DEF ReadSidecar, storeVars
  <2>2. CASE report' = NoReport
    BY <1>a, <1>b, <2>1, <2>2, ReporterKeepsHost
    DEF ReportInHand, ReportNamesItsCookies
  <2>3. CASE /\ m # NoMeta /\ m.sha256 = report.data
             /\ report' = [report EXCEPT !.pc = "send", !.revision = m.revision]
    <3>1. report.scope \in Scope
      BY <1>2, <1>a DEF ReadSidecar, ReportInHand
    <3>2. m \in Meta /\ Renders(report.scope, m.revision, m.sha256)
      BY <1>a, <2>3, <3>1 DEF HostTyped, SidecarsAreHonest
    <3>3. /\ report' \in [pc : {"idle", "cookie", "send"},
                          scope : Scope \cup {NoFile}, data : Data,
                          revision : Nat]
          /\ report'.scope = report.scope /\ report'.data = report.data
          /\ report'.revision = m.revision
      BY <1>a, <2>3, <3>2 DEF HostTyped, Meta, NoMeta
    <3>4. ReportInHand' /\ ReportNamesItsCookies'
      BY <2>1, <2>3, <3>1, <3>2, <3>3
      DEF ReportInHand, ReportNamesItsCookies, Renders
    <3> QED
      BY <1>a, <2>1, <3>3, <3>4, ReporterKeepsHost
  <2> QED
    BY <1>2, <2>2, <2>3 DEF ReadSidecar
<1>3. CASE SendReport
  <2>1. PICK kind \in Kind :
          PutHealthReport(Reader, report.scope, report.revision, kind)
    BY <1>3 DEF SendReport
  <2>2. published' = published /\ report' = NoReport /\ report.pc = "send"
        /\ UNCHANGED <<files, mem, daemon, left, faults, history>>
    BY <1>3, <2>1 DEF SendReport, PutHealthReport
  <2>3. report.scope \in Scope
    BY <1>a, <2>2 DEF ReportInHand
  <2>4. report.revision \in 1..MaxRevision
    <3>1. report.revision \in Numbers(History(report.scope))
      BY <1>a, <2>2 DEF ReportNamesItsCookies, Renders, Numbers, History
    <3>2. PICK hi \in 0..MaxRevision : Numbers(History(report.scope)) = 1..hi
      BY <1>a, <2>3 DEF RetentionWindow
    <3> QED
      BY <3>1, <3>2, BoundAssumption
  <2>5. Next
    BY <2>1, <2>3, <2>4, HostAssumption DEF Next, ConsumerNext
  <2> QED
    BY <1>a, <1>b, <2>2, <2>5, ReporterKeepsHost
    DEF ReportInHand, ReportNamesItsCookies
<1>4. CASE SendFails
  <2>1. published' = published /\ report' = NoReport /\ UNCHANGED storeVars
        /\ UNCHANGED <<files, mem, daemon, left, faults, history>>
    BY <1>4 DEF SendFails, storeVars
  <2> QED
    BY <1>a, <1>b, <2>1, ReporterKeepsHost
    DEF ReportInHand, ReportNamesItsCookies
<1> QED
  BY <1>1, <1>2, <1>3, <1>4 DEF Reporter

----------------------------------------------------------------------------
(* The daemon.                                                             *)

\* A step that leaves the daemon idle or between targets, with nothing in
\* hand, and neither files nor memory changed.
LEMMA DaemonLetsGo ==
  ASSUME HostTyped, Honest, Synced, UNCHANGED <<storeVars, files, mem, report>>,
         daemon' \in {Resting, [Resting EXCEPT !.pc = "next"]},
         left' \subseteq Scope, faults' \in 0..MaxFaults, UNCHANGED history
  PROVE  HostTyped' /\ Honest' /\ Synced'
<1>1. daemon'.pc \in {"idle", "next"}
      /\ daemon' \in [pc : {"idle", "next", "request", "304", "200", "meta"},
                      target : Scope \cup {NoFile}, got : Response]
  BY DEF Resting, Response
<1>2. HostTyped'
  BY <1>1 DEF HostTyped, files, history
<1>3. Honest'
  BY <1>1 DEF Honest, ResponseInHand, ReportInHand, SidecarsAreHonest,
              ReportNamesItsCookies, Renders, files, storeVars
<1>4. Synced'
  BY <1>1 DEF Synced, TrustIsWhole, FetchInProgress, SuccessMeansInSync, files,
              history
<1> QED
  BY <1>2, <1>3, <1>4

\* The daemon's own steps.
LEMMA DaemonStep ==
  ASSUME SyncInv, Daemon
  PROVE  [Next]_storeVars /\ HostTyped' /\ Honest' /\ Synced'
<1> DEFINE Goal == [Next]_storeVars /\ HostTyped' /\ Honest' /\ Synced'
           d == daemon.target
<1>a. TypeOK /\ Ledger /\ HostTyped /\ Honest /\ Synced
  BY DEF SyncInv, TypeWindow
<1>b. left \subseteq Scope /\ faults \in 0..MaxFaults
  BY <1>a DEF HostTyped
<1>c. "request" \notin {"idle", "next"} /\ Resting.pc = "idle"
      /\ NoResponse \in Response /\ NoMeta \in Meta
  BY DEF Resting, Response, Meta
<1>1. CASE StartRound
  <2>1. UNCHANGED <<storeVars, files, mem, report>> /\ left' = Scope
        /\ daemon' = [Resting EXCEPT !.pc = "next"] /\ UNCHANGED <<faults, history>>
    BY <1>1 DEF StartRound
  <2> QED
    BY <1>a, <1>b, <2>1, DaemonLetsGo
<1>2. CASE NextTarget
  <2>1. PICK s \in left :
          /\ left' = left \ {s}
          /\ daemon' = [pc |-> "request", target |-> s, got |-> NoResponse]
          /\ confirmed' = [confirmed EXCEPT ![s] = NoMeta]
          /\ touched' = touched \ {s}
    BY <1>2 DEF NextTarget
  <2>2. UNCHANGED <<storeVars, files, mem, report, faults>> /\ daemon.pc = "next"
    BY <1>2 DEF NextTarget
  <2>3. HostTyped'
    BY <1>a, <1>b, <1>c, <2>1, <2>2 DEF HostTyped, files
  <2>4. Honest'
    BY <1>a, <1>b, <2>1, <2>2
    DEF Honest, ResponseInHand, ReportInHand, SidecarsAreHonest,
        ReportNamesItsCookies, Renders, files, storeVars
  <2>5. Synced'
    BY <1>a, <1>b, <2>1, <2>2
    DEF Synced, TrustIsWhole, FetchInProgress, SuccessMeansInSync, files,
        HostTyped
  <2> QED
    BY <2>2, <2>3, <2>4, <2>5
<1>3. CASE Request
  <2>1. d \in Scope /\ confirmed[d] = NoMeta
    BY <1>3, <1>a DEF Request, Honest, ResponseInHand, Synced, FetchInProgress
  <2>2. PICK r \in CurrentRow(d) :
          /\ daemon' = [pc |-> IF mem[d].etag = r.sha256 THEN "304" ELSE "200",
                        target |-> d,
                        got |-> [revision |-> r.revision,
                                 sha256 |-> renderNetscape[r.sha256],
                                 etag |-> r.sha256]]
          /\ RecordConsumerSeen(Reader, d, r.revision)
    BY <1>3 DEF Request
  <2>3. UNCHANGED <<files, mem, left, report, faults, history>>
        /\ published' = published
    BY <1>3, <2>2 DEF Request, RecordConsumerSeen
  <2>4. /\ r.revision \in Nat /\ r.sha256 \in Hash
        /\ renderNetscape[r.sha256] \in File
        /\ [scope |-> d, revision |-> r.revision, sha256 |-> r.sha256]
              \in published
    BY <1>a, <2>1, RowRead, HostAssumption
  <2>5. Next
    <3>1. r.revision \in Numbers(History(d))
      BY <2>4 DEF Numbers, History
    <3> QED
      BY <2>1, <2>2, <3>1, HostAssumption DEF Next, ConsumerNext
  <2>6. HostTyped'
    BY <1>a, <2>1, <2>2, <2>3, <2>4 DEF HostTyped, Response, files, history
  <2>7. Renders(d, r.revision, renderNetscape[r.sha256])
    BY <2>4 DEF Renders
  <2>8. Honest'
    BY <1>a, <2>1, <2>2, <2>3, <2>4, <2>7
    DEF Honest, ResponseInHand, ReportInHand, SidecarsAreHonest,
        ReportNamesItsCookies, Renders, files
  <2>9. Synced'
    BY <1>a, <2>1, <2>2, <2>3
    DEF Synced, TrustIsWhole, FetchInProgress, SuccessMeansInSync, files,
        history
  <2> QED
    BY <2>5, <2>6, <2>8, <2>9
<1>4. CASE RequestRefused
  <2>1. UNCHANGED <<storeVars, files, mem, report>> /\ left' = left
        /\ daemon' = [Resting EXCEPT !.pc = "next"] /\ UNCHANGED <<faults, history>>
    BY <1>4 DEF RequestRefused, GiveUp
  <2> QED
    BY <1>a, <1>b, <2>1, DaemonLetsGo
<1>5. CASE NotModified
  <2>1. /\ daemon.pc = "304" /\ localMatchesTrustedContent(d)
        /\ UNCHANGED <<storeVars, files, mem, left, report, faults>>
        /\ confirmed' = [confirmed EXCEPT ![d] = Received] /\ touched' = touched
        /\ daemon' = [Resting EXCEPT !.pc = "next"]
    BY <1>5 DEF NotModified, Success, GiveUp
  <2>2. /\ d \in Scope
        /\ daemon.got \in [revision : Nat, sha256 : File, etag : Hash]
        /\ daemon.got.sha256 = renderNetscape[daemon.got.etag]
        /\ mem[d].etag = daemon.got.etag
    BY <1>a, <2>1 DEF Honest, ResponseInHand, Synced, FetchInProgress
  <2>3. mem[d].content = daemon.got.sha256 /\ mem[d].content \in File
    BY <1>a, <2>2, HostAssumption DEF Synced, TrustIsWhole
  <2>4. cookie[d] = daemon.got.sha256
        /\ (Metadata => sidecar[d].sha256 = daemon.got.sha256)
    BY <1>a, <2>1, <2>2, <2>3, HostAssumption
    DEF localMatchesTrustedContent, Synced, TrustIsWhole
  <2>5. Received \in Meta /\ Received.sha256 = daemon.got.sha256
    BY <2>2 DEF Received, Meta
  <2>6. daemon'.pc = "next"
        /\ daemon' \in [pc : {"idle", "next", "request", "304", "200", "meta"},
                        target : Scope \cup {NoFile}, got : Response]
    BY <2>1 DEF Resting, Response
  <2>7. HostTyped'
    BY <1>a, <2>1, <2>2, <2>5, <2>6 DEF HostTyped, files
  <2>8. Honest'
    BY <1>a, <2>1, <2>6
    DEF Honest, ResponseInHand, ReportInHand, SidecarsAreHonest,
        ReportNamesItsCookies, Renders, files, storeVars
  <2>9. Synced'
    BY <1>a, <2>1, <2>2, <2>4, <2>5, <2>6
    DEF Synced, TrustIsWhole, FetchInProgress, SuccessMeansInSync, files,
        HostTyped
  <2> QED
    BY <2>1, <2>7, <2>8, <2>9
<1>6. CASE Refetch
  <2>1. /\ daemon.pc = "304" /\ mem' = [mem EXCEPT ![d].etag = NoFile]
        /\ daemon' = [daemon EXCEPT !.pc = "request", !.got = NoResponse]
        /\ UNCHANGED <<storeVars, files, left, report, faults, history>>
    BY <1>6 DEF Refetch
  <2>2. d \in Scope /\ confirmed[d] = NoMeta
    BY <1>a, <2>1 DEF Honest, ResponseInHand, Synced, FetchInProgress
  <2>3. HostTyped'
    BY <1>a, <1>c, <2>1, <2>2 DEF HostTyped, files, history
  <2>4. daemon'.pc = "request" /\ daemon'.target = d
    BY <1>a, <2>1 DEF HostTyped
  <2>a. mem[d].content # NoFile
    BY <1>a, <2>1, <2>2, HostAssumption
    DEF Honest, ResponseInHand, Synced, FetchInProgress, TrustIsWhole
  <2>5. \A s \in Scope : (s # d => mem'[s] = mem[s])
                         /\ mem'[s].sidecar = mem[s].sidecar
                         /\ mem'[s].content = mem[s].content
                         /\ mem'[s].etag \in {mem[s].etag, NoFile}
    BY <1>a, <2>1 DEF HostTyped
  <2>6. Honest'
    BY <1>a, <2>1, <2>2, <2>4, <2>5
    DEF Honest, ResponseInHand, ReportInHand, SidecarsAreHonest,
        ReportNamesItsCookies, Renders, files, storeVars
  <2>7. Synced'
    BY <1>a, <2>1, <2>2, <2>4, <2>a, <2>5
    DEF Synced, TrustIsWhole, FetchInProgress, SuccessMeansInSync, files,
        history
  <2> QED
    BY <2>1, <2>3, <2>6, <2>7
<1>7. CASE WriteCookie
  <2>1. /\ daemon.pc = "200" /\ daemon' = [daemon EXCEPT !.pc = "meta"]
        /\ cookie' = [cookie EXCEPT ![d] = daemon.got.sha256]
        /\ UNCHANGED <<storeVars, sidecar, combined, mem, left, report, faults,
                       history>>
    BY <1>7 DEF WriteCookie
  <2>2. /\ d \in Scope /\ confirmed[d] = NoMeta /\ daemon.got.sha256 \in File
    BY <1>a, <2>1 DEF Honest, ResponseInHand, Synced, FetchInProgress
  <2>3. daemon'.pc = "meta" /\ daemon'.target = d /\ daemon'.got = daemon.got
    BY <1>a, <2>1 DEF HostTyped
  <2>4. HostTyped'
    BY <1>a, <2>1, <2>2 DEF HostTyped, history, Data
  <2>5. Honest'
    BY <1>a, <2>1, <2>2, <2>3
    DEF Honest, ResponseInHand, ReportInHand, SidecarsAreHonest,
        ReportNamesItsCookies, Renders, storeVars
  <2>6. Synced'
    BY <1>a, <2>1, <2>2, <2>3
    DEF Synced, TrustIsWhole, FetchInProgress, SuccessMeansInSync, history,
        HostTyped
  <2> QED
    BY <2>1, <2>4, <2>5, <2>6
<1>8. CASE Accept
  <2> DEFINE m == IF Metadata THEN Received ELSE NoMeta
             trusted == [content |-> daemon.got.sha256, sidecar |-> m,
                         etag |-> daemon.got.etag]
  <2>1. /\ daemon.pc = "meta"
        /\ sidecar' = IF Metadata THEN [sidecar EXCEPT ![d] = m] ELSE sidecar
        /\ mem' = [mem EXCEPT ![d] = trusted]
        /\ confirmed' = [confirmed EXCEPT ![d] = Received] /\ touched' = touched
        /\ daemon' = [Resting EXCEPT !.pc = "next"]
        /\ UNCHANGED <<storeVars, cookie, combined, left, report, faults>>
    BY <1>8 DEF Accept, Success, GiveUp
  <2>2. /\ d \in Scope
        /\ daemon.got \in [revision : Nat, sha256 : File, etag : Hash]
        /\ daemon.got.sha256 = renderNetscape[daemon.got.etag]
        /\ Renders(d, daemon.got.revision, daemon.got.sha256)
        /\ d \notin touched => cookie[d] = daemon.got.sha256
    BY <1>a, <2>1 DEF Honest, ResponseInHand, Synced, FetchInProgress
  <2>3. /\ Received \in Meta /\ m \in Meta
        /\ Received.sha256 = daemon.got.sha256
        /\ Received.revision = daemon.got.revision
    BY <1>c, <2>2 DEF Received, Meta
  <2>4. trusted \in [content : File \cup {NoFile}, sidecar : Meta,
                     etag : Hash \cup {NoFile}]
        /\ trusted.sidecar = m /\ trusted.content = daemon.got.sha256
        /\ trusted.etag = daemon.got.etag
    BY <2>2, <2>3
  <2>5. daemon'.pc = "next"
        /\ daemon' \in [pc : {"idle", "next", "request", "304", "200", "meta"},
                        target : Scope \cup {NoFile}, got : Response]
    BY <2>1 DEF Resting, Response
  <2>6. m # NoMeta => m = Received
    OBVIOUS
  <2>7. sidecar' \in [Scope -> Meta] /\ sidecar'[d] \in {m, sidecar[d]}
        /\ (Metadata => sidecar'[d] = Received)
        /\ \A s \in Scope : s # d => sidecar'[s] = sidecar[s]
    BY <1>a, <2>1, <2>2, <2>3 DEF HostTyped
  <2> HIDE DEF m, trusted
  <2>8. HostTyped'
    BY <1>a, <2>1, <2>2, <2>3, <2>4, <2>5, <2>7 DEF HostTyped
  <2>9. /\ mem'[d] = trusted /\ \A s \in Scope : s # d => mem'[s] = mem[s]
        /\ confirmed'[d] = Received
        /\ \A s \in Scope : s # d => confirmed'[s] = confirmed[s]
    BY <1>a, <2>1, <2>2 DEF HostTyped
  <2>10. SidecarsAreHonest'
    <3> SUFFICES ASSUME NEW s \in Scope, NEW x \in {sidecar'[s], mem'[s].sidecar},
                        x # NoMeta
                 PROVE  Renders(s, x.revision, x.sha256)
      BY <2>1 DEF SidecarsAreHonest, Renders, storeVars
    <3>1. CASE s = d
      BY <1>a, <2>2, <2>3, <2>4, <2>6, <2>7, <2>9, <3>1
      DEF Honest, SidecarsAreHonest
    <3>2. CASE s # d
      BY <1>a, <2>7, <2>9, <3>2 DEF Honest, SidecarsAreHonest
    <3> QED
      BY <3>1, <3>2
  <2>11. Honest'
    BY <1>a, <2>1, <2>5, <2>10
    DEF Honest, ResponseInHand, ReportInHand, ReportNamesItsCookies, Renders,
        storeVars
  <2>12. TrustIsWhole'
    BY <1>a, <2>2, <2>3, <2>4, <2>9, HostAssumption
    DEF Synced, TrustIsWhole, m
  <2>13. SuccessMeansInSync'
    BY <1>a, <2>1, <2>2, <2>3, <2>7, <2>9 DEF Synced, SuccessMeansInSync
  <2>14. Synced'
    BY <2>5, <2>12, <2>13 DEF Synced, FetchInProgress
  <2> QED
    BY <2>1, <2>8, <2>11, <2>14
<1>9. CASE Combine
  <2> DEFINE jar == [s \in Scope |-> lastGoodContent(s)]
  <2>1. /\ combined' \in {jar, combined} /\ daemon' = Resting
        /\ UNCHANGED <<storeVars, cookie, sidecar, mem, left, report, faults,
                       history>>
    BY <1>9 DEF Combine
  <2>2. jar \in [Scope -> Data \ {Broken}]
    BY HostAssumption DEF lastGoodContent, validCookieFile, Data
  <2>3. daemon'.pc = "idle"
        /\ daemon' \in [pc : {"idle", "next", "request", "304", "200", "meta"},
                        target : Scope \cup {NoFile}, got : Response]
    BY <2>1 DEF Resting, Response
  <2> HIDE DEF jar
  <2>4. HostTyped'
    BY <1>a, <2>1, <2>2, <2>3 DEF HostTyped, history
  <2>5. Honest'
    BY <1>a, <2>1, <2>3
    DEF Honest, ResponseInHand, ReportInHand, SidecarsAreHonest,
        ReportNamesItsCookies, Renders, storeVars
  <2>6. Synced'
    BY <1>a, <2>1, <2>3
    DEF Synced, TrustIsWhole, FetchInProgress, SuccessMeansInSync, history
  <2> QED
    BY <2>1, <2>4, <2>5, <2>6
<1> QED
  BY <1>1, <1>2, <1>3, <1>4, <1>5, <1>6, <1>7, <1>8, <1>9 DEF Daemon

----------------------------------------------------------------------------
(* Faults.                                                                 *)

\* Failed requests and writes, crashes, and changes made by others.
LEMMA FaultyStep ==
  ASSUME SyncInv, Faulty
  PROVE  UNCHANGED storeVars /\ HostTyped' /\ Honest' /\ Synced'
<1> DEFINE d == daemon.target
<1>a. TypeOK /\ Ledger /\ HostTyped /\ Honest /\ Synced
  BY DEF SyncInv, TypeWindow
<1>b. left \subseteq Scope /\ faults \in 0..MaxFaults
  BY <1>a DEF HostTyped
<1>c. Fault => faults' \in 0..MaxFaults
  BY <1>b, HostAssumption DEF Fault
<1>d. ASSUME daemon' \in {Resting, [Resting EXCEPT !.pc = "next"]}
      PROVE  daemon'.pc \in {"idle", "next"}
        /\ daemon' \in [pc : {"idle", "next", "request", "304", "200", "meta"},
                        target : Scope \cup {NoFile}, got : Response]
  BY <1>d DEF Resting, Response
<1>1. CASE RequestFails
  <2>1. UNCHANGED <<storeVars, files, mem, report>> /\ left' = left
        /\ daemon' = [Resting EXCEPT !.pc = "next"] /\ Fault /\ UNCHANGED history
    BY <1>1 DEF RequestFails, GiveUp
  <2> QED
    BY <1>a, <1>b, <1>c, <2>1, DaemonLetsGo
<1>2. CASE CombineFails
  <2>1. UNCHANGED <<storeVars, files, mem, report>> /\ left' = left
        /\ daemon' = Resting /\ Fault /\ UNCHANGED history
    BY <1>2 DEF CombineFails
  <2> QED
    BY <1>a, <1>b, <1>c, <2>1, DaemonLetsGo
<1>3. CASE WriteFails
  <2>1. /\ daemon.pc \in {"200", "meta"}
        /\ cookie' \in {cookie, [cookie EXCEPT ![d] = daemon.got.sha256]}
        /\ sidecar' \in {sidecar, [sidecar EXCEPT ![d] = Received]}
        /\ daemon' = [Resting EXCEPT !.pc = "next"] /\ Fault
        /\ UNCHANGED <<storeVars, combined, mem, left, report, history>>
    BY <1>3 DEF WriteFails, GiveUp
  <2>2. /\ d \in Scope /\ confirmed[d] = NoMeta
        /\ daemon.got \in [revision : Nat, sha256 : File, etag : Hash]
        /\ Renders(d, daemon.got.revision, daemon.got.sha256)
    BY <1>a, <2>1 DEF Honest, ResponseInHand, Synced, FetchInProgress
  <2>3. /\ Received \in Meta /\ Received.sha256 = daemon.got.sha256
        /\ Received.revision = daemon.got.revision
    BY <2>2 DEF Received, Meta
  <2>4. HostTyped'
    <3>1. cookie' \in [Scope -> Data]
      BY <1>a, <2>1, <2>2 DEF HostTyped, Data
    <3>2. sidecar' \in [Scope -> Meta]
      BY <1>a, <2>1, <2>2, <2>3 DEF HostTyped
    <3> QED  BY <1>a, <1>c, <1>d, <2>1, <3>1, <3>2 DEF HostTyped, history
  <2>5. /\ sidecar'[d] \in {sidecar[d], Received}
        /\ \A s \in Scope : s # d => sidecar'[s] = sidecar[s]
                                     /\ cookie'[s] = cookie[s]
    BY <1>a, <2>1, <2>2 DEF HostTyped
  <2>6. SidecarsAreHonest'
    BY <1>a, <2>1, <2>2, <2>3, <2>5
    DEF Honest, SidecarsAreHonest, Renders, storeVars
  <2>7. Honest'
    BY <1>a, <1>d, <2>1, <2>6
    DEF Honest, ResponseInHand, ReportInHand, ReportNamesItsCookies, Renders,
        storeVars
  <2>8. Synced'
    BY <1>a, <1>d, <2>1, <2>2, <2>5
    DEF Synced, TrustIsWhole, FetchInProgress, SuccessMeansInSync, history
  <2> QED
    BY <2>1, <2>4, <2>7, <2>8
<1>4. CASE Crash
  <2>1. /\ mem' = [s \in Scope |-> Nothing] /\ daemon' = Resting /\ left' = {}
        /\ Fault /\ UNCHANGED <<storeVars, files, report, history>>
    BY <1>4 DEF Crash
  <2>2. Nothing \in [content : File \cup {NoFile}, sidecar : Meta,
                     etag : Hash \cup {NoFile}]
        /\ Nothing.sidecar = NoMeta /\ Nothing.content = NoFile
        /\ Nothing.etag = NoFile
    BY DEF Nothing, Meta
  <2>3. HostTyped'
    BY <1>a, <1>c, <1>d, <2>1, <2>2 DEF HostTyped, files, history
  <2>4. Honest'
    BY <1>a, <1>d, <2>1, <2>2
    DEF Honest, ResponseInHand, ReportInHand, SidecarsAreHonest,
        ReportNamesItsCookies, Renders, files, storeVars
  <2>5. Synced'
    BY <1>a, <1>d, <2>1, <2>2
    DEF Synced, TrustIsWhole, FetchInProgress, SuccessMeansInSync, files,
        history
  <2> QED
    BY <2>1, <2>3, <2>4, <2>5
<1>5. ASSUME NEW s \in Scope, LocalChange(s)
      PROVE  UNCHANGED storeVars /\ HostTyped' /\ Honest' /\ Synced'
  <2>1. /\ cookie' \in {cookie} \cup
             {[cookie EXCEPT ![s] = data] : data \in {NoFile, Foreign, Broken}}
        /\ sidecar' \in {sidecar, [sidecar EXCEPT ![s] = NoMeta]}
        /\ touched' = touched \cup {s} /\ Fault
        /\ UNCHANGED <<storeVars, combined, mem, daemon, left, report, confirmed>>
    BY <1>5 DEF LocalChange
  <2>2. NoMeta \in Meta
    BY DEF Meta
  <2>3. HostTyped'
    BY <1>a, <1>c, <2>1, <2>2 DEF HostTyped, Data
  <2>4. /\ sidecar'[s] \in {sidecar[s], NoMeta}
        /\ \A q \in Scope : q # s => sidecar'[q] = sidecar[q]
                                     /\ cookie'[q] = cookie[q]
    BY <1>a, <2>1 DEF HostTyped
  <2>5. Honest'
    BY <1>a, <2>1, <2>4
    DEF Honest, ResponseInHand, ReportInHand, SidecarsAreHonest,
        ReportNamesItsCookies, Renders, storeVars
  <2>6. Synced'
    BY <1>a, <2>1, <2>4
    DEF Synced, TrustIsWhole, FetchInProgress, SuccessMeansInSync, Honest,
        ResponseInHand
  <2> QED
    BY <2>1, <2>3, <2>5, <2>6
<1> QED
  BY <1>1, <1>2, <1>3, <1>4, <1>5 DEF Faulty

----------------------------------------------------------------------------
(* The invariant and what follows from it.                                 *)

\* Every step keeps SyncInv, and is a step of the store or leaves it alone.
LEMMA SyncStep ==
  ASSUME SyncInv, [SyncNext]_syncVars
  PROVE  [Next]_storeVars /\ SyncInv'
<1>1. ASSUME Broker
      PROVE  [Next]_storeVars /\ HostTyped' /\ Honest' /\ Synced'
  <2>1. [Next]_storeVars
        /\ UNCHANGED <<files, mem, daemon, left, report, faults, history>>
    BY <1>1 DEF Broker, Next
  <2> QED
    BY <2>1, HistoryGrows, BrokerKeepsHost DEF SyncInv
<1>2. ASSUME UNCHANGED syncVars
      PROVE  [Next]_storeVars /\ HostTyped' /\ Honest' /\ Synced'
  <2>1. UNCHANGED storeVars /\ published' = published
        /\ UNCHANGED <<files, mem, daemon, left, report, faults, history>>
    BY <1>2 DEF syncVars, storeVars
  <2> QED
    BY <2>1, BrokerKeepsHost DEF SyncInv
<1>3. [Next]_storeVars /\ HostTyped' /\ Honest' /\ Synced'
  BY <1>1, <1>2, DaemonStep, FaultyStep, ReporterStep DEF SyncNext
<1>4. TypeWindow' /\ Ledger'
  BY <1>3, TypeWindowStep, LedgerStep DEF SyncInv
<1> QED
  BY <1>3, <1>4 DEF SyncInv

\* SyncInv holds in every reachable state.
LEMMA SyncInvariant == SyncSpec => []SyncInv
<1>1. SyncInv /\ [SyncNext]_syncVars => SyncInv'
  BY SyncStep
<1> QED
  BY <1>1, SyncInvInit, PTL DEF SyncSpec

\* Tables, files and processes keep their shapes.
THEOREM SyncTypeCorrect == SyncSpec => []SyncTypeOK
<1>1. SyncInv => SyncTypeOK
  BY DEF SyncInv, TypeWindow, HostTyped, SyncTypeOK
<1> QED
  BY <1>1, SyncInvariant, PTL

\* The report command never names a revision other than the one whose bytes
\* it has read, whatever the daemon and others do to the two files meanwhile.
THEOREM ReportsAreAccurate == SyncSpec => []ReportNamesItsCookies
<1>1. SyncInv => ReportNamesItsCookies
  BY DEF SyncInv, Honest
<1> QED
  BY <1>1, SyncInvariant, PTL

\* No sidecar, on disk or trusted by the daemon, describes bytes that were not
\* published under its revision.
THEOREM TamperingNotPromoted == SyncSpec => []SidecarsAreHonest
<1>1. SyncInv => SidecarsAreHonest
  BY DEF SyncInv, Honest
<1> QED
  BY <1>1, SyncInvariant, PTL

\* A fetch that returns without error leaves both files in sync with what the
\* broker answered, 304 included.
THEOREM FetchSynchronizes == SyncSpec => []SuccessMeansInSync
<1>1. SyncInv => SuccessMeansInSync
  BY DEF SyncInv, Synced
<1> QED
  BY <1>1, SyncInvariant, PTL

\* A target leaves the combined jar only when the daemon trusts nothing and
\* the file on disk is unusable.
THEOREM JarIsLastKnownGood == SyncSpec => JarKeepsTargets
<1> DEFINE Kept == \A s \in Scope : combined[s] # NoFile /\ combined'[s] = NoFile =>
                       mem[s] = Nothing /\ ~validCookieFile(cookie[s])
<1>1. ASSUME SyncInv, [SyncNext]_syncVars
      PROVE  Kept
  <2>1. CASE Combine
    <3> SUFFICES ASSUME NEW s \in Scope, combined[s] # NoFile,
                        combined'[s] = NoFile
                 PROVE  mem[s] = Nothing /\ ~validCookieFile(cookie[s])
      OBVIOUS
    <3>1. lastGoodContent(s) = NoFile
      BY <2>1 DEF Combine
    <3>2. mem[s].content \in File \cup {NoFile}
          /\ (mem[s].content = NoFile => mem[s] = Nothing)
      BY <1>1 DEF SyncInv, HostTyped, Synced, TrustIsWhole
    <3> QED
      BY <3>1, <3>2, HostAssumption DEF lastGoodContent, validCookieFile
  <2>2. CASE UNCHANGED combined
    BY <2>2
  <2>3. Combine \/ UNCHANGED combined
    BY <1>1
    DEF SyncNext, Broker, Daemon, Faulty, Reporter, StartRound, NextTarget,
        Request, RequestRefused, NotModified, Refetch, WriteCookie, Accept,
        RequestFails, WriteFails, CombineFails, Crash, LocalChange, ReadCookie,
        ReadSidecar, SendReport, SendFails, files, syncVars
  <2> QED
    BY <2>1, <2>2, <2>3
<1>2. SyncInv /\ [SyncNext]_syncVars => [Kept]_syncVars
  BY <1>1
<1> QED
  BY <1>2, SyncInvariant, PTL DEF SyncSpec, JarKeepsTargets
============================================================================
