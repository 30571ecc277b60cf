-------------------------- MODULE MonitorFeedProofs --------------------------
(***************************************************************************)
(* For any number of tabs, connections, events and disturbances: a page    *)
(* has one socket, a page that was left has none, and what a page shows    *)
(* goes back only where a first snapshot overtook the broadcast that is    *)
(* going round.                                                            *)
(***************************************************************************)
EXTENDS MonitorFeed, FiniteSetTheorems, TLAPS

ConnRecord == [tab : Tabs \cup {NoTab}, st : {"free", "live", "gone"},
               h : {"none", "build", "receive"}]

RoundRecord == [msg : 0 .. MaxLog, size : 0 .. Cardinality(Conns),
                sent : SUBSET Conns, joined : BOOLEAN, dead : SUBSET Conns]

(* A connection in use is some tab's. *)
ConnsHaveTabs == \A c \in Conns : conn[c].st # "free" => conn[c].tab \in Tabs

(* The hook knows of the live connection of its tab, and of no second one; a
   hook that was disposed of does nothing. *)
HookMatchesConn ==
    /\ \A b, c \in Conns :
          conn[b].st = "live" /\ conn[c].st = "live" /\ conn[b].tab = conn[c].tab => b = c
    /\ \A c \in Conns : conn[c].st = "live" => sock[conn[c].tab] = "open"
    /\ \A t \in Tabs : sock[t] = "open" => \E c \in Conns : conn[c].tab = t /\ conn[c].st = "live"
    /\ \A t \in Tabs : ~ page[t] => sock[t] = "none"

(* Nobody is ahead of the log, and a tab that is ahead of the round got there
   by a first snapshot. *)
AheadIsGreeted ==
    /\ round.msg <= log
    /\ \A t \in Tabs : seen[t] <= log
    /\ task = "send" => \A t \in Tabs : seen[t] > round.msg => t \in greeted

FeedInv == TypeOK /\ ConnsHaveTabs /\ HookMatchesConn /\ AheadIsGreeted

(* The types the proofs use. *)
LEMMA FeedTypes ==
    ASSUME FeedInv
    PROVE  /\ up \in BOOLEAN /\ log \in 0 .. MaxLog /\ clients \subseteq Conns
           /\ round \in RoundRecord /\ conn \in [Conns -> ConnRecord]
           /\ page \in [Tabs -> BOOLEAN]
           /\ sock \in [Tabs -> {"none", "connecting", "open", "wait"}]
           /\ seen \in [Tabs -> 0 .. MaxLog] /\ greeted \subseteq Tabs
           /\ churn \in 0 .. MaxChurn /\ MaxLog \in Nat /\ MaxChurn \in Nat
BY MonitorAssumption DEF FeedInv, TypeOK, ConnRecord, RoundRecord

(* The resting records. *)
LEMMA RestingRecords ==
    /\ NoConn \in ConnRecord /\ NoConn.st = "free" /\ NoConn.h = "none"
    /\ NoRound \in RoundRecord /\ NoRound.msg = 0
<1>1. Cardinality(Conns) \in Nat
  BY MonitorAssumption, FS_CardinalityType
<1> QED BY <1>1, MonitorAssumption DEF NoConn, NoRound, ConnRecord, RoundRecord

(* The disturbances are counted. *)
LEMMA ChurnTypes ==
    ASSUME FeedInv, Churn
    PROVE  churn' \in 0 .. MaxChurn
BY FeedTypes DEF Churn

(* The number of clients is bounded by the number of connections. *)
LEMMA ClientsCounted ==
    ASSUME FeedInv
    PROVE  Cardinality(clients) \in 0 .. Cardinality(Conns)
<1>1. IsFiniteSet(clients) /\ Cardinality(clients) <= Cardinality(Conns)
  BY FeedTypes, MonitorAssumption, FS_Subset
<1>2. Cardinality(clients) \in Nat /\ Cardinality(Conns) \in Nat
  BY <1>1, MonitorAssumption, FS_CardinalityType
<1> QED BY <1>1, <1>2

(* The property of the runs follows: the live connections of a tab are none
   or one. *)
LEMMA SocketsCounted ==
    ASSUME FeedInv
    PROVE  OneSocketPerTab
<1> SUFFICES ASSUME NEW t \in Tabs, NEW live,
                    live = {c \in Conns : conn[c].tab = t /\ conn[c].st = "live"}
             PROVE  /\ Cardinality(live) <= 1
                    /\ ~ page[t] => live = {} /\ sock[t] = "none"
                    /\ sock[t] = "open" <=> live # {}
  BY DEF OneSocketPerTab
<1>1. Cardinality(live) <= 1
  <2>1. CASE live = {}
    <3>1. Cardinality(live) = 0
      BY <2>1, FS_EmptySet
    <3> QED BY <3>1
  <2>2. ASSUME NEW c \in live
        PROVE  Cardinality(live) <= 1
    <3>1. live = {c}
      BY <2>2 DEF FeedInv, HookMatchesConn
    <3>2. Cardinality(live) = 1
      BY <3>1, FS_Singleton
    <3> QED BY <3>2
  <2> QED BY <2>1, <2>2
<1>2. sock[t] = "open" <=> live # {}
  BY DEF FeedInv, HookMatchesConn
<1>3. ~ page[t] => sock[t] = "none"
  BY DEF FeedInv, HookMatchesConn
<1> QED BY <1>1, <1>2, <1>3

-----------------------------------------------------------------------------
(* monitor_service and the hook *)

(* An event grows the log. *)
LEMMA LogEventKeeps ==
    ASSUME FeedInv, log_event
    PROVE  FeedInv'
<1>1. /\ log' \in 0 .. MaxLog /\ log' = log + 1
      /\ UNCHANGED <<up, clients, task, round, conn, page, sock, seen, greeted, churn>>
  BY FeedTypes DEF log_event
<1>2. TypeOK'
  BY <1>1 DEF FeedInv, TypeOK
<1>3. ConnsHaveTabs' /\ HookMatchesConn'
  BY <1>1 DEF FeedInv, ConnsHaveTabs, HookMatchesConn
<1>4. AheadIsGreeted'
  <2>1. round.msg \in 0 .. MaxLog
    BY FeedTypes DEF RoundRecord
  <2> QED BY <1>1, <2>1, FeedTypes DEF FeedInv, AheadIsGreeted
<1> QED BY <1>2, <1>3, <1>4 DEF FeedInv

(* A page opens: its hook connects, it shows nothing yet. *)
LEMMA MountKeeps ==
    ASSUME FeedInv, NEW t \in Tabs, Mount(t)
    PROVE  FeedInv'
<1>1. /\ sock[t] = "none" /\ churn' \in 0 .. MaxChurn
      /\ page' = [page EXCEPT ![t] = TRUE] /\ sock' = [sock EXCEPT ![t] = "connecting"]
      /\ seen' = [seen EXCEPT ![t] = 0]
      /\ UNCHANGED <<up, log, clients, task, round, conn, greeted>>
  BY ChurnTypes DEF Mount
<1>2. TypeOK'
  BY <1>1, FeedTypes DEF FeedInv, TypeOK
<1>3. ConnsHaveTabs' /\ HookMatchesConn'
  BY <1>1, FeedTypes DEF FeedInv, ConnsHaveTabs, HookMatchesConn
<1>4. AheadIsGreeted'
  <2>1. round.msg \in 0 .. MaxLog
    BY FeedTypes DEF RoundRecord
  <2> QED BY <1>1, <2>1, FeedTypes DEF FeedInv, AheadIsGreeted
<1> QED BY <1>2, <1>3, <1>4 DEF FeedInv

(* A page is left: its live connection goes. *)
LEMMA UnmountKeeps ==
    ASSUME FeedInv, NEW t \in Tabs, Unmount(t)
    PROVE  FeedInv'
<1>1. /\ churn' \in 0 .. MaxChurn
      /\ page' = [page EXCEPT ![t] = FALSE] /\ sock' = [sock EXCEPT ![t] = "none"]
      /\ conn' = [c \in Conns |-> IF conn[c].tab = t /\ conn[c].st = "live"
                                  THEN Gone(c) ELSE conn[c]]
      /\ UNCHANGED <<up, log, clients, task, round, seen, greeted>>
  BY ChurnTypes DEF Unmount, Dispose
<1>2. ASSUME NEW c \in Conns
      PROVE  /\ conn'[c] \in ConnRecord /\ conn'[c].tab = conn[c].tab
             /\ conn'[c].st = "free" => conn'[c] = conn[c]
             /\ conn'[c].st = "live" <=> conn[c].st = "live" /\ conn[c].tab # t
             /\ conn'[c].st # "free" => conn[c].st # "free"
  <2>1. conn[c] \in ConnRecord
    BY FeedTypes
  <2>2. CASE conn[c].tab = t /\ conn[c].st = "live"
    <3>1. conn'[c] = [conn[c] EXCEPT !.st = "gone"]
      BY <1>1, <2>2 DEF Gone
    <3> QED BY <2>1, <2>2, <3>1 DEF ConnRecord
  <2>3. CASE ~ (conn[c].tab = t /\ conn[c].st = "live")
    BY <1>1, <2>1, <2>3
  <2> QED BY <2>2, <2>3
<1>3. TypeOK'
  <2>1. conn' \in [Conns -> ConnRecord]
    BY <1>1, <1>2
  <2> QED BY <1>1, <1>2, <2>1, FeedTypes DEF FeedInv, TypeOK, ConnRecord
<1>4. ConnsHaveTabs'
  BY <1>2 DEF FeedInv, ConnsHaveTabs
<1>5. HookMatchesConn'
  BY <1>1, <1>2, FeedTypes DEF FeedInv, HookMatchesConn
<1>6. AheadIsGreeted'
  BY <1>1 DEF FeedInv, AheadIsGreeted
<1> QED BY <1>3, <1>4, <1>5, <1>6 DEF FeedInv

(* A refused connection waits for its timer, and the timer connects again. *)
LEMMA TimerKeeps ==
    ASSUME FeedInv, NEW t \in Tabs, Refused(t) \/ Reconnect(t)
    PROVE  FeedInv'
<1>1. /\ sock[t] \in {"connecting", "wait"}
      /\ \E x \in {"connecting", "wait"} : sock' = [sock EXCEPT ![t] = x]
      /\ UNCHANGED <<up, log, clients, task, round, conn, page, seen, greeted, churn>>
  BY DEF Refused, Reconnect
<1>2. TypeOK'
  BY <1>1, FeedTypes DEF FeedInv, TypeOK
<1>3. ConnsHaveTabs' /\ AheadIsGreeted'
  BY <1>1 DEF FeedInv, ConnsHaveTabs, AheadIsGreeted
<1>4. HookMatchesConn'
  BY <1>1, FeedTypes DEF FeedInv, HookMatchesConn
<1> QED BY <1>2, <1>3, <1>4 DEF FeedInv

(* A connection breaks and its hook waits. *)
LEMMA BreakKeeps ==
    ASSUME FeedInv, NEW c \in Conns, Break(c)
    PROVE  FeedInv'
<1> PICK t \in Tabs : t = conn[c].tab
  BY DEF FeedInv, ConnsHaveTabs, Break
<1> PICK q : q = [conn[c] EXCEPT !.st = "gone"]
  OBVIOUS
<1>1. /\ conn[c].st = "live" /\ churn' \in 0 .. MaxChurn
      /\ sock' = [sock EXCEPT ![t] = "wait"] /\ conn' = [conn EXCEPT ![c] = q]
      /\ UNCHANGED <<up, log, clients, task, round, page, seen, greeted>>
  BY ChurnTypes DEF Break, Gone
<1>2. q \in ConnRecord /\ q.st = "gone" /\ q.tab = t
  <2>1. conn[c] \in ConnRecord
    BY FeedTypes
  <2> QED BY <2>1 DEF ConnRecord
<1>3. /\ conn' \in [Conns -> ConnRecord] /\ conn'[c] = q
      /\ \A b \in Conns \ {c} : conn'[b] = conn[b]
  BY <1>1, <1>2, FeedTypes
<1>4. TypeOK'
  BY <1>1, <1>2, <1>3, FeedTypes DEF FeedInv, TypeOK, ConnRecord
<1>5. ConnsHaveTabs'
  BY <1>2, <1>3 DEF FeedInv, ConnsHaveTabs
<1>6. HookMatchesConn'
  BY <1>1, <1>2, <1>3, FeedTypes DEF FeedInv, HookMatchesConn
<1>7. AheadIsGreeted'
  BY <1>1 DEF FeedInv, AheadIsGreeted
<1> QED BY <1>4, <1>5, <1>6, <1>7 DEF FeedInv

-----------------------------------------------------------------------------
(* monitor_websocket *)

(* A connection is accepted for a tab that has none. *)
LEMMA AcceptKeeps ==
    ASSUME FeedInv, NEW t \in Tabs, Accept(t)
    PROVE  FeedInv'
<1> PICK c \in Conns : conn[c] = NoConn /\ c = CHOOSE b \in Conns : conn[b] = NoConn
  BY DEF Accept
<1> PICK q : q = [tab |-> t, st |-> "live", h |-> "build"]
  OBVIOUS
<1> PICK j \in BOOLEAN : j = (round.joined \/ task = "send")
  BY FeedTypes DEF RoundRecord
<1>1. /\ sock[t] = "connecting" /\ sock' = [sock EXCEPT ![t] = "open"]
      /\ conn' = [conn EXCEPT ![c] = q] /\ clients' = clients \cup {c}
      /\ round' = [round EXCEPT !.joined = j]
      /\ UNCHANGED <<up, log, task, page, seen, greeted, churn>>
  BY DEF Accept
<1>2. q \in ConnRecord /\ q.st = "live" /\ q.tab = t
  BY DEF ConnRecord
<1>3. /\ conn' \in [Conns -> ConnRecord] /\ conn'[c] = q
      /\ \A b \in Conns \ {c} : conn'[b] = conn[b]
  BY <1>1, <1>2, FeedTypes
<1>4. round' \in RoundRecord /\ round'.msg = round.msg
  BY <1>1, FeedTypes DEF RoundRecord
<1>5. TypeOK'
  BY <1>1, <1>2, <1>3, <1>4, FeedTypes DEF FeedInv, TypeOK, ConnRecord, RoundRecord
<1>6. ConnsHaveTabs'
  BY <1>2, <1>3 DEF FeedInv, ConnsHaveTabs
<1>7. HookMatchesConn'
  <2>1. conn[c].st = "free"
    BY RestingRecords
  <2>2. \A b \in Conns : conn[b].st = "live" => b # c /\ conn[b].tab # t
    BY <1>1, <2>1 DEF FeedInv, HookMatchesConn
  <2>3. \A b \in Conns : conn[b].st = "live" => conn[b].tab \in Tabs \ {t}
    BY <2>2 DEF FeedInv, ConnsHaveTabs
  <2>4. sock'[t] = "open" /\ \A x \in Tabs \ {t} : sock'[x] = sock[x]
    BY <1>1, FeedTypes
  <2>a. \A b \in Conns \ {c} : conn'[b].st = conn[b].st /\ conn'[b].tab = conn[b].tab
    BY <1>3
  <2>b. conn'[c].st = "live" /\ conn'[c].tab = t
    BY <1>2, <1>3
  <2>c. \A a, b \in Conns :
           conn[a].st = "live" /\ conn[b].st = "live" /\ conn[a].tab = conn[b].tab => a = b
    BY DEF FeedInv, HookMatchesConn
  <2>d. \A b \in Conns : conn[b].st = "live" => sock[conn[b].tab] = "open"
    BY DEF FeedInv, HookMatchesConn
  <2>5. \A a, b \in Conns :
           conn'[a].st = "live" /\ conn'[b].st = "live" /\ conn'[a].tab = conn'[b].tab => a = b
    BY ZenonT(30), <2>2, <2>a, <2>b, <2>c
  <2>6. \A b \in Conns : conn'[b].st = "live" => sock'[conn'[b].tab] = "open"
    BY <2>3, <2>4, <2>a, <2>b, <2>d
  <2>7. \A x \in Tabs : sock'[x] = "open" => \E b \in Conns : conn'[b].tab = x /\ conn'[b].st = "live"
    <3> SUFFICES ASSUME NEW x \in Tabs, sock'[x] = "open"
                 PROVE  \E b \in Conns : conn'[b].tab = x /\ conn'[b].st = "live"
      OBVIOUS
    <3>1. CASE x = t
      BY <1>2, <1>3, <3>1
    <3>2. CASE x # t
      <4>1. PICK b \in Conns : conn[b].tab = x /\ conn[b].st = "live"
        BY <2>4, <3>2 DEF FeedInv, HookMatchesConn
      <4> QED BY <1>3, <2>1, <4>1
    <3> QED BY <3>1, <3>2
  <2>8. \A x \in Tabs : ~ page'[x] => sock'[x] = "none"
    BY <1>1, <2>4 DEF FeedInv, HookMatchesConn
  <2> QED BY <2>5, <2>6, <2>7, <2>8 DEF HookMatchesConn
<1>8. AheadIsGreeted'
  BY <1>1, <1>4 DEF FeedInv, AheadIsGreeted
<1> QED BY <1>5, <1>6, <1>7, <1>8 DEF FeedInv

(* The first snapshot: the tab is up to date, and overtakes the round. *)
LEMMA GreetKeeps ==
    ASSUME FeedInv, NEW c \in Conns, Greet(c)
    PROVE  FeedInv'
<1>0. conn[c] \in ConnRecord /\ conn[c].h = "build" /\ conn[c].st # "free"
  BY FeedTypes, RestingRecords DEF Greet, FeedInv, TypeOK
<1> PICK t \in Tabs : t = conn[c].tab
  BY <1>0 DEF FeedInv, ConnsHaveTabs
<1> PICK q : q = [conn[c] EXCEPT !.h = "receive"]
  OBVIOUS
<1>1. /\ conn' = [conn EXCEPT ![c] = q]
      /\ seen' = IF conn[c].st = "live" THEN [seen EXCEPT ![t] = log] ELSE seen
      /\ greeted' = IF task = "send" THEN greeted \cup {t} ELSE greeted
      /\ UNCHANGED <<up, log, clients, task, round, page, sock, churn>>
  BY DEF Greet
<1>2. q \in ConnRecord /\ q.st = conn[c].st /\ q.tab = t
  BY <1>0 DEF ConnRecord
<1>3. /\ conn' \in [Conns -> ConnRecord] /\ conn'[c] = q
      /\ \A b \in Conns \ {c} : conn'[b] = conn[b]
      /\ \A b \in Conns : conn'[b].st = conn[b].st /\ conn'[b].tab = conn[b].tab
  BY <1>1, <1>2, FeedTypes
<1>4. TypeOK'
  BY <1>0, <1>1, <1>2, <1>3, FeedTypes DEF FeedInv, TypeOK, ConnRecord
<1>5. ConnsHaveTabs' /\ HookMatchesConn'
  BY <1>1, <1>3 DEF FeedInv, ConnsHaveTabs, HookMatchesConn
<1>6. AheadIsGreeted'
  <2>1. \A x \in Tabs : seen'[x] \in Nat /\ seen'[x] <= log /\ (x # t => seen'[x] = seen[x])
    BY <1>1, FeedTypes DEF FeedInv, AheadIsGreeted
  <2> QED BY <1>1, <2>1 DEF FeedInv, AheadIsGreeted
<1> QED BY <1>4, <1>5, <1>6 DEF FeedInv

(* The round's account of a connection that is dropped. *)
LEMMA ForgottenFacts ==
    ASSUME FeedInv, NEW c
    PROVE  Forgotten(c) \in RoundRecord /\ Forgotten(c).msg = round.msg
BY FeedTypes DEF Forgotten, RoundRecord

(* An endpoint ends, because the database failed or its connection had gone;
   it leaves the clients. *)
LEMMA EndKeeps ==
    ASSUME FeedInv, NEW c \in Conns, GreetFails(c) \/ Leave(c)
    PROVE  FeedInv'
<1>0. conn[c] \in ConnRecord /\ conn[c].st # "free"
  BY FeedTypes, RestingRecords DEF GreetFails, Leave, FeedInv, TypeOK
<1> PICK t \in Tabs : t = conn[c].tab
  BY <1>0 DEF FeedInv, ConnsHaveTabs
<1>1. /\ clients' = clients \ {c} /\ conn' = [conn EXCEPT ![c] = NoConn]
      /\ sock' = IF conn[c].st = "live" THEN [sock EXCEPT ![t] = "wait"] ELSE sock
      /\ round' = Forgotten(c) /\ churn' \in 0 .. MaxChurn
      /\ UNCHANGED <<up, log, task, page, seen, greeted>>
  BY ChurnTypes, FeedTypes DEF GreetFails, Leave, Discarded
<1>2. /\ conn' \in [Conns -> ConnRecord] /\ conn'[c] = NoConn
      /\ \A b \in Conns \ {c} : conn'[b] = conn[b]
  BY <1>1, FeedTypes, RestingRecords
<1>3. TypeOK'
  BY <1>1, <1>2, FeedTypes, ForgottenFacts DEF FeedInv, TypeOK, ConnRecord, RoundRecord
<1>4. ConnsHaveTabs'
  BY <1>2, RestingRecords DEF FeedInv, ConnsHaveTabs
<1>5. HookMatchesConn'
  BY <1>0, <1>1, <1>2, FeedTypes, RestingRecords DEF FeedInv, HookMatchesConn
<1>6. AheadIsGreeted'
  BY <1>1, ForgottenFacts DEF FeedInv, AheadIsGreeted
<1> QED BY <1>3, <1>4, <1>5, <1>6 DEF FeedInv

-----------------------------------------------------------------------------
(* _broadcast_loop *)

(* The broadcast wakes, or fails and goes back to sleep. *)
LEMMA WakeKeeps ==
    ASSUME FeedInv, Wake \/ BuildFails
    PROVE  FeedInv'
<1>1. /\ task' \in {"idle", "build"} /\ churn' \in 0 .. MaxChurn
      /\ UNCHANGED <<up, log, clients, round, conn, page, sock, seen, greeted>>
  BY ChurnTypes, FeedTypes DEF Wake, BuildFails, AfterError
<1>2. TypeOK'
  BY <1>1 DEF FeedInv, TypeOK
<1> QED BY <1>1, <1>2 DEF FeedInv, ConnsHaveTabs, HookMatchesConn, AheadIsGreeted

(* A round begins with a snapshot that nobody is ahead of. *)
LEMMA BuildKeeps ==
    ASSUME FeedInv, Build
    PROVE  FeedInv'
<1> PICK n \in 0 .. Cardinality(Conns) : n = Cardinality(clients)
  BY ClientsCounted
<1>1. /\ task' = "send" /\ round' = [NoRound EXCEPT !.msg = log, !.size = n] /\ greeted' = {}
      /\ UNCHANGED <<up, log, clients, conn, page, sock, seen, churn>>
  BY DEF Build, Message
<1>2. round' \in RoundRecord /\ round'.msg = log
  BY <1>1, FeedTypes, RestingRecords DEF RoundRecord
<1>3. TypeOK'
  BY <1>1, <1>2, FeedTypes DEF FeedInv, TypeOK, RoundRecord
<1>4. ConnsHaveTabs' /\ HookMatchesConn'
  BY <1>1 DEF FeedInv, ConnsHaveTabs, HookMatchesConn
<1>5. AheadIsGreeted'
  <2>1. \A t \in Tabs : seen[t] <= log /\ seen[t] \in Nat
    BY FeedTypes DEF FeedInv, AheadIsGreeted
  <2> QED BY <1>1, <1>2, <2>1, FeedTypes DEF AheadIsGreeted
<1> QED BY <1>3, <1>4, <1>5 DEF FeedInv

(* The next client of the round. *)
LEMMA SendKeeps ==
    ASSUME FeedInv, NEW c \in Conns, Send(c)
    PROVE  FeedInv'
<1>1. /\ task = "send" /\ conn[c].st # "free"
      /\ UNCHANGED <<up, log, clients, task, conn, page, sock, greeted, churn>>
  BY DEF Send, FeedInv, TypeOK
<1> PICK t \in Tabs : t = conn[c].tab
  BY <1>1 DEF FeedInv, ConnsHaveTabs
<1>2. seen' = IF conn[c].st = "live" THEN [seen EXCEPT ![t] = round.msg] ELSE seen
  BY DEF Send
<1>3. round' \in RoundRecord /\ round'.msg = round.msg
  <2>1. CASE round' = [round EXCEPT !.sent = @ \cup {c}]
    BY <2>1, FeedTypes DEF RoundRecord
  <2>2. CASE round' = [round EXCEPT !.sent = @ \cup {c}, !.dead = @ \cup {c}]
    BY ZenonT(30), <2>2, FeedTypes DEF RoundRecord
  <2> QED BY <2>1, <2>2 DEF Send
<1>4. round.msg \in 0 .. MaxLog
  BY FeedTypes DEF RoundRecord
<1>5. TypeOK'
  BY <1>1, <1>2, <1>3, <1>4, FeedTypes DEF FeedInv, TypeOK, RoundRecord
<1>6. ConnsHaveTabs' /\ HookMatchesConn'
  BY <1>1 DEF FeedInv, ConnsHaveTabs, HookMatchesConn
<1>7. AheadIsGreeted'
  <2>1. \A x \in Tabs : seen'[x] = seen[x] \/ seen'[x] = round.msg
    BY <1>2, FeedTypes
  <2> QED BY <1>1, <1>3, <1>4, <2>1, FeedTypes DEF FeedInv, AheadIsGreeted
<1> QED BY <1>5, <1>6, <1>7 DEF FeedInv

(* A round ends, or is disrupted. *)
LEMMA RoundEndKeeps ==
    ASSUME FeedInv, Sent \/ Disrupted
    PROVE  FeedInv'
<1>1. /\ task' = "idle" /\ clients' \subseteq clients /\ greeted' = {}
      /\ round' = [NoRound EXCEPT !.msg = round.msg]
      /\ UNCHANGED <<up, log, conn, page, sock, seen, churn>>
  BY DEF Sent, Disrupted, AfterError
<1>2. round' \in RoundRecord /\ round'.msg = round.msg
  BY <1>1, FeedTypes, RestingRecords DEF RoundRecord
<1>3. TypeOK'
  BY <1>1, <1>2 DEF FeedInv, TypeOK, RoundRecord
<1>4. ConnsHaveTabs' /\ HookMatchesConn' /\ AheadIsGreeted'
  BY <1>1, <1>2 DEF FeedInv, ConnsHaveTabs, HookMatchesConn, AheadIsGreeted
<1> QED BY <1>3, <1>4 DEF FeedInv

(* The backend goes down, and comes up. *)
LEMMA DownKeeps ==
    ASSUME FeedInv, Down
    PROVE  FeedInv'
<1>1. /\ up' = FALSE /\ log' = 0 /\ clients' = {} /\ task' = "off" /\ round' = NoRound
      /\ conn' = [c \in Conns |-> NoConn]
      /\ sock' = [t \in Tabs |-> IF sock[t] = "open" THEN "wait" ELSE sock[t]]
      /\ seen' = [t \in Tabs |-> 0] /\ greeted' = {} /\ page' = page
      /\ churn' \in 0 .. MaxChurn
  BY ChurnTypes DEF Down
<1>2. TypeOK'
  BY <1>1, FeedTypes, RestingRecords DEF TypeOK, ConnRecord, RoundRecord
<1>3. ConnsHaveTabs'
  BY <1>1, RestingRecords DEF ConnsHaveTabs
<1>4. HookMatchesConn'
  <2>1. \A c \in Conns : conn'[c].st # "live"
    BY <1>1, RestingRecords
  <2>2. \A t \in Tabs : sock'[t] # "open" /\ (sock[t] = "none" => sock'[t] = "none")
    BY <1>1
  <2> QED BY <1>1, <2>1, <2>2 DEF FeedInv, HookMatchesConn
<1>5. AheadIsGreeted'
  BY <1>1, RestingRecords DEF AheadIsGreeted
<1> QED BY <1>2, <1>3, <1>4, <1>5 DEF FeedInv

(* The backend starts its broadcast with the process. *)
LEMMA BootKeeps ==
    ASSUME FeedInv, Boot
    PROVE  FeedInv'
<1>1. /\ up' = TRUE /\ task' = "idle"
      /\ UNCHANGED <<log, clients, round, conn, page, sock, seen, greeted, churn>>
  BY DEF Boot
<1> QED BY <1>1 DEF FeedInv, TypeOK, ConnsHaveTabs, HookMatchesConn, AheadIsGreeted

-----------------------------------------------------------------------------
(* Every step keeps the invariant. *)
LEMMA FeedStep ==
    ASSUME FeedInv, [Next]_vars
    PROVE  FeedInv'
<1>1. CASE UNCHANGED vars
  BY <1>1 DEF vars, FeedInv, TypeOK, ConnsHaveTabs, HookMatchesConn, AheadIsGreeted
<1>2. ASSUME NEW t \in Tabs, Mount(t) \/ Unmount(t) \/ Refused(t) \/ Reconnect(t) \/ Accept(t)
      PROVE  FeedInv'
  BY <1>2, MountKeeps, UnmountKeeps, TimerKeeps, AcceptKeeps
<1>3. ASSUME NEW c \in Conns, Break(c) \/ Greet(c) \/ GreetFails(c) \/ Leave(c) \/ Send(c)
      PROVE  FeedInv'
  BY <1>3, BreakKeeps, GreetKeeps, EndKeeps, SendKeeps
<1>4. CASE log_event \/ Wake \/ Build \/ Sent \/ Disrupted \/ BuildFails \/ Down \/ Boot
  BY <1>4, LogEventKeeps, WakeKeeps, BuildKeeps, RoundEndKeeps, DownKeeps, BootKeeps
<1> QED BY <1>1, <1>2, <1>3, <1>4 DEF Next

(* It holds at first. *)
LEMMA FeedStart ==
    ASSUME Init
    PROVE  FeedInv
<1>1. TypeOK
  BY RestingRecords, MonitorAssumption DEF Init, TypeOK, ConnRecord, RoundRecord
<1>2. ConnsHaveTabs /\ HookMatchesConn /\ AheadIsGreeted
  BY RestingRecords DEF Init, ConnsHaveTabs, HookMatchesConn, AheadIsGreeted
<1> QED BY <1>1, <1>2 DEF FeedInv

(* The inductive invariant of the feed. *)
THEOREM FeedHolds == Spec => []FeedInv
BY FeedStart, FeedStep, PTL DEF Spec

(* Log, clients, round and connections keep their types; a free connection is
   nobody's client. *)
THEOREM FeedTypesHold == Spec => []TypeOK
BY FeedHolds, PTL DEF FeedInv

(* A page has at most one socket, and a page that was left none and never
   gets one (the hook's cleanup in useWebSocket.ts). *)
THEOREM PagesHaveOneSocket == Spec => []OneSocketPerTab
BY FeedHolds, SocketsCounted, PTL

(* What a step may do to what a tab shows. *)
FallsBackLegally ==
    \A t \in Tabs :
        up' /\ page[t] /\ seen'[t] < seen[t] =>
           task = "send" /\ seen'[t] = round.msg /\ t \in greeted

(* Only a send of the round takes a tab back, and only one that was greeted. *)
LEMMA StepsFallBackLegally ==
    ASSUME FeedInv, [Next]_vars
    PROVE  FallsBackLegally
<1> SUFFICES ASSUME NEW t \in Tabs, up', page[t], seen'[t] < seen[t]
             PROVE  task = "send" /\ seen'[t] = round.msg /\ t \in greeted
  BY DEF FallsBackLegally
<1>0. seen[t] \in Nat /\ ~ (seen[t] < seen[t])
  BY FeedTypes
<1>1. seen' # seen
  BY <1>0
<1>2. ASSUME NEW x \in Tabs, Mount(x)
      PROVE  FALSE
  <2>1. ~ page[x] /\ seen' = [seen EXCEPT ![x] = 0]
    BY <1>2 DEF Mount
  <2>2. seen'[t] = seen[t]
    BY <2>1, FeedTypes
  <2> QED BY <1>0, <2>2
<1>3. ASSUME NEW c \in Conns, Greet(c)
      PROVE  FALSE
  <2>1. seen' = seen \/ seen' = [seen EXCEPT ![conn[c].tab] = log]
    BY <1>3 DEF Greet
  <2>2. seen'[t] = seen[t] \/ seen'[t] = log
    BY <2>1, FeedTypes
  <2>3. seen[t] <= log /\ log \in Nat
    BY FeedTypes DEF FeedInv, AheadIsGreeted
  <2> QED BY <1>0, <2>2, <2>3
<1>4. ASSUME NEW c \in Conns, Send(c)
      PROVE  task = "send" /\ seen'[t] = round.msg /\ t \in greeted
  <2>1. task = "send" /\ (seen' = seen \/ seen' = [seen EXCEPT ![conn[c].tab] = round.msg])
    BY <1>4 DEF Send
  <2>2. seen'[t] = round.msg
    BY <1>0, <2>1, FeedTypes
  <2>3. round.msg \in Nat
    BY FeedTypes DEF RoundRecord
  <2> QED BY <1>0, <2>1, <2>2, <2>3 DEF FeedInv, AheadIsGreeted
<1>5. ~ Down
  BY DEF Down
<1>6. CASE UNCHANGED vars
  BY <1>1, <1>6 DEF vars
<1>7. CASE log_event \/ Wake \/ Build \/ Sent \/ Disrupted \/ BuildFails \/ Boot
  BY <1>1, <1>7 DEF log_event, Wake, Build, Sent, Disrupted, BuildFails, Boot
<1>8. ASSUME NEW x \in Tabs, Unmount(x) \/ Refused(x) \/ Reconnect(x) \/ Accept(x)
      PROVE  FALSE
  BY <1>1, <1>8 DEF Unmount, Refused, Reconnect, Accept
<1>9. ASSUME NEW c \in Conns, Break(c) \/ GreetFails(c) \/ Leave(c)
      PROVE  FALSE
  BY <1>1, <1>9 DEF Break, GreetFails, Leave
<1> QED BY <1>2, <1>3, <1>4, <1>5, <1>6, <1>7, <1>8, <1>9 DEF Next

(* No broadcast, however late or disrupted, shows a tab older data than it has
   seen, but for the round a first snapshot overtook (get_snapshot is built
   before the sends of _broadcast_loop and between those of connects). *)
THEOREM TabsMoveForward == Spec => OnlyGreetedFallBack
<1>1. FeedInv /\ [Next]_vars => [FallsBackLegally]_vars
  BY StepsFallBackLegally
<1> QED BY <1>1, FeedHolds, PTL DEF Spec, OnlyGreetedFallBack, FallsBackLegally
=============================================================================
