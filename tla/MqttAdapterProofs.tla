-------------------------- MODULE MqttAdapterProofs --------------------------
(***************************************************************************)
(* For any number of devices, requests and tasks: a broker that is down is  *)
(* retried, and while requests do not overlap a device has one publish      *)
(* task, the registered one, and publishes only what is enabled.  No client *)
(* is replaced while it is open either, with one device, or unless a publish*)
(* task fails while a request is past its cancellation of the retry.        *)
(*                                                                          *)
(* A request is the code it still has to execute.  What the arguments need  *)
(* to know of it is how its instructions go together (Formed): which ones   *)
(* follow a check, what precedes a create, and that whoever cancels a retry *)
(* or closes the client is still to connect again or to forget the broker.  *)
(***************************************************************************)
EXTENDS MqttAdapter, SequenceTheorems, TLAPS

Instr == [op : Ops, devs : SUBSET Devices]
CallRecord == [code : Seq(Instr), wait : {"ready", "db", "net", "task"},
               on : Pubs \cup Recs \cup {None}]
RecRecord == [pc : {"free", "new", "sleep", "closing", "opening"}, cancelled : BOOLEAN]
PubRecord == [pc : {"free", "new", "sleep", "sent"}, dev : Devices \cup {None},
              conn : {"none", "this", "old"}, cancelled : BOOLEAN]

(* Instructions about one device, and the ones the database executes.       *)
DbOps == {"query", "configs", "enable", "disable", "drop", "running", "stopped"}
ForOne == {"check", "try", "create"} \cup (DbOps \ {"query"})

(* The instructions that end a state "not connected", or see to its retry.  *)
Recovery == {"open", "reopen", "forget"}
Recovers(s) == \E i \in 1 .. Len(s) : s[i].op \in Recovery

(* What stands where in a request's code: devices, the instructions that    *)
(* come first, what follows a check, a list, a close or a change of a flag. *)
OneDevice(s, i) ==
    /\ s[i].op \in ForOne => \E d \in Devices : s[i].devs = {d}
    /\ s[i].op = "starts" => s[i].devs # {}
First(s, i) == s[i].op \in {"cancels", "enable", "disable", "drop"} => i = 1
CheckThenCreate(s, i) ==
    s[i].op \in {"check", "try"} =>
        i + 2 <= Len(s) /\ s[i + 1] = I("list", s[i].devs) /\ s[i + 2] = I("create", s[i].devs)
CancelThenCreate(s, i) ==
    s[i].op = "create" /\ i > 1 => s[i - 1].op = "cancels" \/ s[i - 1] = I("list", s[i].devs)
CloseThenRecover(s, i) ==
    s[i].op \in {"recon", "close"} => \E j \in i + 1 .. Len(s) : s[j].op \in {"reopen", "forget"}
DisableThenCancel(s, i) ==
    s[i].op \in {"disable", "drop"} =>
        /\ i = Len(s) \/ (i + 1 <= Len(s) /\ s[i + 1] = I("list", s[i].devs))
        /\ \A j \in 1 .. Len(s) : s[j].op \notin {"create", "starts", "query", "configs"}
EnableThenCreate(s, i) ==
    s[i].op = "enable" => \A j \in 1 .. Len(s) : s[j].op = "create" => s[j].devs = s[i].devs
Ends(s, i) ==
    /\ s[i].op = "try" => Len(s) = i + 2
    /\ s[i].op = "reopen" => Len(s) = i + 1 /\ s[i + 1].op = "query"

Fits(s, i) ==
    /\ OneDevice(s, i) /\ First(s, i) /\ CheckThenCreate(s, i) /\ CancelThenCreate(s, i)
    /\ CloseThenRecover(s, i) /\ DisableThenCancel(s, i) /\ EnableThenCreate(s, i)
    /\ Ends(s, i)

Formed(s) == \A i \in 1 .. Len(s) : Fits(s, i)

Begins(s, ops) == s # <<>> /\ s[1].op \in ops

CodesFormed == \A c \in Threads : Formed(call[c].code)

(* What a request waits for, and that the holder of the loop waits not.     *)
Waits ==
    \A c \in Threads :
        /\ call[c].wait = "net" => Begins(call[c].code, {"open", "reopen"})
        /\ call[c].wait = "db" => Begins(call[c].code, DbOps)
        /\ call[c].wait = "task" <=> call[c].on # None
        /\ loop = c => call[c].wait = "ready" /\ call[c].code # <<>>

PubsOfDevices == \A p \in Pubs : LivePub(p) => ptask[p].dev \in Devices

MInv == TypeOK /\ CodesFormed /\ Waits /\ PubsOfDevices

-----------------------------------------------------------------------------
(* The retries.  Whoever cancelled one is still to recover the broker.      *)
RetryAwaited ==
    \A r \in Recs : LiveRec(r) /\ rtask[r].cancelled =>
        \E c \in Threads : call[c].on = r /\ Recovers(call[c].code)

DownRecovers ==
    broker = "down" => \/ \E r \in Recs : LiveRec(r)
                       \/ \E c \in Threads : Recovers(call[c].code)

RInv == RetryAwaited /\ DownRecovers

-----------------------------------------------------------------------------
(* Requests that do not overlap: there is one at a time.                    *)
Solo == \A c, k \in Threads : Busy(c) /\ Busy(k) => c = k

(* A cancelled publish task is awaited.                                     *)
StopAwaited ==
    \A p \in Pubs : LivePub(p) /\ ptask[p].cancelled => \E c \in Threads : call[c].on = p

Registered == \A p \in Pubs : LivePub(p) /\ ~ptask[p].cancelled => pub[ptask[p].dev] = p

(* A create finds no publish task, because the cancellation before it is    *)
(* through with the device.                                                 *)
CreateReady(s) ==
    /\ Begins(s, {"create"}) => \A d \in s[1].devs : pub[d] = None
    /\ Begins(s, {"cancels"}) /\ Len(s) > 1 /\ s[2].op = "create" =>
          \A d \in s[2].devs : pub[d] = None \/ d \in s[1].devs

(* What is started is enabled, and what is not is about to be stopped.      *)
StartsEnabled(s) ==
    /\ Begins(s, {"enable"}) => \A d \in s[1].devs : config[d] # "none"
    /\ \A i \in 1 .. Len(s) : s[i].op \in {"create", "starts"} =>
          \/ \A d \in s[i].devs : config[d] = "on"
          \/ Begins(s, {"enable"}) /\ s[i].op = "create"

(* The code is still to stop the device's publish task.                     *)
Stops(s, d) ==
    \E i \in 1 .. Len(s) : s[i].op \in {"list", "cancels"} /\ d \in s[i].devs

DisableStops(s) ==
    Begins(s, {"disable", "drop"}) => \A d \in s[1].devs : d \in untold \/ Stops(s, d)

Ready(s) == CreateReady(s) /\ StartsEnabled(s) /\ DisableStops(s)

Wanted(p) ==
    LivePub(p) => \/ config[ptask[p].dev] = "on" \/ ptask[p].dev \in untold
                  \/ \E c \in Threads : call[c].on = p \/ Stops(call[c].code, ptask[p].dev)

Alone == ~overlap => /\ Solo /\ Registered
                     /\ \A c \in Threads : Ready(call[c].code)
                     /\ \A p \in Pubs : Wanted(p)

AInv == StopAwaited /\ Alone

-----------------------------------------------------------------------------
(* Connections.  A request that cancels the retries, closes the client or   *)
(* connects has one instruction of each kind, in the code's order.          *)
Conn == {"open", "recon", "close", "reopen", "forget"}
Stopping == {"list", "cancels"}
Has(s, ops) == \E i \in 1 .. Len(s) : s[i].op \in ops

OnlyConn(s) ==
    Has(s, Conn) => \A i \in 1 .. Len(s) :
        /\ s[i].op \in Conn \cup Stopping \cup {"query", "exit"}
        /\ s[i].op = "list" => s[i].devs = Devices
Once(s) ==
    Has(s, Conn) => \A i, j \in 1 .. Len(s) :
        \/ s[i].op = "recon" /\ s[j].op = "recon"
        \/ s[i].op \in Stopping /\ s[j].op \in Stopping
        => i = j
ConnOrder(s) ==
    \A i, j \in 1 .. Len(s) : i < j =>
        /\ s[i].op # "query"
        /\ s[i].op = "close" => s[j].op \in {"reopen", "forget", "query", "exit"}
        /\ s[i].op \in Recovery => s[j].op \in {"query", "exit"}
ReconCloses(s) == Has(s, {"recon"}) => Has(s, {"close"})

Shaped(s) == OnlyConn(s) /\ Once(s) /\ ConnOrder(s) /\ ReconCloses(s)
CodesShaped == \A c \in Threads : Shaped(call[c].code)

(* There is one device: its publish task is alone to fail.                  *)
Single == \A d, e \in Devices : d = e

(* A publish task that can still fail, and one that may do so next.         *)
Sends(p) == LivePub(p) /\ ~ptask[p].cancelled
Sending == \E p \in Pubs : Sends(p) /\ ptask[p].pc = "sent"

(* Past the cancellation of the retry none is left but the one awaited ...  *)
RetryGone(c) ==
    Has(call[c].code, Conn) /\ ~Has(call[c].code, {"recon"}) =>
        \A r \in Recs : LiveRec(r) => call[c].on = r

(* ... past that of the publish tasks no one can schedule another, and on   *)
(* the way from one to the other no task gets the loop that could ...       *)
SendersGone(c) ==
    LET s == call[c].code IN
    Has(s, Recovery) =>
        /\ ~Has(s, Stopping) => \A p \in Pubs : ~Sends(p)
        /\ Begins(s, {"cancels"}) =>
              \A p \in Pubs : Sends(p) => (Single => loop = c) /\ ptask[p].dev \in s[1].devs
        /\ Has(s, {"list"}) /\ ~Has(s, {"recon"}) => loop = c \/ call[c].on \in Recs

(* ... and past the close there is no client.                               *)
ClientGone(c) == Has(call[c].code, Recovery) /\ ~Has(call[c].code, {"close"}) => client = "none"

(* What is awaited was cancelled, and nobody schedules another meanwhile;   *)
(* whoever connects has not connected yet.                                  *)
AwaitsRetry(c) ==
    call[c].on \in Recs =>
        /\ broker # "up" /\ (Single => ~Sending)
        /\ LiveRec(call[c].on) => rtask[call[c].on].cancelled
        /\ Has(call[c].code, Recovery) /\ ~Has(call[c].code, {"recon"})

Connecting(c) == call[c].wait = "net" => broker # "up"

Phase(c) == RetryGone(c) /\ SendersGone(c) /\ ClientGone(c) /\ AwaitsRetry(c) /\ Connecting(c)

(* One retry at a time, of a broker that is down; with one device nobody    *)
(* publishes to it either.                                                  *)
OneRetry ==
    \A r \in Recs : LiveRec(r) =>
        /\ \A q \in Recs : LiveRec(q) => q = r
        /\ ~rtask[r].cancelled => recon = r
        /\ broker # "up" /\ (Single => ~Sending)
        /\ rtask[r].pc \in {"closing", "opening"} /\ ~rtask[r].cancelled => client = "none"

(* A broker that is not configured has no publish configs, and is unknown   *)
(* or about to be forgotten.                                                *)
Unused == ~row => \A d \in Devices : config[d] = "none"
Unconfigured ==
    ~row => /\ \A c \in Threads : ~Has(call[c].code, {"open", "reopen"})
            /\ \/ \E c \in Threads : Has(call[c].code, {"forget"})
               \/ /\ client = "none" /\ \A r \in Recs : ~LiveRec(r)
                  /\ \A p \in Pubs : ~Sends(p)

Linked == (\A c \in Threads : Phase(c)) /\ OneRetry /\ Unconfigured /\ ~leaked

LInv == CodesShaped /\ Unused /\ (~overlap => Linked)

(* A publish task fails while a request is past its cancellation of the     *)
(* retry, and so may schedule one that the request does not know of.        *)
PastRetry(c) == Has(call[c].code, Conn) /\ ~Has(call[c].code, {"recon"})
RacingFailure == \E p \in Pubs, c \in Threads : PublishFails(p) /\ PastRetry(c)

-----------------------------------------------------------------------------
(* Code.  A request pops its first instruction, replaces it, or puts the    *)
(* start of a publish task in front.                                        *)
LEMMA Lengths ==
    ASSUME NEW s \in Seq(Instr)
    PROVE  Len(s) \in Nat /\ (s # <<>> <=> Len(s) > 0)
BY EmptySeq

(* Without its first instruction.                                           *)
LEMMA Popped ==
    ASSUME NEW s \in Seq(Instr), s # <<>>
    PROVE  /\ Len(s) \in Nat \ {0} /\ s[1] \in Instr /\ Head(s) = s[1]
           /\ Tail(s) \in Seq(Instr) /\ Len(Tail(s)) = Len(s) - 1
           /\ \A i \in 1 .. Len(s) - 1 : Tail(s)[i] = s[i + 1]
<1>1. Len(s) \in Nat \ {0}
  BY EmptySeq
<1>2. s[1] \in Instr /\ Head(s) = s[1]
  BY <1>1, ElementOfSeq
<1>3. QED  BY <1>1, <1>2, HeadTailProperties

(* With another first instruction.                                          *)
LEMMA Replaced ==
    ASSUME NEW s \in Seq(Instr), s # <<>>, NEW x \in Instr
    PROVE  LET t == <<x>> \o Tail(s) IN
           /\ t \in Seq(Instr) /\ Len(t) = Len(s) /\ t[1] = x
           /\ \A i \in 2 .. Len(s) : t[i] = s[i]
<1>1. /\ <<x>> \in Seq(Instr) /\ Len(<<x>>) = 1 /\ <<x>>[1] = x
      /\ Tail(s) \in Seq(Instr)
  BY Popped
<1>2. /\ <<x>> \o Tail(s) \in Seq(Instr) /\ Len(<<x>> \o Tail(s)) = 1 + Len(Tail(s))
      /\ \A i \in 1 .. 1 + Len(Tail(s)) :
            (<<x>> \o Tail(s))[i] = IF i <= 1 THEN x ELSE Tail(s)[i - 1]
  BY <1>1, ConcatProperties
<1>3. QED  BY <1>2, Popped

(* With the start of a publish task in front.                               *)
LEMMA Prefixed ==
    ASSUME NEW u \in Seq(Instr), NEW d \in Devices
    PROVE  LET t == StartPublishing("check", d) \o u IN
           /\ t \in Seq(Instr) /\ Len(t) = Len(u) + 3
           /\ t[1] = I("check", {d}) /\ t[2] = I("list", {d}) /\ t[3] = I("create", {d})
           /\ \A i \in 1 .. Len(u) : t[i + 3] = u[i]
<1> DEFINE a == StartPublishing("check", d)
<1>1. I("check", {d}) \in Instr /\ I("list", {d}) \in Instr /\ I("create", {d}) \in Instr
  BY DEF I, Instr, Ops
<1>2. /\ a \in Seq(Instr) /\ Len(a) = 3
      /\ a[1] = I("check", {d}) /\ a[2] = I("list", {d}) /\ a[3] = I("create", {d})
  BY <1>1 DEF StartPublishing
<1> HIDE DEF a
<1>3. /\ a \o u \in Seq(Instr) /\ Len(a \o u) = 3 + Len(u)
      /\ \A i \in 1 .. 3 + Len(u) : (a \o u)[i] = IF i <= 3 THEN a[i] ELSE u[i - 3]
  <2>1. /\ a \o u \in Seq(Instr) /\ Len(a \o u) = Len(a) + Len(u)
        /\ \A i \in 1 .. Len(a) + Len(u) :
              (a \o u)[i] = IF i <= Len(a) THEN a[i] ELSE u[i - Len(a)]
    BY <1>2, ConcatProperties
  <2>2. QED  BY <1>2, <2>1
<1>4. Len(u) \in Nat
  BY EmptySeq
<1>5. QED  BY <1>2, <1>3, <1>4 DEF a

(* What is left of a code is formed as it was.                              *)
LEMMA PoppedFormed ==
    ASSUME NEW s \in Seq(Instr), s # <<>>, Formed(s)
    PROVE  Formed(Tail(s))
<1>0. PICK t : t = Tail(s)
  OBVIOUS
<1>1. /\ Len(s) \in Nat \ {0} /\ Len(t) = Len(s) - 1
      /\ \A i \in 1 .. Len(t) : t[i] = s[i + 1]
  BY <1>0, Popped
<1>2. ASSUME NEW i \in 1 .. Len(t) PROVE Fits(t, i)
  <2>1. Fits(s, i + 1) /\ t[i] = s[i + 1]
    BY <1>1 DEF Formed
  <2>2. \A j \in i + 1 .. Len(t) : t[j] = s[j + 1]
    BY <1>1
  <2>3. i \in Nat \ {0} /\ Len(t) \in Nat /\ Len(s) \in Nat /\ Len(s) = Len(t) + 1
    BY <1>1
  <2>4. OneDevice(t, i)
    BY <2>1 DEF Fits, OneDevice
  <2>5. First(t, i) /\ EnableThenCreate(t, i)
    <3>1. t[i].op \notin {"cancels", "enable", "disable", "drop"}
      BY <2>1, <2>3 DEF Fits, First
    <3>2. QED  BY <3>1 DEF First, EnableThenCreate
  <2>6. CheckThenCreate(t, i)
    <3>1. CheckThenCreate(s, i + 1)
      BY <2>1 DEF Fits
    <3> SUFFICES ASSUME t[i].op \in {"check", "try"} PROVE CheckThenCreate(t, i)
      BY DEF CheckThenCreate
    <3>2. i + 2 <= Len(t) /\ s[i + 2] = I("list", t[i].devs) /\ s[i + 3] = I("create", t[i].devs)
      BY <2>1, <2>3, <3>1 DEF CheckThenCreate
    <3>3. t[i + 1] = s[i + 2] /\ t[i + 2] = s[i + 3]
      BY <1>1, <2>3, <3>2
    <3>4. QED  BY <3>2, <3>3 DEF CheckThenCreate
  <2>7. CancelThenCreate(t, i)
    <3>1. i > 1 => t[i - 1] = s[i]
      BY <1>1
    <3>2. CancelThenCreate(s, i + 1)
      BY <2>1 DEF Fits
    <3>3. QED  BY <2>1, <2>3, <3>1, <3>2 DEF CancelThenCreate
  <2>8. CloseThenRecover(t, i)
    <3> SUFFICES ASSUME t[i].op \in {"recon", "close"} PROVE CloseThenRecover(t, i)
      BY DEF CloseThenRecover
    <3>1. PICK k \in (i + 1) + 1 .. Len(s) : s[k].op \in {"reopen", "forget"}
      BY <2>1 DEF Fits, CloseThenRecover
    <3>2. k - 1 \in i + 1 .. Len(t) /\ t[k - 1] = s[k]
      BY <1>1, <2>3
    <3>3. QED  BY <3>1, <3>2 DEF CloseThenRecover
  <2>9. DisableThenCancel(t, i)
    <3> SUFFICES ASSUME t[i].op \in {"disable", "drop"} PROVE DisableThenCancel(t, i)
      BY DEF DisableThenCancel
    <3>1. DisableThenCancel(s, i + 1)
      BY <2>1 DEF Fits
    <3>2. \A j \in 1 .. Len(t) : t[j].op \notin {"create", "starts", "query", "configs"}
      <4> TAKE j \in 1 .. Len(t)
      <4>1. t[j] = s[j + 1] /\ j + 1 \in 1 .. Len(s)
        BY <1>1, <2>3
      <4>2. QED  BY <2>1, <3>1, <4>1 DEF DisableThenCancel
    <3>3. i + 1 = Len(s) \/ (i + 1 + 1 <= Len(s) /\ s[i + 1 + 1] = I("list", s[i + 1].devs))
      BY <2>1, <3>1 DEF DisableThenCancel
    <3>4. i + 1 <= Len(t) => t[i + 1] = s[i + 1 + 1]
      BY <2>2, <2>3
    <3>5. i = Len(t) \/ (i + 1 <= Len(t) /\ t[i + 1] = I("list", t[i].devs))
      BY <2>1, <2>3, <3>3, <3>4
    <3>6. QED  BY <3>2, <3>5 DEF DisableThenCancel
  <2>10. Ends(t, i)
    <3>1. Ends(s, i + 1)
      BY <2>1 DEF Fits
    <3>2. s[i + 1].op = "reopen" => i + 1 \in i + 1 .. Len(t)
      BY <2>3, <3>1 DEF Ends
    <3>3. QED  BY <2>1, <2>2, <2>3, <3>1, <3>2 DEF Ends
  <2>11. QED  BY <2>4, <2>5, <2>6, <2>7, <2>8, <2>9, <2>10 DEF Fits
<1>3. QED  BY <1>0, <1>2 DEF Formed

(* Another instruction in the place of the first one.                       *)
LEMMA ReplacedFormed ==
    ASSUME NEW s \in Seq(Instr), s # <<>>, Formed(s), NEW x \in Instr,
           \/ x.op = "cancels" /\ s[1].op \in {"list", "cancels"}
           \/ x.op = "starts" /\ x.devs # {} /\ s[1].op \in {"query", "configs", "starts"}
    PROVE  Formed(<<x>> \o Tail(s))
<1>0. PICK t : t = <<x>> \o Tail(s)
  OBVIOUS
<1>1. /\ Len(s) \in Nat \ {0} /\ Len(t) = Len(s) /\ t[1] = x
      /\ \A i \in 2 .. Len(t) : t[i] = s[i]
  BY <1>0, Popped, Replaced
<1>2. Fits(t, 1)
  BY <1>1 DEF Fits, OneDevice, ForOne, DbOps, First, CheckThenCreate, CancelThenCreate,
              CloseThenRecover, DisableThenCancel, EnableThenCreate, Ends
<1>3. ASSUME NEW i \in 2 .. Len(t) PROVE Fits(t, i)
  <2>1. Fits(s, i) /\ t[i] = s[i] /\ i \in Nat /\ i # 1 /\ i \in 1 .. Len(s)
    BY <1>1 DEF Formed
  <2>2. OneDevice(t, i)
    BY <2>1 DEF Fits, OneDevice
  <2>3. First(t, i) /\ EnableThenCreate(t, i)
    <3>1. t[i].op \notin {"cancels", "enable", "disable", "drop"}
      BY <2>1 DEF Fits, First
    <3>2. QED  BY <3>1 DEF First, EnableThenCreate
  <2>4. CheckThenCreate(t, i)
    <3> SUFFICES ASSUME t[i].op \in {"check", "try"} PROVE CheckThenCreate(t, i)
      BY DEF CheckThenCreate
    <3>1. i + 2 <= Len(s) /\ s[i + 1] = I("list", s[i].devs) /\ s[i + 2] = I("create", s[i].devs)
      BY <2>1 DEF Fits, CheckThenCreate
    <3>2. t[i + 1] = s[i + 1] /\ t[i + 2] = s[i + 2]
      BY <1>1, <3>1
    <3>3. QED  BY <1>1, <2>1, <3>1, <3>2 DEF CheckThenCreate
  <2>5. CancelThenCreate(t, i)
    <3>1. CASE i = 2
      <4>1. s[2].op = "create" => s[1].op = "cancels" \/ s[1].op = "list"
        BY <2>1, <3>1 DEF Fits, CancelThenCreate, I
      <4>2. t[2].op = "create" => t[1].op = "cancels"
        BY <1>1, <2>1, <3>1, <4>1
      <4>3. QED  BY <3>1, <4>2 DEF CancelThenCreate
    <3>2. CASE i # 2
      <4>1. t[i - 1] = s[i - 1]
        BY <1>1, <2>1, <3>2
      <4>2. QED  BY <2>1, <4>1 DEF Fits, CancelThenCreate
    <3>3. QED  BY <3>1, <3>2
  <2>6. CloseThenRecover(t, i)
    <3> SUFFICES ASSUME t[i].op \in {"recon", "close"} PROVE CloseThenRecover(t, i)
      BY DEF CloseThenRecover
    <3>1. PICK j \in i + 1 .. Len(s) : s[j].op \in {"reopen", "forget"}
      BY <2>1 DEF Fits, CloseThenRecover
    <3>2. j \in i + 1 .. Len(t) /\ t[j] = s[j]
      BY <1>1
    <3>3. QED  BY <3>1, <3>2 DEF CloseThenRecover
  <2>7. DisableThenCancel(t, i)
    <3> SUFFICES ASSUME t[i].op \in {"disable", "drop"} PROVE DisableThenCancel(t, i)
      BY DEF DisableThenCancel
    <3>1. /\ i = Len(s) \/ (i + 1 <= Len(s) /\ s[i + 1] = I("list", s[i].devs))
          /\ \A j \in 1 .. Len(s) : s[j].op \notin {"create", "starts", "query", "configs"}
      BY <2>1 DEF Fits, DisableThenCancel
    <3>2. x.op = "cancels"
      BY <1>1, <3>1
    <3>3. \A j \in 1 .. Len(t) : t[j].op \notin {"create", "starts", "query", "configs"}
      BY <1>1, <3>1, <3>2
    <3>4. i + 1 <= Len(s) => t[i + 1] = s[i + 1]
      BY <1>1
    <3>5. QED  BY <1>1, <2>1, <3>1, <3>3, <3>4 DEF DisableThenCancel
  <2>8. Ends(t, i)
    <3>1. s[i].op = "reopen" => i + 1 \in 2 .. Len(t)
      BY <1>1, <2>1 DEF Fits, Ends
    <3>2. QED  BY <1>1, <2>1, <3>1 DEF Fits, Ends
  <2>9. QED  BY <2>2, <2>3, <2>4, <2>5, <2>6, <2>7, <2>8 DEF Fits
<1>4. QED  BY <1>0, <1>1, <1>2, <1>3 DEF Formed

(* The start of a publish task in front.                                    *)
LEMMA PrefixedFormed ==
    ASSUME NEW u \in Seq(Instr), Formed(u), NEW d \in Devices,
           u # <<>> => u[1].op \notin {"create", "cancels", "enable"},
           \A j \in 1 .. Len(u) : u[j].op \notin {"disable", "drop"}
    PROVE  Formed(StartPublishing("check", d) \o u)
<1>0. PICK t : t = StartPublishing("check", d) \o u
  OBVIOUS
<1>1. /\ Len(u) \in Nat /\ Len(t) = Len(u) + 3
      /\ t[1] = I("check", {d}) /\ t[2] = I("list", {d}) /\ t[3] = I("create", {d})
      /\ \A k \in 1 .. Len(u) : t[k + 3] = u[k]
  BY <1>0, Prefixed, Lengths
<1>2. Fits(t, 1) /\ Fits(t, 2) /\ Fits(t, 3)
  BY <1>1 DEF I, Fits, OneDevice, ForOne, DbOps, First, CheckThenCreate, CancelThenCreate,
              CloseThenRecover, DisableThenCancel, EnableThenCreate, Ends
<1>3. ASSUME NEW k \in 1 .. Len(u) PROVE Fits(t, k + 3)
  <2>1. Fits(u, k) /\ t[k + 3] = u[k] /\ k \in Nat \ {0}
    BY <1>1 DEF Formed
  <2>2. u[k].op \notin {"cancels", "enable", "disable", "drop"}
    <3>1. k = 1 => u # <<>>
      BY EmptySeq
    <3>2. QED  BY <2>1, <3>1 DEF Fits, First
  <2>3. OneDevice(t, k + 3)
    BY <2>1 DEF Fits, OneDevice
  <2>4. First(t, k + 3) /\ EnableThenCreate(t, k + 3)
    BY <2>1, <2>2 DEF First, EnableThenCreate
  <2>5. CheckThenCreate(t, k + 3)
    <3> SUFFICES ASSUME t[k + 3].op \in {"check", "try"} PROVE CheckThenCreate(t, k + 3)
      BY DEF CheckThenCreate
    <3>1. k + 2 <= Len(u) /\ u[k + 1] = I("list", u[k].devs) /\ u[k + 2] = I("create", u[k].devs)
      BY <2>1 DEF Fits, CheckThenCreate
    <3>a. k + 1 \in 1 .. Len(u) /\ k + 2 \in 1 .. Len(u)
      BY SMTT(30), <1>1, <2>1, <3>1
    <3>2. t[k + 1 + 3] = u[k + 1] /\ t[k + 2 + 3] = u[k + 2]
      BY <1>1, <3>a
    <3>3. k + 3 + 2 <= Len(t) /\ t[k + 3 + 1] = u[k + 1] /\ t[k + 3 + 2] = u[k + 2]
      BY <1>1, <2>1, <3>1, <3>2
    <3>4. QED  BY <2>1, <3>1, <3>3 DEF CheckThenCreate
  <2>6. CancelThenCreate(t, k + 3)
    <3>1. CASE k = 1
      <4>1. u # <<>>
        BY <3>1, EmptySeq
      <4>2. QED  BY <2>1, <3>1, <4>1 DEF CancelThenCreate
    <3>2. CASE k # 1
      <4>1. t[k + 3 - 1] = u[k - 1] /\ k > 1
        BY <1>1, <2>1, <3>2
      <4>2. QED  BY <2>1, <4>1 DEF Fits, CancelThenCreate
    <3>3. QED  BY <3>1, <3>2
  <2>7. CloseThenRecover(t, k + 3)
    <3> SUFFICES ASSUME t[k + 3].op \in {"recon", "close"} PROVE CloseThenRecover(t, k + 3)
      BY DEF CloseThenRecover
    <3>1. PICK j \in k + 1 .. Len(u) : u[j].op \in {"reopen", "forget"}
      BY <2>1 DEF Fits, CloseThenRecover
    <3>2. j + 3 \in k + 3 + 1 .. Len(t) /\ t[j + 3] = u[j]
      BY <1>1, <2>1
    <3>3. QED  BY <3>1, <3>2 DEF CloseThenRecover
  <2>8. DisableThenCancel(t, k + 3)
    BY <2>1 DEF DisableThenCancel
  <2>9. Ends(t, k + 3)
    <3>1. u[k].op = "reopen" => k + 1 \in 1 .. Len(u) /\ (k + 3) + 1 = (k + 1) + 3
      BY <1>1, <2>1 DEF Fits, Ends
    <3>2. u[k].op = "reopen" => t[(k + 3) + 1] = u[k + 1]
      BY <1>1, <3>1
    <3>3. QED  BY <1>1, <2>1, <3>2 DEF Fits, Ends
  <2>10. QED  BY <2>3, <2>4, <2>5, <2>6, <2>7, <2>8, <2>9 DEF Fits
<1>4. ASSUME NEW i \in 1 .. Len(t) PROVE Fits(t, i)
  <2>1. CASE i \in {1, 2, 3}
    BY <1>2, <2>1
  <2>2. CASE i \notin {1, 2, 3}
    <3>1. i - 3 \in 1 .. Len(u) /\ (i - 3) + 3 = i
      BY <1>1, <2>2
    <3>2. QED  BY <1>3, <3>1
  <2>3. QED  BY <2>1, <2>2
<1>5. QED  BY <1>0, <1>4 DEF Formed

(* The code after a check that failed.                                      *)
LEMMA Skipped ==
    ASSUME NEW s \in Seq(Instr), Formed(s), Len(s) >= 3
    PROVE  LET t == SubSeq(s, 4, Len(s)) IN
           /\ t \in Seq(Instr) /\ Formed(t) /\ Len(t) = Len(s) - 3
           /\ \A i \in 1 .. Len(t) : t[i] = s[i + 3]
<1>0. PICK a, b, c : a = Tail(s) /\ b = Tail(a) /\ c = Tail(b)
  OBVIOUS
<1>1. Len(s) \in Nat /\ s # <<>>
  BY Lengths
<1>2. /\ a \in Seq(Instr) /\ Formed(a) /\ Len(a) = Len(s) - 1
      /\ \A i \in 1 .. Len(a) : a[i] = s[i + 1]
  BY <1>0, <1>1, Popped, PoppedFormed
<1>3. a # <<>>
  BY <1>1, <1>2, Lengths
<1>4. /\ b \in Seq(Instr) /\ Formed(b) /\ Len(b) = Len(s) - 2
      /\ \A i \in 1 .. Len(b) : b[i] = a[i + 1]
  <2>1. /\ b \in Seq(Instr) /\ Formed(b) /\ Len(b) = Len(a) - 1
        /\ \A i \in 1 .. Len(a) - 1 : b[i] = a[i + 1]
    BY <1>0, <1>2, <1>3, Popped, PoppedFormed
  <2>2. QED  BY <1>1, <1>2, <2>1
<1>5. b # <<>>
  BY <1>1, <1>4, Lengths
<1>6. /\ c \in Seq(Instr) /\ Formed(c) /\ Len(c) = Len(s) - 3
      /\ \A i \in 1 .. Len(c) : c[i] = b[i + 1]
  <2>1. /\ c \in Seq(Instr) /\ Formed(c) /\ Len(c) = Len(b) - 1
        /\ \A i \in 1 .. Len(b) - 1 : c[i] = b[i + 1]
    BY <1>0, <1>4, <1>5, Popped, PoppedFormed
  <2>2. QED  BY <1>1, <1>4, <2>1
<1>7. \A i \in 1 .. Len(c) : c[i] = s[i + 3]
  <2> TAKE i \in 1 .. Len(c)
  <2>1. c[i] = b[i + 1] /\ b[i + 1] = a[i + 1 + 1] /\ a[i + 1 + 1] = s[i + 1 + 1 + 1]
    BY <1>1, <1>2, <1>4, <1>6
  <2>2. i + 1 + 1 + 1 = i + 3
    BY <1>1, <1>6
  <2>3. QED  BY <2>1, <2>2
<1>8. \A i \in 4 .. Len(s) : s[i] \in Instr
  BY <1>1, ElementOfSeq
<1>9. PICK t : t = SubSeq(s, 4, Len(s))
  OBVIOUS
<1>10. /\ t \in Seq(Instr) /\ Len(t) = (IF 4 <= Len(s) THEN Len(s) - 4 + 1 ELSE 0)
       /\ \A i \in 1 .. Len(s) - 4 + 1 : t[i] = s[4 + i - 1]
  BY <1>1, <1>8, <1>9, SubSeqProperties
<1>11. t = c
  <2>1. Len(t) = Len(c) /\ Len(c) = Len(s) - 4 + 1
    BY <1>1, <1>6, <1>10
  <2>2. \A i \in 1 .. Len(t) : t[i] = c[i]
    <3> TAKE i \in 1 .. Len(t)
    <3>1. t[i] = s[4 + i - 1] /\ c[i] = s[i + 3] /\ 4 + i - 1 = i + 3
      BY <1>1, <1>7, <1>10, <2>1
    <3>2. QED  BY <3>1
  <2>3. QED  BY <1>6, <1>10, <2>1, <2>2, SeqEqual
<1>12. QED  BY <1>6, <1>7, <1>9, <1>11

-----------------------------------------------------------------------------
(* Requests.  What the types say of a request, and of the one that holds    *)
(* the loop.                                                                *)
OtherTypes ==
    /\ row \in BOOLEAN /\ config \in [Devices -> {"none", "off", "on"}]
    /\ device \in [Devices -> {"stopped", "running", "error", "deleted"}] /\ net \in BOOLEAN
    /\ broker \in {"absent", "down", "up"} /\ client \in {"none", "open", "dead"}
    /\ leaked \in BOOLEAN /\ recon \in Recs \cup {None} /\ rtask \in [Recs -> RecRecord]
    /\ pub \in [Devices -> Pubs \cup {None}] /\ pconf \in SUBSET Devices
    /\ ptask \in [Pubs -> PubRecord]
    /\ overlap \in BOOLEAN /\ untold \in SUBSET Devices

(* The type invariant in two parts.                                         *)
LEMMA TypeParts ==
    TypeOK <=> /\ OtherTypes /\ call \in [Threads -> CallRecord]
               /\ loop \in Threads \cup {None}
BY DEF TypeOK, OtherTypes, CallRecord, RecRecord, PubRecord, Instr

(* A request as the invariant describes it.                                 *)
LEMMA CallTypes ==
    ASSUME MInv, NEW c \in Threads
    PROVE  /\ call \in [Threads -> CallRecord] /\ call[c] \in CallRecord
           /\ call[c].code \in Seq(Instr) /\ Formed(call[c].code)
           /\ call[c].on \in Pubs \cup Recs \cup {None}
           /\ call[c].wait \in {"ready", "db", "net", "task"}
           /\ None \notin Threads
<1>1. call \in [Threads -> CallRecord]
  BY TypeParts DEF MInv
<1>2. call[c] \in CallRecord
  BY <1>1
<1>3. QED  BY <1>1, <1>2, MqttAssumption DEF CallRecord, MInv, CodesFormed, Threads

(* The first instruction of a request's code.                               *)
LEMMA Front ==
    ASSUME MInv, NEW c \in Threads, call[c].code # <<>>
    PROVE  /\ call[c].code[1] \in Instr /\ Fits(call[c].code, 1)
           /\ Op(c) = call[c].code[1].op /\ Devs(c) = call[c].code[1].devs
           /\ Op(c) \in Ops /\ Devs(c) \in SUBSET Devices
           /\ call[c].code[1] = I(Op(c), Devs(c))
<1>1. call[c].code \in Seq(Instr) /\ Formed(call[c].code)
  BY CallTypes
<1>2. call[c].code[1] \in Instr /\ Head(call[c].code) = call[c].code[1] /\ 1 \in 1 .. Len(call[c].code)
  BY <1>1, Popped, Lengths
<1>3. QED  BY <1>1, <1>2 DEF Formed, Op, Devs, Instr, I

(* An instruction for one device.                                           *)
LEMMA FrontOne ==
    ASSUME MInv, NEW c \in Threads, call[c].code # <<>>, Op(c) \in ForOne
    PROVE  Dev(c) \in Devices /\ Devs(c) = {Dev(c)}
<1>1. PICK d \in Devices : Devs(c) = {d}
  BY Front DEF Fits, OneDevice
<1>2. QED  BY <1>1 DEF Dev

(* The holder of the loop.                                                  *)
LEMMA Holder ==
    ASSUME MInv, NEW c \in Threads, NEW ops, Holds(c, ops)
    PROVE  /\ loop = c /\ call[c].code # <<>> /\ Op(c) \in ops
           /\ call[c].wait = "ready" /\ call[c].on = None
<1>1. loop = c /\ call[c].code # <<>> /\ Op(c) \in ops
  BY DEF Holds
<1>2. call[c].wait = "ready" /\ ~(call[c].wait = "task") /\ (call[c].wait = "task" <=> call[c].on # None)
  BY <1>1 DEF MInv, Waits
<1>3. QED  BY <1>1, <1>2

(* What becomes of a request in a step of its own.                          *)
Moves(c, t, w, o) ==
    /\ call' \in [Threads -> CallRecord]
    /\ call'[c].code = t /\ call'[c].wait = w /\ call'[c].on = o
    /\ \A k \in Threads \ {c} : call'[k] = call[k]
    /\ loop' \in Threads \cup {None} /\ CodesFormed' /\ Waits'

(* A step of a request keeps what is said of all of them.                   *)
LEMMA CallMoves ==
    ASSUME MInv, NEW c \in Threads, NEW t \in Seq(Instr), Formed(t),
           NEW w \in {"ready", "db", "net", "task"}, NEW o \in Pubs \cup Recs \cup {None},
           call' = [call EXCEPT ![c] = [code |-> t, wait |-> w, on |-> o]],
           w = "net" => Begins(t, {"open", "reopen"}), w = "db" => Begins(t, DbOps),
           w = "task" <=> o # None,
           loop' \in {None, loop, c}, loop' = c => w = "ready" /\ t # <<>>
    PROVE  Moves(c, t, w, o)
<1>0. PICK q : q = [code |-> t, wait |-> w, on |-> o]
  OBVIOUS
<1>1. q \in CallRecord /\ q.code = t /\ q.wait = w /\ q.on = o
  BY <1>0 DEF CallRecord
<1>2. call \in [Threads -> CallRecord] /\ call' = [call EXCEPT ![c] = q]
  BY <1>0, CallTypes
<1>3. call' \in [Threads -> CallRecord] /\ call'[c] = q /\ \A k \in Threads \ {c} : call'[k] = call[k]
  BY <1>1, <1>2
<1>4. loop \in Threads \cup {None} /\ None \notin Threads
  BY CallTypes, TypeParts DEF MInv
<1>5. loop' \in Threads \cup {None}
  BY <1>4
<1>6. CodesFormed'
  BY <1>1, <1>3 DEF MInv, CodesFormed
<1>7. Waits'
  <2> SUFFICES ASSUME NEW k \in Threads
               PROVE  /\ call'[k].wait = "net" => Begins(call'[k].code, {"open", "reopen"})
                      /\ call'[k].wait = "db" => Begins(call'[k].code, DbOps)
                      /\ call'[k].wait = "task" <=> call'[k].on # None
                      /\ loop' = k => call'[k].wait = "ready" /\ call'[k].code # <<>>
    BY DEF Waits
  <2>1. CASE k = c
    BY <1>1, <1>3, <2>1
  <2>2. CASE k # c
    <3>1. loop' = k => loop = k
      BY <1>4, <2>2
    <3>2. call'[k] = call[k]
      BY <1>3, <2>2
    <3>3. QED  BY <3>1, <3>2 DEF MInv, Waits
  <2>3. QED  BY <2>1, <2>2
<1>8. QED  BY <1>1, <1>3, <1>5, <1>6, <1>7 DEF Moves

(* Going on, and suspending.                                                *)
LEMMA GoesOnMoves ==
    ASSUME MInv, NEW c \in Threads, loop = c, NEW t \in Seq(Instr), Formed(t), GoesOn(c, t)
    PROVE  Moves(c, t, "ready", None) /\ (t # <<>> => loop' = c)
<1>1. /\ call[c] \in CallRecord /\ call[c].wait = "ready" /\ call[c].on = None
  <2>1. call[c].wait = "ready" /\ (call[c].wait = "task" <=> call[c].on # None)
    BY DEF MInv, Waits
  <2>2. QED  BY <2>1, CallTypes
<1>2. [call[c] EXCEPT !.code = t] = [code |-> t, wait |-> "ready", on |-> None]
  BY <1>1 DEF CallRecord
<1>3. call' = [call EXCEPT ![c] = [call[c] EXCEPT !.code = t]]
  BY DEF GoesOn
<1>4. call' = [call EXCEPT ![c] = [code |-> t, wait |-> "ready", on |-> None]]
  BY <1>2, <1>3
<1>5. loop' \in {None, c} /\ (loop' = c <=> t # <<>>)
  <2>1. call'[c].code = t
    BY <1>4, CallTypes
  <2>2. QED  BY <2>1, CallTypes DEF GoesOn
<1>6. QED  BY <1>4, <1>5, CallMoves

(* A request suspends.                                                      *)
LEMMA SuspendsMoves ==
    ASSUME MInv, NEW c \in Threads, NEW t \in Seq(Instr), Formed(t),
           NEW w \in {"ready", "db", "net", "task"}, NEW o \in Pubs \cup Recs \cup {None},
           Suspends(c, t, w, o),
           w = "net" => Begins(t, {"open", "reopen"}), w = "db" => Begins(t, DbOps),
           w = "task" <=> o # None
    PROVE  Moves(c, t, w, o) /\ loop' = None
<1>1. loop' = None /\ call' = [call EXCEPT ![c] = [code |-> t, wait |-> w, on |-> o]]
  BY DEF Suspends
<1>2. loop' # c
  BY <1>1, CallTypes
<1>3. QED  BY <1>1, <1>2, CallMoves

(* The invariant from its parts.                                            *)
LEMMA PartsKept ==
    ASSUME OtherTypes', PubsOfDevices', NEW c, NEW t, NEW w, NEW o, Moves(c, t, w, o)
    PROVE  MInv'
<1>1. TypeOK'
  BY DEF Moves, TypeOK, OtherTypes, CallRecord, RecRecord, PubRecord, Instr
<1>2. QED  BY <1>1 DEF MInv, Moves

(* What is not touched keeps its type.                                      *)
LEMMA OthersKept ==
    ASSUME MInv, UNCHANGED <<db, connection, recons, publishers, hist>>
    PROVE  OtherTypes' /\ PubsOfDevices'
<1>1. OtherTypes /\ PubsOfDevices
  BY TypeParts DEF MInv
<1>2. QED
  BY <1>1 DEF OtherTypes, PubsOfDevices, LivePub, db, connection, recons, publishers, hist

-----------------------------------------------------------------------------
(* The instructions, one by one: what becomes of the request's code.        *)

(* The keys of the tasks to cancel are listed.                              *)
LEMMA ListMoves ==
    ASSUME MInv, NEW c \in Threads, ListTasks(c)
    PROVE  /\ Op(c) = "list" /\ call[c].code # <<>> /\ call[c].on = None /\ loop' = c
           /\ UNCHANGED <<db, connection, recons, publishers, hist>>
           /\ \E t \in Seq(Instr) :
                /\ Moves(c, t, "ready", None)
                /\ Len(t) = Len(call[c].code)
                /\ t[1] = I("cancels", {d \in Devs(c) : pub[d] # None})
                /\ \A i \in 2 .. Len(t) : t[i] = call[c].code[i]
<1>1. /\ loop = c /\ call[c].code # <<>> /\ Op(c) = "list" /\ call[c].on = None
  BY Holder DEF ListTasks
<1>2. PICK x : x = I("cancels", {d \in Devs(c) : pub[d] # None})
  OBVIOUS
<1>3. x \in Instr /\ x.op = "cancels" /\ call[c].code[1].op = "list" /\ call[c].code \in Seq(Instr)
  <2>1. Devs(c) \in SUBSET Devices /\ call[c].code[1].op = "list"
    BY <1>1, Front
  <2>2. QED  BY <1>2, <2>1, CallTypes DEF I, Instr, Ops
<1>4. PICK t : t = <<x>> \o Tail(call[c].code)
  OBVIOUS
<1>5. /\ t \in Seq(Instr) /\ Len(t) = Len(call[c].code) /\ t[1] = x
      /\ \A i \in 2 .. Len(t) : t[i] = call[c].code[i]
  BY <1>1, <1>3, <1>4, Replaced
<1>6. Formed(t)
  BY <1>1, <1>3, <1>4, CallTypes, ReplacedFormed
<1>7. GoesOn(c, t) /\ UNCHANGED <<db, connection, recons, publishers, hist>>
  BY <1>2, <1>4 DEF ListTasks, Rest
<1>8. Moves(c, t, "ready", None) /\ loop' = c
  <2>1. call[c].code \in Seq(Instr)
    BY CallTypes
  <2>2. t # <<>>
    BY <1>1, <1>5, <2>1, Lengths
  <2>3. QED  BY <1>1, <1>5, <1>6, <1>7, <2>2, GoesOnMoves
<1>9. QED  BY <1>1, <1>2, <1>5, <1>7, <1>8

(* What is left when the first instruction is done with.                    *)
LEMMA RestTypes ==
    ASSUME MInv, NEW c \in Threads, call[c].code # <<>>
    PROVE  /\ Rest(c) \in Seq(Instr) /\ Formed(Rest(c))
           /\ Len(Rest(c)) = Len(call[c].code) - 1 /\ Len(call[c].code) \in Nat \ {0}
           /\ \A i \in 1 .. Len(Rest(c)) : Rest(c)[i] = call[c].code[i + 1]
<1>1. call[c].code \in Seq(Instr) /\ Formed(call[c].code)
  BY CallTypes
<1>2. QED  BY <1>1, Popped, PoppedFormed DEF Rest

(* A publish task is cancelled and awaited, a dead one forgotten.           *)
LEMMA CancelMoves ==
    ASSUME MInv, NEW c \in Threads, CancelPublish(c)
    PROVE  /\ Op(c) = "cancels" /\ call[c].code # <<>> /\ call[c].on = None
           /\ UNCHANGED <<db, connection, recons, hist>>
           /\ \/ /\ Devs(c) = {} /\ UNCHANGED publishers
                 /\ Moves(c, Rest(c), "ready", None) /\ (Rest(c) # <<>> => loop' = c)
              \/ \E d \in Devs(c), t \in Seq(Instr), w \in {"ready", "task"}, o \in Pubs \cup {None} :
                   /\ Moves(c, t, w, o)
                   /\ Len(t) = Len(call[c].code) /\ t[1] = I("cancels", Devs(c) \ {d})
                   /\ \A i \in 2 .. Len(t) : t[i] = call[c].code[i]
                   /\ d \in Devices /\ pub' = [pub EXCEPT ![d] = None]
                   /\ \/ /\ pub[d] # None /\ LivePub(pub[d]) /\ o = pub[d]
                         /\ ptask' = [ptask EXCEPT ![pub[d]].cancelled = TRUE]
                         /\ UNCHANGED pconf
                      \/ /\ ~(pub[d] # None /\ LivePub(pub[d])) /\ o = None
                         /\ pconf' = pconf \ {d} /\ UNCHANGED ptask
<1>1. /\ loop = c /\ call[c].code # <<>> /\ Op(c) = "cancels" /\ call[c].on = None
      /\ UNCHANGED <<db, connection, recons, hist>>
  BY Holder DEF CancelPublish
<1>2. CASE Devs(c) = {} /\ GoesOn(c, Rest(c)) /\ UNCHANGED publishers
  BY <1>1, <1>2, RestTypes, GoesOnMoves
<1>3. CASE \E d \in Devs(c) :
             LET next == <<I("cancels", Devs(c) \ {d})>> \o Rest(c) IN
             /\ pub' = [pub EXCEPT ![d] = None]
             /\ IF pub[d] # None /\ LivePub(pub[d])
                THEN /\ ptask' = [ptask EXCEPT ![pub[d]].cancelled = TRUE]
                     /\ Suspends(c, next, "task", pub[d])
                     /\ UNCHANGED pconf
                ELSE /\ pconf' = pconf \ {d}
                     /\ GoesOn(c, next)
                     /\ UNCHANGED ptask
  <2>0. PICK d \in Devs(c) :
             LET next == <<I("cancels", Devs(c) \ {d})>> \o Rest(c) IN
             /\ pub' = [pub EXCEPT ![d] = None]
             /\ IF pub[d] # None /\ LivePub(pub[d])
                THEN /\ ptask' = [ptask EXCEPT ![pub[d]].cancelled = TRUE]
                     /\ Suspends(c, next, "task", pub[d])
                     /\ UNCHANGED pconf
                ELSE /\ pconf' = pconf \ {d}
                     /\ GoesOn(c, next)
                     /\ UNCHANGED ptask
    BY <1>3
  <2>1. PICK x, t :
             /\ x = I("cancels", Devs(c) \ {d}) /\ t = <<x>> \o Rest(c)
             /\ pub' = [pub EXCEPT ![d] = None]
             /\ IF pub[d] # None /\ LivePub(pub[d])
                THEN /\ ptask' = [ptask EXCEPT ![pub[d]].cancelled = TRUE]
                     /\ Suspends(c, t, "task", pub[d])
                     /\ UNCHANGED pconf
                ELSE /\ pconf' = pconf \ {d}
                     /\ GoesOn(c, t)
                     /\ UNCHANGED ptask
    BY <2>0
  <2>2. x \in Instr /\ x.op = "cancels" /\ call[c].code[1].op = "cancels" /\ d \in Devices
    <3>1. Devs(c) \in SUBSET Devices /\ call[c].code[1].op = "cancels"
      BY <1>1, Front
    <3>2. QED  BY <2>1, <3>1 DEF I, Instr, Ops
  <2>3. /\ t \in Seq(Instr) /\ Len(t) = Len(call[c].code) /\ t[1] = x
        /\ \A i \in 2 .. Len(t) : t[i] = call[c].code[i]
    BY SMTT(30), <1>1, <2>1, <2>2, CallTypes, Replaced DEF Rest
  <2>4. Formed(t)
    BY <1>1, <2>1, <2>2, CallTypes, ReplacedFormed DEF Rest
  <2>5. pub[d] \in Pubs \cup {None}
    BY <2>2, TypeParts DEF MInv, OtherTypes
  <2>6. CASE pub[d] # None /\ LivePub(pub[d])
    <3>1. Suspends(c, t, "task", pub[d]) /\ ptask' = [ptask EXCEPT ![pub[d]].cancelled = TRUE]
          /\ UNCHANGED pconf
      BY <2>1, <2>6
    <3>2. Moves(c, t, "task", pub[d])
      BY <2>3, <2>4, <2>5, <2>6, <3>1, SuspendsMoves
    <3>3. QED  BY <1>1, <2>1, <2>2, <2>3, <2>5, <2>6, <3>1, <3>2
  <2>7. CASE ~(pub[d] # None /\ LivePub(pub[d]))
    <3>1. GoesOn(c, t) /\ pconf' = pconf \ {d} /\ UNCHANGED ptask
      BY <2>1, <2>7
    <3>2. Moves(c, t, "ready", None)
      BY <1>1, <2>3, <2>4, <3>1, GoesOnMoves
    <3>3. QED  BY <1>1, <2>1, <2>2, <2>3, <2>7, <3>1, <3>2
  <2>8. QED  BY <2>6, <2>7
<1>4. QED  BY <1>2, <1>3 DEF CancelPublish

(* The reconnect task is cancelled and awaited.                             *)
LEMMA CancelReconnectMoves ==
    ASSUME MInv, NEW c \in Threads, CancelReconnect(c)
    PROVE  /\ Op(c) = "recon" /\ call[c].code # <<>> /\ call[c].on = None /\ recon' = None
           /\ UNCHANGED <<db, connection, publishers, hist>>
           /\ \/ /\ recon \in Recs /\ LiveRec(recon)
                 /\ rtask' = [rtask EXCEPT ![recon].cancelled = TRUE]
                 /\ Moves(c, Rest(c), "task", recon)
              \/ /\ ~(recon # None /\ LiveRec(recon)) /\ UNCHANGED rtask
                 /\ Moves(c, Rest(c), "ready", None) /\ (Rest(c) # <<>> => loop' = c)
<1>1. /\ loop = c /\ call[c].code # <<>> /\ Op(c) = "recon" /\ call[c].on = None
  BY Holder DEF CancelReconnect
<1>2. Rest(c) \in Seq(Instr) /\ Formed(Rest(c)) /\ recon \in Recs \cup {None}
  BY <1>1, RestTypes, TypeParts DEF MInv, OtherTypes
<1>3. CASE recon # None /\ LiveRec(recon)
  <2>1. Suspends(c, Rest(c), "task", recon) /\ recon \in Recs
        /\ rtask' = [rtask EXCEPT ![recon].cancelled = TRUE]
    BY <1>2, <1>3 DEF CancelReconnect
  <2>2. Moves(c, Rest(c), "task", recon)
    BY <1>2, <1>3, <2>1, SuspendsMoves
  <2>3. QED  BY <1>1, <1>3, <2>1, <2>2 DEF CancelReconnect
<1>4. CASE ~(recon # None /\ LiveRec(recon))
  <2>1. GoesOn(c, Rest(c)) /\ UNCHANGED rtask
    BY <1>4 DEF CancelReconnect
  <2>2. Moves(c, Rest(c), "ready", None) /\ (Rest(c) # <<>> => loop' = c)
    BY <1>1, <1>2, <2>1, GoesOnMoves
  <2>3. QED  BY <1>1, <1>4, <2>1, <2>2 DEF CancelReconnect
<1>5. QED  BY <1>3, <1>4

(* The client is closed, or found to be closed.                             *)
LEMMA CloseMoves ==
    ASSUME MInv, NEW c \in Threads, Close(c)
    PROVE  /\ Op(c) = "close" /\ call[c].code # <<>> /\ call[c].on = None
           /\ UNCHANGED <<db, net, leaked, recons, pub, pconf, hist>>
           /\ \/ /\ CloseClient /\ UNCHANGED broker
                 /\ Moves(c, call[c].code, "ready", None)
              \/ /\ client = "none"
                 /\ broker' = Disconnected /\ UNCHANGED <<client, ptask>>
                 /\ Moves(c, Rest(c), "ready", None)
<1>1. /\ loop = c /\ call[c].code # <<>> /\ Op(c) = "close" /\ call[c].on = None
      /\ UNCHANGED <<db, net, leaked, recons, pub, pconf, hist>>
  BY Holder DEF Close
<1>2. CASE client # "none"
  <2>1. CloseClient /\ UNCHANGED broker /\ Suspends(c, call[c].code, "ready", None)
    BY <1>2 DEF Close
  <2>2. Moves(c, call[c].code, "ready", None)
    BY <2>1, CallTypes, SuspendsMoves
  <2>3. QED  BY <1>1, <2>1, <2>2
<1>3. CASE client = "none"
  <2>1. broker' = Disconnected /\ UNCHANGED <<client, ptask>> /\ GoesOn(c, Rest(c))
    BY <1>3 DEF Close
  <2>2. Moves(c, Rest(c), "ready", None)
    BY <1>1, <2>1, RestTypes, GoesOnMoves
  <2>3. QED  BY <1>1, <1>3, <2>1, <2>2
<1>4. QED  BY <1>2, <1>3

(* The broker is forgotten.                                                 *)
LEMMA ForgetMoves ==
    ASSUME MInv, NEW c \in Threads, Forget(c)
    PROVE  /\ Op(c) = "forget" /\ call[c].code # <<>> /\ call[c].on = None
           /\ broker' = "absent" /\ Moves(c, Rest(c), "ready", None)
           /\ UNCHANGED <<db, net, client, leaked, recons, publishers, hist>>
<1>1. /\ loop = c /\ call[c].code # <<>> /\ Op(c) = "forget" /\ call[c].on = None
  BY Holder DEF Forget
<1>2. GoesOn(c, Rest(c))
  BY DEF Forget
<1>3. QED  BY <1>1, <1>2, RestTypes, GoesOnMoves DEF Forget

(* A connection attempt and a statement to the database begin.              *)
LEMMA OpenMoves ==
    ASSUME MInv, NEW c \in Threads, Open(c)
    PROVE  /\ Op(c) \in {"open", "reopen"} /\ call[c].code # <<>> /\ call[c].on = None
           /\ broker' = "down" /\ Moves(c, call[c].code, "net", None)
           /\ UNCHANGED <<db, net, client, leaked, recons, publishers, hist>>
<1>1. /\ loop = c /\ call[c].code # <<>> /\ Op(c) \in {"open", "reopen"} /\ call[c].on = None
  BY Holder DEF Open
<1>2. Suspends(c, call[c].code, "net", None)
  BY DEF Open
<1>3. Begins(call[c].code, {"open", "reopen"})
  BY <1>1, Front DEF Begins
<1>4. Moves(c, call[c].code, "net", None)
  BY <1>2, <1>3, CallTypes, SuspendsMoves
<1>5. QED  BY <1>1, <1>4 DEF Open

(* A statement is sent to the database.                                     *)
LEMMA ExecuteMoves ==
    ASSUME MInv, NEW c \in Threads, Execute(c)
    PROVE  /\ call[c].code # <<>> /\ call[c].on = None
           /\ Moves(c, call[c].code, "db", None)
           /\ UNCHANGED <<db, connection, recons, publishers, hist>>
<1>1. /\ loop = c /\ call[c].code # <<>> /\ Op(c) \in DbOps /\ call[c].on = None
  BY Holder DEF Execute, DbOps
<1>2. Suspends(c, call[c].code, "db", None)
  BY DEF Execute
<1>3. Begins(call[c].code, DbOps)
  BY <1>1, Front DEF Begins
<1>4. Moves(c, call[c].code, "db", None)
  BY <1>2, <1>3, CallTypes, SuspendsMoves
<1>5. QED  BY <1>1, <1>4 DEF Execute

(* Two fields of a request are set.                                         *)
LEMMA BothFields ==
    ASSUME NEW r \in CallRecord, r.on = None, NEW t
    PROVE  /\ [[r EXCEPT !.code = t] EXCEPT !.wait = "ready"]
                  = [code |-> t, wait |-> "ready", on |-> None]
           /\ [[r EXCEPT !.wait = "ready"] EXCEPT !.code = t]
                  = [code |-> t, wait |-> "ready", on |-> None]
<1>0. PICK a, b : a = [r EXCEPT !.code = t] /\ b = [r EXCEPT !.wait = "ready"]
  OBVIOUS
<1>1. a = [code |-> t, wait |-> r.wait, on |-> None]
  BY <1>0 DEF CallRecord
<1>2. b = [code |-> r.code, wait |-> "ready", on |-> None]
  BY <1>0 DEF CallRecord
<1>3. [a EXCEPT !.wait = "ready"] = [code |-> t, wait |-> "ready", on |-> None]
  BY <1>1
<1>4. [b EXCEPT !.code = t] = [code |-> t, wait |-> "ready", on |-> None]
  BY <1>2
<1>5. QED  BY <1>0, <1>3, <1>4

(* The attempt ends.                                                        *)
LEMMA OpenedMoves ==
    ASSUME MInv, NEW c \in Threads, Opened(c)
    PROVE  /\ Op(c) \in {"open", "reopen"} /\ call[c].code # <<>> /\ call[c].on = None
           /\ call[c].wait = "net"
           /\ UNCHANGED <<db, net, pub, pconf, hist>>
           /\ \/ Connect /\ UNCHANGED recons /\ Moves(c, Rest(c), "ready", None)
              \/ /\ Schedule /\ UNCHANGED <<client, leaked, broker, ptask>>
                 /\ \/ Op(c) = "open" /\ Moves(c, Rest(c), "ready", None)
                    \/ Op(c) # "open" /\ Moves(c, <<>>, "ready", None)
<1>1. call[c].code # <<>> /\ call[c].wait = "net" /\ Begins(call[c].code, {"open", "reopen"})
  BY DEF Opened, MInv, Waits, Begins
<1>2. Op(c) \in {"open", "reopen"} /\ call[c].on = None /\ call[c] \in CallRecord
  <2>1. call[c].wait = "task" <=> call[c].on # None
    BY DEF MInv, Waits
  <2>2. QED  BY <1>1, <2>1, Front, CallTypes DEF Begins
<1>3. Rest(c) \in Seq(Instr) /\ Formed(Rest(c)) /\ <<>> \in Seq(Instr) /\ Formed(<<>>)
  BY <1>1, RestTypes DEF Formed
<1>4. ASSUME NEW t \in Seq(Instr), Formed(t),
             call' = [call EXCEPT ![c].code = t, ![c].wait = "ready"],
             loop' = IF call'[c].code = <<>> THEN None ELSE c
      PROVE  Moves(c, t, "ready", None)
  <2>1. call' = [call EXCEPT ![c] = [[call[c] EXCEPT !.code = t] EXCEPT !.wait = "ready"]]
    BY <1>4, CallTypes
  <2>2. [[call[c] EXCEPT !.code = t] EXCEPT !.wait = "ready"]
            = [code |-> t, wait |-> "ready", on |-> None]
    BY <1>2, BothFields
  <2>3. call' = [call EXCEPT ![c] = [code |-> t, wait |-> "ready", on |-> None]]
    BY <2>1, <2>2
  <2>4. call'[c].code = t
    BY <2>3, CallTypes
  <2>5. loop' \in {None, c} /\ (loop' = c => t # <<>>)
    BY <1>4, <2>4, CallTypes
  <2>6. QED  BY <1>4, <2>3, <2>5, CallMoves
<1>5. CASE net
  <2>1. /\ Connect /\ UNCHANGED recons
        /\ call' = [call EXCEPT ![c].code = Rest(c), ![c].wait = "ready"]
        /\ loop' = IF call'[c].code = <<>> THEN None ELSE c
    BY <1>5 DEF Opened
  <2>2. Moves(c, Rest(c), "ready", None)
    BY <1>3, <1>4, <2>1
  <2>3. QED  BY <1>1, <1>2, <2>1, <2>2 DEF Opened
<1>6. CASE ~net
  <2>0. PICK t : t = IF Op(c) = "open" THEN Rest(c) ELSE <<>>
    OBVIOUS
  <2>1. /\ Schedule /\ UNCHANGED <<client, leaked, broker, ptask>>
        /\ call' = [call EXCEPT ![c].code = t, ![c].wait = "ready"]
        /\ loop' = IF call'[c].code = <<>> THEN None ELSE c
    BY <1>6, <2>0 DEF Opened
  <2>2. t \in Seq(Instr) /\ Formed(t)
    BY <1>3, <2>0
  <2>3. Moves(c, t, "ready", None)
    BY <1>4, <2>1, <2>2
  <2>4. QED  BY <1>1, <1>2, <2>0, <2>1, <2>3 DEF Opened
<1>7. QED  BY <1>5, <1>6

(* The configs a statement finds.                                           *)
Found(c) ==
    CASE Op(c) = "query" -> {x \in Enabled(Devs(c)) : device[x] = "running"}
      [] Op(c) = "configs" -> Enabled(Devs(c))
      [] OTHER -> {}

(* A statement has been executed: the request goes on with its rest, or     *)
(* with the configs found.                                                  *)
LEMMA DatabaseMoves ==
    ASSUME MInv, NEW c \in Threads, Database(c)
    PROVE  /\ Op(c) \in DbOps /\ call[c].code # <<>> /\ call[c].on = None
           /\ UNCHANGED <<row, connection, recons, publishers, hist>>
           /\ \/ Moves(c, Rest(c), "ready", None)
              \/ /\ Op(c) \in {"query", "configs"} /\ Found(c) # {}
                 /\ \E t \in Seq(Instr) :
                      /\ Moves(c, t, "ready", None)
                      /\ Len(t) = Len(call[c].code) /\ t[1] = I("starts", Found(c))
                      /\ \A i \in 2 .. Len(t) : t[i] = call[c].code[i]
<1>1. /\ call[c].code # <<>> /\ call[c].wait = "db" /\ Begins(call[c].code, DbOps)
      /\ UNCHANGED <<row, connection, recons, publishers, loop, hist>>
  BY DEF Database, MInv, Waits, Begins
<1>2. Op(c) \in DbOps /\ call[c].on = None /\ call[c] \in CallRecord
  <2>1. call[c].wait = "task" <=> call[c].on # None
    BY DEF MInv, Waits
  <2>2. QED  BY <1>1, <2>1, Front, CallTypes DEF Begins
<1>3. Rest(c) \in Seq(Instr) /\ Formed(Rest(c))
  BY <1>1, RestTypes
<1>4. loop # c
  BY <1>1 DEF MInv, Waits
<1>5. ASSUME NEW t \in Seq(Instr), Formed(t),
             call' = [call EXCEPT ![c].wait = "ready", ![c].code = t]
      PROVE  Moves(c, t, "ready", None)
  <2>1. call' = [call EXCEPT ![c] = [[call[c] EXCEPT !.wait = "ready"] EXCEPT !.code = t]]
    BY <1>5, CallTypes
  <2>2. [[call[c] EXCEPT !.wait = "ready"] EXCEPT !.code = t]
            = [code |-> t, wait |-> "ready", on |-> None]
    BY <1>2, BothFields
  <2>3. call' = [call EXCEPT ![c] = [code |-> t, wait |-> "ready", on |-> None]]
    BY <2>1, <2>2
  <2>4. QED  BY <1>1, <1>4, <1>5, <2>3, CallMoves
<1>6. call' = [call EXCEPT ![c].wait = "ready",
                           ![c].code = (IF Found(c) = {} THEN <<>> ELSE <<I("starts", Found(c))>>)
                                        \o Rest(c)]
  BY DEF Database, Found
<1>7. CASE Found(c) = {}
  <2>1. <<>> \o Rest(c) = Rest(c)
    BY <1>3, ConcatEmptySeq
  <2>2. call' = [call EXCEPT ![c].wait = "ready", ![c].code = Rest(c)]
    BY <1>6, <1>7, <2>1
  <2>3. QED  BY <1>1, <1>2, <1>3, <1>5, <2>2
<1>8. CASE Found(c) # {}
  <2>1. Op(c) \in {"query", "configs"}
    BY <1>2, <1>8 DEF Found, DbOps
  <2>2. PICK x, t : x = I("starts", Found(c)) /\ t = <<x>> \o Rest(c)
    OBVIOUS
  <2>3. /\ x \in Instr /\ x.op = "starts" /\ x.devs # {}
        /\ call[c].code[1].op \in {"query", "configs"}
    <3>1. Devs(c) \in SUBSET Devices /\ call[c].code[1].op = Op(c)
      BY <1>1, Front
    <3>2. Found(c) \in SUBSET Devices
      BY <2>1, <3>1 DEF Found, Enabled
    <3>3. QED  BY <1>8, <2>1, <2>2, <3>1, <3>2 DEF I, Instr, Ops
  <2>4. /\ t \in Seq(Instr) /\ Len(t) = Len(call[c].code) /\ t[1] = x
        /\ \A i \in 2 .. Len(t) : t[i] = call[c].code[i]
    BY <1>1, <2>2, <2>3, CallTypes, Replaced DEF Rest
  <2>5. Formed(t)
    BY <1>1, <2>2, <2>3, CallTypes, ReplacedFormed DEF Rest
  <2>6. call' = [call EXCEPT ![c].wait = "ready", ![c].code = t]
    BY <1>6, <1>8, <2>2
  <2>7. Moves(c, t, "ready", None)
    BY <1>5, <2>4, <2>5, <2>6
  <2>8. QED  BY <1>1, <1>2, <1>8, <2>1, <2>2, <2>4, <2>7
<1>9. QED  BY <1>7, <1>8

(* The start of one config found goes to the front.                         *)
LEMMA StartsMoves ==
    ASSUME MInv, NEW c \in Threads, Starts(c)
    PROVE  /\ Op(c) = "starts" /\ call[c].code # <<>> /\ call[c].on = None
           /\ UNCHANGED <<db, connection, recons, publishers, hist>>
           /\ \E d \in Devs(c), u \in Seq(Instr), t \in Seq(Instr) :
                /\ Moves(c, t, "ready", None) /\ d \in Devices
                /\ Len(t) = Len(u) + 3
                /\ t[1] = I("check", {d}) /\ t[2] = I("list", {d}) /\ t[3] = I("create", {d})
                /\ \A i \in 1 .. Len(u) : t[i + 3] = u[i]
                /\ \/ u = Rest(c)
                   \/ /\ Len(u) = Len(call[c].code) /\ u[1] = I("starts", Devs(c) \ {d})
                      /\ \A i \in 2 .. Len(u) : u[i] = call[c].code[i]
<1>1. /\ loop = c /\ call[c].code # <<>> /\ Op(c) = "starts" /\ call[c].on = None
      /\ UNCHANGED <<db, connection, recons, publishers, hist>>
  BY Holder DEF Starts
<1>2. PICK d \in Devs(c) :
         GoesOn(c, StartPublishing("check", d)
                   \o (IF Devs(c) = {d} THEN <<>> ELSE <<I("starts", Devs(c) \ {d})>>) \o Rest(c))
  BY DEF Starts
<1>3. /\ call[c].code \in Seq(Instr) /\ Formed(call[c].code) /\ Rest(c) \in Seq(Instr)
      /\ Formed(Rest(c)) /\ Len(Rest(c)) = Len(call[c].code) - 1
      /\ Len(call[c].code) \in Nat \ {0} /\ d \in Devices /\ Devs(c) \in SUBSET Devices
      /\ call[c].code[1].op = "starts"
      /\ \A i \in 1 .. Len(Rest(c)) : Rest(c)[i] = call[c].code[i + 1]
  BY <1>1, CallTypes, RestTypes, Front
<1>4. StartPublishing("check", d) \in Seq(Instr)
  BY <1>3 DEF StartPublishing, I, Instr, Ops
<1>5. PICK x : x = I("starts", Devs(c) \ {d})
  OBVIOUS
<1>6. x \in Instr /\ x.op = "starts" /\ x.devs = Devs(c) \ {d} /\ <<x>> \in Seq(Instr)
  <2>1. x \in Instr /\ x.op = "starts" /\ x.devs = Devs(c) \ {d}
    BY <1>3, <1>5 DEF I, Instr, Ops
  <2>2. QED  BY <2>1
<1>7. PICK u : u = IF Devs(c) = {d} THEN Rest(c) ELSE <<x>> \o Rest(c)
  OBVIOUS
<1>8. GoesOn(c, StartPublishing("check", d) \o u)
  <2>1. CASE Devs(c) = {d}
    <3>1. StartPublishing("check", d) \o <<>> = StartPublishing("check", d)
      BY <1>4, ConcatEmptySeq
    <3>2. QED  BY <1>2, <1>7, <2>1, <3>1
  <2>2. CASE Devs(c) # {d}
    <3>1. (StartPublishing("check", d) \o <<x>>) \o Rest(c)
              = StartPublishing("check", d) \o (<<x>> \o Rest(c))
      BY <1>3, <1>4, <1>6, ConcatAssociative
    <3>2. QED  BY <1>2, <1>5, <1>7, <2>2, <3>1
  <2>3. QED  BY <2>1, <2>2
<1>9. /\ u \in Seq(Instr) /\ Formed(u)
      /\ \/ u = Rest(c)
         \/ /\ Len(u) = Len(call[c].code) /\ u[1] = x
            /\ \A i \in 2 .. Len(u) : u[i] = call[c].code[i]
  <2>1. CASE Devs(c) = {d}
    BY <1>3, <1>7, <2>1
  <2>2. CASE Devs(c) # {d}
    <3>1. x.devs # {} /\ u = <<x>> \o Tail(call[c].code)
      BY <1>6, <1>7, <2>2 DEF Rest
    <3>2. /\ u \in Seq(Instr) /\ Len(u) = Len(call[c].code) /\ u[1] = x
          /\ \A i \in 2 .. Len(u) : u[i] = call[c].code[i]
      BY <1>1, <1>3, <1>6, <3>1, Replaced
    <3>3. Formed(u)
      BY <1>1, <1>3, <1>6, <3>1, ReplacedFormed
    <3>4. QED  BY <3>2, <3>3
  <2>3. QED  BY <2>1, <2>2
<1>10. \A j \in 1 .. Len(call[c].code) :
           /\ call[c].code[j].op \notin {"disable", "drop"}
           /\ j > 1 => call[c].code[j].op \notin {"cancels", "enable"}
           /\ j = 2 => call[c].code[j].op # "create"
  <2> TAKE j \in 1 .. Len(call[c].code)
  <2>1. Fits(call[c].code, j)
    BY <1>3 DEF Formed
  <2>2. call[c].code[j].op \notin {"disable", "drop"}
    BY <1>3, <2>1 DEF Fits, DisableThenCancel
  <2>3. j > 1 => call[c].code[j].op \notin {"cancels", "enable"}
    BY <1>3, <2>1 DEF Fits, First
  <2>4. j = 2 => call[c].code[j].op # "create"
    <3>1. CancelThenCreate(call[c].code, j)
      BY <2>1 DEF Fits
    <3>2. I("list", call[c].code[2].devs).op = "list"
      BY DEF I
    <3>3. QED  BY <1>3, <3>1, <3>2 DEF CancelThenCreate
  <2>5. QED  BY <2>2, <2>3, <2>4
<1>11. u # <<>> => u[1].op \notin {"create", "cancels", "enable"}
  <2>1. CASE u = Rest(c)
    <3> SUFFICES ASSUME u # <<>> PROVE u[1].op \notin {"create", "cancels", "enable"}
      OBVIOUS
    <3>1. Len(u) > 0
      BY <1>9, Lengths
    <3>2. u[1] = call[c].code[2] /\ 2 \in 1 .. Len(call[c].code)
      BY <1>3, <2>1, <3>1
    <3>3. QED  BY <1>10, <3>2
  <2>2. QED  BY <1>6, <1>9, <2>1
<1>12. \A j \in 1 .. Len(u) : u[j].op \notin {"disable", "drop"}
  <2>1. CASE u = Rest(c)
    <3> TAKE j \in 1 .. Len(u)
    <3>1. u[j] = call[c].code[j + 1] /\ j + 1 \in 1 .. Len(call[c].code)
      BY <1>3, <2>1
    <3>2. QED  BY <1>10, <3>1
  <2>2. CASE u # Rest(c)
    <3> TAKE j \in 1 .. Len(u)
    <3>1. CASE j = 1
      BY <1>6, <1>9, <2>2, <3>1
    <3>2. CASE j # 1
      BY <1>3, <1>9, <1>10, <2>2, <3>2
    <3>3. QED  BY <3>1, <3>2
  <2>3. QED  BY <2>1, <2>2
<1>13. PICK t : t = StartPublishing("check", d) \o u
  OBVIOUS
<1>14. /\ t \in Seq(Instr) /\ Formed(t) /\ Len(t) = Len(u) + 3
       /\ t[1] = I("check", {d}) /\ t[2] = I("list", {d}) /\ t[3] = I("create", {d})
       /\ \A i \in 1 .. Len(u) : t[i + 3] = u[i]
  <2>1. Formed(t)
    BY <1>3, <1>9, <1>11, <1>12, <1>13, PrefixedFormed
  <2>2. QED  BY <1>3, <1>9, <1>13, <2>1, Prefixed
<1>15. Moves(c, t, "ready", None)
  BY <1>1, <1>8, <1>13, <1>14, GoesOnMoves
<1>16. QED  BY <1>1, <1>3, <1>5, <1>9, <1>14, <1>15

(* A start raises when the broker is not connected.                         *)
LEMMA CheckMoves ==
    ASSUME MInv, NEW c \in Threads, Check(c)
    PROVE  /\ call[c].code # <<>> /\ call[c].on = None
           /\ UNCHANGED <<db, connection, recons, publishers, overlap>>
           /\ \/ /\ Op(c) \in {"check", "try"} /\ Moves(c, Rest(c), "ready", None)
                 /\ UNCHANGED untold
              \/ /\ Op(c) = "check" /\ UNCHANGED untold
                 /\ \E t \in Seq(Instr) :
                      /\ Moves(c, t, "ready", None) /\ Len(t) = Len(call[c].code) - 3
                      /\ \A i \in 1 .. Len(t) : t[i] = call[c].code[i + 3]
              \/ /\ Op(c) = "try" /\ untold' = untold \cup Devs(c)
                 /\ Moves(c, <<I("disable", Devs(c))>>, "ready", None)
<1>1. /\ loop = c /\ call[c].code # <<>> /\ Op(c) \in {"check", "try"} /\ call[c].on = None
      /\ UNCHANGED <<db, connection, recons, publishers, overlap>>
  BY Holder DEF Check
<1>2. call[c].code \in Seq(Instr) /\ Formed(call[c].code)
  BY CallTypes
<1>3. CASE broker = "up"
  <2>1. GoesOn(c, Rest(c)) /\ UNCHANGED untold
    BY <1>3 DEF Check
  <2>2. QED  BY <1>1, <2>1, RestTypes, GoesOnMoves
<1>4. CASE broker # "up" /\ Op(c) = "check"
  <2>1. GoesOn(c, SubSeq(call[c].code, 4, Len(call[c].code))) /\ UNCHANGED untold
    BY <1>4 DEF Check
  <2>2. Len(call[c].code) >= 3
    <3>1. CheckThenCreate(call[c].code, 1) /\ call[c].code[1].op = "check"
      BY <1>1, <1>4, Front DEF Fits
    <3>2. Len(call[c].code) \in Nat
      BY <1>2, Lengths
    <3>3. QED  BY <3>1, <3>2 DEF CheckThenCreate
  <2>3. PICK t : t = SubSeq(call[c].code, 4, Len(call[c].code))
    OBVIOUS
  <2>4. /\ t \in Seq(Instr) /\ Formed(t) /\ Len(t) = Len(call[c].code) - 3
        /\ \A i \in 1 .. Len(t) : t[i] = call[c].code[i + 3]
    BY <1>2, <2>2, <2>3, Skipped
  <2>5. Moves(c, t, "ready", None)
    BY <1>1, <2>1, <2>3, <2>4, GoesOnMoves
  <2>6. QED  BY <1>1, <1>4, <2>1, <2>4, <2>5
<1>5. CASE broker # "up" /\ Op(c) = "try"
  <2>1. GoesOn(c, <<I("disable", Devs(c))>>) /\ untold' = untold \cup Devs(c)
    BY <1>5 DEF Check
  <2>2. PICK x : x = I("disable", Devs(c))
    OBVIOUS
  <2>3. x \in Instr /\ x.op = "disable" /\ \E d \in Devices : x.devs = {d}
    BY <1>1, <1>5, <2>2, FrontOne DEF ForOne, I, Instr, Ops
  <2>4. <<x>> \in Seq(Instr) /\ Len(<<x>>) = 1 /\ <<x>>[1] = x
    BY <2>3
  <2>5. Fits(<<x>>, 1)
    BY <2>3, <2>4 DEF Fits, OneDevice, ForOne, DbOps, First, CheckThenCreate, CancelThenCreate,
                       CloseThenRecover, DisableThenCancel, EnableThenCreate, Ends
  <2>6. Formed(<<x>>)
    BY <2>4, <2>5 DEF Formed
  <2>7. Moves(c, <<x>>, "ready", None)
    BY <1>1, <2>1, <2>2, <2>4, <2>6, GoesOnMoves
  <2>8. QED  BY <1>1, <1>5, <2>1, <2>2, <2>7
<1>6. QED  BY <1>1, <1>3, <1>4, <1>5

(* A publish task is created.                                               *)
LEMMA CreateMoves ==
    ASSUME MInv, NEW c \in Threads, Create(c)
    PROVE  /\ Op(c) = "create" /\ call[c].code # <<>> /\ call[c].on = None
           /\ Moves(c, Rest(c), "ready", None)
           /\ UNCHANGED <<db, connection, recons, overlap>>
           /\ \E d \in Devices, p \in SparePubs :
                /\ Devs(c) = {d} /\ pconf' = pconf \cup {d} /\ untold' = untold \ {d}
                /\ pub' = [pub EXCEPT ![d] = p]
                /\ ptask' = [ptask EXCEPT ![p] = [pc |-> "new", dev |-> d, conn |-> "none",
                                                   cancelled |-> FALSE]]
<1>1. /\ loop = c /\ call[c].code # <<>> /\ Op(c) = "create" /\ call[c].on = None
      /\ GoesOn(c, Rest(c)) /\ UNCHANGED <<db, connection, recons, overlap>>
  BY Holder DEF Create
<1>2. Dev(c) \in Devices /\ Devs(c) = {Dev(c)}
  BY <1>1, FrontOne DEF ForOne
<1>3. PICK p : p = CHOOSE x \in SparePubs : TRUE
  OBVIOUS
<1>4. p \in SparePubs
  BY <1>3 DEF Create
<1>5. [FreePub EXCEPT !.pc = "new", !.dev = Dev(c)]
         = [pc |-> "new", dev |-> Dev(c), conn |-> "none", cancelled |-> FALSE]
  <2>0. PICK b, d : b = [FreePub EXCEPT !.pc = "new"] /\ d = Dev(c)
    OBVIOUS
  <2>1. b = [pc |-> "new", dev |-> None, conn |-> "none", cancelled |-> FALSE]
    BY <2>0 DEF FreePub
  <2>2. b \in PubRecord
    BY <2>1 DEF PubRecord
  <2>3. [b EXCEPT !.dev = d] = [pc |-> b.pc, dev |-> d, conn |-> b.conn, cancelled |-> b.cancelled]
    BY <2>2 DEF PubRecord
  <2>4. b.pc = "new" /\ b.conn = "none" /\ b.cancelled = FALSE
    BY <2>1, Zenon
  <2>5. QED  BY <2>0, <2>3, <2>4, Zenon
<1>6. /\ pconf' = pconf \cup {Dev(c)} /\ untold' = untold \ {Dev(c)}
      /\ pub' = [pub EXCEPT ![Dev(c)] = p]
      /\ ptask' = [ptask EXCEPT ![p] = [pc |-> "new", dev |-> Dev(c), conn |-> "none",
                                         cancelled |-> FALSE]]
  BY <1>3, <1>5 DEF Create
<1>7. Moves(c, Rest(c), "ready", None)
  BY <1>1, RestTypes, GoesOnMoves
<1>8. QED  BY <1>1, <1>2, <1>4, <1>6, <1>7

(* A request resumes.                                                       *)
LEMMA ResumeMoves ==
    ASSUME MInv, NEW c \in Threads, Resume(c)
    PROVE  /\ Busy(c) /\ Moves(c, call[c].code, "ready", None)
           /\ \/ call[c].on = None
              \/ call[c].on \in Pubs /\ ~LivePub(call[c].on)
              \/ call[c].on \in Recs /\ ~LiveRec(call[c].on)
           /\ pconf' \in SUBSET Devices
           /\ UNCHANGED <<db, connection, recons, pub, ptask, hist>>
<1>1. call[c] \in CallRecord /\ call[c].code \in Seq(Instr) /\ Formed(call[c].code)
      /\ pconf \in SUBSET Devices
  BY CallTypes, TypeParts DEF MInv, OtherTypes
<1>2. call' = [call EXCEPT ![c] = [[call[c] EXCEPT !.wait = "ready"] EXCEPT !.on = None]]
  BY CallTypes DEF Resume
<1>3. [[call[c] EXCEPT !.wait = "ready"] EXCEPT !.on = None]
         = [code |-> call[c].code, wait |-> "ready", on |-> None]
  <2>0. PICK b : b = [call[c] EXCEPT !.wait = "ready"]
    OBVIOUS
  <2>1. b = [code |-> call[c].code, wait |-> "ready", on |-> call[c].on]
    BY <1>1, <2>0 DEF CallRecord
  <2>2. [b EXCEPT !.on = None] = [code |-> call[c].code, wait |-> "ready", on |-> None]
    BY <2>1
  <2>3. QED  BY <2>0, <2>2
<1>4. call' = [call EXCEPT ![c] = [code |-> call[c].code, wait |-> "ready", on |-> None]]
  BY <1>2, <1>3
<1>5. loop' \in {None, c} /\ (loop' = c => call[c].code # <<>>)
  BY CallTypes DEF Resume
<1>6. Moves(c, call[c].code, "ready", None)
  BY <1>1, <1>4, <1>5, CallMoves
<1>7. \/ call[c].on = None
      \/ call[c].on \in Pubs /\ ~LivePub(call[c].on)
      \/ call[c].on \in Recs /\ ~LiveRec(call[c].on)
  <2>1. call[c].wait = "task" <=> call[c].on # None
    BY DEF MInv, Waits
  <2>2. QED  BY <2>1 DEF Resume
<1>8. QED  BY <1>1, <1>6, <1>7 DEF Resume

(* The application starts: startup is the only request.                     *)
Started ==
    /\ row \in BOOLEAN /\ net \in BOOLEAN
    /\ config \in [Devices -> {"none", "off", "on"}]
    /\ device \in [Devices -> {"stopped", "running", "error", "deleted"}]
    /\ broker = "absent" /\ client = "none" /\ leaked = FALSE
    /\ recon = None /\ rtask = [r \in Recs |-> FreeRec]
    /\ pub = [d \in Devices |-> None] /\ pconf = {} /\ ptask = [p \in Pubs |-> FreePub]
    /\ call = Booting /\ loop = None /\ overlap = FALSE /\ untold = {}

(* What startup executes.                                                   *)
LEMMA BootFormed ==
    ASSUME row \in BOOLEAN
    PROVE  /\ Boot \in Seq(Instr) /\ Formed(Boot) /\ Boot # <<>>
           /\ \A i \in 1 .. Len(Boot) : Boot[i].op \in {"open", "query"}
           /\ Len(Boot) = IF row THEN 2 ELSE 1
           /\ \A i \in 1 .. Len(Boot) : Boot[i].op = IF row /\ i = 1 THEN "open" ELSE "query"
<1>1. PICK a, b : a = I("open", {}) /\ b = I("query", Devices)
  OBVIOUS
<1>2. a \in Instr /\ b \in Instr /\ a.op = "open" /\ b.op = "query"
  BY <1>1 DEF I, Instr, Ops
<1>3. PICK t : t = Boot
  OBVIOUS
<1>4. /\ t \in Seq(Instr) /\ Len(t) = IF row THEN 2 ELSE 1
      /\ \A i \in 1 .. Len(t) : t[i] = IF row /\ i = 1 THEN a ELSE b
  <2>1. <<a>> \in Seq(Instr) /\ <<b>> \in Seq(Instr) /\ Len(<<b>>) = 1 /\ <<b>>[1] = b
        /\ Len(<<a>>) = 1 /\ <<a>>[1] = a
    BY <1>2
  <2>2. CASE row
    <3>1. t = <<a>> \o <<b>>
      BY <1>1, <1>3, <2>2 DEF Boot
    <3>2. /\ t \in Seq(Instr) /\ Len(t) = Len(<<a>>) + Len(<<b>>)
          /\ \A i \in 1 .. Len(<<a>>) + Len(<<b>>) :
                t[i] = IF i <= Len(<<a>>) THEN <<a>>[i] ELSE <<b>>[i - Len(<<a>>)]
      BY <2>1, <3>1, ConcatProperties
    <3>3. Len(t) = 2 /\ t[1] = a /\ t[2] = b
      BY <2>1, <3>2
    <3>4. \A i \in 1 .. Len(t) : i \in {1, 2}
      BY <3>3
    <3>5. QED  BY <2>2, <3>2, <3>3, <3>4
  <2>3. CASE ~row
    <3>1. t = <<>> \o <<b>>
      BY <1>1, <1>3, <2>3 DEF Boot
    <3>2. t = <<b>>
      BY <2>1, <3>1, ConcatEmptySeq
    <3>3. \A i \in 1 .. Len(t) : t[i] = b
      BY <2>1, <3>2
    <3>4. QED  BY <2>1, <2>3, <3>2, <3>3
  <2>4. QED  BY <2>2, <2>3
<1>6. ASSUME NEW i \in 1 .. Len(t)
      PROVE  Fits(t, i) /\ t[i].op = IF row /\ i = 1 THEN "open" ELSE "query"
  <2>1. t[i].op = IF row /\ i = 1 THEN "open" ELSE "query"
    BY <1>2, <1>4
  <2>2. QED  BY <2>1 DEF Fits, OneDevice, ForOne, DbOps, First, CheckThenCreate, CancelThenCreate,
                         CloseThenRecover, DisableThenCancel, EnableThenCreate, Ends
<1>7. t # <<>>
  BY <1>4, Lengths
<1>8. QED  BY <1>3, <1>4, <1>6, <1>7 DEF Formed

(* The requests when the application starts.                                *)
LEMMA BootingCalls ==
    ASSUME row \in BOOLEAN, call = Booting
    PROVE  /\ call \in [Threads -> CallRecord]
           /\ \A c \in Threads :
                /\ call[c].wait = "ready" /\ call[c].on = None
                /\ call[c].code = IF c = Main THEN Boot ELSE <<>>
<1>1. PICK b : b = [Idle EXCEPT !.code = Boot]
  OBVIOUS
<1>2. b = [code |-> Boot, wait |-> "ready", on |-> None]
  BY <1>1 DEF Idle
<1>3. call = [c \in Threads |-> IF c = Main THEN b ELSE Idle]
  BY <1>1 DEF Booting
<1>4. b \in CallRecord /\ Idle \in CallRecord
  <2>1. <<>> \in Seq(Instr)
    OBVIOUS
  <2>2. QED  BY <1>2, <2>1, BootFormed DEF CallRecord, Idle
<1>5. QED  BY <1>2, <1>3, <1>4 DEF Idle

(* All that is claimed holds of them.                                       *)
LEMMA StartedHolds == Started => MInv /\ RInv /\ AInv
<1> SUFFICES ASSUME Started PROVE MInv /\ RInv /\ AInv
  OBVIOUS
<1>1. /\ call \in [Threads -> CallRecord] /\ Main \in Threads /\ None \notin Threads
      /\ \A c \in Threads :
           /\ call[c].wait = "ready" /\ call[c].on = None
           /\ call[c].code = IF c = Main THEN Boot ELSE <<>>
  BY BootingCalls, MqttAssumption DEF Started, Threads
<1>2. /\ Boot \in Seq(Instr) /\ Formed(Boot) /\ Boot # <<>>
      /\ \A i \in 1 .. Len(Boot) : Boot[i].op \in {"open", "query"}
  BY BootFormed DEF Started
<1>3. OtherTypes
  <2>1. FreeRec \in RecRecord /\ FreePub \in PubRecord
    BY DEF FreeRec, RecRecord, FreePub, PubRecord
  <2>2. rtask \in [Recs -> RecRecord] /\ ptask \in [Pubs -> PubRecord]
    BY <2>1 DEF Started
  <2>3. QED  BY <2>2 DEF Started, OtherTypes
<1>4. TypeOK
  BY <1>1, <1>3, TypeParts DEF Started
<1>5. \A p \in Pubs : ~LivePub(p)
  BY DEF Started, LivePub, FreePub
<1>6. \A r \in Recs : ~LiveRec(r)
  BY DEF Started, LiveRec, FreeRec
<1>7. \A c \in Threads : Formed(call[c].code)
  BY <1>1, <1>2 DEF Formed
<1>8. MInv
  BY <1>1, <1>4, <1>5, <1>7 DEF MInv, CodesFormed, Waits, PubsOfDevices, Started
<1>9. RInv
  BY <1>6 DEF RInv, RetryAwaited, DownRecovers, Started
<1>10. Solo
  BY <1>1 DEF Solo, Busy
<1>11. ASSUME NEW c \in Threads, NEW i \in 1 .. Len(call[c].code)
       PROVE  call[c].code[i].op \in {"open", "query"}
  <2>1. c = Main
    BY <1>1
  <2>2. QED  BY <1>1, <1>2, <2>1
<1>12. ASSUME NEW c \in Threads PROVE Ready(call[c].code)
  <2>1. call[c].code # <<>> => 1 \in 1 .. Len(call[c].code)
    BY <1>1, Lengths DEF CallRecord
  <2>2. \A ops : Begins(call[c].code, ops) => {"open", "query"} \cap ops # {}
    BY <1>11, <2>1 DEF Begins
  <2>3. QED  BY <1>11, <2>2 DEF Ready, CreateReady, StartsEnabled, DisableStops
<1>13. AInv
  BY <1>5, <1>10, <1>12 DEF AInv, StopAwaited, Alone, Registered, Wanted
<1>14. QED  BY <1>8, <1>9, <1>13

(* The first start.                                                         *)
LEMMA InitStarts == Init => Started
<1>1. Init => /\ config \in [Devices -> {"none", "off", "on"}]
              /\ device \in [Devices -> {"stopped", "running", "error", "deleted"}]
  BY DEF Init
<1>2. QED  BY <1>1 DEF Init, Started

(* What the process has in memory is as after a start.                      *)
LEMMA RestartStarts == MInv /\ Restart => Started'
<1>1. MInv => OtherTypes
  BY TypeParts DEF MInv
<1>2. MInv /\ Restart => call' = Booting'
  BY DEF Restart, Booting, Boot, db
<1>3. QED  BY <1>1, <1>2 DEF OtherTypes, Restart, Started, db

(* A restart keeps all that is claimed.                                     *)
LEMMA RestartHolds == MInv /\ Restart => (MInv /\ RInv /\ AInv)'
BY RestartStarts, StartedHolds, PTL

-----------------------------------------------------------------------------
(* Requests begin.  The code of one is formed, and says of itself what the  *)
(* invariant of requests that do not overlap asks of it.                    *)
Opens(t) ==
    /\ t \in Seq(Instr) /\ Formed(t) /\ t # <<>>
    /\ ~Begins(t, {"create", "cancels"})
    /\ \A i \in 1 .. Len(t) :
         /\ t[i].op # "starts"
         /\ t[i].op = "create" => Begins(t, {"enable"})
    /\ Begins(t, {"disable", "drop"}) => \A d \in t[1].devs : Stops(t, d)
    /\ Begins(t, {"enable"}) => \A d \in t[1].devs : config[d] # "none"

(* A code of plain instructions, the devices of which are the ones meant.   *)
LEMMA PlainFormed ==
    ASSUME NEW t \in Seq(Instr), t # <<>>,
           \A i \in 1 .. Len(t) :
              /\ OneDevice(t, i) /\ CloseThenRecover(t, i) /\ Ends(t, i)
              /\ t[i].op \notin {"check", "try", "cancels", "starts", "enable", "create", "disable",
                                 "drop"}
    PROVE  Opens(t)
<1>1. \A i \in 1 .. Len(t) : Fits(t, i)
  BY DEF Fits, First, CheckThenCreate, CancelThenCreate, DisableThenCancel, EnableThenCreate,
         Ends
<1>2. \A ops : Begins(t, ops) => \E i \in 1 .. Len(t) : t[i].op \in ops
  BY Lengths DEF Begins
<1>3. ~Begins(t, {"create", "cancels"}) /\ ~Begins(t, {"disable", "drop"}) /\ ~Begins(t, {"enable"})
  BY <1>2
<1>4. QED  BY <1>1, <1>3 DEF Opens, Formed

(* The start of a broker, its update and its removal, the shutdown.         *)
LEMMA BrokerCodes ==
    /\ Opens(<<I("open", {})>>)
    /\ Opens(DropConnection \o <<I("reopen", {}), I("query", Devices)>>)
    /\ Opens(DropConnection \o <<I("forget", {})>>)
    /\ Opens(<<I("list", Devices), I("recon", {}), I("close", {}), I("forget", {}), I("exit", {})>>)
<1>1. PICK a, b, c, e, f, g, h, x :
         /\ a = I("recon", {}) /\ b = I("list", Devices) /\ c = I("close", {})
         /\ e = I("reopen", {}) /\ f = I("query", Devices) /\ g = I("forget", {})
         /\ h = I("open", {}) /\ x = I("exit", {})
  OBVIOUS
<1>2. /\ {a, b, c, e, f, g, h, x} \subseteq Instr
      /\ a.op = "recon" /\ b.op = "list" /\ c.op = "close" /\ e.op = "reopen" /\ f.op = "query"
      /\ g.op = "forget" /\ h.op = "open" /\ x.op = "exit"
  BY <1>1 DEF I, Instr, Ops
<1>3. Opens(<<h>>)
  <2>0. PICK t : t = <<h>>
    OBVIOUS
  <2>1. t \in Seq(Instr) /\ Len(t) = 1 /\ t[1] = h
    BY <1>2, <2>0
  <2>2. \A i \in 1 .. Len(t) : i = 1
    BY <2>1
  <2>3. QED
    BY <1>2, <2>0, <2>1, <2>2, Lengths, PlainFormed
       DEF OneDevice, ForOne, DbOps, CloseThenRecover, Ends
<1>4. \A i \in 1 .. 5 : i \in {1, 2, 3, 4, 5}
  OBVIOUS
<1>5. Opens(DropConnection \o <<e, f>>)
  <2>0. PICK t : t = DropConnection \o <<e, f>>
    OBVIOUS
  <2>1. /\ t \in Seq(Instr) /\ Len(t) = 5
        /\ t[1] = a /\ t[2] = b /\ t[3] = c /\ t[4] = e /\ t[5] = f
    <3>1. /\ DropConnection \in Seq(Instr) /\ Len(DropConnection) = 3 /\ DropConnection[1] = a
          /\ DropConnection[2] = b /\ DropConnection[3] = c
      BY <1>1, <1>2 DEF DropConnection
    <3>2. <<e, f>> \in Seq(Instr) /\ Len(<<e, f>>) = 2 /\ <<e, f>>[1] = e /\ <<e, f>>[2] = f
      BY <1>2
    <3>3. PICK u, v : u = DropConnection /\ v = <<e, f>>
      OBVIOUS
    <3>4. /\ t \in Seq(Instr) /\ Len(t) = Len(u) + Len(v)
          /\ \A i \in 1 .. Len(u) + Len(v) : t[i] = IF i <= Len(u) THEN u[i] ELSE v[i - Len(u)]
      BY <2>0, <3>1, <3>2, <3>3, ConcatProperties
    <3>5. /\ Len(u) = 3 /\ u[1] = a /\ u[2] = b /\ u[3] = c /\ Len(v) = 2 /\ v[1] = e /\ v[2] = f
      BY <3>1, <3>2, <3>3
    <3>6. QED  BY <3>4, <3>5
  <2>2. \A i \in 1 .. Len(t) :
           /\ OneDevice(t, i) /\ Ends(t, i)
           /\ t[i].op \notin {"check", "try", "cancels", "starts", "enable", "create", "disable",
                              "drop"}
    BY <1>2, <1>4, <2>1 DEF OneDevice, ForOne, DbOps, Ends
  <2>3. \A i \in 1 .. Len(t) : CloseThenRecover(t, i)
    <3> SUFFICES ASSUME NEW i \in 1 .. Len(t), t[i].op \in {"recon", "close"}
                 PROVE  \E j \in i + 1 .. Len(t) : t[j].op \in {"reopen", "forget"}
      BY DEF CloseThenRecover
    <3>1. i \in {1, 2, 3}
      BY <1>2, <1>4, <2>1
    <3>2. 4 \in i + 1 .. Len(t) /\ t[4].op = "reopen"
      BY <1>2, <2>1, <3>1
    <3>3. QED  BY <3>2
  <2>4. t # <<>>
    BY <2>1, Lengths
  <2>5. QED  BY <2>0, <2>1, <2>2, <2>3, <2>4, PlainFormed
<1>6. Opens(DropConnection \o <<g>>)
  <2>0. PICK t : t = DropConnection \o <<g>>
    OBVIOUS
  <2>1. /\ t \in Seq(Instr) /\ Len(t) = 4
        /\ t[1] = a /\ t[2] = b /\ t[3] = c /\ t[4] = g
    <3>1. /\ DropConnection \in Seq(Instr) /\ Len(DropConnection) = 3 /\ DropConnection[1] = a
          /\ DropConnection[2] = b /\ DropConnection[3] = c
      BY <1>1, <1>2 DEF DropConnection
    <3>2. <<g>> \in Seq(Instr) /\ Len(<<g>>) = 1 /\ <<g>>[1] = g
      BY <1>2
    <3>3. PICK u, v : u = DropConnection /\ v = <<g>>
      OBVIOUS
    <3>4. /\ t \in Seq(Instr) /\ Len(t) = Len(u) + Len(v)
          /\ \A i \in 1 .. Len(u) + Len(v) : t[i] = IF i <= Len(u) THEN u[i] ELSE v[i - Len(u)]
      BY <2>0, <3>1, <3>2, <3>3, ConcatProperties
    <3>5. /\ Len(u) = 3 /\ u[1] = a /\ u[2] = b /\ u[3] = c /\ Len(v) = 1 /\ v[1] = g
      BY <3>1, <3>2, <3>3
    <3>6. QED  BY <3>4, <3>5
  <2>2. \A i \in 1 .. Len(t) :
           /\ OneDevice(t, i) /\ Ends(t, i)
           /\ t[i].op \notin {"check", "try", "cancels", "starts", "enable", "create", "disable",
                              "drop"}
    BY <1>2, <1>4, <2>1 DEF OneDevice, ForOne, DbOps, Ends
  <2>3. \A i \in 1 .. Len(t) : CloseThenRecover(t, i)
    <3> SUFFICES ASSUME NEW i \in 1 .. Len(t), t[i].op \in {"recon", "close"}
                 PROVE  \E j \in i + 1 .. Len(t) : t[j].op \in {"reopen", "forget"}
      BY DEF CloseThenRecover
    <3>1. i \in {1, 2, 3}
      BY <1>2, <1>4, <2>1
    <3>2. 4 \in i + 1 .. Len(t) /\ t[4].op = "forget"
      BY <1>2, <2>1, <3>1
    <3>3. QED  BY <3>2
  <2>4. t # <<>>
    BY <2>1, Lengths
  <2>5. QED  BY <2>0, <2>1, <2>2, <2>3, <2>4, PlainFormed
<1>7. Opens(<<b, a, c, g, x>>)
  <2>0. PICK t : t = <<b, a, c, g, x>>
    OBVIOUS
  <2>1. /\ t \in Seq(Instr) /\ Len(t) = 5
        /\ t[1] = b /\ t[2] = a /\ t[3] = c /\ t[4] = g /\ t[5] = x
    BY <1>2, <2>0
  <2>2. \A i \in 1 .. Len(t) :
           /\ OneDevice(t, i) /\ Ends(t, i)
           /\ t[i].op \notin {"check", "try", "cancels", "starts", "enable", "create", "disable",
                              "drop"}
    BY <1>2, <1>4, <2>1 DEF OneDevice, ForOne, DbOps, Ends
  <2>3. \A i \in 1 .. Len(t) : CloseThenRecover(t, i)
    <3> SUFFICES ASSUME NEW i \in 1 .. Len(t), t[i].op \in {"recon", "close"}
                 PROVE  \E j \in i + 1 .. Len(t) : t[j].op \in {"reopen", "forget"}
      BY DEF CloseThenRecover
    <3>1. i \in {1, 2, 3}
      BY <1>2, <1>4, <2>1
    <3>2. 4 \in i + 1 .. Len(t) /\ t[4].op = "forget"
      BY <1>2, <2>1, <3>1
    <3>3. QED  BY <3>2
  <2>4. t # <<>>
    BY <2>1, Lengths
  <2>5. QED  BY <2>0, <2>1, <2>2, <2>3, <2>4, PlainFormed
<1>8. QED  BY <1>1, <1>3, <1>5, <1>6, <1>7

(* The requests for one device.                                             *)
LEMMA DeviceCodes ==
    ASSUME NEW d \in Devices
    PROVE  /\ Opens(<<I("drop", {d}), I("list", {d})>>)
           /\ Opens(<<I("disable", {d}), I("list", {d})>>)
           /\ Opens(<<I("configs", {d}), I("running", {d})>>)
           /\ Opens(<<I("list", {d}), I("stopped", {d})>>)
           /\ config[d] # "none" => Opens(<<I("enable", {d})>> \o StartPublishing("try", d))
<1>1. PICK a, b, c, e, f, g :
         /\ a = I("drop", {d}) /\ b = I("list", {d}) /\ c = I("disable", {d})
         /\ e = I("configs", {d}) /\ f = I("running", {d}) /\ g = I("stopped", {d})
  OBVIOUS
<1>2. /\ {a, b, c, e, f, g} \subseteq Instr
      /\ a.op = "drop" /\ b.op = "list" /\ c.op = "disable" /\ e.op = "configs" /\ f.op = "running"
      /\ g.op = "stopped"
      /\ \A x \in {a, b, c, e, f, g} : x.devs = {d}
  BY <1>1 DEF I, Instr, Ops
<1>3. \A i \in 1 .. 2 : i \in {1, 2}
  OBVIOUS
<1>4. ASSUME NEW x \in {a, c} PROVE Opens(<<x, b>>)
  <2>0. PICK t : t = <<x, b>>
    OBVIOUS
  <2>1. t \in Seq(Instr) /\ Len(t) = 2 /\ t[1] = x /\ t[2] = b /\ t # <<>>
    <3>1. t \in Seq(Instr) /\ Len(t) = 2 /\ t[1] = x /\ t[2] = b
      BY <1>2, <2>0
    <3>2. QED  BY <3>1, Lengths
  <2>2. t[2] = I("list", t[1].devs)
    BY <1>1, <1>2, <2>1
  <2>3. Fits(t, 1) /\ Fits(t, 2)
    BY <1>2, <1>3, <2>1, <2>2
       DEF Fits, OneDevice, ForOne, DbOps, First, CheckThenCreate, CancelThenCreate,
           CloseThenRecover, DisableThenCancel, EnableThenCreate, Ends
  <2>4. Stops(t, d)
    BY <1>2, <2>1 DEF Stops
  <2>5. \A i \in 1 .. Len(t) : t[i].op \notin {"starts", "create"} /\ Fits(t, i)
    BY <1>2, <1>3, <2>1, <2>3
  <2>6. ~Begins(t, {"create", "cancels"}) /\ ~Begins(t, {"enable"}) /\ t[1].devs = {d}
    BY <1>2, <2>1 DEF Begins
  <2>7. QED  BY <2>0, <2>1, <2>4, <2>5, <2>6 DEF Opens, Formed
<1>5. ASSUME NEW x \in Instr, NEW y \in Instr, x.devs = {d}, y.devs = {d},
             x.op \in {"configs", "list"}, y.op \in {"running", "stopped"}
      PROVE  Opens(<<x, y>>)
  <2>0. PICK t : t = <<x, y>>
    OBVIOUS
  <2>1. t \in Seq(Instr) /\ Len(t) = 2 /\ t[1] = x /\ t[2] = y /\ t # <<>>
    <3>1. t \in Seq(Instr) /\ Len(t) = 2 /\ t[1] = x /\ t[2] = y
      BY <2>0
    <3>2. QED  BY <3>1, Lengths
  <2>2. \A i \in 1 .. Len(t) : t[i].devs = {d} /\ t[i].op \in {"configs", "list", "running", "stopped"}
    BY <1>3, <1>5, <2>1
  <2>3. QED  BY <2>0, <2>1, <2>2, PlainFormed DEF OneDevice, CloseThenRecover, Ends
<1>6. ASSUME config[d] # "none" PROVE Opens(<<I("enable", {d})>> \o StartPublishing("try", d))
  <2>1. PICK h, x, k :
           h = I("enable", {d}) /\ x = I("try", {d}) /\ k = I("create", {d})
    OBVIOUS
  <2>2. /\ h \in Instr /\ x \in Instr /\ k \in Instr
        /\ h.op = "enable" /\ x.op = "try" /\ k.op = "create"
        /\ h.devs = {d} /\ x.devs = {d} /\ k.devs = {d}
    BY <2>1 DEF I, Instr, Ops
  <2>3. PICK t : t = <<h>> \o <<x, b, k>>
    OBVIOUS
  <2>4. /\ t \in Seq(Instr) /\ Len(t) = 4 /\ t[1] = h /\ t[2] = x /\ t[3] = b /\ t[4] = k
    <3>1. PICK u, v : u = <<h>> /\ v = <<x, b, k>>
      OBVIOUS
    <3>2. /\ u \in Seq(Instr) /\ Len(u) = 1 /\ u[1] = h
      BY <2>2, <3>1
    <3>3. /\ v \in Seq(Instr) /\ Len(v) = 3 /\ v[1] = x /\ v[2] = b /\ v[3] = k
      BY <1>2, <2>2, <3>1
    <3>4. /\ t \in Seq(Instr) /\ Len(t) = Len(u) + Len(v)
          /\ \A i \in 1 .. Len(u) + Len(v) : t[i] = IF i <= Len(u) THEN u[i] ELSE v[i - Len(u)]
      BY <2>3, <3>1, <3>2, <3>3, ConcatProperties
    <3>5. QED  BY <3>2, <3>3, <3>4
  <2>5. \A i \in 1 .. Len(t) : i \in {1, 2, 3, 4}
    BY <2>4
  <2>6. t[3] = I("list", t[2].devs) /\ t[4] = I("create", t[2].devs) /\ t[3] = I("list", t[4].devs)
    BY <1>1, <2>1, <2>2, <2>4
  <2>7. ~Recovers(t)
    BY <1>2, <2>2, <2>4, <2>5 DEF Recovers, Recovery
  <2>8. \A i \in 1 .. Len(t) :
           /\ OneDevice(t, i) /\ First(t, i) /\ CloseThenRecover(t, i) /\ DisableThenCancel(t, i)
           /\ Ends(t, i)
    BY <1>2, <2>2, <2>4, <2>5, <2>7
       DEF OneDevice, First, CloseThenRecover, DisableThenCancel, Ends
  <2>9. \A i \in 1 .. Len(t) : CheckThenCreate(t, i) /\ CancelThenCreate(t, i)
    <3>1. CheckThenCreate(t, 1) /\ CheckThenCreate(t, 3) /\ CheckThenCreate(t, 4)
      BY <1>2, <2>2, <2>4 DEF CheckThenCreate
    <3>2. CheckThenCreate(t, 2)
      BY <2>4, <2>6 DEF CheckThenCreate
    <3>3. CancelThenCreate(t, 1) /\ CancelThenCreate(t, 2) /\ CancelThenCreate(t, 3)
      BY <1>2, <2>2, <2>4 DEF CancelThenCreate
    <3>4. CancelThenCreate(t, 4)
      BY <2>4, <2>6 DEF CancelThenCreate
    <3>5. QED  BY <2>5, <3>1, <3>2, <3>3, <3>4
  <2>10. \A i \in 1 .. Len(t) : EnableThenCreate(t, i)
    BY <1>2, <2>2, <2>4, <2>5 DEF EnableThenCreate
  <2>11. Formed(t)
    BY <2>8, <2>9, <2>10 DEF Formed, Fits
  <2>12. t # <<>> /\ Begins(t, {"enable"}) /\ ~Begins(t, {"create", "cancels"})
         /\ ~Begins(t, {"disable", "drop"}) /\ t[1].devs = {d}
    <3>1. t # <<>>
      BY <2>4, Lengths
    <3>2. QED  BY <2>2, <2>4, <3>1 DEF Begins
  <2>13. \A i \in 1 .. Len(t) : t[i].op # "starts"
    BY <1>2, <2>2, <2>4, <2>5
  <2>14. Opens(t)
    BY <1>6, <2>4, <2>11, <2>12, <2>13 DEF Opens
  <2>15. QED  BY <1>1, <2>1, <2>3, <2>14 DEF StartPublishing
<1>7. QED  BY <1>1, <1>2, <1>4, <1>5, <1>6

(* A request begins when no other one is in progress, or overlaps with it.  *)
LEMMA RequestMoves ==
    ASSUME MInv, NEW c \in Calls, Request(c)
    PROVE  /\ row' \in BOOLEAN
           /\ UNCHANGED <<config, device, connection, recons, publishers, loop, untold>>
           /\ ~Busy(c) /\ ~Busy(Main) /\ ~overlap /\ overlap' = \E x \in Calls : Busy(x)
           /\ \E t \in Seq(Instr) : Opens(t) /\ Moves(c, t, "ready", None)
<1>1. c \in Threads /\ row \in BOOLEAN
  BY TypeParts DEF Threads, MInv, OtherTypes
<1>2. ASSUME NEW t, Opens(t), Begin(c, t), UNCHANGED loop
      PROVE  /\ ~Busy(c) /\ ~Busy(Main) /\ ~overlap /\ overlap' = \E x \in Calls : Busy(x)
             /\ t \in Seq(Instr) /\ Moves(c, t, "ready", None)
  <2>1. /\ ~Busy(c) /\ ~Busy(Main) /\ ~overlap /\ overlap' = \E x \in Calls : Busy(x)
        /\ loop = None /\ call' = [call EXCEPT ![c].code = t]
    BY <1>2 DEF Begin, Admitted
  <2>2. call[c] \in CallRecord /\ call[c].wait = "ready" /\ call[c].on = None
    <3>1. call[c].wait = "task" <=> call[c].on # None
      BY <1>1 DEF MInv, Waits
    <3>2. QED  BY <1>1, <2>1, <3>1, CallTypes DEF Busy
  <2>3. [call[c] EXCEPT !.code = t] = [code |-> t, wait |-> "ready", on |-> None]
    BY <2>2 DEF CallRecord
  <2>4. call' = [call EXCEPT ![c] = [call[c] EXCEPT !.code = t]]
    BY <2>1
  <2>5. call' = [call EXCEPT ![c] = [code |-> t, wait |-> "ready", on |-> None]]
    BY <2>3, <2>4
  <2>6. loop' # c /\ loop' = None
    BY <1>1, <1>2, <2>1, CallTypes
  <2>7. Formed(t) /\ t \in Seq(Instr)
    BY <1>2 DEF Opens
  <2>8. Moves(c, t, "ready", None)
    BY <1>1, <2>5, <2>6, <2>7, CallMoves
  <2>9. QED  BY <2>1, <2>7, <2>8
<1>3. CASE CreateBroker(c) \/ UpdateBroker(c) \/ DeleteBroker(c)
  <2>1. \E t : Opens(t) /\ Begin(c, t)
    BY <1>3, BrokerCodes DEF CreateBroker, UpdateBroker, DeleteBroker
  <2>2. row' \in BOOLEAN /\ UNCHANGED <<config, device, connection, recons, publishers, loop, untold>>
    BY <1>1, <1>3 DEF CreateBroker, UpdateBroker, DeleteBroker, db
  <2>3. QED  BY <1>2, <2>1, <2>2
<1>4. ASSUME NEW d \in Devices,
             \/ DeleteConfig(c, d) \/ StartMqttPublishing(c, d) \/ StopMqttPublishing(c, d)
             \/ StartDevice(c, d) \/ StopDevice(c, d)
      PROVE  /\ row' \in BOOLEAN
             /\ UNCHANGED <<config, device, connection, recons, publishers, loop, untold>>
             /\ \E t : Opens(t) /\ Begin(c, t)
  <2>1. \E t : Opens(t) /\ Begin(c, t)
    BY <1>4, DeviceCodes
       DEF DeleteConfig, StartMqttPublishing, StopMqttPublishing, StartDevice, StopDevice
  <2>2. row' \in BOOLEAN /\ UNCHANGED <<config, device, connection, recons, publishers, loop, untold>>
    BY <1>1, <1>4
       DEF DeleteConfig, StartMqttPublishing, StopMqttPublishing, StartDevice, StopDevice, db
  <2>3. QED  BY <2>1, <2>2
<1>5. QED  BY <1>2, <1>3, <1>4 DEF Request

(* The application shuts down when no request is in progress.               *)
LEMMA ShutdownMoves ==
    ASSUME MInv, Shutdown
    PROVE  /\ UNCHANGED <<db, connection, recons, publishers, loop, hist>>
           /\ \A c \in Threads : ~Busy(c)
           /\ \E t \in Seq(Instr) : Opens(t) /\ Moves(Main, t, "ready", None)
<1>1. Main \in Threads
  BY DEF Threads
<1>2. PICK t : t = <<I("list", Devices), I("recon", {}), I("close", {}), I("forget", {}), I("exit", {})>>
  OBVIOUS
<1>3. /\ \A c \in Threads : ~Busy(c)
      /\ loop = None /\ call' = [call EXCEPT ![Main].code = t]
      /\ UNCHANGED <<db, connection, recons, publishers, loop, hist>>
  BY <1>2 DEF Shutdown, Threads
<1>4. call[Main] \in CallRecord /\ call[Main].wait = "ready" /\ call[Main].on = None
  <2>1. call[Main].wait = "task" <=> call[Main].on # None
    BY <1>1 DEF MInv, Waits
  <2>2. QED  BY <1>1, <1>3, <2>1, CallTypes DEF Busy
<1>5. [call[Main] EXCEPT !.code = t] = [code |-> t, wait |-> "ready", on |-> None]
  BY <1>4 DEF CallRecord
<1>6. call' = [call EXCEPT ![Main] = [call[Main] EXCEPT !.code = t]]
  BY <1>3
<1>7. call' = [call EXCEPT ![Main] = [code |-> t, wait |-> "ready", on |-> None]]
  BY <1>5, <1>6
<1>8. loop' # Main /\ loop' = None
  BY <1>1, <1>3, CallTypes
<1>9. Opens(t)
  BY <1>2, BrokerCodes
<1>10. Formed(t) /\ t \in Seq(Instr)
  BY <1>9 DEF Opens
<1>11. Moves(Main, t, "ready", None)
  BY <1>1, <1>7, <1>8, <1>10, CallMoves
<1>12. QED  BY <1>3, <1>9, <1>10, <1>11

-----------------------------------------------------------------------------
(* The types.  What becomes of the tasks and the connection.                *)

(* The publish tasks, up to what they have in flight.                       *)
SamePubs ==
    /\ ptask' \in [Pubs -> PubRecord]
    /\ \A p \in Pubs : /\ ptask'[p].pc = ptask[p].pc /\ ptask'[p].dev = ptask[p].dev
                       /\ ptask'[p].cancelled = ptask[p].cancelled

(* A connection is lost or closed.                                          *)
LEMMA InFlightMoves ==
    ASSUME OtherTypes, NEW b \in {"none", "this", "old"}, InFlight(b)
    PROVE  SamePubs
<1>1. ASSUME NEW p \in Pubs
      PROVE  /\ [ptask[p] EXCEPT !.conn = b] \in PubRecord
             /\ [ptask[p] EXCEPT !.conn = b].pc = ptask[p].pc
             /\ [ptask[p] EXCEPT !.conn = b].dev = ptask[p].dev
             /\ [ptask[p] EXCEPT !.conn = b].cancelled = ptask[p].cancelled
  <2>1. ptask[p] \in PubRecord
    BY DEF OtherTypes
  <2>2. QED  BY <2>1 DEF PubRecord
<1>2. \A p \in Pubs : ptask[p] \in PubRecord
  BY DEF OtherTypes
<1>3. ptask' = [p \in Pubs |-> IF ptask[p].conn = "this"
                               THEN [ptask[p] EXCEPT !.conn = b] ELSE ptask[p]]
  BY DEF InFlight
<1>4. QED  BY <1>1, <1>2, <1>3 DEF SamePubs

(* The network drops.                                                       *)
LEMMA NetDropsMoves ==
    ASSUME OtherTypes, NetDrops
    PROVE  SamePubs /\ net' = FALSE /\ client' \in {"none", "open", "dead"}
<1>1. ASSUME NEW p \in Pubs, NEW b \in {"none", "this", "old"}
      PROVE  /\ [ptask[p] EXCEPT !.conn = b] \in PubRecord
             /\ [ptask[p] EXCEPT !.conn = b].pc = ptask[p].pc
             /\ [ptask[p] EXCEPT !.conn = b].dev = ptask[p].dev
             /\ [ptask[p] EXCEPT !.conn = b].cancelled = ptask[p].cancelled
  <2>1. ptask[p] \in PubRecord
    BY DEF OtherTypes
  <2>2. QED  BY <2>1 DEF PubRecord
<1>2. \A p \in Pubs : ptask[p].conn \in {"none", "this", "old"}
  BY DEF OtherTypes, PubRecord
<1>3. ptask' = [p \in Pubs |-> [ptask[p] EXCEPT !.conn = IF ptask[p].conn = "old" THEN "none"
                                                         ELSE ptask[p].conn]]
  BY DEF NetDrops
<1>4. SamePubs
  BY <1>1, <1>2, <1>3 DEF SamePubs
<1>5. QED  BY <1>4 DEF NetDrops, OtherTypes

(* A connection is made.                                                    *)
LEMMA ConnectMoves ==
    ASSUME OtherTypes, Connect
    PROVE  /\ SamePubs /\ client' = "open" /\ leaked' \in BOOLEAN
           /\ broker' \in {"absent", "up"}
BY InFlightMoves DEF Connect, Connected, OtherTypes

(* A reconnect task is scheduled, unless there is one or the broker is gone. *)
LEMMA ScheduleMoves ==
    ASSUME OtherTypes, Schedule
    PROVE  /\ recon' \in Recs \cup {None} /\ rtask' \in [Recs -> RecRecord]
           /\ \/ /\ UNCHANGED recons
                 /\ broker = "absent" \/ \E r \in Recs : LiveRec(r)
              \/ \E r \in SpareRecs :
                   /\ recon' = r
                   /\ rtask' = [rtask EXCEPT ![r] = [pc |-> "new", cancelled |-> FALSE]]
<1>1. CASE broker = "absent" \/ (recon # None /\ LiveRec(recon))
  <2>1. UNCHANGED recons
    BY <1>1 DEF Schedule
  <2>2. recon # None => recon \in Recs
    BY DEF OtherTypes
  <2>3. QED  BY <1>1, <2>1, <2>2 DEF OtherTypes, recons
<1>2. CASE ~(broker = "absent" \/ (recon # None /\ LiveRec(recon)))
  <2>1. PICK r : r = CHOOSE x \in SpareRecs : TRUE
    OBVIOUS
  <2>2. SpareRecs # {} /\ recon' = r /\ rtask' = [rtask EXCEPT ![r] = [FreeRec EXCEPT !.pc = "new"]]
    BY <1>2, <2>1 DEF Schedule
  <2>3. r \in SpareRecs /\ r \in Recs
    BY <2>1, <2>2 DEF SpareRecs
  <2>4. FreeRec \in RecRecord /\ FreeRec.cancelled = FALSE
    BY DEF FreeRec, RecRecord
  <2>5. [FreeRec EXCEPT !.pc = "new"] = [pc |-> "new", cancelled |-> FALSE]
    <3>1. [FreeRec EXCEPT !.pc = "new"] = [pc |-> "new", cancelled |-> FreeRec.cancelled]
      BY <2>4 DEF RecRecord
    <3>2. QED  BY <2>4, <3>1
  <2>6. [pc |-> "new", cancelled |-> FALSE] \in RecRecord
    BY DEF RecRecord
  <2>7. rtask' \in [Recs -> RecRecord]
    BY <2>2, <2>5, <2>6 DEF OtherTypes
  <2>8. QED  BY <2>2, <2>3, <2>5, <2>7
<1>3. QED  BY <1>1, <1>2

(* The types when the tasks are the same ones.                              *)
LEMMA SamePubsTypes ==
    ASSUME MInv, SamePubs, UNCHANGED <<config, device, pub, pconf>>, hist' = hist,
           row' \in BOOLEAN, net' \in BOOLEAN, broker' \in {"absent", "down", "up"},
           client' \in {"none", "open", "dead"}, leaked' \in BOOLEAN,
           recon' \in Recs \cup {None}, rtask' \in [Recs -> RecRecord]
    PROVE  OtherTypes' /\ PubsOfDevices'
<1>1. OtherTypes /\ PubsOfDevices
  BY TypeParts DEF MInv
<1>2. OtherTypes'
  BY <1>1 DEF OtherTypes, SamePubs, hist
<1>3. PubsOfDevices'
  BY <1>1 DEF PubsOfDevices, LivePub, SamePubs
<1>4. QED  BY <1>2, <1>3

(* Requests keep the types.                                                 *)
LEMMA CallStepTypes ==
    ASSUME MInv, NEW c \in Threads, CallStep(c)
    PROVE  MInv'
<1>1. OtherTypes /\ PubsOfDevices
  BY TypeParts DEF MInv
<1>2. UNCHANGED ptask => SamePubs
  BY <1>1 DEF OtherTypes, SamePubs
<1>3. CASE ListTasks(c)
  BY <1>3, ListMoves, OthersKept, PartsKept
<1>4. CASE Starts(c)
  BY <1>4, StartsMoves, OthersKept, PartsKept
<1>5. CASE Execute(c)
  BY <1>5, ExecuteMoves, OthersKept, PartsKept
<1>6. CASE Resume(c)
  <2>1. OtherTypes'
    BY <1>1, <1>6, ResumeMoves DEF OtherTypes, db, connection, recons, hist
  <2>2. PubsOfDevices'
    BY <1>1, <1>6, ResumeMoves DEF PubsOfDevices, LivePub
  <2>3. QED  BY <1>6, <2>1, <2>2, ResumeMoves, PartsKept
<1>7. CASE CancelReconnect(c)
  <2>1. /\ UNCHANGED <<db, connection, publishers, hist>> /\ recon' = None
        /\ \E t, w, o : Moves(c, t, w, o)
    BY <1>7, CancelReconnectMoves
  <2>2. rtask' \in [Recs -> RecRecord]
    <3>1. CASE recon \in Recs /\ rtask' = [rtask EXCEPT ![recon].cancelled = TRUE]
      <4>1. rtask[recon] \in RecRecord
        BY <1>1, <3>1 DEF OtherTypes
      <4>2. [rtask[recon] EXCEPT !.cancelled = TRUE] \in RecRecord
        BY <4>1 DEF RecRecord
      <4>3. rtask' = [rtask EXCEPT ![recon] = [rtask[recon] EXCEPT !.cancelled = TRUE]]
        BY <3>1
      <4>4. QED  BY <1>1, <4>2, <4>3 DEF OtherTypes
    <3>2. CASE UNCHANGED rtask
      BY <1>1, <3>2 DEF OtherTypes
    <3>3. QED  BY <1>7, <3>1, <3>2, CancelReconnectMoves
  <2>3. OtherTypes'
    BY <1>1, <2>1, <2>2 DEF OtherTypes, db, connection, publishers, hist
  <2>4. PubsOfDevices'
    BY <1>1, <2>1 DEF PubsOfDevices, LivePub, publishers
  <2>5. QED  BY <2>1, <2>3, <2>4, PartsKept
<1>8. CASE CancelPublish(c)
  <2>1. UNCHANGED <<db, connection, recons, hist>> /\ \E t, w, o : Moves(c, t, w, o)
    BY <1>8, CancelMoves
  <2>2. CASE UNCHANGED publishers
    BY <2>1, <2>2, OthersKept, PartsKept
  <2>3. ASSUME NEW d \in Devices, pub' = [pub EXCEPT ![d] = None],
               \/ /\ pub[d] # None /\ LivePub(pub[d])
                  /\ ptask' = [ptask EXCEPT ![pub[d]].cancelled = TRUE]
                  /\ UNCHANGED pconf
               \/ pconf' = pconf \ {d} /\ UNCHANGED ptask
        PROVE  MInv'
    <3>1. pub' \in [Devices -> Pubs \cup {None}] /\ pconf' \in SUBSET Devices
      BY <1>1, <2>3 DEF OtherTypes
    <3>2. ptask' \in [Pubs -> PubRecord] /\ \A p \in Pubs : ptask'[p].pc = ptask[p].pc
                                                       /\ ptask'[p].dev = ptask[p].dev
      <4>1. CASE UNCHANGED ptask
        BY <1>1, <4>1 DEF OtherTypes
      <4>2. CASE pub[d] # None /\ ptask' = [ptask EXCEPT ![pub[d]].cancelled = TRUE]
        <5>1. PICK p, q : p = pub[d] /\ q = [ptask[p] EXCEPT !.cancelled = TRUE]
          OBVIOUS
        <5>2. p \in Pubs /\ ptask[p] \in PubRecord
          BY <1>1, <4>2, <5>1 DEF OtherTypes
        <5>3. q \in PubRecord /\ q.pc = ptask[p].pc /\ q.dev = ptask[p].dev
          BY <5>1, <5>2 DEF PubRecord
        <5>4. ptask' = [ptask EXCEPT ![p] = q]
          BY <4>2, <5>1
        <5>5. QED  BY <1>1, <5>2, <5>3, <5>4 DEF OtherTypes
      <4>3. QED  BY <2>3, <4>1, <4>2
    <3>3. OtherTypes'
      BY <1>1, <2>1, <3>1, <3>2 DEF OtherTypes, db, connection, recons, hist
    <3>4. PubsOfDevices'
      BY <1>1, <3>2 DEF PubsOfDevices, LivePub
    <3>5. QED  BY <2>1, <3>3, <3>4, PartsKept
  <2>4. QED  BY <1>8, <2>2, <2>3, CancelMoves
<1>9. CASE Close(c)
  <2>1. /\ UNCHANGED <<db, net, leaked, recons, pub, pconf, hist>>
        /\ CloseClient \/ UNCHANGED <<client, ptask>>
        /\ broker' \in {broker, Disconnected} /\ \E t, w, o : Moves(c, t, w, o)
    BY <1>9, CloseMoves
  <2>2. SamePubs /\ client' \in {"none", "open", "dead"}
    BY <1>1, <1>2, <2>1, InFlightMoves DEF CloseClient, OtherTypes
  <2>3. broker' \in {"absent", "down", "up"}
    BY <1>1, <2>1 DEF OtherTypes, Disconnected
  <2>4. OtherTypes' /\ PubsOfDevices'
    BY <1>1, <2>1, <2>2, <2>3, SamePubsTypes DEF OtherTypes, db, recons
  <2>5. QED  BY <2>1, <2>4, PartsKept
<1>10. CASE Forget(c) \/ Open(c)
  <2>1. /\ UNCHANGED <<db, net, client, leaked, recons, publishers, hist>>
        /\ broker' \in {"absent", "down"} /\ \E t, w, o : Moves(c, t, w, o)
    BY <1>10, ForgetMoves, OpenMoves
  <2>2. OtherTypes' /\ PubsOfDevices'
    BY <1>1, <1>2, <2>1, SamePubsTypes DEF OtherTypes, db, recons, publishers
  <2>3. QED  BY <2>1, <2>2, PartsKept
<1>11. CASE Opened(c)
  <2>1. /\ UNCHANGED <<db, net, pub, pconf, hist>> /\ \E t, w, o : Moves(c, t, w, o)
        /\ \/ Connect /\ UNCHANGED recons
           \/ Schedule /\ UNCHANGED <<client, leaked, broker, ptask>>
    BY <1>11, OpenedMoves
  <2>2. /\ SamePubs /\ broker' \in {"absent", "down", "up"} /\ leaked' \in BOOLEAN
        /\ client' \in {"none", "open", "dead"}
        /\ recon' \in Recs \cup {None} /\ rtask' \in [Recs -> RecRecord]
    <3>1. CASE Connect /\ UNCHANGED recons
      BY <1>1, <3>1, ConnectMoves DEF OtherTypes, recons
    <3>2. CASE Schedule /\ UNCHANGED <<client, leaked, broker, ptask>>
      BY <1>1, <1>2, <3>2, ScheduleMoves DEF OtherTypes
    <3>3. QED  BY <2>1, <3>1, <3>2
  <2>3. OtherTypes' /\ PubsOfDevices'
    BY <1>1, <2>1, <2>2, SamePubsTypes DEF OtherTypes, db
  <2>4. QED  BY <2>1, <2>3, PartsKept
<1>12. CASE Database(c)
  <2>1. /\ UNCHANGED <<row, connection, recons, publishers, hist>> /\ \E t, w, o : Moves(c, t, w, o)
        /\ Op(c) \in DbOps /\ call[c].code # <<>>
    BY <1>12, DatabaseMoves
  <2>2. /\ config' \in [Devices -> {"none", "off", "on"}]
        /\ device' \in [Devices -> {"stopped", "running", "error", "deleted"}]
    <3>1. /\ config \in [Devices -> {"none", "off", "on"}]
          /\ device \in [Devices -> {"stopped", "running", "error", "deleted"}]
      BY <1>1 DEF OtherTypes
    <3>2. QED  BY <1>12, <3>1 DEF Database, SetConfig, SetDevice
  <2>3. OtherTypes'
    BY <1>1, <2>1, <2>2 DEF OtherTypes, connection, recons, publishers, hist
  <2>4. PubsOfDevices'
    BY <1>1, <2>1 DEF PubsOfDevices, LivePub, publishers
  <2>5. QED  BY <2>1, <2>3, <2>4, PartsKept
<1>13. CASE Check(c)
  <2>1. /\ UNCHANGED <<db, connection, recons, publishers, overlap>>
        /\ \E t, w, o : Moves(c, t, w, o)
        /\ untold' = untold \/ (untold' = untold \cup Devs(c))
        /\ call[c].code # <<>>
    BY <1>13, CheckMoves
  <2>2. untold' \in SUBSET Devices
    BY <1>1, <2>1, Front DEF OtherTypes
  <2>3. OtherTypes'
    BY <1>1, <2>1, <2>2 DEF OtherTypes, db, connection, recons, publishers
  <2>4. PubsOfDevices'
    BY <1>1, <2>1 DEF PubsOfDevices, LivePub, publishers
  <2>5. QED  BY <2>1, <2>3, <2>4, PartsKept
<1>14. CASE Create(c)
  <2>0. PICK d \in Devices, p \in SparePubs :
          /\ pconf' = pconf \cup {d} /\ untold' = untold \ {d}
          /\ pub' = [pub EXCEPT ![d] = p]
          /\ ptask' = [ptask EXCEPT ![p] = [pc |-> "new", dev |-> d, conn |-> "none",
                                             cancelled |-> FALSE]]
    BY <1>14, CreateMoves
  <2>1. UNCHANGED <<db, connection, recons, overlap>> /\ \E t, w, o : Moves(c, t, w, o)
    BY <1>14, CreateMoves
  <2>2. PICK q : q = [pc |-> "new", dev |-> d, conn |-> "none", cancelled |-> FALSE]
    OBVIOUS
  <2>3. p \in Pubs /\ q \in PubRecord /\ q.dev = d /\ ptask' = [ptask EXCEPT ![p] = q]
    BY <2>0, <2>2 DEF SparePubs, PubRecord
  <2>4. /\ pub' \in [Devices -> Pubs \cup {None}] /\ pconf' \in SUBSET Devices
        /\ untold' \in SUBSET Devices
    BY <1>1, <2>0, <2>3 DEF OtherTypes
  <2>5. ptask' \in [Pubs -> PubRecord] /\ ptask'[p] = q
        /\ \A x \in Pubs \ {p} : ptask'[x] = ptask[x]
    BY <1>1, <2>3 DEF OtherTypes
  <2>6. OtherTypes'
    BY <1>1, <2>1, <2>4, <2>5 DEF OtherTypes, db, connection, recons
  <2>7. PubsOfDevices'
    BY <1>1, <2>3, <2>5 DEF PubsOfDevices, LivePub
  <2>8. QED  BY <2>1, <2>6, <2>7, PartsKept
<1>15. QED
  BY <1>3, <1>4, <1>5, <1>6, <1>7, <1>8, <1>9, <1>10, <1>11, <1>12, <1>13, <1>14 DEF CallStep

(* A step of a reconnect task.  The task ends only if it was cancelled, if  *)
(* the broker is gone or when it has connected.                             *)
LEMMA RecMoves ==
    ASSUME MInv, NEW r \in Recs, ReconStep(r)
    PROVE  /\ LiveRec(r) /\ UNCHANGED <<db, net, pub, pconf, call, loop, hist>>
           /\ SamePubs /\ client' \in {"none", "open", "dead"} /\ leaked' \in BOOLEAN
           /\ broker' \in {"absent", "down", "up"} /\ recon' \in {recon, None}
           /\ \E q \in RecRecord :
                /\ rtask' = [rtask EXCEPT ![r] = q]
                /\ q.cancelled => rtask[r].cancelled
                /\ q.pc # "free" => q.cancelled = rtask[r].cancelled
                /\ q.pc = "free" => \/ rtask[r].cancelled /\ broker' = broker
                                    \/ broker' # "down"
<1>1. OtherTypes /\ rtask[r] \in RecRecord
  BY TypeParts DEF MInv, OtherTypes
<1>2. UNCHANGED ptask => SamePubs
  BY <1>1 DEF OtherTypes, SamePubs
<1>3. FreeRec \in RecRecord /\ FreeRec.pc = "free" /\ FreeRec.cancelled = FALSE
  BY DEF FreeRec, RecRecord
<1>4. \A x \in {"sleep", "closing", "opening"} :
         /\ [rtask[r] EXCEPT !.pc = x] \in RecRecord /\ [rtask[r] EXCEPT !.pc = x].pc = x
         /\ [rtask[r] EXCEPT !.pc = x].cancelled = rtask[r].cancelled
  BY <1>1 DEF RecRecord
<1>5. CASE ReconnectCancelled(r)
  <2>1. rtask' = [rtask EXCEPT ![r] = FreeRec] /\ recon' \in {recon, None}
    BY <1>5 DEF ReconnectCancelled, Reconnected
  <2>2. LiveRec(r) /\ rtask[r].cancelled /\ UNCHANGED <<db, connection, publishers, call, loop, hist>>
    BY <1>5 DEF ReconnectCancelled
  <2>3. QED  BY <1>1, <1>2, <1>3, <2>1, <2>2 DEF connection, publishers, OtherTypes
<1>6. CASE ReconnectStarts(r)
  <2>1. /\ LiveRec(r) /\ UNCHANGED <<db, connection, recon, publishers, call, loop, hist>>
        /\ rtask' = [rtask EXCEPT ![r] = [rtask[r] EXCEPT !.pc = "sleep"]]
    BY <1>6 DEF ReconnectStarts, LiveRec
  <2>2. QED  BY <1>1, <1>2, <1>4, <2>1 DEF connection, publishers, OtherTypes
<1>7. CASE ReconnectWakes(r)
  <2>1. LiveRec(r) /\ UNCHANGED <<db, call, loop, hist>>
    BY <1>7 DEF ReconnectWakes, LiveRec
  <2>2. CASE broker = "absent"
    <3>1. UNCHANGED <<connection, publishers>> /\ rtask' = [rtask EXCEPT ![r] = FreeRec]
          /\ recon' = None
      BY <1>7, <2>2 DEF ReconnectWakes, Reconnected
    <3>2. QED  BY <1>1, <1>2, <1>3, <2>1, <2>2, <3>1 DEF connection, publishers, OtherTypes
  <2>3. CASE broker # "absent" /\ client # "none"
    <3>1. /\ CloseClient /\ UNCHANGED <<net, broker, leaked, recon, pub, pconf>>
          /\ rtask' = [rtask EXCEPT ![r] = [rtask[r] EXCEPT !.pc = "closing"]]
      BY <1>7, <2>3 DEF ReconnectWakes
    <3>2. SamePubs /\ client' = "none"
      BY <1>1, <3>1, InFlightMoves DEF CloseClient
    <3>3. QED  BY <1>1, <1>4, <2>1, <3>1, <3>2 DEF OtherTypes
  <2>4. CASE broker # "absent" /\ client = "none"
    <3>1. /\ broker' = "down" /\ UNCHANGED <<net, client, leaked, recon, publishers>>
          /\ rtask' = [rtask EXCEPT ![r] = [rtask[r] EXCEPT !.pc = "opening"]]
      BY <1>7, <2>4 DEF ReconnectWakes
    <3>2. QED  BY <1>1, <1>2, <1>4, <2>1, <3>1 DEF publishers, OtherTypes
  <2>5. QED  BY <2>2, <2>3, <2>4
<1>8. CASE ReconnectClosed(r)
  <2>1. /\ LiveRec(r) /\ broker' = Disconnected
        /\ UNCHANGED <<db, net, client, leaked, recon, publishers, call, loop, hist>>
        /\ rtask' = [rtask EXCEPT ![r] = [rtask[r] EXCEPT !.pc = "opening"]]
    BY <1>8 DEF ReconnectClosed, LiveRec
  <2>2. QED  BY <1>1, <1>2, <1>4, <2>1 DEF publishers, OtherTypes, Disconnected
<1>9. CASE ReconnectOpened(r)
  <2>1. LiveRec(r) /\ UNCHANGED <<db, net, pub, pconf, call, loop, hist>>
    BY <1>9 DEF ReconnectOpened, LiveRec
  <2>2. CASE net
    <3>1. Connect /\ recon' = None /\ rtask' = [rtask EXCEPT ![r] = FreeRec]
      BY <1>9, <2>2 DEF ReconnectOpened, Reconnected
    <3>2. QED  BY <1>1, <1>3, <2>1, <3>1, ConnectMoves
  <2>3. CASE ~net
    <3>1. /\ UNCHANGED <<client, leaked, broker, recon, ptask>>
          /\ rtask' = [rtask EXCEPT ![r] = [rtask[r] EXCEPT !.pc = "sleep"]]
      BY <1>9, <2>3 DEF ReconnectOpened, AfterFailure
    <3>2. QED  BY <1>1, <1>2, <1>4, <2>1, <3>1 DEF OtherTypes
  <2>4. QED  BY <2>2, <2>3
<1>10. QED  BY <1>5, <1>6, <1>7, <1>8, <1>9 DEF ReconStep

(* A step of a publish task.                                                *)
LEMMA PubMoves ==
    ASSUME MInv, NEW p \in Pubs, PubStep(p)
    PROVE  /\ LivePub(p) /\ UNCHANGED <<db, net, client, leaked, pub, pconf, call, loop, hist>>
           /\ \/ UNCHANGED <<broker, recons>>
              \/ broker' = Disconnected /\ Schedule
           /\ \E q \in PubRecord :
                /\ ptask' = [ptask EXCEPT ![p] = q] /\ q.dev = ptask[p].dev
                /\ q.cancelled => ptask[p].cancelled
                /\ q.pc # "free" => q.cancelled = ptask[p].cancelled
<1>1. ptask[p] \in PubRecord /\ ptask[p].dev \in Devices \cup {None}
  BY TypeParts DEF MInv, OtherTypes, PubRecord
<1>2. ASSUME NEW x \in {"free", "new", "sleep", "sent"}, NEW b \in {"none", "this", "old"}
      PROVE  LET q == [[ptask[p] EXCEPT !.pc = x] EXCEPT !.conn = b] IN
             q \in PubRecord /\ q.dev = ptask[p].dev /\ q.cancelled = ptask[p].cancelled
  <2>1. PICK q : q = [ptask[p] EXCEPT !.pc = x]
    OBVIOUS
  <2>2. q \in PubRecord /\ q.dev = ptask[p].dev /\ q.cancelled = ptask[p].cancelled
    BY <1>1, <2>1 DEF PubRecord
  <2>3. PICK y : y = [q EXCEPT !.conn = b]
    OBVIOUS
  <2>4. y \in PubRecord /\ y.dev = q.dev /\ y.cancelled = q.cancelled
    BY <2>2, <2>3 DEF PubRecord
  <2>5. QED  BY <2>1, <2>2, <2>3, <2>4
<1>3. ASSUME NEW x \in {"free", "new", "sleep", "sent"}
      PROVE  LET q == [ptask[p] EXCEPT !.pc = x] IN
             q \in PubRecord /\ q.dev = ptask[p].dev /\ q.cancelled = ptask[p].cancelled
  BY <1>1 DEF PubRecord
<1>4. ASSUME NEW b \in {"none", "this", "old"}
      PROVE  LET q == [ptask[p] EXCEPT !.conn = b] IN
             q \in PubRecord /\ q.dev = ptask[p].dev /\ q.cancelled = ptask[p].cancelled
  BY <1>1 DEF PubRecord
<1>5. CASE PublishCancelled(p)
  <2>1. PICK q : q = [FreePub EXCEPT !.dev = ptask[p].dev]
    OBVIOUS
  <2>2. q \in PubRecord /\ q.dev = ptask[p].dev /\ q.cancelled = FALSE /\ q.pc = "free"
    <3>1. FreePub \in PubRecord /\ FreePub.cancelled = FALSE /\ FreePub.pc = "free"
      BY DEF FreePub, PubRecord
    <3>2. QED  BY <1>1, <2>1, <3>1 DEF PubRecord
  <2>3. /\ LivePub(p) /\ UNCHANGED <<db, connection, recons, pub, pconf, call, loop, hist>>
        /\ ptask' = [ptask EXCEPT ![p] = q]
    BY <1>5, <2>1 DEF PublishCancelled
  <2>4. QED  BY <2>2, <2>3 DEF connection
<1>6. CASE PublishStarts(p)
  <2>1. PICK q, x : /\ x = IF ptask[p].dev \in pconf THEN "sleep" ELSE "free"
                    /\ q = [ptask[p] EXCEPT !.pc = x]
    OBVIOUS
  <2>2. q \in PubRecord /\ q.dev = ptask[p].dev /\ q.cancelled = ptask[p].cancelled
    BY <1>3, <2>1
  <2>3. /\ LivePub(p) /\ UNCHANGED <<db, connection, recons, pub, pconf, call, loop, hist>>
        /\ ptask' = [ptask EXCEPT ![p] = q]
    BY <1>6, <2>1 DEF PublishStarts, LivePub
  <2>4. QED  BY <2>2, <2>3 DEF connection
<1>7. CASE PublishWakes(p)
  <2>1. PICK q : q = [[ptask[p] EXCEPT !.pc = "sent"] EXCEPT !.conn = "this"]
    OBVIOUS
  <2>2. q \in PubRecord /\ q.dev = ptask[p].dev /\ q.cancelled = ptask[p].cancelled
    BY <1>2, <2>1
  <2>3. /\ LivePub(p) /\ UNCHANGED <<db, connection, recons, pub, pconf, call, loop, hist>>
        /\ ptask' = [ptask EXCEPT ![p] = q]
    BY <1>7, <2>1 DEF PublishWakes, LivePub
  <2>4. QED  BY <2>2, <2>3 DEF connection
<1>8. CASE Published(p)
  <2>1. PICK q, y : /\ q = [[ptask[p] EXCEPT !.pc = "sleep"] EXCEPT !.conn = "none"]
                    /\ y = [ptask[p] EXCEPT !.conn = "this"]
    OBVIOUS
  <2>2. /\ q \in PubRecord /\ q.dev = ptask[p].dev /\ q.cancelled = ptask[p].cancelled
        /\ y \in PubRecord /\ y.dev = ptask[p].dev /\ y.cancelled = ptask[p].cancelled
    BY <1>2, <1>4, <2>1
  <2>3. /\ LivePub(p) /\ UNCHANGED <<db, connection, recons, pub, pconf, call, loop, hist>>
        /\ ptask' = [ptask EXCEPT ![p] = q] \/ ptask' = [ptask EXCEPT ![p] = y]
    BY <1>8, <2>1 DEF Published, LivePub
  <2>4. QED  BY <2>2, <2>3 DEF connection
<1>9. CASE PublishFails(p)
  <2>1. PICK q : q = [[ptask[p] EXCEPT !.pc = "sleep"] EXCEPT !.conn = "none"]
    OBVIOUS
  <2>2. q \in PubRecord /\ q.dev = ptask[p].dev /\ q.cancelled = ptask[p].cancelled
    BY <1>2, <2>1
  <2>3. /\ LivePub(p) /\ UNCHANGED <<db, net, client, leaked, pub, pconf, call, loop, hist>>
        /\ broker' = Disconnected /\ Schedule /\ ptask' = [ptask EXCEPT ![p] = q]
    BY <1>9, <2>1 DEF PublishFails, LivePub
  <2>4. QED  BY <2>2, <2>3
<1>10. QED  BY <1>5, <1>6, <1>7, <1>8, <1>9 DEF PubStep

(* What does not concern the requests leaves what is said of them.          *)
LEMMA RequestsRest ==
    ASSUME MInv, UNCHANGED <<call, loop>>, OtherTypes', PubsOfDevices'
    PROVE  MInv'
<1>1. TypeOK'
  BY TypeParts
     DEF MInv, TypeOK, OtherTypes, CallRecord, RecRecord, PubRecord, Instr
<1>2. QED  BY <1>1 DEF MInv, CodesFormed, Waits

(* What is only written to the database: an import, a new config, the       *)
(* deletion or the failure of a device.                                     *)
Writes ==
    \/ ImportSystem
    \/ \E d \in Devices : UpsertConfig(d) \/ DeleteDevice(d) \/ DeviceFails(d)

LEMMA WritesMoves ==
    ASSUME OtherTypes, Writes
    PROVE  /\ row' \in BOOLEAN /\ (row => row')
           /\ config' \in [Devices -> {"none", "off", "on"}]
           /\ device' \in [Devices -> {"stopped", "running", "error", "deleted"}]
           /\ overlap' \in BOOLEAN /\ (~overlap' => ~overlap) /\ untold' \in SUBSET Devices
           /\ UNCHANGED <<connection, recons, publishers, call, loop>>
           /\ ~row' => \A d \in Devices : config[d] = "none" => config'[d] = "none"
           /\ \/ /\ UNCHANGED hist
                 /\ \A d : config[d] = "on" => config'[d] = "on"
                 /\ \A d : config[d] # "none" => config'[d] # "none"
              \/ /\ ~Busy(Main) /\ ~overlap /\ overlap' = \E x \in Calls : Busy(x)
                 /\ \A d \in Devices : (config'[d] = config[d] /\ d \notin untold) \/ d \in untold'
<1>1. ASSUME NEW d \in Devices, UpsertConfig(d)
      PROVE  /\ row /\ config' = [config EXCEPT ![d] = "off"] /\ config[d] = "none"
             /\ UNCHANGED <<row, device, connection, recons, publishers, call, loop, hist>>
  BY <1>1 DEF UpsertConfig
<1>2. ASSUME NEW d \in Devices, DeviceFails(d)
      PROVE  /\ device' = [device EXCEPT ![d] = "error"]
             /\ UNCHANGED <<row, config, connection, recons, publishers, call, loop, hist>>
  BY <1>2 DEF DeviceFails
<1>3. ASSUME NEW d \in Devices, DeleteDevice(d)
      PROVE  /\ device' = [device EXCEPT ![d] = "deleted"] /\ config' = [config EXCEPT ![d] = "none"]
             /\ untold' = untold \cup {d}
             /\ ~Busy(Main) /\ ~overlap /\ overlap' = \E x \in Calls : Busy(x)
             /\ UNCHANGED <<row, connection, recons, publishers, call, loop>>
  BY <1>3 DEF DeleteDevice, Admitted
<1>4. ASSUME ImportSystem
      PROVE  /\ row' \in {row, TRUE} /\ config' \in [Devices -> {"none", "off", "on"}]
             /\ \E S : device' = [d \in Devices |-> IF d \in S /\ device[d] = "running"
                                                  THEN "stopped" ELSE device[d]]
             /\ ~row' => \A d \in Devices : config'[d] = config[d]
             /\ untold' = untold \cup {d \in Devices : config'[d] # config[d]}
             /\ ~Busy(Main) /\ ~overlap /\ overlap' = \E x \in Calls : Busy(x)
             /\ UNCHANGED <<connection, recons, publishers, call, loop>>
  BY <1>4 DEF ImportSystem, Admitted, Imports
<1>5. CASE \E d \in Devices : UpsertConfig(d)
  <2>1. PICK d \in Devices : UpsertConfig(d)
    BY <1>5
  <2>2. /\ row /\ config' = [config EXCEPT ![d] = "off"] /\ config[d] = "none"
        /\ UNCHANGED <<row, device, connection, recons, publishers, call, loop, hist>>
    BY <1>1, <2>1
  <2>3. /\ \A e : config[e] = "on" => config'[e] = "on"
        /\ \A e : config[e] # "none" => config'[e] # "none"
    BY <2>2 DEF OtherTypes
  <2>4. config' \in [Devices -> {"none", "off", "on"}]
    BY <2>2 DEF OtherTypes
  <2>5. overlap' = overlap /\ untold' = untold
    BY <2>2 DEF hist
  <2>6. QED  BY <2>2, <2>3, <2>4, <2>5 DEF OtherTypes
<1>6. CASE \E d \in Devices : DeviceFails(d)
  BY <1>2, <1>6 DEF OtherTypes, hist
<1>7. CASE \E d \in Devices : DeleteDevice(d)
  BY <1>3, <1>7 DEF OtherTypes
<1>8. CASE ImportSystem
  BY <1>4, <1>8 DEF OtherTypes
<1>9. QED  BY <1>5, <1>6, <1>7, <1>8 DEF Writes

(* Every step keeps the types and the form of the requests.                 *)
LEMMA MInvStep == MInv /\ [Next]_vars => MInv'
<1> SUFFICES ASSUME MInv, [Next]_vars PROVE MInv'
  OBVIOUS
<1>1. OtherTypes /\ PubsOfDevices
  BY TypeParts DEF MInv
<1>2. UNCHANGED ptask => SamePubs
  BY <1>1 DEF OtherTypes, SamePubs
<1>3. ASSUME NEW c \in Calls, Request(c) PROVE MInv'
  <2>1. /\ row' \in BOOLEAN
        /\ UNCHANGED <<config, device, connection, recons, publishers, loop, untold>>
        /\ overlap' \in BOOLEAN /\ \E t, w, o : Moves(c, t, w, o)
    BY <1>3, RequestMoves
  <2>2. OtherTypes'
    BY <1>1, <2>1 DEF OtherTypes, connection, recons, publishers
  <2>3. PubsOfDevices'
    BY <1>1, <2>1 DEF PubsOfDevices, LivePub, publishers
  <2>4. QED  BY <2>1, <2>2, <2>3, PartsKept
<1>4. ASSUME NEW c \in Threads, CallStep(c) PROVE MInv'
  BY <1>4, CallStepTypes
<1>5. CASE Writes
  <2>1. UNCHANGED <<connection, recons, publishers, call, loop>>
    BY <1>1, <1>5, WritesMoves
  <2>2. OtherTypes'
    BY <1>1, <1>5, <2>1, WritesMoves DEF OtherTypes, connection, recons, publishers
  <2>3. PubsOfDevices'
    BY <1>1, <2>1 DEF PubsOfDevices, LivePub, publishers
  <2>4. QED  BY <2>1, <2>2, <2>3, RequestsRest
<1>6. ASSUME NEW r \in Recs, ReconStep(r) PROVE MInv'
  <2>1. PICK q \in RecRecord : rtask' = [rtask EXCEPT ![r] = q]
    BY <1>6, RecMoves
  <2>2. rtask' \in [Recs -> RecRecord] /\ recon' \in Recs \cup {None}
    BY <1>1, <1>6, <2>1, RecMoves DEF OtherTypes
  <2>3. OtherTypes' /\ PubsOfDevices'
    BY <1>1, <1>6, <2>2, RecMoves, SamePubsTypes DEF OtherTypes, db
  <2>4. QED  BY <1>6, <2>3, RecMoves, RequestsRest
<1>7. ASSUME NEW p \in Pubs, PubStep(p) PROVE MInv'
  <2>1. PICK q \in PubRecord :
           ptask' = [ptask EXCEPT ![p] = q] /\ q.dev = ptask[p].dev
    BY <1>7, PubMoves
  <2>2. /\ LivePub(p) /\ UNCHANGED <<db, net, client, leaked, pub, pconf, call, loop, hist>>
        /\ \/ UNCHANGED <<broker, recons>>
           \/ broker' = Disconnected /\ Schedule
    BY <1>7, PubMoves
  <2>3. /\ ptask' \in [Pubs -> PubRecord]
        /\ \A x \in Pubs : ptask'[x].dev = ptask[x].dev /\ (x # p => ptask'[x] = ptask[x])
    BY <1>1, <2>1 DEF OtherTypes
  <2>4. /\ broker' \in {"absent", "down", "up"}
        /\ recon' \in Recs \cup {None} /\ rtask' \in [Recs -> RecRecord]
    BY <1>1, <2>2, ScheduleMoves DEF OtherTypes, Disconnected, recons
  <2>5. OtherTypes'
    BY <1>1, <2>2, <2>3, <2>4 DEF OtherTypes, db, hist
  <2>6. PubsOfDevices'
    <3> SUFFICES ASSUME NEW x \in Pubs, ptask'[x].pc # "free" PROVE ptask'[x].dev \in Devices
      BY DEF PubsOfDevices, LivePub
    <3>1. LivePub(x)
      BY <2>2, <2>3 DEF LivePub
    <3>2. QED  BY <1>1, <2>3, <3>1 DEF PubsOfDevices
  <2>7. QED  BY <2>2, <2>5, <2>6, RequestsRest
<1>8. CASE Shutdown
  <2>1. UNCHANGED <<db, connection, recons, publishers, hist>> /\ \E t, w, o : Moves(Main, t, w, o)
    BY <1>8, ShutdownMoves
  <2>2. QED  BY <2>1, OthersKept, PartsKept
<1>9. CASE NetDrops
  <2>1. UNCHANGED <<db, broker, leaked, recons, pub, pconf, call, loop, hist>>
    BY <1>9 DEF NetDrops
  <2>2. OtherTypes' /\ PubsOfDevices'
    BY <1>1, <1>9, <2>1, NetDropsMoves, SamePubsTypes DEF OtherTypes, db, recons
  <2>3. QED  BY <2>1, <2>2, RequestsRest
<1>10. CASE NetReturns
  <2>1. net' = TRUE /\ UNCHANGED <<db, broker, client, leaked, recons, publishers, call, loop, hist>>
    BY <1>10 DEF NetReturns
  <2>2. OtherTypes' /\ PubsOfDevices'
    BY <1>1, <1>2, <2>1, SamePubsTypes DEF OtherTypes, db, recons, publishers
  <2>3. QED  BY <2>1, <2>2, RequestsRest
<1>11. CASE Restart
  BY <1>11, RestartHolds
<1>12. CASE UNCHANGED vars
  <2>1. UNCHANGED <<db, connection, recons, publishers, hist>> /\ UNCHANGED <<call, loop>>
    BY <1>12 DEF vars, db, connection, recons, publishers, hist
  <2>2. QED  BY <2>1, OthersKept, RequestsRest
<1>13. QED
  BY <1>3, <1>4, <1>5, <1>6, <1>7, <1>8, <1>9, <1>10, <1>11, <1>12 DEF Next, Writes

(* Every state has the types, and requests are formed as they should be.    *)
LEMMA RequestsFormed == Spec => []MInv
<1>1. Init => MInv
  BY InitStarts, StartedHolds
<1>2. QED  BY <1>1, MInvStep, PTL DEF Spec

(* Type correctness of MqttAdapter: its client, reconnect task and publish   *)
(* tasks, and what is left to do of every request suspended in an await.    *)
THEOREM MqttTypes == Spec => []TypeOK
<1>1. MInv => TypeOK
  BY DEF MInv
<1>2. QED  BY <1>1, RequestsFormed, PTL

-----------------------------------------------------------------------------
(* The retries.  A code that loses an instruction which is not to recover   *)
(* the broker still recovers it.                                            *)
LEMMA RecoversPopped ==
    ASSUME MInv, NEW c \in Threads, call[c].code # <<>>,
           Op(c) \notin Recovery, Recovers(call[c].code)
    PROVE  Recovers(Rest(c))
<1>1. PICK i \in 1 .. Len(call[c].code) : call[c].code[i].op \in Recovery
  BY DEF Recovers
<1>2. /\ Len(Rest(c)) = Len(call[c].code) - 1 /\ Len(call[c].code) \in Nat \ {0}
      /\ \A j \in 1 .. Len(Rest(c)) : Rest(c)[j] = call[c].code[j + 1]
  BY RestTypes
<1>3. i # 1
  BY <1>1, Front
<1>4. i - 1 \in 1 .. Len(Rest(c)) /\ (i - 1) + 1 = i
  BY <1>2, <1>3
<1>5. Rest(c)[i - 1] = call[c].code[i]
  BY <1>2, <1>4
<1>6. QED  BY <1>1, <1>4, <1>5 DEF Recovers

(* ... also if another one takes its place.                                 *)
LEMMA RecoversReplaced ==
    ASSUME MInv, NEW c \in Threads, call[c].code # <<>>, Op(c) \notin Recovery,
           NEW t \in Seq(Instr), Len(t) = Len(call[c].code),
           \A i \in 2 .. Len(t) : t[i] = call[c].code[i], Recovers(call[c].code)
    PROVE  Recovers(t)
<1>1. PICK i \in 1 .. Len(call[c].code) : call[c].code[i].op \in Recovery
  BY DEF Recovers
<1>2. i # 1 /\ Len(call[c].code) \in Nat
  BY <1>1, Front, RestTypes
<1>3. i \in 2 .. Len(t)
  BY <1>2
<1>4. QED  BY <1>1, <1>3 DEF Recovers

(* Whoever cancels the retry or closes the client is to recover it.         *)
LEMMA CloserRecovers ==
    ASSUME MInv, NEW c \in Threads, call[c].code # <<>>, Op(c) \in {"recon", "close"}
    PROVE  Recovers(call[c].code) /\ Recovers(Rest(c))
<1>1. PICK i \in 2 .. Len(call[c].code) : call[c].code[i].op \in {"reopen", "forget"}
  BY Front DEF Fits, CloseThenRecover
<1>2. Len(call[c].code) \in Nat \ {0}
  BY RestTypes
<1>3. Recovers(call[c].code)
  <2>1. i \in 1 .. Len(call[c].code)
    BY <1>2
  <2>2. QED  BY <1>1, <2>1 DEF Recovers, Recovery
<1>4. QED  BY <1>3, RecoversPopped DEF Recovery

(* A request that does not free a retry keeps what is said of them, if it   *)
(* recovers the broker as it did, or the broker needs it not.               *)
LEMMA RetriesKept ==
    ASSUME MInv, RInv, NEW c \in Threads, NEW t, NEW w, NEW o, Moves(c, t, w, o),
           call[c].on \in Recs => ~LiveRec(call[c].on),
           \A r \in Recs : rtask'[r].pc # "free" /\ rtask'[r].cancelled =>
               (LiveRec(r) /\ rtask[r].cancelled) \/ (o = r /\ Recovers(t)),
           \/ broker' # "down"
           \/ \E r \in Recs : rtask'[r].pc # "free"
           \/ Recovers(t)
           \/ broker = "down" /\ (\A r \in Recs : ~LiveRec(r)) /\ ~Recovers(call[c].code)
    PROVE  RInv'
<1>1. /\ call'[c].code = t /\ call'[c].on = o
      /\ \A k \in Threads \ {c} : call'[k] = call[k]
  BY DEF Moves
<1>2. RetryAwaited'
  <2> SUFFICES ASSUME NEW r \in Recs, rtask'[r].pc # "free", rtask'[r].cancelled
               PROVE  \E k \in Threads : call'[k].on = r /\ Recovers(call'[k].code)
    BY DEF RetryAwaited, LiveRec
  <2>1. CASE LiveRec(r) /\ rtask[r].cancelled
    <3>1. PICK k \in Threads : call[k].on = r /\ Recovers(call[k].code)
      BY <2>1 DEF RInv, RetryAwaited
    <3>2. k # c
      BY <2>1, <3>1
    <3>3. QED  BY <1>1, <3>1, <3>2
  <2>2. CASE o = r /\ Recovers(t)
    BY <1>1, <2>2
  <2>3. QED  BY <2>1, <2>2
<1>3. DownRecovers'
  <2>1. CASE broker' # "down" \/ \E r \in Recs : rtask'[r].pc # "free"
    BY <2>1 DEF DownRecovers, LiveRec
  <2>2. CASE Recovers(t)
    BY <1>1, <2>2 DEF DownRecovers
  <2>3. CASE broker = "down" /\ (\A r \in Recs : ~LiveRec(r)) /\ ~Recovers(call[c].code)
    <3>1. PICK k \in Threads : Recovers(call[k].code)
      BY <2>3 DEF RInv, DownRecovers
    <3>2. k # c
      BY <2>3, <3>1
    <3>3. QED  BY <1>1, <3>1, <3>2 DEF DownRecovers
  <2>4. QED  BY <2>1, <2>2, <2>3
<1>4. QED  BY <1>2, <1>3 DEF RInv

(* ... in particular one that leaves retries and broker alone.              *)
LEMMA RetriesAlone ==
    ASSUME MInv, RInv, NEW c \in Threads, NEW t, NEW w, NEW o, Moves(c, t, w, o),
           call[c].on \in Recs => ~LiveRec(call[c].on), UNCHANGED <<broker, rtask>>,
           Recovers(call[c].code) => Recovers(t)
    PROVE  RInv'
<1>1. \/ broker' # "down"
      \/ \E r \in Recs : rtask'[r].pc # "free"
      \/ Recovers(t)
      \/ broker = "down" /\ (\A r \in Recs : ~LiveRec(r)) /\ ~Recovers(call[c].code)
  BY DEF LiveRec
<1>2. \A r \in Recs : rtask'[r].pc # "free" /\ rtask'[r].cancelled => LiveRec(r) /\ rtask[r].cancelled
  BY DEF LiveRec
<1>3. QED  BY <1>1, <1>2, RetriesKept

(* Requests keep what is said of the retries.                               *)
LEMMA CallStepRetries ==
    ASSUME MInv, RInv, NEW c \in Threads, CallStep(c)
    PROVE  RInv'
<1>0. None \notin Recs
  BY MqttAssumption
<1>1. CASE ListTasks(c)
  <2>1. Op(c) = "list" /\ call[c].code # <<>> /\ call[c].on = None /\ UNCHANGED <<broker, rtask>>
    BY <1>1, ListMoves DEF connection, recons
  <2>2. PICK t \in Seq(Instr) : Moves(c, t, "ready", None) /\ Len(t) = Len(call[c].code)
                                /\ \A i \in 2 .. Len(t) : t[i] = call[c].code[i]
    BY <1>1, ListMoves
  <2>3. Recovers(call[c].code) => Recovers(t)
    BY <2>1, <2>2, RecoversReplaced DEF Recovery
  <2>4. QED  BY <1>0, <2>1, <2>2, <2>3, RetriesAlone
<1>2. CASE Starts(c)
  <2>1. Op(c) = "starts" /\ call[c].code # <<>> /\ call[c].on = None /\ UNCHANGED <<broker, rtask>>
    BY <1>2, StartsMoves DEF connection, recons
  <2>2. PICK u \in Seq(Instr), t \in Seq(Instr) :
           /\ Moves(c, t, "ready", None)
           /\ Len(t) = Len(u) + 3
           /\ \A i \in 1 .. Len(u) : t[i + 3] = u[i]
           /\ u = Rest(c) \/ /\ Len(u) = Len(call[c].code)
                             /\ \A i \in 2 .. Len(u) : u[i] = call[c].code[i]
    BY <1>2, StartsMoves
  <2>3. Recovers(call[c].code) => Recovers(u)
    BY <2>1, <2>2, RecoversReplaced, RecoversPopped DEF Recovery
  <2>4. Recovers(u) => Recovers(t)
    <3> SUFFICES ASSUME NEW i \in 1 .. Len(u), u[i].op \in Recovery PROVE Recovers(t)
      BY DEF Recovers
    <3>1. Len(u) \in Nat
      BY Lengths
    <3>2. i + 3 \in 1 .. Len(t) /\ t[i + 3].op \in Recovery
      BY <2>2, <3>1
    <3>3. QED  BY <3>2 DEF Recovers
  <2>5. QED  BY <1>0, <2>1, <2>2, <2>3, <2>4, RetriesAlone
<1>3. CASE Execute(c)
  <2>1. call[c].on = None /\ UNCHANGED <<broker, rtask>> /\ Moves(c, call[c].code, "db", None)
    BY <1>3, ExecuteMoves DEF connection, recons
  <2>2. QED  BY <1>0, <2>1, RetriesAlone
<1>4. CASE Resume(c)
  <2>1. /\ \/ call[c].on = None
           \/ call[c].on \in Pubs
           \/ call[c].on \in Recs /\ ~LiveRec(call[c].on)
        /\ UNCHANGED <<broker, rtask>> /\ Moves(c, call[c].code, "ready", None)
    BY <1>4, ResumeMoves DEF connection, recons
  <2>2. call[c].on \in Recs => ~LiveRec(call[c].on)
    BY <1>0, <2>1, MqttAssumption
  <2>3. QED  BY <2>1, <2>2, RetriesAlone
<1>5. CASE CancelReconnect(c)
  <2>1. /\ Op(c) = "recon" /\ call[c].code # <<>> /\ call[c].on = None /\ UNCHANGED broker
    BY <1>5, CancelReconnectMoves DEF connection
  <2>2. Recovers(Rest(c))
    BY <2>1, CloserRecovers
  <2>3. CASE recon \in Recs /\ LiveRec(recon)
             /\ rtask' = [rtask EXCEPT ![recon].cancelled = TRUE] /\ Moves(c, Rest(c), "task", recon)
    <3>1. \A r \in Recs : rtask'[r] = IF r = recon THEN [rtask[r] EXCEPT !.cancelled = TRUE]
                                      ELSE rtask[r]
      BY <2>3, TypeParts DEF MInv, OtherTypes
    <3>2. \A r \in Recs : rtask'[r].pc # "free" /\ rtask'[r].cancelled =>
              (LiveRec(r) /\ rtask[r].cancelled) \/ recon = r
      BY <3>1 DEF LiveRec
    <3>3. QED  BY <1>0, <2>1, <2>2, <2>3, <3>2, RetriesKept
  <2>4. CASE UNCHANGED rtask /\ Moves(c, Rest(c), "ready", None)
    BY <1>0, <2>1, <2>2, <2>4, RetriesAlone
  <2>5. QED  BY <1>5, <2>3, <2>4, CancelReconnectMoves
<1>6. CASE CancelPublish(c)
  <2>1. /\ Op(c) = "cancels" /\ call[c].code # <<>> /\ call[c].on = None
        /\ UNCHANGED <<broker, rtask>>
    BY <1>6, CancelMoves DEF connection, recons
  <2>2. CASE Moves(c, Rest(c), "ready", None)
    BY <1>0, <2>1, <2>2, RecoversPopped, RetriesAlone DEF Recovery
  <2>3. ASSUME NEW t \in Seq(Instr), NEW w, NEW o, Moves(c, t, w, o),
               Len(t) = Len(call[c].code), \A i \in 2 .. Len(t) : t[i] = call[c].code[i]
        PROVE  RInv'
    <3>1. Recovers(call[c].code) => Recovers(t)
      BY <2>1, <2>3, RecoversReplaced DEF Recovery
    <3>2. QED  BY <1>0, <2>1, <2>3, <3>1, RetriesAlone
  <2>4. QED  BY <1>6, <2>2, <2>3, CancelMoves
<1>7. CASE Close(c)
  <2>1. /\ Op(c) = "close" /\ call[c].code # <<>> /\ call[c].on = None /\ UNCHANGED rtask
    BY <1>7, CloseMoves DEF recons
  <2>2. PICK t : Moves(c, t, "ready", None) /\ t \in {call[c].code, Rest(c)}
    BY <1>7, CloseMoves
  <2>3. Recovers(t)
    BY <2>1, <2>2, CloserRecovers
  <2>4. \A r \in Recs : rtask'[r].pc # "free" /\ rtask'[r].cancelled => LiveRec(r) /\ rtask[r].cancelled
    BY <2>1 DEF LiveRec
  <2>5. QED  BY <1>0, <2>1, <2>2, <2>3, <2>4, RetriesKept
<1>8. CASE Forget(c)
  <2>1. /\ call[c].on = None /\ UNCHANGED rtask /\ broker' = "absent"
        /\ Moves(c, Rest(c), "ready", None)
    BY <1>8, ForgetMoves DEF recons
  <2>2. \A r \in Recs : rtask'[r].pc # "free" /\ rtask'[r].cancelled => LiveRec(r) /\ rtask[r].cancelled
    BY <2>1 DEF LiveRec
  <2>3. QED  BY <1>0, <2>1, <2>2, RetriesKept
<1>9. CASE Open(c)
  <2>1. /\ call[c].on = None /\ UNCHANGED rtask /\ Moves(c, call[c].code, "net", None)
        /\ Op(c) \in {"open", "reopen"} /\ call[c].code # <<>>
    BY <1>9, OpenMoves DEF recons
  <2>2. Recovers(call[c].code)
    <3>1. 1 \in 1 .. Len(call[c].code)
      BY <2>1, RestTypes
    <3>2. QED  BY <2>1, <3>1, Front DEF Recovers, Recovery
  <2>3. \A r \in Recs : rtask'[r].pc # "free" /\ rtask'[r].cancelled => LiveRec(r) /\ rtask[r].cancelled
    BY <2>1 DEF LiveRec
  <2>4. QED  BY <1>0, <2>1, <2>2, <2>3, RetriesKept
<1>10. CASE Opened(c)
  <2>1. call[c].on = None /\ \E t : Moves(c, t, "ready", None)
    BY <1>10, OpenedMoves
  <2>2. CASE Connect /\ UNCHANGED recons
    <3>1. broker' # "down"
      BY <2>2, ConnectMoves, TypeParts DEF MInv
    <3>2. \A r \in Recs : rtask'[r].pc # "free" /\ rtask'[r].cancelled => LiveRec(r) /\ rtask[r].cancelled
      BY <2>2 DEF LiveRec, recons
    <3>3. QED  BY <1>0, <2>1, <3>1, <3>2, RetriesKept
  <2>3. CASE Schedule /\ UNCHANGED broker
    <3>1. \/ UNCHANGED recons /\ (broker = "absent" \/ \E r \in Recs : LiveRec(r))
          \/ \E r \in SpareRecs :
               rtask' = [rtask EXCEPT ![r] = [pc |-> "new", cancelled |-> FALSE]]
      BY <2>3, ScheduleMoves, TypeParts DEF MInv
    <3>2. CASE UNCHANGED recons /\ (broker = "absent" \/ \E r \in Recs : LiveRec(r))
      <4>1. broker' # "down" \/ \E r \in Recs : rtask'[r].pc # "free"
        BY <2>3, <3>2 DEF LiveRec, recons
      <4>2. \A r \in Recs : rtask'[r].pc # "free" /\ rtask'[r].cancelled => LiveRec(r) /\ rtask[r].cancelled
        BY <3>2 DEF LiveRec, recons
      <4>3. QED  BY <1>0, <2>1, <4>1, <4>2, RetriesKept
    <3>3. ASSUME NEW r \in SpareRecs, rtask' = [rtask EXCEPT ![r] = [pc |-> "new", cancelled |-> FALSE]]
          PROVE  RInv'
      <4>1. r \in Recs /\ rtask \in [Recs -> RecRecord]
        BY TypeParts DEF MInv, OtherTypes, SpareRecs
      <4>2. rtask'[r].pc = "new" /\ rtask'[r].cancelled = FALSE
            /\ \A x \in Recs \ {r} : rtask'[x] = rtask[x]
        BY <3>3, <4>1
      <4>3. \A x \in Recs : rtask'[x].pc # "free" /\ rtask'[x].cancelled => LiveRec(x) /\ rtask[x].cancelled
        BY <4>2 DEF LiveRec
      <4>4. \E x \in Recs : rtask'[x].pc # "free"
        BY <4>1, <4>2
      <4>5. QED  BY <1>0, <2>1, <4>3, <4>4, RetriesKept
    <3>4. QED  BY <3>1, <3>2, <3>3
  <2>4. QED  BY <1>10, <2>2, <2>3, OpenedMoves
<1>11. CASE Database(c)
  <2>1. Op(c) \in DbOps /\ call[c].code # <<>> /\ call[c].on = None /\ UNCHANGED <<broker, rtask>>
    BY <1>11, DatabaseMoves DEF connection, recons
  <2>2. PICK t : /\ Moves(c, t, "ready", None)
                 /\ \/ t = Rest(c)
                    \/ /\ t \in Seq(Instr) /\ Len(t) = Len(call[c].code)
                       /\ \A i \in 2 .. Len(t) : t[i] = call[c].code[i]
    BY <1>11, DatabaseMoves
  <2>3. Recovers(call[c].code) => Recovers(t)
    BY <2>1, <2>2, RecoversReplaced, RecoversPopped DEF Recovery, DbOps
  <2>4. QED  BY <1>0, <2>1, <2>2, <2>3, RetriesAlone
<1>12. CASE Check(c)
  <2>1. call[c].code # <<>> /\ call[c].on = None /\ UNCHANGED <<broker, rtask>>
    BY <1>12, CheckMoves DEF connection, recons
  <2>2. CASE Op(c) \in {"check", "try"} /\ Moves(c, Rest(c), "ready", None)
    BY <1>0, <2>1, <2>2, RecoversPopped, RetriesAlone DEF Recovery
  <2>3. ASSUME Op(c) = "check", NEW t \in Seq(Instr), Moves(c, t, "ready", None),
               Len(t) = Len(call[c].code) - 3, \A i \in 1 .. Len(t) : t[i] = call[c].code[i + 3]
        PROVE  RInv'
    <3>1. CheckThenCreate(call[c].code, 1) /\ call[c].code[1].op = "check"
      BY <2>1, <2>3, Front DEF Fits
    <3>2. Len(call[c].code) \in Nat /\ Len(t) \in Nat
      BY <2>1, RestTypes, Lengths
    <3>3. call[c].code[2].op = "list" /\ call[c].code[3].op = "create"
      BY <3>1 DEF CheckThenCreate, I
    <3>4. Recovers(call[c].code) => Recovers(t)
      <4> SUFFICES ASSUME NEW i \in 1 .. Len(call[c].code), call[c].code[i].op \in Recovery
                   PROVE  Recovers(t)
        BY DEF Recovers
      <4>1. i \notin {1, 2, 3}
        BY <3>1, <3>3 DEF Recovery
      <4>2. i - 3 \in 1 .. Len(t) /\ (i - 3) + 3 = i
        BY <2>3, <3>2, <4>1
      <4>3. t[i - 3] = call[c].code[i]
        BY <2>3, <4>2
      <4>4. QED  BY <4>2, <4>3 DEF Recovers
    <3>5. QED  BY <1>0, <2>1, <2>3, <3>4, RetriesAlone
  <2>4. CASE Op(c) = "try" /\ Moves(c, <<I("disable", Devs(c))>>, "ready", None)
    <3>1. ~Recovers(call[c].code)
      <4>1. /\ Ends(call[c].code, 1) /\ CheckThenCreate(call[c].code, 1)
            /\ call[c].code[1].op = "try"
        BY <2>1, <2>4, Front DEF Fits
      <4>2. /\ Len(call[c].code) = 3
            /\ call[c].code[2].op = "list" /\ call[c].code[3].op = "create"
        BY <4>1 DEF Ends, CheckThenCreate, I
      <4>3. \A i \in 1 .. Len(call[c].code) : i \in {1, 2, 3}
        BY <4>2
      <4>4. QED  BY <4>1, <4>2, <4>3 DEF Recovers, Recovery
    <3>2. QED  BY <1>0, <2>1, <2>4, <3>1, RetriesAlone
  <2>5. QED  BY <1>12, <2>2, <2>3, <2>4, CheckMoves
<1>13. CASE Create(c)
  <2>1. /\ Op(c) = "create" /\ call[c].code # <<>> /\ call[c].on = None
        /\ UNCHANGED <<broker, rtask>> /\ Moves(c, Rest(c), "ready", None)
    BY <1>13, CreateMoves DEF connection, recons
  <2>2. QED  BY <1>0, <2>1, RecoversPopped, RetriesAlone DEF Recovery
<1>14. QED
  BY <1>1, <1>2, <1>3, <1>4, <1>5, <1>6, <1>7, <1>8, <1>9, <1>10, <1>11, <1>12, <1>13 DEF CallStep

(* So do the reconnect tasks, of which one ends when the broker needs it    *)
(* no longer or when a request has cancelled it, and the publish tasks,     *)
(* which see to a retry before they say that the broker is down.            *)
LEMMA RInvStep == MInv /\ RInv /\ [Next]_vars => RInv'
<1> SUFFICES ASSUME MInv, RInv, [Next]_vars PROVE RInv'
  OBVIOUS
<1>1. OtherTypes /\ None \notin Recs
  BY TypeParts, MqttAssumption DEF MInv
<1>2. ASSUME UNCHANGED <<broker, rtask, call>> PROVE RInv'
  BY <1>2 DEF RInv, RetryAwaited, DownRecovers, LiveRec
<1>3. ASSUME NEW c \in Threads, ~Busy(c), NEW t, Moves(c, t, "ready", None), UNCHANGED <<broker, rtask>>
      PROVE  RInv'
  <2>1. call[c].code = <<>> /\ call[c].wait = "ready" /\ (call[c].wait = "task" <=> call[c].on # None)
    BY <1>3 DEF Busy, MInv, Waits
  <2>2. call[c].on = None /\ ~Recovers(call[c].code)
    <3>1. Len(call[c].code) = 0
      BY <2>1
    <3>2. QED  BY <2>1, <3>1 DEF Recovers
  <2>3. QED  BY <1>1, <1>3, <2>2, RetriesAlone
<1>4. ASSUME NEW c \in Calls, Request(c) PROVE RInv'
  <2>1. c \in Threads
    BY DEF Threads
  <2>2. QED  BY <1>3, <1>4, <2>1, RequestMoves DEF connection, recons
<1>5. ASSUME NEW c \in Threads, CallStep(c) PROVE RInv'
  BY <1>5, CallStepRetries
<1>6. ASSUME NEW r \in Recs, ReconStep(r) PROVE RInv'
  <2>1. LiveRec(r) /\ UNCHANGED call
    BY <1>6, RecMoves
  <2>2. PICK q \in RecRecord :
          /\ rtask' = [rtask EXCEPT ![r] = q]
          /\ q.cancelled => rtask[r].cancelled
          /\ q.pc = "free" => \/ rtask[r].cancelled /\ broker' = broker
                              \/ broker' # "down"
    BY <1>6, RecMoves
  <2>3. rtask'[r] = q /\ \A x \in Recs \ {r} : rtask'[x] = rtask[x]
    BY <1>1, <2>2 DEF OtherTypes
  <2>4. RetryAwaited'
    <3> SUFFICES ASSUME NEW x \in Recs, rtask'[x].pc # "free", rtask'[x].cancelled
                 PROVE  \E k \in Threads : call'[k].on = x /\ Recovers(call'[k].code)
      BY DEF RetryAwaited, LiveRec
    <3>1. LiveRec(x) /\ rtask[x].cancelled
      BY <2>1, <2>2, <2>3 DEF LiveRec
    <3>2. QED  BY <2>1, <3>1 DEF RInv, RetryAwaited
  <2>5. DownRecovers'
    <3>1. CASE q.pc # "free"
      BY <2>3, <3>1 DEF DownRecovers, LiveRec
    <3>2. CASE q.pc = "free" /\ rtask[r].cancelled
      <4>1. \E k \in Threads : Recovers(call[k].code)
        BY <2>1, <3>2 DEF RInv, RetryAwaited
      <4>2. QED  BY <2>1, <4>1 DEF DownRecovers
    <3>3. CASE broker' # "down"
      BY <3>3 DEF DownRecovers
    <3>4. QED  BY <2>2, <3>1, <3>2, <3>3
  <2>6. QED  BY <2>4, <2>5 DEF RInv
<1>7. ASSUME NEW p \in Pubs, PubStep(p) PROVE RInv'
  <2>1. UNCHANGED call /\ \/ UNCHANGED <<broker, recons>>
                          \/ broker' = Disconnected /\ Schedule
    BY <1>7, PubMoves
  <2>2. CASE UNCHANGED <<broker, recons>>
    BY <1>2, <2>1, <2>2 DEF recons
  <2>3. CASE broker' = Disconnected /\ Schedule
    <3>1. \/ UNCHANGED recons /\ (broker = "absent" \/ \E r \in Recs : LiveRec(r))
          \/ \E r \in SpareRecs :
               rtask' = [rtask EXCEPT ![r] = [pc |-> "new", cancelled |-> FALSE]]
      BY <1>1, <2>3, ScheduleMoves
    <3>2. CASE UNCHANGED recons /\ (broker = "absent" \/ \E r \in Recs : LiveRec(r))
      <4>1. broker' # "down" \/ \E r \in Recs : LiveRec(r)
        BY <2>3, <3>2 DEF Disconnected
      <4>2. QED  BY <2>1, <3>2, <4>1 DEF RInv, RetryAwaited, DownRecovers, LiveRec, recons
    <3>3. ASSUME NEW r \in SpareRecs, rtask' = [rtask EXCEPT ![r] = [pc |-> "new", cancelled |-> FALSE]]
          PROVE  RInv'
      <4>1. r \in Recs /\ rtask \in [Recs -> RecRecord]
        BY <1>1 DEF OtherTypes, SpareRecs
      <4>2. rtask'[r].pc = "new" /\ rtask'[r].cancelled = FALSE
            /\ \A x \in Recs \ {r} : rtask'[x] = rtask[x]
        BY <3>3, <4>1
      <4>3. RetryAwaited'
        BY <2>1, <4>2 DEF RInv, RetryAwaited, LiveRec
      <4>4. DownRecovers'
        BY <4>1, <4>2 DEF DownRecovers, LiveRec
      <4>5. QED  BY <4>3, <4>4 DEF RInv
    <3>4. QED  BY <3>1, <3>2, <3>3
  <2>4. QED  BY <2>1, <2>2, <2>3
<1>8. CASE Shutdown
  <2>1. Main \in Threads
    BY DEF Threads
  <2>2. QED  BY <1>3, <1>8, <2>1, ShutdownMoves DEF connection, recons
<1>9. CASE Restart
  BY <1>9, RestartHolds
<1>10. CASE Writes
  BY <1>1, <1>2, <1>10, WritesMoves DEF connection, recons
<1>11. CASE NetDrops \/ NetReturns
  BY <1>2, <1>11 DEF NetDrops, NetReturns, recons
<1>12. CASE UNCHANGED vars
  BY <1>2, <1>12 DEF vars
<1>13. QED
  BY <1>4, <1>5, <1>6, <1>7, <1>8, <1>9, <1>10, <1>11, <1>12 DEF Next, Writes

(* A broker the status shows as not connected is being retried: between     *)
(* requests there is a reconnect task for it, whatever failed before.       *)
THEOREM DownBrokersAreRetried == Spec => []DownIsRetried
<1>1. Init => RInv
  BY InitStarts, StartedHolds
<1>2. MInv /\ RInv => DownIsRetried
  <2> SUFFICES ASSUME MInv, RInv, Quiet, broker = "down" PROVE \E r \in Recs : LiveRec(r)
    BY DEF DownIsRetried
  <2>1. \A c \in Threads : ~Recovers(call[c].code)
    <3> TAKE c \in Threads
    <3>1. Len(call[c].code) = 0
      BY DEF Quiet, Busy
    <3>2. QED  BY <3>1 DEF Recovers
  <2>2. QED  BY <2>1 DEF RInv, DownRecovers
<1>3. QED  BY <1>1, <1>2, RequestsFormed, RInvStep, PTL DEF Spec

-----------------------------------------------------------------------------
(* Requests that do not overlap.  A cancelled publish task stays awaited by *)
(* the request that cancelled it.                                           *)
LEMMA StopsKept ==
    ASSUME MInv, StopAwaited, NEW c \in Threads, NEW t, NEW w, NEW o, Moves(c, t, w, o),
           call[c].on \in Pubs => ~LivePub(call[c].on),
           \A p \in Pubs : ptask'[p].pc # "free" /\ ptask'[p].cancelled =>
               (LivePub(p) /\ ptask[p].cancelled) \/ o = p
    PROVE  StopAwaited'
<1> SUFFICES ASSUME NEW p \in Pubs, ptask'[p].pc # "free", ptask'[p].cancelled
             PROVE  \E k \in Threads : call'[k].on = p
  BY DEF StopAwaited, LivePub
<1>1. call'[c].on = o /\ \A k \in Threads \ {c} : call'[k] = call[k]
  BY DEF Moves
<1>2. CASE LivePub(p) /\ ptask[p].cancelled
  <2>1. PICK k \in Threads : call[k].on = p
    BY <1>2 DEF StopAwaited
  <2>2. k # c
    BY <1>2, <2>1
  <2>3. QED  BY <1>1, <2>1, <2>2
<1>3. CASE o = p
  BY <1>1, <1>3
<1>4. QED  BY <1>2, <1>3

(* The other requests are idle: they wait for nothing and stop nothing.     *)
LEMMA OthersIdle ==
    ASSUME MInv, NEW k \in Threads, ~Busy(k)
    PROVE  call[k].code = <<>> /\ call[k].on = None /\ Len(call[k].code) = 0
<1>1. call[k].code = <<>> /\ call[k].wait = "ready" /\ (call[k].wait = "task" <=> call[k].on # None)
  BY DEF Busy, MInv, Waits
<1>2. QED  BY <1>1

(* The only request in progress keeps what is said of the others, if its    *)
(* new code is ready and whatever is published stays wanted.                *)
LEMMA AloneKept ==
    ASSUME MInv, NEW c \in Threads, \A k \in Threads \ {c} : ~Busy(k),
           NEW t \in Seq(Instr), NEW w, NEW o, Moves(c, t, w, o),
           Ready(t)', Registered',
           \A p \in Pubs : ptask'[p].pc # "free" =>
              \/ config'[ptask'[p].dev] = "on" \/ ptask'[p].dev \in untold'
              \/ o = p \/ Stops(t, ptask'[p].dev)
    PROVE  Alone'
<1>1. /\ call'[c].code = t /\ call'[c].on = o
      /\ \A k \in Threads \ {c} : call'[k] = call[k]
  BY DEF Moves
<1>2. Solo'
  BY <1>1 DEF Solo, Busy
<1>3. \A k \in Threads : Ready(call[k].code)'
  <2> TAKE k \in Threads
  <2>1. CASE k = c
    <3>1. Ready(call[c].code)' <=> Ready(t)'
      BY <1>1 DEF Ready, CreateReady, StartsEnabled, DisableStops, Stops, Begins
    <3>2. QED  BY <2>1, <3>1
  <2>2. CASE k # c
    <3>1. call'[k].code = <<>> /\ Len(call'[k].code) = 0
      BY <1>1, <2>2, OthersIdle
    <3>2. QED
      BY <3>1 DEF Ready, CreateReady, StartsEnabled, DisableStops, Begins
  <2>3. QED  BY <2>1, <2>2
<1>4. \A p \in Pubs : Wanted(p)'
  BY <1>1 DEF Wanted, LivePub
<1>5. QED  BY <1>2, <1>3, <1>4 DEF Alone

(* A request in progress is the only one, and every publish task is the     *)
(* registered one of its device.                                            *)
LEMMA OnlyRequest ==
    ASSUME MInv, AInv, ~overlap, NEW c \in Threads, Busy(c)
    PROVE  /\ \A k \in Threads \ {c} : ~Busy(k)
           /\ Ready(call[c].code)
           /\ \A p \in Pubs : LivePub(p) =>
                \/ config[ptask[p].dev] = "on" \/ ptask[p].dev \in untold
                \/ call[c].on = p \/ Stops(call[c].code, ptask[p].dev)
           /\ call[c].on = None => \A p \in Pubs : LivePub(p) => /\ ~ptask[p].cancelled
                                                                 /\ pub[ptask[p].dev] = p
           /\ Registered
<1>1. Solo /\ Registered /\ Ready(call[c].code) /\ \A p \in Pubs : Wanted(p)
  BY DEF AInv, Alone
<1>2. \A k \in Threads \ {c} : ~Busy(k)
  BY <1>1 DEF Solo
<1>3. \A k \in Threads \ {c} : call[k].on = None /\ Len(call[k].code) = 0
  BY <1>2, OthersIdle
<1>4. \A k \in Threads \ {c} : \A d : ~Stops(call[k].code, d)
  BY <1>3 DEF Stops
<1>5. None \notin Pubs
  BY MqttAssumption
<1>6. ASSUME NEW p \in Pubs, LivePub(p)
      PROVE  \/ config[ptask[p].dev] = "on" \/ ptask[p].dev \in untold
             \/ call[c].on = p \/ Stops(call[c].code, ptask[p].dev)
  BY <1>1, <1>3, <1>4, <1>5, <1>6 DEF Wanted
<1>7. ASSUME call[c].on = None, NEW p \in Pubs, LivePub(p)
      PROVE  ~ptask[p].cancelled /\ pub[ptask[p].dev] = p
  <2>1. ~ptask[p].cancelled
    BY <1>3, <1>5, <1>7 DEF AInv, StopAwaited
  <2>2. QED  BY <1>1, <1>7, <2>1 DEF Registered
<1>8. QED  BY <1>1, <1>2, <1>6, <1>7

(* The publish tasks are the ones there were, apart from those that ended.  *)
SameTasks ==
    \A p \in Pubs : ptask'[p].pc # "free" =>
        /\ LivePub(p) /\ ptask'[p].dev = ptask[p].dev /\ ptask'[p].cancelled = ptask[p].cancelled

(* The request goes on with a code that is ready and stops what it stopped. *)
LEMMA StepAlone ==
    ASSUME MInv, AInv, NEW c \in Threads, Busy(c), NEW t \in Seq(Instr), NEW w, NEW o,
           Moves(c, t, w, o), SameTasks, UNCHANGED <<pub, overlap>>,
           call[c].on \in Pubs => ~LivePub(call[c].on),
           ~overlap => Ready(t)',
           ~overlap => \A p \in Pubs :
               LivePub(p) /\ (config[ptask[p].dev] = "on" \/ ptask[p].dev \in untold
                                \/ Stops(call[c].code, ptask[p].dev))
               => config'[ptask[p].dev] = "on" \/ ptask[p].dev \in untold'
                     \/ Stops(t, ptask[p].dev)
    PROVE  AInv'
<1>1. StopAwaited'
  BY StopsKept DEF AInv, SameTasks
<1>2. ASSUME ~overlap PROVE Alone'
  <2>1. Registered'
    BY <1>2 DEF AInv, Alone, Registered, LivePub, SameTasks
  <2>2. ASSUME NEW p \in Pubs, ptask'[p].pc # "free"
        PROVE  \/ config'[ptask'[p].dev] = "on" \/ ptask'[p].dev \in untold'
               \/ o = p \/ Stops(t, ptask'[p].dev)
    <3>1. LivePub(p) /\ ptask'[p].dev = ptask[p].dev
      BY <2>2 DEF SameTasks
    <3>2. call[c].on # p
      BY <3>1
    <3>3. \/ config[ptask[p].dev] = "on" \/ ptask[p].dev \in untold
          \/ Stops(call[c].code, ptask[p].dev)
      BY <1>2, <3>1, <3>2, OnlyRequest
    <3>4. QED  BY <1>2, <3>1, <3>3
  <2>3. QED  BY <1>2, <2>1, <2>2, OnlyRequest, AloneKept
<1>3. overlap' => Alone'
  BY DEF Alone
<1>4. QED  BY <1>1, <1>2, <1>3 DEF AInv

(* Without its first instruction a code is as ready as it was.              *)
LEMMA RestReady ==
    ASSUME MInv, NEW c \in Threads, call[c].code # <<>>, Ready(call[c].code),
           Op(c) # "list", Op(c) = "cancels" => Devs(c) = {}, Op(c) # "create" => pub' = pub,
           Op(c) \notin {"disable", "drop"} => \A d \in Devices : config[d] = "on" => config'[d] = "on",
           Op(c) = "enable" => \A d \in Devs(c) : config'[d] = "on",
           NEW t, t = Rest(c)
    PROVE  Ready(t)'
<1>1. PICK s : s = call[c].code
  OBVIOUS
<1>2. /\ t \in Seq(Instr) /\ Len(t) = Len(s) - 1 /\ Len(s) \in Nat \ {0}
      /\ \A i \in 1 .. Len(t) : t[i] = s[i + 1]
  BY <1>1, RestTypes
<1>3. Op(c) = s[1].op /\ Devs(c) = s[1].devs /\ Fits(s, 1)
  BY <1>1, Front
<1>4. \A i \in 1 .. Len(t) : Fits(s, i + 1) /\ s[i + 1] \in Instr
  <2> TAKE i \in 1 .. Len(t)
  <2>1. i + 1 \in 1 .. Len(s) /\ s \in Seq(Instr) /\ Formed(s)
    BY <1>1, <1>2, CallTypes
  <2>2. QED  BY <2>1, ElementOfSeq DEF Formed
<1>5. CreateReady(s) /\ StartsEnabled(s)
  BY <1>1 DEF Ready
<1>6. t # <<>> => 1 \in 1 .. Len(t) /\ t[1] = s[2] /\ Fits(s, 2)
  <2> SUFFICES ASSUME t # <<>> PROVE 1 \in 1 .. Len(t) /\ t[1] = s[2] /\ Fits(s, 2)
    OBVIOUS
  <2>1. Len(t) > 0 /\ Len(t) \in Nat
    BY <1>2, Lengths
  <2>2. 1 \in 1 .. Len(t) /\ 1 + 1 = 2
    BY <2>1
  <2>3. QED  BY <1>2, <1>4, <2>2
<1>7. ~Begins(t, {"cancels"}) /\ ~Begins(t, {"enable"}) /\ ~Begins(t, {"disable", "drop"})
  BY <1>6 DEF Begins, Fits, First
<1>8. ASSUME Begins(t, {"create"}), NEW d \in t[1].devs PROVE pub'[d] = None
  <2>1. t[1] = s[2] /\ CancelThenCreate(s, 2) /\ s[2].op = "create" /\ 1 \in 1 .. Len(t)
    BY <1>6, <1>8 DEF Begins, Fits
  <2>2. s[1].op = "cancels"
    BY <1>3, <2>1 DEF CancelThenCreate, I
  <2>3. Begins(s, {"cancels"}) /\ Len(s) > 1
    <3>1. Len(s) > 1 /\ s # <<>>
      BY <1>1, <1>2, <2>1
    <3>2. QED  BY <2>2, <3>1 DEF Begins
  <2>4. pub[d] = None
    BY <1>3, <1>5, <1>8, <2>1, <2>2, <2>3 DEF CreateReady
  <2>5. QED  BY <1>3, <2>2, <2>4
<1>9. ASSUME NEW i \in 1 .. Len(t), t[i].op \in {"create", "starts"}, NEW d \in t[i].devs
      PROVE  config'[d] = "on"
  <2>1. i + 1 \in 1 .. Len(s) /\ t[i] = s[i + 1] /\ d \in Devices
    BY <1>2, <1>4, <1>9 DEF Instr
  <2>2. CASE config[d] = "on"
    <3>1. DisableThenCancel(s, 1)
      BY <1>3 DEF Fits
    <3>2. s[1].op \notin {"disable", "drop"}
      BY <1>9, <2>1, <3>1 DEF DisableThenCancel
    <3>3. QED  BY <1>3, <2>1, <2>2, <3>2
  <2>3. CASE Begins(s, {"enable"}) /\ s[i + 1].op = "create"
    <3>1. EnableThenCreate(s, 1) /\ s[1].op = "enable"
      BY <1>3, <2>3 DEF Fits, Begins
    <3>2. s[i + 1].devs = s[1].devs
      BY <2>1, <2>3, <3>1 DEF EnableThenCreate
    <3>3. QED  BY <1>3, <1>9, <2>1, <3>1, <3>2
  <2>4. QED  BY <1>5, <1>9, <2>1, <2>2, <2>3 DEF StartsEnabled
<1>10. CreateReady(t)'
  BY <1>7, <1>8 DEF CreateReady, Begins
<1>11. StartsEnabled(t)'
  BY <1>7, <1>9 DEF StartsEnabled, Begins
<1>12. DisableStops(t)'
  BY <1>7 DEF DisableStops, Begins
<1>13. QED  BY <1>10, <1>11, <1>12 DEF Ready

(* ... and stops what it stopped.                                           *)
LEMMA RestStops ==
    ASSUME MInv, NEW c \in Threads, call[c].code # <<>>, Op(c) # "list",
           Op(c) = "cancels" => Devs(c) = {}, NEW d, Stops(call[c].code, d)
    PROVE  Stops(Rest(c), d)
<1>1. PICK i \in 1 .. Len(call[c].code) :
         call[c].code[i].op \in {"list", "cancels"} /\ d \in call[c].code[i].devs
  BY DEF Stops
<1>2. i # 1
  BY <1>1, Front
<1>3. /\ Len(Rest(c)) = Len(call[c].code) - 1 /\ Len(call[c].code) \in Nat \ {0}
      /\ \A j \in 1 .. Len(Rest(c)) : Rest(c)[j] = call[c].code[j + 1]
  BY RestTypes
<1>4. i - 1 \in 1 .. Len(Rest(c)) /\ (i - 1) + 1 = i
  BY <1>2, <1>3
<1>5. Rest(c)[i - 1] = call[c].code[i]
  BY <1>3, <1>4
<1>6. QED  BY <1>1, <1>4, <1>5 DEF Stops

(* With another first instruction, for the instructions that are replaced.  *)
LEMMA ReplacedReady ==
    ASSUME MInv, NEW c \in Threads, call[c].code # <<>>, Ready(call[c].code), config' = config,
           Op(c) # "enable",
           NEW t \in Seq(Instr), Len(t) = Len(call[c].code),
           \A i \in 2 .. Len(t) : t[i] = call[c].code[i],
           t[1].op \in {"cancels", "starts"},
           t[1].op = "starts" => \A d \in t[1].devs : config[d] = "on",
           t[1].op = "cancels" /\ Len(t) > 1 /\ t[2].op = "create" =>
              \A d \in t[2].devs : pub'[d] = None \/ d \in t[1].devs
    PROVE  Ready(t)'
<1>1. StartsEnabled(call[c].code) /\ ~Begins(call[c].code, {"enable"})
  BY Front DEF Ready, Begins
<1>2. ~Begins(t, {"create"}) /\ ~Begins(t, {"enable"}) /\ ~Begins(t, {"disable", "drop"})
  BY DEF Begins
<1>3. CreateReady(t)'
  BY <1>2 DEF CreateReady, Begins
<1>4. ASSUME NEW i \in 1 .. Len(t), t[i].op \in {"create", "starts"}, NEW d \in t[i].devs
      PROVE  config'[d] = "on"
  <2>1. CASE i = 1
    BY <1>4, <2>1
  <2>2. CASE i # 1
    <3>1. Len(t) \in Nat
      BY Lengths
    <3>2. i \in 2 .. Len(t) /\ i \in 1 .. Len(call[c].code)
      BY <2>2, <3>1
    <3>3. QED  BY <1>1, <1>4, <3>2 DEF StartsEnabled
  <2>3. QED  BY <2>1, <2>2
<1>5. StartsEnabled(t)'
  BY <1>2, <1>4 DEF StartsEnabled, Begins
<1>6. DisableStops(t)'
  BY <1>2 DEF DisableStops, Begins
<1>7. QED  BY <1>3, <1>5, <1>6 DEF Ready

(* What the first instruction does not stop is stopped by the others.       *)
LEMMA ReplacedStops ==
    ASSUME MInv, NEW c \in Threads, call[c].code # <<>>,
           NEW t \in Seq(Instr), Len(t) = Len(call[c].code),
           \A i \in 2 .. Len(t) : t[i] = call[c].code[i],
           NEW d, Stops(call[c].code, d), Op(c) \in {"list", "cancels"} => d \notin Devs(c)
    PROVE  Stops(t, d)
<1>1. PICK i \in 1 .. Len(call[c].code) :
         call[c].code[i].op \in {"list", "cancels"} /\ d \in call[c].code[i].devs
  BY DEF Stops
<1>2. i # 1
  BY <1>1, Front
<1>3. Len(t) \in Nat
  BY Lengths
<1>4. i \in 2 .. Len(t) /\ i \in 1 .. Len(t)
  BY <1>2, <1>3
<1>5. QED  BY <1>1, <1>4 DEF Stops

(* A request that goes on with the rest of its code, when it has to do with *)
(* no publish task and no config.                                           *)
LEMMA RestAlone ==
    ASSUME MInv, AInv, NEW c \in Threads, call[c].code # <<>>, call[c].on = None,
           NEW w, NEW o, Moves(c, Rest(c), w, o), SameTasks, UNCHANGED <<pub, config, hist>>,
           Op(c) \notin {"list", "enable"}, Op(c) = "cancels" => Devs(c) = {}
    PROVE  AInv'
<1>1. PICK t : t = Rest(c)
  OBVIOUS
<1>2. t \in Seq(Instr) /\ Moves(c, t, w, o) /\ Busy(c) /\ None \notin Pubs
  BY <1>1, RestTypes, MqttAssumption DEF Busy
<1>3. ~overlap => Ready(t)'
  BY <1>1, <1>2, OnlyRequest, RestReady
<1>4. \A d : Stops(call[c].code, d) => Stops(t, d)
  BY <1>1, RestStops
<1>5. QED  BY <1>2, <1>3, <1>4, StepAlone DEF hist

(* ... and one that does not go on at all.                                  *)
LEMMA SameAlone ==
    ASSUME MInv, AInv, NEW c \in Threads, Busy(c), call[c].on \in Pubs => ~LivePub(call[c].on),
           NEW w, NEW o, Moves(c, call[c].code, w, o), SameTasks, UNCHANGED <<pub, config, hist>>
    PROVE  AInv'
<1>1. PICK t : t = call[c].code
  OBVIOUS
<1>2. t \in Seq(Instr) /\ Moves(c, t, w, o)
  BY <1>1, CallTypes
<1>3. ~overlap => Ready(t)
  BY <1>1, OnlyRequest
<1>4. ~overlap => Ready(t)'
  BY <1>3 DEF Ready, CreateReady, StartsEnabled, DisableStops, hist
<1>5. QED  BY <1>1, <1>2, <1>4, StepAlone DEF hist

(* The tasks to cancel are listed: they are the registered ones.            *)
LEMMA ListAlone ==
    ASSUME MInv, AInv, NEW c \in Threads, ListTasks(c)
    PROVE  AInv'
<1>1. /\ Op(c) = "list" /\ call[c].code # <<>> /\ call[c].on = None /\ Busy(c)
      /\ UNCHANGED <<pub, config, ptask, untold, overlap>> /\ None \notin Pubs
  BY ListMoves, MqttAssumption DEF db, publishers, hist, Busy
<1>2. PICK t \in Seq(Instr) :
         /\ Moves(c, t, "ready", None) /\ Len(t) = Len(call[c].code)
         /\ t[1] = I("cancels", {d \in Devs(c) : pub[d] # None})
         /\ \A i \in 2 .. Len(t) : t[i] = call[c].code[i]
  BY ListMoves
<1>3. t[1].op = "cancels" /\ t[1].devs = {d \in Devs(c) : pub[d] # None}
  BY <1>2 DEF I
<1>4. Len(t) \in Nat \ {0} /\ call[c].code[1].op = "list" /\ call[c].code[1].devs = Devs(c)
  BY <1>1, <1>2, Front, RestTypes
<1>5. ASSUME Len(t) > 1, t[2].op = "create", NEW d \in t[2].devs
      PROVE  pub'[d] = None \/ d \in t[1].devs
  <2>1. t[2] = call[c].code[2] /\ 2 \in 1 .. Len(call[c].code) /\ Formed(call[c].code)
    BY <1>2, <1>4, <1>5, CallTypes
  <2>2. CancelThenCreate(call[c].code, 2)
    BY <2>1 DEF Formed, Fits
  <2>3. call[c].code[1] = I("list", t[2].devs)
    BY <1>4, <1>5, <2>1, <2>2 DEF CancelThenCreate
  <2>4. d \in Devs(c)
    BY <1>4, <1>5, <2>3 DEF I
  <2>5. QED  BY <1>1, <1>3, <2>4
<1>6. ~overlap => Ready(t)'
  <2> SUFFICES ASSUME ~overlap PROVE Ready(t)'
    OBVIOUS
  <2>1. Ready(call[c].code)
    BY <1>1, OnlyRequest
  <2>2. QED  BY <1>1, <1>2, <1>3, <1>5, <2>1, ReplacedReady
<1>7. ASSUME ~overlap, NEW p \in Pubs, LivePub(p), Stops(call[c].code, ptask[p].dev)
      PROVE  Stops(t, ptask[p].dev)
  <2>1. pub[ptask[p].dev] = p /\ p # None
    BY <1>1, <1>7, OnlyRequest
  <2>2. CASE ptask[p].dev \in Devs(c)
    <3>1. 1 \in 1 .. Len(t) /\ ptask[p].dev \in t[1].devs
      BY <1>3, <1>4, <2>1, <2>2
    <3>2. QED  BY <1>3, <3>1 DEF Stops
  <2>3. CASE ptask[p].dev \notin Devs(c)
    BY <1>1, <1>2, <1>7, <2>3, ReplacedStops
  <2>4. QED  BY <2>2, <2>3
<1>8. SameTasks
  BY <1>1 DEF SameTasks, LivePub
<1>9. QED  BY <1>1, <1>2, <1>6, <1>7, <1>8, StepAlone

(* A registered task is cancelled: it is the only one of its device.        *)
LEMMA CancelAlone ==
    ASSUME MInv, AInv, NEW c \in Threads, CancelPublish(c)
    PROVE  AInv'
<1>1. /\ Op(c) = "cancels" /\ call[c].code # <<>> /\ call[c].on = None /\ Busy(c)
      /\ UNCHANGED <<config, hist>> /\ None \notin Pubs
  BY CancelMoves, MqttAssumption DEF db, Busy
<1>2. CASE Devs(c) = {} /\ UNCHANGED publishers /\ Moves(c, Rest(c), "ready", None)
  <2>1. SameTasks /\ UNCHANGED pub
    BY <1>2 DEF SameTasks, LivePub, publishers
  <2>2. QED  BY <1>1, <1>2, <2>1, RestAlone
<1>3. ASSUME NEW d \in Devs(c), NEW t \in Seq(Instr), NEW w, NEW o, Moves(c, t, w, o),
             Len(t) = Len(call[c].code), t[1] = I("cancels", Devs(c) \ {d}),
             \A i \in 2 .. Len(t) : t[i] = call[c].code[i],
             d \in Devices, pub' = [pub EXCEPT ![d] = None],
             \/ /\ pub[d] # None /\ LivePub(pub[d]) /\ o = pub[d]
                /\ ptask' = [ptask EXCEPT ![pub[d]].cancelled = TRUE]
             \/ /\ ~(pub[d] # None /\ LivePub(pub[d])) /\ o = None /\ UNCHANGED ptask
      PROVE  AInv'
  <2>1. OtherTypes /\ pub[d] \in Pubs \cup {None} /\ PubsOfDevices
    BY <1>3, TypeParts DEF MInv, OtherTypes
  <2>2. \A e \in Devices : pub'[e] = IF e = d THEN None ELSE pub[e]
    BY <1>3, <2>1 DEF OtherTypes
  <2>3. \A p \in Pubs : /\ ptask'[p].pc = ptask[p].pc /\ ptask'[p].dev = ptask[p].dev
                        /\ p # o => ptask'[p].cancelled = ptask[p].cancelled
    <3>1. CASE UNCHANGED ptask
      BY <3>1
    <3>2. CASE pub[d] # None /\ o = pub[d] /\ ptask' = [ptask EXCEPT ![pub[d]].cancelled = TRUE]
      <4>1. PICK q : q = [ptask[o] EXCEPT !.cancelled = TRUE]
        OBVIOUS
      <4>2. o \in Pubs /\ ptask[o] \in PubRecord /\ ptask' = [ptask EXCEPT ![o] = q]
        BY <2>1, <3>2, <4>1 DEF OtherTypes
      <4>3. q.pc = ptask[o].pc /\ q.dev = ptask[o].dev
        BY <4>1, <4>2 DEF PubRecord
      <4>4. QED  BY <2>1, <4>2, <4>3 DEF OtherTypes
    <3>3. QED  BY <1>3, <3>1, <3>2
  <2>4. StopAwaited'
    <3>1. \A p \in Pubs : ptask'[p].pc # "free" /\ ptask'[p].cancelled =>
             (LivePub(p) /\ ptask[p].cancelled) \/ o = p
      BY <2>3 DEF LivePub
    <3>2. QED  BY <1>1, <1>3, <3>1, StopsKept DEF AInv
  <2>5. ASSUME ~overlap PROVE Alone'
    <3>1. /\ \A k \in Threads \ {c} : ~Busy(k)
          /\ Ready(call[c].code)
          /\ \A p \in Pubs : LivePub(p) =>
               /\ \/ config[ptask[p].dev] = "on" \/ ptask[p].dev \in untold
                  \/ call[c].on = p \/ Stops(call[c].code, ptask[p].dev)
               /\ pub[ptask[p].dev] = p
      BY <1>1, <2>5, OnlyRequest
    <3>2. ASSUME NEW p \in Pubs, ptask'[p].pc # "free", p # o
          PROVE  LivePub(p) /\ ptask'[p].dev = ptask[p].dev /\ ptask[p].dev # d
                 /\ pub'[ptask[p].dev] = p
      <4>1. LivePub(p) /\ ptask'[p].dev = ptask[p].dev /\ pub[ptask[p].dev] = p
        BY <2>3, <3>1, <3>2 DEF LivePub
      <4>2. ptask[p].dev # d
        BY <1>1, <1>3, <3>2, <4>1
      <4>3. QED  BY <2>1, <2>2, <4>1, <4>2 DEF PubsOfDevices
    <3>3. Registered'
      <4>1. \A p \in Pubs : p = o => ptask'[p].cancelled
        BY <1>1, <1>3, <2>1 DEF OtherTypes, PubRecord
      <4>2. QED  BY <3>2, <4>1 DEF Registered, LivePub
    <3>4. t[1].op = "cancels" /\ t[1].devs = Devs(c) \ {d}
      BY <1>3 DEF I
    <3>5. ASSUME Len(t) > 1, t[2].op = "create", NEW e \in t[2].devs
          PROVE  pub'[e] = None \/ e \in t[1].devs
      <4>1. 2 \in 1 .. Len(t) /\ Len(t) \in Nat
        BY <3>5, Lengths
      <4>2. t[2] = call[c].code[2] /\ t[2] \in Instr
        BY <1>3, <4>1, ElementOfSeq
      <4>3. Begins(call[c].code, {"cancels"}) /\ call[c].code[1].devs = Devs(c)
        BY <1>1, Front DEF Begins
      <4>4. pub[e] = None \/ e \in Devs(c)
        BY <1>3, <3>1, <3>5, <4>2, <4>3 DEF Ready, CreateReady
      <4>5. e \in Devices
        BY <3>5, <4>2 DEF Instr
      <4>6. QED  BY <2>2, <3>4, <4>4, <4>5
    <3>6. Ready(t)'
      BY <1>1, <1>3, <3>1, <3>4, <3>5, ReplacedReady
    <3>7. ASSUME NEW p \in Pubs, ptask'[p].pc # "free"
          PROVE  \/ config'[ptask'[p].dev] = "on" \/ ptask'[p].dev \in untold'
                 \/ o = p \/ Stops(t, ptask'[p].dev)
      <4> SUFFICES ASSUME p # o
                   PROVE  \/ config'[ptask'[p].dev] = "on" \/ ptask'[p].dev \in untold'
                          \/ Stops(t, ptask'[p].dev)
        OBVIOUS
      <4>1. LivePub(p) /\ ptask'[p].dev = ptask[p].dev /\ ptask[p].dev # d
        BY <3>2, <3>7
      <4>2. \/ config[ptask[p].dev] = "on" \/ ptask[p].dev \in untold
            \/ Stops(call[c].code, ptask[p].dev)
        BY <1>1, <3>1, <4>1
      <4>3. Stops(call[c].code, ptask[p].dev) => Stops(t, ptask[p].dev)
        <5>1. CASE ptask[p].dev \in Devs(c)
          <6>1. 1 \in 1 .. Len(t) /\ ptask[p].dev \in t[1].devs
            <7>1. 1 \in 1 .. Len(t)
              BY <1>1, <1>3, RestTypes
            <7>2. QED  BY <3>4, <4>1, <5>1, <7>1
          <6>2. QED  BY <3>4, <6>1 DEF Stops
        <5>2. CASE ptask[p].dev \notin Devs(c)
          BY <1>1, <1>3, <5>2, ReplacedStops
        <5>3. QED  BY <5>1, <5>2
      <4>4. QED  BY <1>1, <4>1, <4>2, <4>3 DEF hist
    <3>8. QED  BY <1>3, <3>1, <3>3, <3>6, <3>7, AloneKept
  <2>6. overlap' => Alone'
    BY DEF Alone
  <2>7. QED  BY <1>1, <2>4, <2>5, <2>6 DEF AInv, hist
<1>4. QED  BY <1>2, <1>3, CancelMoves

(* The database answers: a flag is set or put back, a config dropped, the   *)
(* enabled configs are found.                                               *)
LEMMA DatabaseAlone ==
    ASSUME MInv, AInv, NEW c \in Threads, Database(c)
    PROVE  AInv'
<1>1. /\ Op(c) \in DbOps /\ call[c].code # <<>> /\ call[c].on = None
      /\ UNCHANGED <<pub, ptask, untold, overlap>> /\ None \notin Pubs
  BY DatabaseMoves, MqttAssumption DEF publishers, hist
<1>2. SameTasks /\ Busy(c) /\ OtherTypes /\ PubsOfDevices /\ Devs(c) \in SUBSET Devices
  BY <1>1, TypeParts, Front DEF SameTasks, LivePub, Busy, MInv
<1>3. config' = CASE Op(c) = "enable" -> SetConfig(Dev(c), "on")
                  [] Op(c) = "disable" -> SetConfig(Dev(c), "off")
                  [] Op(c) = "drop" -> [config EXCEPT ![Dev(c)] = "none"]
                  [] OTHER -> config
  BY DEF Database
<1>4. Op(c) \in {"enable", "disable", "drop"} => Dev(c) \in Devices /\ Devs(c) = {Dev(c)}
  BY <1>1, FrontOne DEF ForOne, DbOps
<1>5. \A d \in Devices : d \notin Devs(c) \/ Op(c) \notin {"enable", "disable", "drop"}
                            => config'[d] = config[d]
  BY <1>2, <1>3, <1>4 DEF OtherTypes, SetConfig
<1>6. ASSUME ~overlap, Op(c) = "enable", NEW d \in Devs(c) PROVE config'[d] = "on"
  <2>1. Ready(call[c].code) /\ Begins(call[c].code, {"enable"}) /\ d \in call[c].code[1].devs
    BY <1>1, <1>2, <1>6, OnlyRequest, Front DEF Begins
  <2>2. config[d] # "none" /\ d = Dev(c)
    BY <1>4, <1>6, <2>1 DEF Ready, StartsEnabled
  <2>3. QED  BY <1>2, <1>3, <1>4, <1>6, <2>2 DEF OtherTypes, SetConfig
<1>7. CASE Moves(c, Rest(c), "ready", None)
  <2>0. PICK t : t = Rest(c)
    OBVIOUS
  <2>1. t \in Seq(Instr) /\ Moves(c, t, "ready", None)
    BY <1>1, <1>7, <2>0, RestTypes
  <2>2. ASSUME ~overlap PROVE Ready(t)'
    <3>1. Op(c) # "list" /\ Op(c) # "cancels"
      BY <1>1 DEF DbOps
    <3>2. Op(c) \notin {"disable", "drop"} =>
             \A d \in Devices : config[d] = "on" => config'[d] = "on"
      BY <1>1, <1>5, <1>6, <2>2 DEF DbOps
    <3>3. QED  BY <1>1, <1>2, <1>6, <2>0, <2>2, <3>1, <3>2, OnlyRequest, RestReady
  <2>3. ASSUME ~overlap, NEW p \in Pubs, LivePub(p),
               \/ config[ptask[p].dev] = "on" \/ ptask[p].dev \in untold
               \/ Stops(call[c].code, ptask[p].dev)
        PROVE  \/ config'[ptask[p].dev] = "on" \/ ptask[p].dev \in untold'
               \/ Stops(t, ptask[p].dev)
    <3>1. PICK d \in Devices : d = ptask[p].dev
      BY <1>2, <2>3 DEF PubsOfDevices
    <3>2. Stops(call[c].code, d) => Stops(t, d)
      BY <1>1, <2>0, RestStops DEF DbOps
    <3>3. config[d] = "on" => config'[d] = "on" \/ d \in untold \/ Stops(call[c].code, d)
      <4> SUFFICES ASSUME config[d] = "on", config'[d] # "on"
                   PROVE  d \in untold \/ Stops(call[c].code, d)
        OBVIOUS
      <4>1. d \in Devs(c) /\ Op(c) \in {"disable", "drop"}
        BY <1>5, <1>6, <2>3
      <4>2. /\ Begins(call[c].code, {"disable", "drop"}) /\ d \in call[c].code[1].devs
            /\ Ready(call[c].code)
        BY <1>1, <1>2, <2>3, <4>1, OnlyRequest, Front DEF Begins
      <4>3. QED  BY <4>2 DEF Ready, DisableStops
    <3>4. QED  BY <1>1, <2>3, <3>1, <3>2, <3>3
  <2>4. QED  BY <1>1, <1>2, <2>1, <2>2, <2>3, StepAlone
<1>8. ASSUME Op(c) \in {"query", "configs"}, NEW t \in Seq(Instr),
             Moves(c, t, "ready", None), Len(t) = Len(call[c].code), t[1] = I("starts", Found(c)),
             \A i \in 2 .. Len(t) : t[i] = call[c].code[i]
      PROVE  AInv'
  <2>1. config' = config
    BY <1>3, <1>8
  <2>2. t[1].op = "starts" /\ t[1].devs = Found(c)
    BY <1>8 DEF I
  <2>3. \A d \in Found(c) : config[d] = "on"
    BY <1>8 DEF Found, Enabled
  <2>4. ~overlap => Ready(t)'
    BY <1>1, <1>2, <1>8, <2>1, <2>2, <2>3, OnlyRequest, ReplacedReady
  <2>5. \A d : Stops(call[c].code, d) => Stops(t, d)
    BY <1>1, <1>8, ReplacedStops
  <2>6. QED  BY <1>1, <1>2, <1>8, <2>1, <2>4, <2>5, StepAlone
<1>9. QED  BY <1>7, <1>8, DatabaseMoves

(* The start of a config found is the next thing to do: it is enabled.      *)
LEMMA StartsAlone ==
    ASSUME MInv, AInv, NEW c \in Threads, Starts(c)
    PROVE  AInv'
<1>1. /\ Op(c) = "starts" /\ call[c].code # <<>> /\ call[c].on = None /\ Busy(c)
      /\ UNCHANGED <<pub, config, ptask, untold, overlap>> /\ None \notin Pubs
  BY StartsMoves, MqttAssumption DEF db, publishers, hist, Busy
<1>2. SameTasks
  BY <1>1 DEF SameTasks, LivePub
<1>3. PICK d \in Devs(c), u \in Seq(Instr), t \in Seq(Instr) :
         /\ Moves(c, t, "ready", None) /\ d \in Devices
         /\ Len(t) = Len(u) + 3
         /\ t[1] = I("check", {d}) /\ t[2] = I("list", {d}) /\ t[3] = I("create", {d})
         /\ \A i \in 1 .. Len(u) : t[i + 3] = u[i]
         /\ \/ u = Rest(c)
            \/ /\ Len(u) = Len(call[c].code) /\ u[1] = I("starts", Devs(c) \ {d})
               /\ \A i \in 2 .. Len(u) : u[i] = call[c].code[i]
  BY StartsMoves
<1>4. /\ t[1].op = "check" /\ t[2].op = "list" /\ t[3].op = "create" /\ t[3].devs = {d}
      /\ Len(u) \in Nat /\ call[c].code[1].op = "starts" /\ call[c].code[1].devs = Devs(c)
      /\ 1 \in 1 .. Len(call[c].code)
  <2>1. t[1].op = "check" /\ t[2].op = "list" /\ t[3].op = "create" /\ t[3].devs = {d}
    BY <1>3 DEF I
  <2>2. Len(u) \in Nat
    BY Lengths
  <2>3. /\ call[c].code[1].op = "starts" /\ call[c].code[1].devs = Devs(c)
        /\ Len(call[c].code) \in Nat \ {0}
    BY <1>1, Front, RestTypes
  <2>4. 1 \in 1 .. Len(call[c].code)
    BY <2>3
  <2>5. QED  BY <2>1, <2>2, <2>3, <2>4
<1>5. ASSUME ~overlap PROVE Ready(t)'
  <2>1. Ready(call[c].code) /\ ~Begins(call[c].code, {"enable"})
    BY <1>1, <1>4, <1>5, OnlyRequest DEF Begins
  <2>2. \A e \in Devs(c) : config[e] = "on"
    BY <1>4, <2>1 DEF Ready, StartsEnabled
  <2>3. StartsEnabled(u)
    <3>1. CASE u = Rest(c)
      <4>1. config' = config /\ Ready(u)'
        BY <1>1, <2>1, <3>1, RestReady
      <4>2. QED  BY <4>1 DEF Ready, StartsEnabled
    <3>2. CASE /\ Len(u) = Len(call[c].code) /\ u[1] = I("starts", Devs(c) \ {d})
               /\ \A i \in 2 .. Len(u) : u[i] = call[c].code[i]
      <4>1. u[1].op = "starts" /\ u[1].devs = Devs(c) \ {d}
        BY <3>2 DEF I
      <4>2. config' = config /\ Ready(u)'
        BY <1>1, <2>1, <2>2, <3>2, <4>1, ReplacedReady
      <4>3. QED  BY <4>2 DEF Ready, StartsEnabled
    <3>3. QED  BY <1>3, <3>1, <3>2
  <2>4. ~Begins(u, {"enable"})
    <3>1. CASE u = Rest(c)
      <4>1. Formed(call[c].code)
        BY CallTypes
      <4>2. u # <<>> => 2 \in 1 .. Len(call[c].code) /\ u[1] = call[c].code[2]
        <5> SUFFICES ASSUME u # <<>> PROVE 2 \in 1 .. Len(call[c].code) /\ u[1] = call[c].code[2]
          OBVIOUS
        <5>1. Len(u) > 0 /\ Len(u) = Len(call[c].code) - 1 /\ Len(call[c].code) \in Nat \ {0}
              /\ \A i \in 1 .. Len(u) : u[i] = call[c].code[i + 1]
          BY <1>1, <3>1, Lengths, RestTypes
        <5>2. 1 \in 1 .. Len(u) /\ 1 + 1 = 2
          BY <5>1
        <5>3. QED  BY <5>1, <5>2
      <4>3. QED  BY <4>1, <4>2 DEF Begins, Formed, Fits, First
    <3>2. CASE u[1] = I("starts", Devs(c) \ {d})
      BY <3>2 DEF Begins, I
    <3>3. QED  BY <1>3, <3>1, <3>2
  <2>5. ~Begins(t, {"enable", "disable", "drop", "create", "cancels"})
    BY <1>4 DEF Begins
  <2>6. ASSUME NEW i \in 1 .. Len(t), t[i].op \in {"create", "starts"}, NEW e \in t[i].devs
        PROVE  config'[e] = "on"
    <3>1. CASE i \in {1, 2, 3}
      BY <1>1, <1>4, <2>2, <2>6, <3>1
    <3>2. CASE i \notin {1, 2, 3}
      <4>1. i - 3 \in 1 .. Len(u) /\ (i - 3) + 3 = i
        BY <1>3, <1>4, <3>2
      <4>2. t[i] = u[i - 3]
        BY <1>3, <4>1
      <4>3. QED  BY <1>1, <2>3, <2>4, <2>6, <4>1, <4>2 DEF StartsEnabled
    <3>3. QED  BY <3>1, <3>2
  <2>7. QED
    BY <2>5, <2>6 DEF Ready, CreateReady, StartsEnabled, DisableStops, Begins
<1>6. ASSUME NEW e, Stops(call[c].code, e) PROVE Stops(t, e)
  <2>1. Stops(u, e)
    BY <1>1, <1>3, <1>6, RestStops, ReplacedStops
  <2>2. PICK i \in 1 .. Len(u) : u[i].op \in {"list", "cancels"} /\ e \in u[i].devs
    BY <2>1 DEF Stops
  <2>3. i + 3 \in 1 .. Len(t) /\ t[i + 3] = u[i]
    BY <1>3, <1>4
  <2>4. QED  BY <2>2, <2>3 DEF Stops
<1>7. QED  BY <1>1, <1>2, <1>3, <1>5, <1>6, StepAlone

(* A start that raises: a resume goes on with the next config, its own      *)
(* being enabled; the request to start publishing is to put the flag back.  *)
LEMMA CheckAlone ==
    ASSUME MInv, AInv, NEW c \in Threads, Check(c)
    PROVE  AInv'
<1>1. /\ call[c].code # <<>> /\ call[c].on = None /\ Busy(c)
      /\ UNCHANGED <<pub, config, ptask, overlap>> /\ None \notin Pubs
  BY CheckMoves, MqttAssumption DEF db, publishers, Busy
<1>2. SameTasks /\ PubsOfDevices
  BY <1>1 DEF SameTasks, LivePub, MInv
<1>3. CASE Op(c) \in {"check", "try"} /\ Moves(c, Rest(c), "ready", None) /\ UNCHANGED untold
  BY <1>1, <1>2, <1>3, RestAlone DEF hist
<1>4. ASSUME Op(c) = "check", UNCHANGED untold, NEW t \in Seq(Instr), Moves(c, t, "ready", None),
             Len(t) = Len(call[c].code) - 3, \A i \in 1 .. Len(t) : t[i] = call[c].code[i + 3]
      PROVE  AInv'
  <2>0. PICK s : s = call[c].code
    OBVIOUS
  <2>1. /\ s \in Seq(Instr) /\ Formed(s) /\ s[1].op = "check" /\ Fits(s, 1)
        /\ Len(s) \in Nat /\ Len(t) \in Nat /\ Len(t) = Len(s) - 3
        /\ \A i \in 1 .. Len(t) : t[i] = s[i + 3]
    BY <1>1, <1>4, <2>0, CallTypes, Front, Lengths
  <2>2. /\ s[2] = I("list", s[1].devs) /\ s[3] = I("create", s[1].devs) /\ Len(s) >= 3
    BY <2>1 DEF Fits, CheckThenCreate
  <2>3. s[2].op = "list" /\ s[2].devs = s[1].devs /\ s[3].op = "create" /\ s[3].devs = s[1].devs
    BY <2>2 DEF I
  <2>4. ASSUME ~overlap PROVE Ready(s)
    BY <1>1, <2>0, <2>4, OnlyRequest
  <2>5. ASSUME ~overlap, NEW i \in 1 .. Len(s), s[i].op \in {"create", "starts"}, NEW d \in s[i].devs
        PROVE  config[d] = "on"
    BY <2>1, <2>4, <2>5 DEF Ready, StartsEnabled, Begins
  <2>6. t # <<>> => t[1] = s[4] /\ Fits(s, 4)
    <3> SUFFICES ASSUME t # <<>> PROVE t[1] = s[4] /\ Fits(s, 4)
      OBVIOUS
    <3>1. Len(t) > 0
      BY <1>4, Lengths
    <3>2. 1 \in 1 .. Len(t) /\ 1 + 3 = 4 /\ 4 \in 1 .. Len(s)
      BY <2>1, <3>1
    <3>3. QED  BY <2>1, <3>2 DEF Formed
  <2>7. ~Begins(t, {"create", "cancels", "enable", "disable", "drop"})
    <3> SUFFICES ASSUME t # <<>>
                 PROVE  s[4].op \notin {"create", "cancels", "enable", "disable", "drop"}
      BY <2>6 DEF Begins
    <3>1. s[4].op \notin {"cancels", "enable", "disable", "drop"}
      BY <2>6 DEF Fits, First
    <3>2. s[4].op = "create" => s[3].op = "cancels" \/ s[3].op = "list"
      BY <2>6 DEF Fits, CancelThenCreate, I
    <3>3. QED  BY <2>3, <3>1, <3>2
  <2>8. ASSUME ~overlap PROVE Ready(t)'
    <3>1. ASSUME NEW i \in 1 .. Len(t), t[i].op \in {"create", "starts"}, NEW d \in t[i].devs
          PROVE  config'[d] = "on"
      <4>1. i + 3 \in 1 .. Len(s) /\ t[i] = s[i + 3]
        BY <2>1
      <4>2. QED  BY <1>1, <2>5, <2>8, <3>1, <4>1
    <3>2. QED
      BY <2>7, <3>1 DEF Ready, CreateReady, StartsEnabled, DisableStops, Begins
  <2>9. ASSUME ~overlap, NEW d, Stops(s, d)
        PROVE  config[d] = "on" \/ Stops(t, d)
    <3>1. PICK i \in 1 .. Len(s) : s[i].op \in {"list", "cancels"} /\ d \in s[i].devs
      BY <2>9 DEF Stops
    <3>2. CASE i = 2
      <4>1. 3 \in 1 .. Len(s) /\ d \in s[3].devs
        BY <2>1, <2>2, <2>3, <3>1, <3>2
      <4>2. QED  BY <2>3, <2>5, <2>9, <4>1
    <3>3. CASE i # 2
      <4>1. i \notin {1, 2, 3}
        BY <2>1, <2>3, <3>1, <3>3
      <4>2. i - 3 \in 1 .. Len(t) /\ (i - 3) + 3 = i
        BY <2>1, <4>1
      <4>3. t[i - 3] = s[i]
        BY <2>1, <4>2
      <4>4. QED  BY <3>1, <4>2, <4>3 DEF Stops
    <3>4. QED  BY <3>2, <3>3
  <2>10. QED  BY <1>1, <1>2, <1>4, <2>0, <2>8, <2>9, StepAlone
<1>5. ASSUME Op(c) = "try", untold' = untold \cup Devs(c),
             Moves(c, <<I("disable", Devs(c))>>, "ready", None)
      PROVE  AInv'
  <2>1. PICK x, t : x = I("disable", Devs(c)) /\ t = <<x>>
    OBVIOUS
  <2>2. x \in Instr /\ x.op = "disable" /\ x.devs = Devs(c)
    BY <1>1, <2>1, Front DEF I, Instr, Ops
  <2>3. t \in Seq(Instr) /\ Len(t) = 1 /\ t[1] = x /\ Moves(c, t, "ready", None)
    BY <1>5, <2>1, <2>2
  <2>4. Ready(t)'
    <3>1. \A i \in 1 .. Len(t) : i = 1
      BY <2>3
    <3>2. CreateReady(t)' /\ StartsEnabled(t)'
      BY <2>2, <2>3, <3>1 DEF CreateReady, StartsEnabled, Begins
    <3>3. DisableStops(t)'
      BY <1>5, <2>2, <2>3 DEF DisableStops
    <3>4. QED  BY <3>2, <3>3 DEF Ready
  <2>5. ASSUME NEW d, Stops(call[c].code, d) PROVE d \in Devs(c)
    <3>1. Ends(call[c].code, 1) /\ CheckThenCreate(call[c].code, 1) /\ call[c].code[1].op = "try"
          /\ call[c].code[1].devs = Devs(c)
      BY <1>1, <1>5, Front DEF Fits
    <3>2. /\ Len(call[c].code) = 3 /\ call[c].code[2].devs = Devs(c)
          /\ call[c].code[3].op = "create"
      BY <3>1 DEF Ends, CheckThenCreate, I
    <3>3. \A i \in 1 .. Len(call[c].code) : i \in {1, 2, 3}
      BY <3>2
    <3>4. QED  BY <2>5, <3>1, <3>2, <3>3 DEF Stops
  <2>6. QED  BY <1>1, <1>2, <1>5, <2>3, <2>4, <2>5, StepAlone
<1>6. QED  BY <1>3, <1>4, <1>5, CheckMoves

(* A publish task is created for a device that has none, and is enabled.    *)
LEMMA CreateAlone ==
    ASSUME MInv, AInv, NEW c \in Threads, Create(c)
    PROVE  AInv'
<1>1. /\ Op(c) = "create" /\ call[c].code # <<>> /\ call[c].on = None /\ Busy(c)
      /\ UNCHANGED <<config, overlap>> /\ None \notin Pubs
  BY CreateMoves, MqttAssumption DEF db, Busy
<1>2. PICK d \in Devices, p \in SparePubs :
         /\ Devs(c) = {d} /\ untold' = untold \ {d} /\ pub' = [pub EXCEPT ![d] = p]
         /\ ptask' = [ptask EXCEPT ![p] = [pc |-> "new", dev |-> d, conn |-> "none",
                                           cancelled |-> FALSE]]
  BY CreateMoves
<1>3. OtherTypes /\ PubsOfDevices /\ p \in Pubs /\ ~LivePub(p)
  BY <1>2, TypeParts DEF MInv, SparePubs
<1>4. /\ ptask'[p].pc = "new" /\ ptask'[p].dev = d /\ ptask'[p].cancelled = FALSE
      /\ \A x \in Pubs \ {p} : ptask'[x] = ptask[x]
      /\ \A e \in Devices : pub'[e] = IF e = d THEN p ELSE pub[e]
  BY <1>2, <1>3 DEF OtherTypes
<1>5. PICK t : t = Rest(c)
  OBVIOUS
<1>6. t \in Seq(Instr) /\ Moves(c, t, "ready", None)
  BY <1>1, <1>5, RestTypes, CreateMoves
<1>7. StopAwaited'
  <2>1. \A x \in Pubs : ptask'[x].pc # "free" /\ ptask'[x].cancelled =>
           (LivePub(x) /\ ptask[x].cancelled) \/ None = x
    BY <1>4 DEF LivePub
  <2>2. QED  BY <1>1, <1>6, <2>1, StopsKept DEF AInv
<1>8. ASSUME ~overlap PROVE Alone'
  <2>1. /\ \A k \in Threads \ {c} : ~Busy(k)
        /\ Ready(call[c].code)
        /\ \A x \in Pubs : LivePub(x) =>
             /\ \/ config[ptask[x].dev] = "on" \/ ptask[x].dev \in untold
                \/ call[c].on = x \/ Stops(call[c].code, ptask[x].dev)
             /\ pub[ptask[x].dev] = x
    BY <1>1, <1>8, OnlyRequest
  <2>2. /\ call[c].code[1].op = "create" /\ call[c].code[1].devs = {d}
        /\ 1 \in 1 .. Len(call[c].code)
    BY <1>1, <1>2, Front, RestTypes
  <2>3. pub[d] = None /\ config[d] = "on"
    BY <1>1, <2>1, <2>2 DEF Ready, CreateReady, StartsEnabled, Begins
  <2>4. ASSUME NEW x \in Pubs, ptask'[x].pc # "free", x # p
        PROVE  LivePub(x) /\ ptask'[x] = ptask[x] /\ ptask[x].dev \in Devices /\ ptask[x].dev # d
    <3>1. LivePub(x) /\ ptask'[x] = ptask[x]
      BY <1>4, <2>4 DEF LivePub
    <3>2. QED  BY <1>1, <1>3, <2>1, <2>3, <3>1 DEF PubsOfDevices
  <2>5. Registered'
    <3> SUFFICES ASSUME NEW x \in Pubs, ptask'[x].pc # "free" PROVE pub'[ptask'[x].dev] = x
      BY DEF Registered, LivePub
    <3>1. CASE x = p
      BY <1>4, <3>1
    <3>2. CASE x # p
      BY <1>4, <2>1, <2>4, <3>2
    <3>3. QED  BY <3>1, <3>2
  <2>6. Ready(t)'
    BY <1>1, <1>5, <2>1, RestReady
  <2>7. ASSUME NEW x \in Pubs, ptask'[x].pc # "free"
        PROVE  \/ config'[ptask'[x].dev] = "on" \/ ptask'[x].dev \in untold'
               \/ Stops(t, ptask'[x].dev)
    <3>1. CASE x = p
      BY <1>1, <1>4, <2>3, <3>1
    <3>2. CASE x # p
      <4>1. \A e : Stops(call[c].code, e) => Stops(t, e)
        BY <1>1, <1>5, RestStops
      <4>2. QED  BY <1>1, <1>2, <2>1, <2>4, <2>7, <3>2, <4>1
    <3>3. QED  BY <3>1, <3>2
  <2>8. QED  BY <1>6, <2>1, <2>5, <2>6, <2>7, AloneKept
<1>9. overlap' => Alone'
  BY DEF Alone
<1>10. QED  BY <1>1, <1>7, <1>8, <1>9 DEF AInv

(* A connection attempt ends: an update that fails is over, and had the     *)
(* publish tasks stopped before.                                            *)
LEMMA OpenedAlone ==
    ASSUME MInv, AInv, NEW c \in Threads, Opened(c)
    PROVE  AInv'
<1>1. /\ Op(c) \in {"open", "reopen"} /\ call[c].code # <<>> /\ call[c].on = None /\ Busy(c)
      /\ UNCHANGED <<pub, config, hist>> /\ None \notin Pubs
  BY OpenedMoves, MqttAssumption DEF db, Busy
<1>2. SameTasks
  <2>1. OtherTypes
    BY TypeParts DEF MInv
  <2>2. SamePubs \/ UNCHANGED ptask
    BY <2>1, OpenedMoves, ConnectMoves
  <2>3. QED  BY <2>2 DEF SameTasks, SamePubs, LivePub
<1>3. CASE Moves(c, Rest(c), "ready", None)
  BY <1>1, <1>2, <1>3, RestAlone
<1>4. CASE Op(c) # "open" /\ Moves(c, <<>>, "ready", None)
  <2>1. PICK s, t : s = call[c].code /\ t = <<>>
    OBVIOUS
  <2>2. t \in Seq(Instr) /\ Len(t) = 0 /\ Moves(c, t, "ready", None)
    BY <1>4, <2>1
  <2>3. Ready(t)'
    BY <2>1, <2>2 DEF Ready, CreateReady, StartsEnabled, DisableStops, Begins
  <2>4. s[1].op = "reopen" /\ Ends(s, 1)
    BY <1>1, <1>4, <2>1, Front DEF Fits
  <2>5. Len(s) = 2 /\ s[2].op = "query"
    BY <2>4 DEF Ends
  <2>6. \A i \in 1 .. Len(s) : i \in {1, 2}
    BY <2>5
  <2>7. \A d : ~Stops(call[c].code, d)
    BY <2>1, <2>4, <2>5, <2>6 DEF Stops
  <2>8. UNCHANGED <<pub, overlap>> /\ config' = config /\ untold' = untold
    BY <1>1 DEF hist
  <2>9. call[c].on \in Pubs => ~LivePub(call[c].on)
    BY <1>1
  <2>10. \A p \in Pubs :
            LivePub(p) /\ (config[ptask[p].dev] = "on" \/ ptask[p].dev \in untold
                             \/ Stops(call[c].code, ptask[p].dev))
            => config'[ptask[p].dev] = "on" \/ ptask[p].dev \in untold'
                  \/ Stops(t, ptask[p].dev)
    BY <2>7, <2>8
  <2>11. QED  BY <1>1, <1>2, <2>2, <2>3, <2>8, <2>9, <2>10, StepAlone
<1>5. QED  BY <1>1, <1>3, <1>4, OpenedMoves

(* Requests keep what is claimed while they do not overlap.                 *)
LEMMA CallStepAlone ==
    ASSUME MInv, AInv, NEW c \in Threads, CallStep(c)
    PROVE  AInv'
<1>1. OtherTypes /\ None \notin Pubs /\ Pubs \cap Recs = {}
  BY TypeParts, MqttAssumption DEF MInv
<1>2. SamePubs \/ UNCHANGED ptask => SameTasks
  BY DEF SameTasks, SamePubs, LivePub
<1>3. CASE Execute(c)
  <2>1. /\ Busy(c) /\ call[c].on = None /\ Moves(c, call[c].code, "db", None)
        /\ UNCHANGED <<pub, config, hist>> /\ SameTasks
    BY <1>2, <1>3, ExecuteMoves DEF Busy, db, publishers
  <2>2. QED  BY <1>1, <2>1, SameAlone
<1>4. CASE Resume(c)
  <2>1. /\ Busy(c) /\ Moves(c, call[c].code, "ready", None)
        /\ UNCHANGED <<pub, config, hist>> /\ SameTasks
    BY <1>2, <1>4, ResumeMoves DEF db
  <2>2. call[c].on \in Pubs => ~LivePub(call[c].on)
    BY <1>1, <1>4, ResumeMoves
  <2>3. QED  BY <2>1, <2>2, SameAlone
<1>5. CASE CancelReconnect(c)
  <2>1. /\ Op(c) = "recon" /\ call[c].code # <<>> /\ call[c].on = None
        /\ UNCHANGED <<pub, config, hist>> /\ SameTasks
        /\ \E w, o : Moves(c, Rest(c), w, o)
    BY <1>2, <1>5, CancelReconnectMoves DEF db, publishers
  <2>2. QED  BY <2>1, RestAlone
<1>6. CASE Close(c)
  <2>1. /\ Op(c) = "close" /\ call[c].code # <<>> /\ call[c].on = None
        /\ UNCHANGED <<pub, config, hist>> /\ SameTasks /\ Busy(c)
    BY <1>1, <1>2, <1>6, CloseMoves, InFlightMoves DEF db, CloseClient, Busy
  <2>2. CASE Moves(c, Rest(c), "ready", None)
    BY <2>1, <2>2, RestAlone
  <2>3. CASE Moves(c, call[c].code, "ready", None)
    BY <1>1, <2>1, <2>3, SameAlone
  <2>4. QED  BY <1>6, <2>2, <2>3, CloseMoves
<1>7. CASE Forget(c)
  <2>1. /\ Op(c) = "forget" /\ call[c].code # <<>> /\ call[c].on = None
        /\ UNCHANGED <<pub, config, hist>> /\ SameTasks /\ Moves(c, Rest(c), "ready", None)
    BY <1>2, <1>7, ForgetMoves DEF db, publishers
  <2>2. QED  BY <2>1, RestAlone
<1>8. CASE Open(c)
  <2>1. /\ Busy(c) /\ call[c].on = None /\ Moves(c, call[c].code, "net", None)
        /\ UNCHANGED <<pub, config, hist>> /\ SameTasks
    BY <1>2, <1>8, OpenMoves DEF Busy, db, publishers
  <2>2. QED  BY <1>1, <2>1, SameAlone
<1>9. QED
  BY <1>3, <1>4, <1>5, <1>6, <1>7, <1>8, ListAlone, CancelAlone, DatabaseAlone, StartsAlone,
     CheckAlone, CreateAlone, OpenedAlone DEF CallStep

(* A request that begins alone finds nothing published that is not wanted.  *)
LEMMA BeginAlone ==
    ASSUME MInv, AInv, NEW c \in Threads, ~Busy(c), NEW t \in Seq(Instr), Opens(t),
           Moves(c, t, "ready", None), UNCHANGED <<config, pub, ptask, untold>>,
           ~overlap' => ~overlap /\ \A k \in Threads : ~Busy(k)
    PROVE  AInv'
<1>1. StopAwaited'
  <2>1. call[c].on = None /\ None \notin Pubs
    BY OthersIdle, MqttAssumption
  <2>2. \A p \in Pubs : ptask'[p].pc # "free" /\ ptask'[p].cancelled => LivePub(p) /\ ptask[p].cancelled
    BY DEF LivePub
  <2>3. QED  BY <2>1, <2>2, StopsKept DEF AInv
<1>2. ASSUME ~overlap' PROVE Alone'
  <2>1. Registered /\ \A p \in Pubs : Wanted(p)
    BY <1>2 DEF AInv, Alone
  <2>2. \A k \in Threads : call[k].on = None /\ Len(call[k].code) = 0
    BY <1>2, OthersIdle
  <2>3. \A k \in Threads : \A d : ~Stops(call[k].code, d)
    BY <2>2 DEF Stops
  <2>4. None \notin Pubs
    BY MqttAssumption
  <2>5. \A p \in Pubs : LivePub(p) => config[ptask[p].dev] = "on" \/ ptask[p].dev \in untold
    BY <2>1, <2>2, <2>3, <2>4 DEF Wanted
  <2>6. Registered'
    BY <2>1 DEF Registered, LivePub
  <2>7. CreateReady(t)' /\ StartsEnabled(t)'
    BY DEF Opens, CreateReady, StartsEnabled, Begins
  <2>8. DisableStops(t)'
    BY DEF Opens, DisableStops
  <2>9. QED  BY <1>2, <2>5, <2>6, <2>7, <2>8, AloneKept DEF Ready, LivePub
<1>3. QED  BY <1>1, <1>2 DEF AInv, Alone

(* Steps that are not of a request: tasks end, go on or lose what they had  *)
(* in flight, and a device gets a config.                                   *)
LEMMA TasksAlone ==
    ASSUME AInv, SameTasks, UNCHANGED <<call, pub, hist>>,
           \A d : config[d] = "on" => config'[d] = "on",
           \A d : config[d] # "none" => config'[d] # "none"
    PROVE  AInv'
<1>1. StopAwaited'
  BY DEF AInv, StopAwaited, SameTasks, LivePub
<1>2. ASSUME ~overlap PROVE Alone'
  <2>1. Solo' /\ Registered'
    BY <1>2 DEF AInv, Alone, Solo, Busy, Registered, SameTasks, LivePub
  <2>2. \A c \in Threads : Ready(call[c].code)'
    <3> TAKE c \in Threads
    <3>1. Ready(call[c].code)
      BY <1>2 DEF AInv, Alone
    <3>2. CreateReady(call[c].code)'
      BY <3>1 DEF Ready, CreateReady
    <3>3. StartsEnabled(call[c].code)'
      BY <3>1 DEF Ready, StartsEnabled, Begins
    <3>4. DisableStops(call[c].code)'
      BY <3>1 DEF Ready, DisableStops, Stops, Begins, hist
    <3>5. QED  BY <3>2, <3>3, <3>4 DEF Ready
  <2>3. \A p \in Pubs : Wanted(p)'
    <3> TAKE p \in Pubs
    <3> SUFFICES ASSUME ptask'[p].pc # "free" PROVE Wanted(p)'
      BY DEF Wanted, LivePub
    <3>1. LivePub(p) /\ ptask'[p].dev = ptask[p].dev /\ Wanted(p)
      BY <1>2 DEF SameTasks, AInv, Alone
    <3>2. QED  BY <3>1 DEF Wanted, Stops, hist
  <2>4. QED  BY <2>1, <2>2, <2>3 DEF Alone
<1>3. QED  BY <1>1, <1>2 DEF AInv, Alone, hist

(* What is only written to the database: it either leaves what is enabled,  *)
(* or changes flags while no request is in progress and says so in untold.  *)
LEMMA WritesAlone ==
    ASSUME MInv, AInv, Writes
    PROVE  AInv'
<1>1. OtherTypes /\ PubsOfDevices
  BY TypeParts DEF MInv
<1>2. UNCHANGED <<call, pub, ptask>>
  BY <1>1, WritesMoves DEF publishers
<1>3. CASE /\ UNCHANGED hist
           /\ \A d : config[d] = "on" => config'[d] = "on"
           /\ \A d : config[d] # "none" => config'[d] # "none"
  <2>1. SameTasks
    BY <1>2 DEF SameTasks, LivePub
  <2>2. QED  BY <1>2, <1>3, <2>1, TasksAlone
<1>4. CASE /\ ~Busy(Main) /\ ~overlap /\ overlap' = \E x \in Calls : Busy(x)
           /\ \A d \in Devices : (config'[d] = config[d] /\ d \notin untold) \/ d \in untold'
  <2>1. StopAwaited'
    BY <1>2 DEF AInv, StopAwaited, LivePub
  <2>2. ASSUME ~overlap' PROVE Alone'
    <3>1. \A k \in Threads : ~Busy(k) /\ call[k].code = <<>> /\ Len(call[k].code) = 0 /\ call[k].on = None
      BY <1>4, <2>2, OthersIdle DEF Threads
    <3>2. Registered' /\ Solo'
      BY <1>2, <1>4 DEF AInv, Alone, Registered, Solo, Busy, LivePub
    <3>3. \A k \in Threads : Ready(call[k].code)'
      <4> TAKE k \in Threads
      <4>1. call'[k].code = <<>> /\ Len(call'[k].code) = 0
        BY <1>2, <3>1
      <4>2. QED  BY <4>1 DEF Ready, CreateReady, StartsEnabled, DisableStops, Begins
    <3>4. \A p \in Pubs : Wanted(p)'
      <4> SUFFICES ASSUME NEW p \in Pubs, LivePub(p)
                   PROVE  config'[ptask[p].dev] = "on" \/ ptask[p].dev \in untold'
        BY <1>2 DEF Wanted, LivePub
      <4>1. Wanted(p) /\ ptask[p].dev \in Devices /\ None \notin Pubs
        BY <1>1, <1>4, MqttAssumption DEF AInv, Alone, PubsOfDevices
      <4>2. config[ptask[p].dev] = "on" \/ ptask[p].dev \in untold
        BY <3>1, <4>1 DEF Wanted, Stops
      <4>3. QED  BY <1>4, <4>1, <4>2
    <3>5. QED  BY <3>2, <3>3, <3>4 DEF Alone
  <2>3. QED  BY <2>1, <2>2 DEF AInv, Alone
<1>5. QED  BY <1>1, <1>3, <1>4, WritesMoves

(* Every step keeps what is claimed while requests do not overlap.          *)
LEMMA AInvStep == MInv /\ AInv /\ [Next]_vars => AInv'
<1> SUFFICES ASSUME MInv, AInv, [Next]_vars PROVE AInv'
  OBVIOUS
<1>1. OtherTypes
  BY TypeParts DEF MInv
<1>2. SamePubs \/ UNCHANGED ptask => SameTasks
  BY DEF SameTasks, SamePubs, LivePub
<1>3. ASSUME NEW c \in Calls, Request(c) PROVE AInv'
  <2>1. c \in Threads /\ \A k \in Threads : k \in Calls \/ k = Main
    BY DEF Threads
  <2>2. /\ ~Busy(c) /\ ~Busy(Main) /\ ~overlap /\ overlap' = \E x \in Calls : Busy(x)
        /\ UNCHANGED <<config, pub, ptask, untold>>
    BY <1>3, RequestMoves DEF publishers
  <2>3. ~overlap' => ~overlap /\ \A k \in Threads : ~Busy(k)
    BY <2>1, <2>2
  <2>4. PICK t \in Seq(Instr) : Opens(t) /\ Moves(c, t, "ready", None)
    BY <1>3, RequestMoves
  <2>5. QED  BY <2>1, <2>2, <2>3, <2>4, BeginAlone
<1>4. ASSUME NEW c \in Threads, CallStep(c) PROVE AInv'
  BY <1>4, CallStepAlone
<1>5. CASE Writes
  BY <1>5, WritesAlone
<1>6. ASSUME NEW r \in Recs, ReconStep(r) PROVE AInv'
  <2>1. SamePubs /\ UNCHANGED <<call, pub, config, hist>>
    BY <1>6, RecMoves DEF db
  <2>2. QED  BY <1>2, <2>1, TasksAlone
<1>7. ASSUME NEW p \in Pubs, PubStep(p) PROVE AInv'
  <2>1. LivePub(p) /\ UNCHANGED <<call, pub, config, hist>>
    BY <1>7, PubMoves DEF db
  <2>2. PICK q \in PubRecord :
          /\ ptask' = [ptask EXCEPT ![p] = q] /\ q.dev = ptask[p].dev
          /\ q.pc # "free" => q.cancelled = ptask[p].cancelled
    BY <1>7, PubMoves
  <2>3. ptask'[p] = q /\ \A x \in Pubs \ {p} : ptask'[x] = ptask[x]
    BY <1>1, <2>2 DEF OtherTypes
  <2>4. SameTasks
    BY <2>1, <2>2, <2>3 DEF SameTasks, LivePub
  <2>5. QED  BY <2>1, <2>4, TasksAlone
<1>8. CASE Shutdown
  <2>1. Main \in Threads
    BY DEF Threads
  <2>2. /\ \A k \in Threads : ~Busy(k)
        /\ UNCHANGED <<config, pub, ptask, untold, overlap>>
    BY <1>8, ShutdownMoves DEF db, publishers, hist
  <2>3. PICK t \in Seq(Instr) : Opens(t) /\ Moves(Main, t, "ready", None)
    BY <1>8, ShutdownMoves
  <2>4. QED  BY <2>1, <2>2, <2>3, BeginAlone
<1>9. CASE NetDrops
  <2>1. SamePubs /\ UNCHANGED <<call, pub, config, hist>>
    BY <1>1, <1>9, NetDropsMoves DEF NetDrops, db
  <2>2. QED  BY <1>2, <2>1, TasksAlone
<1>10. CASE NetReturns
  <2>1. UNCHANGED <<call, pub, config, ptask, hist>>
    BY <1>10 DEF NetReturns, db, publishers
  <2>2. QED  BY <1>2, <2>1, TasksAlone
<1>11. CASE Restart
  BY <1>11, RestartHolds
<1>12. CASE UNCHANGED vars
  <2>1. UNCHANGED <<call, pub, config, ptask, hist>>
    BY <1>12 DEF vars, hist
  <2>2. QED  BY <1>2, <2>1, TasksAlone
<1>13. QED
  BY <1>3, <1>4, <1>5, <1>6, <1>7, <1>8, <1>9, <1>10, <1>11, <1>12 DEF Next, Writes

(* What is claimed while requests do not overlap.                           *)
LEMMA AloneHolds == Spec => [](MInv /\ AInv)
<1>1. Init => AInv
  BY InitStarts, StartedHolds
<1>2. QED  BY <1>1, RequestsFormed, AInvStep, PTL DEF Spec

(* As long as requests do not overlap, a device has one publish task, the   *)
(* registered one that stop_publishing can cancel.                          *)
THEOREM OnePublisherEach == Spec => []OnePublisher
<1>1. AInv => OnePublisher
  BY DEF AInv, Alone, Registered, OnePublisher
<1>2. QED  BY <1>1, AloneHolds, PTL

(* Between requests only what is enabled in the database is published,      *)
(* unless the adapter was not told: a start that failed has put the flag to *)
(* off, an import has, or the device was deleted.                           *)
THEOREM EnabledArePublished == Spec => []PublishesEnabled
<1>1. MInv /\ AInv => PublishesEnabled
  <2> SUFFICES ASSUME MInv, AInv, Quiet, ~overlap, NEW p \in Pubs, LivePub(p)
               PROVE  config[ptask[p].dev] = "on" \/ ptask[p].dev \in untold
    BY DEF PublishesEnabled
  <2>1. \A c \in Threads : call[c].on = None /\ Len(call[c].code) = 0
    BY OthersIdle DEF Quiet
  <2>2. \A c \in Threads : \A d : ~Stops(call[c].code, d)
    BY <2>1 DEF Stops
  <2>3. Wanted(p) /\ None \notin Pubs
    BY MqttAssumption DEF AInv, Alone
  <2>4. QED  BY <2>1, <2>2, <2>3 DEF Wanted
<1>2. QED  BY <1>1, AloneHolds, PTL

-----------------------------------------------------------------------------
(* What a code has, with its first instruction apart.                       *)
LEMMA HasFront ==
    ASSUME NEW s \in Seq(Instr), s # <<>>, NEW ops
    PROVE  Has(s, ops) <=> s[1].op \in ops \/ \E i \in 2 .. Len(s) : s[i].op \in ops
<1>1. Len(s) \in Nat /\ Len(s) > 0
  BY Lengths
<1>2. \A i \in 1 .. Len(s) : i = 1 \/ i \in 2 .. Len(s)
  BY <1>1
<1>3. 1 \in 1 .. Len(s) /\ \A i \in 2 .. Len(s) : i \in 1 .. Len(s)
  BY <1>1
<1>4. QED  BY <1>2, <1>3 DEF Has

(* What is left has what was there, but perhaps for what was dropped.       *)
LEMMA HasShifted ==
    ASSUME NEW s \in Seq(Instr), NEW t \in Seq(Instr), NEW k \in Nat, Len(t) = Len(s) - k,
           \A i \in 1 .. Len(t) : t[i] = s[i + k], NEW ops, Has(t, ops)
    PROVE  Has(s, ops)
<1>1. PICK i \in 1 .. Len(t) : t[i].op \in ops
  BY DEF Has
<1>2. Len(s) \in Nat /\ Len(t) \in Nat
  BY Lengths
<1>3. i + k \in 1 .. Len(s)
  BY <1>1, <1>2
<1>4. s[i + k].op \in ops
  BY <1>1
<1>5. QED  BY <1>3, <1>4 DEF Has

(* ... the other way round only the first one is missing.                   *)
LEMMA HasPopped ==
    ASSUME NEW s \in Seq(Instr), s # <<>>, NEW t \in Seq(Instr), Len(t) = Len(s) - 1,
           \A i \in 1 .. Len(t) : t[i] = s[i + 1], NEW ops
    PROVE  Has(s, ops) <=> s[1].op \in ops \/ Has(t, ops)
<1>1. Len(s) \in Nat \ {0} /\ Len(t) \in Nat
  BY Lengths
<1>2. ASSUME Has(t, ops) PROVE Has(s, ops)
  BY <1>2, HasShifted
<1>3. ASSUME Has(s, ops), s[1].op \notin ops PROVE Has(t, ops)
  <2>1. PICK i \in 2 .. Len(s) : s[i].op \in ops
    BY <1>3, HasFront
  <2>2. i - 1 \in 1 .. Len(t) /\ (i - 1) + 1 = i
    BY <1>1
  <2>3. t[i - 1].op \in ops
    BY <2>1, <2>2
  <2>4. QED  BY <2>2, <2>3 DEF Has
<1>4. QED  BY <1>2, <1>3, HasFront

(* Another first instruction is all that is new.                            *)
LEMMA HasReplaced ==
    ASSUME NEW s \in Seq(Instr), s # <<>>, NEW t \in Seq(Instr), Len(t) = Len(s),
           \A i \in 2 .. Len(t) : t[i] = s[i], NEW ops
    PROVE  Has(t, ops) => t[1].op \in ops \/ Has(s, ops)
<1>1. Len(s) \in Nat \ {0} /\ t # <<>>
  BY Lengths
<1>2. ASSUME Has(t, ops), t[1].op \notin ops PROVE Has(s, ops)
  <2>1. PICK i \in 2 .. Len(t) : t[i].op \in ops
    BY <1>1, <1>2, HasFront
  <2>2. s[i].op \in ops
    BY <2>1
  <2>3. QED  BY <2>1, <2>2, HasFront
<1>3. QED  BY <1>2

(* A code without such instructions only has to end with its query.         *)
LEMMA PlainShaped ==
    ASSUME NEW s, ~Has(s, Conn), \A i, j \in 1 .. Len(s) : i < j => s[i].op # "query"
    PROVE  Shaped(s)
<1>1. ~Has(s, {"recon"}) /\ \A i \in 1 .. Len(s) : s[i].op # "close" /\ s[i].op \notin Recovery
  BY DEF Has, Conn, Recovery
<1>2. QED  BY <1>1 DEF Shaped, OnlyConn, Once, ConnOrder, ReconCloses

(* What is left of a code is shaped as it was.                              *)
LEMMA ShiftedShaped ==
    ASSUME NEW s \in Seq(Instr), Shaped(s), NEW t \in Seq(Instr), NEW k \in Nat,
           Len(t) = Len(s) - k, \A i \in 1 .. Len(t) : t[i] = s[i + k],
           Has(t, {"recon"}) => Has(t, {"close"})
    PROVE  Shaped(t)
<1>1. Len(s) \in Nat /\ Len(t) \in Nat
  BY Lengths
<1>2. \A i \in 1 .. Len(t) : i + k \in 1 .. Len(s) /\ t[i] = s[i + k]
  BY <1>1
<1>3. Has(t, Conn) => Has(s, Conn)
  BY HasShifted
<1>4. OnlyConn(t)
  BY <1>2, <1>3 DEF Shaped, OnlyConn
<1>5. Once(t)
  <2> SUFFICES ASSUME Has(t, Conn), NEW i \in 1 .. Len(t), NEW j \in 1 .. Len(t),
                      \/ t[i].op = "recon" /\ t[j].op = "recon"
                      \/ t[i].op \in Stopping /\ t[j].op \in Stopping
               PROVE  i = j
    BY DEF Once
  <2>1. i + k = j + k
    BY <1>2, <1>3 DEF Shaped, Once
  <2>2. QED  BY <2>1
<1>6. ConnOrder(t)
  <2> SUFFICES ASSUME NEW i \in 1 .. Len(t), NEW j \in 1 .. Len(t), i < j
               PROVE  /\ t[i].op # "query"
                      /\ t[i].op = "close" => t[j].op \in {"reopen", "forget", "query", "exit"}
                      /\ t[i].op \in Recovery => t[j].op \in {"query", "exit"}
    BY DEF ConnOrder
  <2>1. i + k < j + k
    OBVIOUS
  <2>2. QED  BY <1>2, <2>1 DEF Shaped, ConnOrder
<1>7. QED  BY <1>4, <1>5, <1>6 DEF Shaped, ReconCloses

(* Without its first instruction.                                           *)
LEMMA PoppedShaped ==
    ASSUME NEW s \in Seq(Instr), s # <<>>, Shaped(s), NEW t \in Seq(Instr), Len(t) = Len(s) - 1,
           \A i \in 1 .. Len(t) : t[i] = s[i + 1]
    PROVE  Shaped(t)
<1>1. ASSUME Has(t, {"recon"}) PROVE Has(t, {"close"})
  <2>1. Has(s, {"recon"}) /\ Len(s) \in Nat \ {0} /\ Len(t) \in Nat
    BY <1>1, HasPopped, Lengths
  <2>2. s[1].op = "close" \/ Has(t, {"close"})
    BY <2>1, HasPopped DEF Shaped, ReconCloses
  <2>3. PICK i \in 1 .. Len(t) : t[i].op = "recon"
    BY <1>1 DEF Has
  <2>4. i + 1 \in 1 .. Len(s) /\ 1 \in 1 .. Len(s) /\ 1 < i + 1 /\ s[i + 1].op = "recon"
    BY <2>1, <2>3
  <2>5. s[1].op # "close"
    BY <2>4 DEF Shaped, ConnOrder
  <2>6. QED  BY <2>2, <2>5
<1>2. QED  BY <1>1, ShiftedShaped

(* The first of the instructions, and the ones that follow an ending.       *)
LEMMA ShapedFront ==
    ASSUME NEW s \in Seq(Instr), s # <<>>, Shaped(s)
    PROVE  /\ Has(s, Conn) => s[1].op \in Conn \cup Stopping \cup {"query", "exit"}
           /\ s[1].op = "query" => Len(s) = 1 /\ ~Has(s, Conn)
           /\ s[1].op = "close" => ~Has(s, Stopping \cup {"recon"})
           /\ s[1].op \in Recovery => ~Has(s, Stopping \cup {"recon", "close"})
<1>1. Len(s) \in Nat \ {0} /\ 1 \in 1 .. Len(s)
  BY Lengths
<1>2. Has(s, Conn) => s[1].op \in Conn \cup Stopping \cup {"query", "exit"}
  BY <1>1 DEF Shaped, OnlyConn
<1>3. ASSUME s[1].op = "query" PROVE Len(s) = 1 /\ ~Has(s, Conn)
  <2>1. Len(s) = 1
    <3> SUFFICES ASSUME Len(s) # 1 PROVE FALSE
      OBVIOUS
    <3>a. PICK n \in Nat \ {0} : n = Len(s)
      BY <1>1
    <3>1. 2 \in 1 .. Len(s) /\ 1 < 2
      BY <3>a
    <3>2. QED  BY <1>1, <1>3, <3>1 DEF Shaped, ConnOrder
  <2>2. \A i \in 1 .. Len(s) : s[i].op = "query"
    BY <1>3, <2>1
  <2>3. QED  BY <2>1, <2>2 DEF Has, Conn
<1>4. \A i \in 2 .. Len(s) : i \in 1 .. Len(s) /\ 1 < i
  BY <1>1
<1>5. ASSUME s[1].op = "close" PROVE ~Has(s, Stopping \cup {"recon"})
  <2>1. \A i \in 2 .. Len(s) : s[i].op \in {"reopen", "forget", "query", "exit"}
    BY <1>1, <1>4, <1>5 DEF Shaped, ConnOrder
  <2>2. QED  BY <1>5, <2>1, HasFront DEF Stopping
<1>6. ASSUME s[1].op \in Recovery PROVE ~Has(s, Stopping \cup {"recon", "close"})
  <2>1. \A i \in 2 .. Len(s) : s[i].op \in {"query", "exit"}
    BY <1>1, <1>4, <1>6 DEF Shaped, ConnOrder
  <2>2. QED  BY <1>6, <2>1, HasFront DEF Stopping, Recovery
<1>7. QED  BY <1>2, <1>3, <1>5, <1>6

(* A code that begins with anything else has none of the kind.              *)
LEMMA PlainFront ==
    ASSUME NEW s \in Seq(Instr), s # <<>>, Shaped(s),
           s[1].op \notin Conn \cup Stopping \cup {"exit"}
    PROVE  ~Has(s, Conn)
BY ShapedFront

(* Of several kinds of instructions a code has one.                         *)
LEMMA HasMore ==
    ASSUME NEW s, NEW a, NEW b, a \subseteq b, Has(s, a)
    PROVE  Has(s, b)
BY DEF Has

(* A request whose code is shaped keeps all codes shaped.                   *)
LEMMA OneShaped ==
    ASSUME CodesShaped, NEW c \in Threads, NEW t, NEW w, NEW o, Moves(c, t, w, o), Shaped(t)
    PROVE  CodesShaped'
<1> SUFFICES ASSUME NEW k \in Threads PROVE Shaped(call'[k].code)
  BY DEF CodesShaped
<1>1. CASE k = c
  BY <1>1 DEF Moves
<1>2. CASE k # c
  BY <1>2 DEF Moves, CodesShaped
<1>3. QED  BY <1>1, <1>2

(* The rest of a request's code, and with another instruction in front.     *)
LEMMA RestShaped ==
    ASSUME MInv, CodesShaped, NEW c \in Threads, call[c].code # <<>>
    PROVE  Shaped(Rest(c)) /\ \A ops : Has(call[c].code, ops) <=> Op(c) \in ops \/ Has(Rest(c), ops)
<1>1. Shaped(call[c].code) /\ call[c].code \in Seq(Instr) /\ Op(c) = call[c].code[1].op
  BY CallTypes, Front DEF CodesShaped
<1>2. Shaped(Rest(c))
  BY <1>1, RestTypes, PoppedShaped
<1>3. QED  BY <1>1, <1>2, RestTypes, HasPopped

(* A list, or a cancellation, is replaced by what is left of it.            *)
LEMMA CancelsShaped ==
    ASSUME NEW s \in Seq(Instr), s # <<>>, Shaped(s), s[1].op \in Stopping,
           NEW t \in Seq(Instr), Len(t) = Len(s), t[1].op = "cancels",
           \A i \in 2 .. Len(t) : t[i] = s[i]
    PROVE  /\ Shaped(t)
           /\ \A ops : ops \cap Stopping = {} => (Has(t, ops) <=> Has(s, ops))
<1>1. Len(s) \in Nat \ {0} /\ \A i \in 1 .. Len(t) : i # 1 => t[i] = s[i]
  BY Lengths
<1>2. t # <<>>
  BY <1>1, Lengths
<1>3. ASSUME NEW ops, ops \cap Stopping = {} PROVE Has(t, ops) <=> Has(s, ops)
  <2>1. s[1].op \notin ops /\ t[1].op \notin ops
    BY <1>3 DEF Stopping
  <2>2. (\E i \in 2 .. Len(t) : t[i].op \in ops) <=> (\E i \in 2 .. Len(s) : s[i].op \in ops)
    OBVIOUS
  <2>3. QED  BY <1>2, <2>1, <2>2, HasFront
<1>4. (Has(t, Conn) <=> Has(s, Conn)) /\ (Has(t, {"recon"}) <=> Has(s, {"recon"}))
      /\ (Has(t, {"close"}) <=> Has(s, {"close"}))
  BY <1>3 DEF Conn, Stopping
<1>5. OnlyConn(t)
  BY <1>1, <1>4 DEF Shaped, OnlyConn, Stopping
<1>6. \A i \in 1 .. Len(t) : /\ t[i].op \in Stopping => s[i].op \in Stopping
                             /\ t[i].op \notin Stopping => s[i].op = t[i].op
  BY <1>1 DEF Stopping
<1>7. Once(t)
  <2> SUFFICES ASSUME Has(t, Conn), NEW i \in 1 .. Len(t), NEW j \in 1 .. Len(t),
                      \/ t[i].op = "recon" /\ t[j].op = "recon"
                      \/ t[i].op \in Stopping /\ t[j].op \in Stopping
               PROVE  i = j
    BY DEF Once
  <2>1. \/ s[i].op = "recon" /\ s[j].op = "recon"
        \/ s[i].op \in Stopping /\ s[j].op \in Stopping
    BY <1>6 DEF Stopping
  <2>2. QED  BY <1>4, <2>1 DEF Shaped, Once
<1>8. ConnOrder(t)
  <2> SUFFICES ASSUME NEW i \in 1 .. Len(t), NEW j \in 1 .. Len(t), i < j
               PROVE  /\ t[i].op # "query"
                      /\ t[i].op = "close" => t[j].op \in {"reopen", "forget", "query", "exit"}
                      /\ t[i].op \in Recovery => t[j].op \in {"query", "exit"}
    BY DEF ConnOrder
  <2>1. j # 1 /\ t[j] = s[j]
    BY <1>1
  <2>2. i # 1 => t[i] = s[i]
    BY <1>1
  <2>3. QED  BY <2>1, <2>2 DEF Shaped, ConnOrder, Recovery
<1>9. QED  BY <1>3, <1>4, <1>5, <1>7, <1>8 DEF Shaped, ReconCloses

(* What the starts of publish tasks put in front.                           *)
LEMMA StartsShaped ==
    ASSUME MInv, CodesShaped, NEW c \in Threads, Starts(c)
    PROVE  /\ call[c].code # <<>> /\ call[c].on = None /\ ~Has(call[c].code, Conn)
           /\ \E t \in Seq(Instr) : Moves(c, t, "ready", None) /\ ~Has(t, Conn) /\ Shaped(t)
<1>1. /\ Op(c) = "starts" /\ call[c].code # <<>>
      /\ \E d \in Devs(c), u \in Seq(Instr), t \in Seq(Instr) :
                /\ Moves(c, t, "ready", None) /\ d \in Devices
                /\ Len(t) = Len(u) + 3
                /\ t[1] = I("check", {d}) /\ t[2] = I("list", {d}) /\ t[3] = I("create", {d})
                /\ \A i \in 1 .. Len(u) : t[i + 3] = u[i]
                /\ \/ u = Rest(c)
                   \/ /\ Len(u) = Len(call[c].code) /\ u[1] = I("starts", Devs(c) \ {d})
                      /\ \A i \in 2 .. Len(u) : u[i] = call[c].code[i]
  BY StartsMoves
<1>2. PICK d \in Devs(c), u \in Seq(Instr), t \in Seq(Instr) :
                /\ Moves(c, t, "ready", None) /\ d \in Devices
                /\ Len(t) = Len(u) + 3
                /\ t[1] = I("check", {d}) /\ t[2] = I("list", {d}) /\ t[3] = I("create", {d})
                /\ \A i \in 1 .. Len(u) : t[i + 3] = u[i]
                /\ \/ u = Rest(c)
                   \/ /\ Len(u) = Len(call[c].code) /\ u[1] = I("starts", Devs(c) \ {d})
                      /\ \A i \in 2 .. Len(u) : u[i] = call[c].code[i]
  BY <1>1
<1>3. PICK s \in Seq(Instr) : s = call[c].code
  BY CallTypes
<1>4. Shaped(s) /\ s # <<>> /\ s[1].op = "starts"
  BY <1>1, <1>3, Front DEF CodesShaped
<1>5. ~Has(s, Conn)
  BY <1>4, PlainFront DEF Conn, Stopping
<1>6. ~Has(u, Conn) /\ \A i, j \in 1 .. Len(u) : i < j => u[i].op # "query"
  <2>1. CASE u = Rest(c)
    BY <1>1, <1>3, <1>5, <2>1, RestShaped DEF Shaped, ConnOrder
  <2>2. CASE /\ Len(u) = Len(s) /\ u[1] = I("starts", Devs(c) \ {d})
             /\ \A i \in 2 .. Len(u) : u[i] = s[i]
    <3>1. Len(s) \in Nat \ {0} /\ \A i \in 1 .. Len(u) : i # 1 => i \in 2 .. Len(u)
      BY <1>4, <2>2, Lengths
    <3>2. \A i \in 1 .. Len(u) : u[i].op = s[i].op
      BY <1>4, <2>2, <3>1 DEF I
    <3>3. QED  BY <1>4, <1>5, <2>2, <3>2 DEF Has, Shaped, ConnOrder
  <2>3. QED  BY <1>2, <1>3, <2>1, <2>2
<1>7. Len(u) \in Nat /\ Len(t) \in Nat
  BY Lengths
<1>8. /\ t[1].op = "check" /\ t[2].op = "list" /\ t[3].op = "create"
      /\ \A i \in 1 .. Len(t) : i > 3 => i - 3 \in 1 .. Len(u) /\ t[i] = u[i - 3]
  <2>1. t[1].op = "check" /\ t[2].op = "list" /\ t[3].op = "create"
    BY <1>2 DEF I
  <2>2. ASSUME NEW i \in 1 .. Len(t), i > 3 PROVE i - 3 \in 1 .. Len(u) /\ t[i] = u[i - 3]
    <3>1. i - 3 \in 1 .. Len(u) /\ (i - 3) + 3 = i
      BY <1>2, <1>7, <2>2
    <3>2. t[(i - 3) + 3] = u[i - 3]
      BY <1>2, <3>1
    <3>3. QED  BY <3>1, <3>2
  <2>3. QED  BY <2>1, <2>2
<1>9. \A i \in 1 .. Len(t) : i = 1 \/ i = 2 \/ i = 3 \/ i > 3
  BY <1>7
<1>10. ~Has(t, Conn)
  <2>1. \A i \in 1 .. Len(u) : u[i].op \notin Conn
    BY <1>6 DEF Has
  <2>2. \A i \in 1 .. Len(t) : t[i].op \notin Conn
    BY <1>8, <1>9, <2>1 DEF Conn
  <2>3. QED  BY <2>2 DEF Has
<1>11. \A i, j \in 1 .. Len(t) : i < j => t[i].op # "query"
  <2> SUFFICES ASSUME NEW i \in 1 .. Len(t), NEW j \in 1 .. Len(t), i < j PROVE t[i].op # "query"
    OBVIOUS
  <2>1. CASE i > 3
    <3>1. j > 3 /\ i - 3 < j - 3
      BY <2>1
    <3>2. QED  BY <1>6, <1>8, <2>1, <3>1
  <2>2. QED  BY <1>8, <1>9, <2>1
<1>12. call[c].on = None
  BY StartsMoves
<1>13. QED  BY <1>1, <1>2, <1>3, <1>5, <1>10, <1>11, <1>12, PlainShaped

(* The same of the configs a statement finds, ...                           *)
LEMMA DatabaseShaped ==
    ASSUME MInv, CodesShaped, NEW c \in Threads, Database(c)
    PROVE  /\ call[c].code # <<>> /\ call[c].on = None /\ ~Has(call[c].code, Conn)
           /\ \E t \in Seq(Instr) : Moves(c, t, "ready", None) /\ ~Has(t, Conn) /\ Shaped(t)
<1>1. Op(c) \in DbOps /\ call[c].code # <<>> /\ call[c].on = None
  BY DatabaseMoves
<1>2. PICK s \in Seq(Instr) : s = call[c].code
  BY CallTypes
<1>3. Shaped(s) /\ s # <<>> /\ s[1].op \in DbOps
  BY <1>1, <1>2, Front DEF CodesShaped
<1>4. ~Has(s, Conn)
  BY <1>3, ShapedFront, PlainFront DEF DbOps, Conn, Stopping
<1>5. CASE Moves(c, Rest(c), "ready", None)
  <2>1. ~Has(Rest(c), Conn) /\ Shaped(Rest(c)) /\ Rest(c) \in Seq(Instr)
    BY <1>1, <1>2, <1>4, RestShaped, RestTypes
  <2>2. QED  BY <1>1, <1>2, <1>4, <1>5, <2>1
<1>6. CASE \E t \in Seq(Instr) :
             /\ Moves(c, t, "ready", None)
             /\ Len(t) = Len(call[c].code) /\ t[1] = I("starts", Found(c))
             /\ \A i \in 2 .. Len(t) : t[i] = call[c].code[i]
  <2>1. PICK t \in Seq(Instr) :
             /\ Moves(c, t, "ready", None)
             /\ Len(t) = Len(s) /\ t[1] = I("starts", Found(c))
             /\ \A i \in 2 .. Len(t) : t[i] = s[i]
    BY <1>2, <1>6
  <2>2. t[1].op = "starts"
    BY <2>1 DEF I
  <2>3. ~Has(t, Conn)
    BY <1>3, <1>4, <2>1, <2>2, HasReplaced DEF Conn
  <2>4. \A i, j \in 1 .. Len(t) : i < j => t[i].op # "query"
    <3> SUFFICES ASSUME NEW i \in 1 .. Len(t), NEW j \in 1 .. Len(t), i < j PROVE t[i].op # "query"
      OBVIOUS
    <3>1. CASE i = 1
      BY <2>2, <3>1
    <3>2. CASE i # 1
      BY <1>3, <2>1, <3>2, Lengths DEF Shaped, ConnOrder
    <3>3. QED  BY <3>1, <3>2
  <2>5. QED  BY <1>1, <1>2, <1>4, <2>1, <2>3, <2>4, PlainShaped
<1>7. QED  BY <1>5, <1>6, DatabaseMoves

(* ... of a check that passes, skips a config or reverts its flag ...       *)
LEMMA CheckShaped ==
    ASSUME MInv, CodesShaped, NEW c \in Threads, Check(c)
    PROVE  /\ call[c].code # <<>> /\ call[c].on = None /\ ~Has(call[c].code, Conn)
           /\ \E t \in Seq(Instr) : Moves(c, t, "ready", None) /\ ~Has(t, Conn) /\ Shaped(t)
<1>1. Op(c) \in {"check", "try"} /\ call[c].code # <<>> /\ call[c].on = None
  BY CheckMoves
<1>2. PICK s \in Seq(Instr) : s = call[c].code
  BY CallTypes
<1>3. Shaped(s) /\ s # <<>> /\ s[1].op \in {"check", "try"}
  BY <1>1, <1>2, Front DEF CodesShaped
<1>4. ~Has(s, Conn)
  BY <1>3, PlainFront DEF Conn, Stopping
<1>5. CASE Moves(c, Rest(c), "ready", None)
  <2>1. ~Has(Rest(c), Conn) /\ Shaped(Rest(c)) /\ Rest(c) \in Seq(Instr)
    BY <1>1, <1>2, <1>4, RestShaped, RestTypes
  <2>2. QED  BY <1>1, <1>2, <1>4, <1>5, <2>1
<1>6. CASE \E t \in Seq(Instr) :
             /\ Moves(c, t, "ready", None) /\ Len(t) = Len(call[c].code) - 3
             /\ \A i \in 1 .. Len(t) : t[i] = call[c].code[i + 3]
  <2>1. PICK t \in Seq(Instr) :
             /\ Moves(c, t, "ready", None) /\ Len(t) = Len(s) - 3
             /\ \A i \in 1 .. Len(t) : t[i] = s[i + 3]
    BY <1>2, <1>6
  <2>2. ~Has(t, Conn)
    BY <1>4, <2>1, HasShifted
  <2>3. ~Has(t, {"recon"})
    BY <2>2, HasMore DEF Conn
  <2>4. Shaped(t)
    BY <1>3, <2>1, <2>3, ShiftedShaped
  <2>5. QED  BY <1>1, <1>2, <1>4, <2>1, <2>2, <2>4
<1>7. CASE Moves(c, <<I("disable", Devs(c))>>, "ready", None)
  <2>1. PICK t : t = <<I("disable", Devs(c))>>
    OBVIOUS
  <2>2. I("disable", Devs(c)) \in Instr
    BY <1>1, Front DEF I, Instr, Ops
  <2>3. t \in Seq(Instr) /\ Len(t) = 1 /\ t[1].op = "disable"
    BY <2>1, <2>2 DEF I
  <2>4. ~Has(t, Conn) /\ \A i, j \in 1 .. Len(t) : ~(i < j)
    BY <2>3 DEF Has, Conn
  <2>5. QED  BY <1>1, <1>2, <1>4, <1>7, <2>1, <2>3, <2>4, PlainShaped
<1>8. QED  BY <1>5, <1>6, <1>7, CheckMoves

(* ... and of any instruction that has nothing to do with the connection.   *)
LEMMA PlainMoves ==
    ASSUME MInv, CodesShaped, NEW c \in Threads,
           Execute(c) \/ Database(c) \/ Starts(c) \/ Check(c) \/ Create(c)
    PROVE  /\ call[c].code # <<>> /\ call[c].on = None /\ ~Has(call[c].code, Conn)
           /\ \E t \in Seq(Instr), w \in {"ready", "db"} :
                 Moves(c, t, w, None) /\ ~Has(t, Conn) /\ Shaped(t)
<1>1. CASE Execute(c)
  <2>1. /\ Op(c) \in DbOps /\ call[c].code # <<>> /\ call[c].on = None
        /\ Moves(c, call[c].code, "db", None)
    BY <1>1, ExecuteMoves, Holder DEF Execute, DbOps
  <2>2. PICK s \in Seq(Instr) : s = call[c].code
    BY CallTypes
  <2>3. Shaped(s) /\ s # <<>> /\ s[1].op \in DbOps
    BY <2>1, <2>2, Front DEF CodesShaped
  <2>4. ~Has(s, Conn)
    BY <2>3, ShapedFront, PlainFront DEF DbOps, Conn, Stopping
  <2>5. QED  BY <2>1, <2>2, <2>3, <2>4
<1>2. CASE Create(c)
  <2>1. /\ Op(c) = "create" /\ call[c].code # <<>> /\ call[c].on = None
        /\ Moves(c, Rest(c), "ready", None)
    BY <1>2, CreateMoves
  <2>2. PICK s \in Seq(Instr) : s = call[c].code
    BY CallTypes
  <2>3. Shaped(s) /\ s # <<>> /\ s[1].op = "create"
    BY <2>1, <2>2, Front DEF CodesShaped
  <2>4. ~Has(s, Conn)
    BY <2>3, PlainFront DEF Conn, Stopping
  <2>5. ~Has(Rest(c), Conn) /\ Shaped(Rest(c)) /\ Rest(c) \in Seq(Instr)
    BY <2>1, <2>2, <2>4, RestShaped, RestTypes
  <2>6. QED  BY <2>1, <2>2, <2>4, <2>5
<1>3. CASE Database(c)
  BY <1>3, DatabaseShaped
<1>4. CASE Starts(c)
  BY <1>4, StartsShaped
<1>5. CASE Check(c)
  BY <1>5, CheckShaped
<1>6. QED  BY <1>1, <1>2, <1>3, <1>4, <1>5

(* The keys of the publish tasks are listed, and cancelled one by one.      *)
LEMMA StoppingShaped ==
    ASSUME MInv, CodesShaped, NEW c \in Threads, call[c].code # <<>>, Op(c) \in Stopping,
           NEW t \in Seq(Instr), Len(t) = Len(call[c].code), NEW S, t[1] = I("cancels", S),
           \A i \in 2 .. Len(t) : t[i] = call[c].code[i]
    PROVE  /\ Shaped(t)
           /\ \A ops : ops \cap Stopping = {} => (Has(t, ops) <=> Has(call[c].code, ops))
<1>1. call[c].code \in Seq(Instr) /\ Shaped(call[c].code) /\ call[c].code[1].op \in Stopping
  BY CallTypes, Front DEF CodesShaped
<1>2. t[1].op = "cancels"
  BY DEF I
<1>3. QED  BY <1>1, <1>2, CancelsShaped

(* Every step of a request keeps the codes shaped.                          *)
LEMMA CallStepShaped ==
    ASSUME MInv, CodesShaped, NEW c \in Threads, CallStep(c)
    PROVE  CodesShaped'
<1>1. Shaped(call[c].code) /\ (call[c].code # <<>> => Shaped(Rest(c)))
  BY RestShaped DEF CodesShaped
<1>2. CASE Resume(c)
  BY <1>1, <1>2, ResumeMoves, OneShaped
<1>3. CASE CancelReconnect(c)
  BY <1>1, <1>3, CancelReconnectMoves, OneShaped
<1>4. CASE ListTasks(c)
  <2>1. PICK t \in Seq(Instr) :
           /\ Moves(c, t, "ready", None) /\ Len(t) = Len(call[c].code)
           /\ t[1] = I("cancels", {d \in Devs(c) : pub[d] # None})
           /\ \A i \in 2 .. Len(t) : t[i] = call[c].code[i]
    BY <1>4, ListMoves
  <2>2. call[c].code # <<>> /\ Op(c) \in Stopping
    BY <1>4, ListMoves DEF Stopping
  <2>3. Shaped(t)
    BY <2>1, <2>2, StoppingShaped
  <2>4. QED  BY <2>1, <2>3, OneShaped
<1>5. CASE CancelPublish(c)
  <2>1. call[c].code # <<>> /\ Op(c) \in Stopping
    BY <1>5, CancelMoves DEF Stopping
  <2>2. CASE Moves(c, Rest(c), "ready", None)
    BY <1>1, <2>1, <2>2, OneShaped
  <2>3. ASSUME NEW d \in Devs(c), NEW t \in Seq(Instr), NEW w, NEW o, Moves(c, t, w, o),
               Len(t) = Len(call[c].code), t[1] = I("cancels", Devs(c) \ {d}),
               \A i \in 2 .. Len(t) : t[i] = call[c].code[i]
        PROVE  CodesShaped'
    <3>1. Shaped(t)
      BY <2>1, <2>3, StoppingShaped
    <3>2. QED  BY <2>3, <3>1, OneShaped
  <2>4. QED  BY <1>5, <2>2, <2>3, CancelMoves
<1>6. CASE Close(c)
  BY <1>1, <1>6, CloseMoves, OneShaped
<1>7. CASE Forget(c)
  BY <1>1, <1>7, ForgetMoves, OneShaped
<1>8. CASE Open(c)
  BY <1>1, <1>8, OpenMoves, OneShaped
<1>9. CASE Opened(c)
  <2>1. ~Has(<<>>, Conn) /\ \A i, j \in 1 .. Len(<<>>) : ~(i < j)
    BY DEF Has
  <2>2. Shaped(<<>>)
    BY <2>1, PlainShaped
  <2>3. QED  BY <1>1, <1>9, <2>2, OpenedMoves, OneShaped
<1>10. CASE Execute(c) \/ Database(c) \/ Starts(c) \/ Check(c) \/ Create(c)
  BY <1>10, PlainMoves, OneShaped
<1>11. QED
  BY <1>2, <1>3, <1>4, <1>5, <1>6, <1>7, <1>8, <1>9, <1>10 DEF CallStep

-----------------------------------------------------------------------------
(* The steps of a request.  While requests do not overlap it is the only    *)
(* one, and all there is to know is where in its code it stands.            *)
LEMMA OnlyPhase ==
    ASSUME MInv, AInv, LInv, ~overlap, NEW c \in Threads, Busy(c)
    PROVE  /\ \A k \in Threads \ {c} : ~Busy(k)
           /\ Phase(c) /\ OneRetry /\ ~leaked /\ Shaped(call[c].code)
           /\ ~row => /\ ~Has(call[c].code, {"open", "reopen"})
                      /\ \/ Has(call[c].code, {"forget"})
                         \/ /\ client = "none" /\ \A r \in Recs : ~LiveRec(r)
                            /\ \A p \in Pubs : ~Sends(p)
<1>1. \A k \in Threads \ {c} : ~Busy(k)
  BY OnlyRequest
<1>2. \A k \in Threads \ {c} : Len(call[k].code) = 0
  BY <1>1, OthersIdle
<1>3. \A k \in Threads \ {c} : ~Has(call[k].code, {"forget"})
  BY <1>2 DEF Has
<1>4. QED  BY <1>1, <1>3 DEF LInv, Linked, CodesShaped, Unconfigured

(* What it has to keep.                                                     *)
LEMMA LinkedKept ==
    ASSUME MInv, NEW c \in Threads, \A k \in Threads \ {c} : ~Busy(k),
           NEW t, NEW w, NEW o, Moves(c, t, w, o),
           Has(t, Conn) /\ ~Has(t, {"recon"}) => \A r \in Recs : rtask'[r].pc # "free" => o = r,
           Has(t, Recovery) /\ ~Has(t, Stopping) => \A p \in Pubs : ~Sends(p)',
           Has(t, Recovery) /\ Begins(t, {"cancels"}) =>
               \A p \in Pubs : Sends(p)' => (Single => loop' = c) /\ ptask'[p].dev \in t[1].devs,
           Has(t, Recovery) /\ Has(t, {"list"}) /\ ~Has(t, {"recon"}) => loop' = c \/ o \in Recs,
           Has(t, Recovery) /\ ~Has(t, {"close"}) => client' = "none",
           o \in Recs => /\ broker' # "up" /\ (Single => ~Sending')
                         /\ rtask'[o].pc # "free" => rtask'[o].cancelled
                         /\ Has(t, Recovery) /\ ~Has(t, {"recon"}),
           w = "net" => broker' # "up",
           ~row' => /\ ~Has(t, {"open", "reopen"})
                    /\ \/ Has(t, {"forget"})
                       \/ /\ client' = "none" /\ \A r \in Recs : rtask'[r].pc = "free"
                          /\ \A p \in Pubs : ~Sends(p)',
           OneRetry', ~leaked'
    PROVE  Linked'
<1>1. /\ call'[c].code = t /\ call'[c].wait = w /\ call'[c].on = o
      /\ \A k \in Threads \ {c} : call'[k] = call[k]
  BY DEF Moves
<1>2. Phase(c)'
  <2>1. RetryGone(c)'
    BY <1>1 DEF RetryGone, LiveRec
  <2>2. SendersGone(c)'
    BY <1>1 DEF SendersGone
  <2>3. ClientGone(c)' /\ Connecting(c)'
    BY <1>1 DEF ClientGone, Connecting
  <2>4. AwaitsRetry(c)'
    BY <1>1 DEF AwaitsRetry, LiveRec
  <2>5. QED  BY <2>1, <2>2, <2>3, <2>4 DEF Phase
<1>3. ASSUME NEW k \in Threads \ {c}
      PROVE  /\ call'[k].code = <<>> /\ call'[k].on = None /\ call'[k].wait = "ready"
             /\ \A ops : ~Has(call'[k].code, ops)
  <2>1. call[k].code = <<>> /\ call[k].on = None /\ call[k].wait = "ready" /\ Len(call[k].code) = 0
    BY OthersIdle DEF Busy
  <2>2. \A ops : ~Has(call[k].code, ops)
    BY <2>1 DEF Has
  <2>3. QED  BY <1>1, <2>1, <2>2
<1>4. ASSUME NEW k \in Threads \ {c} PROVE Phase(k)'
  <2>1. None \notin Recs
    BY MqttAssumption
  <2>2. QED
    BY <1>3, <2>1 DEF Phase, RetryGone, SendersGone, ClientGone, AwaitsRetry, Connecting
<1>5. Unconfigured'
  <2>1. \A k \in Threads \ {c} : ~Has(call'[k].code, {"open", "reopen"})
    BY <1>3
  <2>2. QED  BY <1>1, <2>1 DEF Unconfigured, LiveRec
<1>6. QED  BY <1>2, <1>4, <1>5 DEF Linked

(* What has no connection in its code has nothing of the kind.              *)
LEMMA NoConn ==
    ASSUME NEW s, ~Has(s, Conn)
    PROVE  ~Has(s, Recovery) /\ ~Has(s, {"open", "reopen"}) /\ ~Has(s, {"forget"})
BY HasMore DEF Conn, Recovery

(* A request that has nothing to do with the connection.                    *)
LEMMA PlainLinked ==
    ASSUME MInv, AInv, LInv, ~overlap, NEW c \in Threads, Busy(c), ~Has(call[c].code, Conn),
           NEW t, NEW w \in {"ready", "db"}, Moves(c, t, w, None), ~Has(t, Conn),
           UNCHANGED <<row, connection, recons>>,
           \A p \in Pubs : Sends(p)' => Sends(p) \/ row, Sending' => Sending
    PROVE  Linked'
<1>1. None \notin Recs
  BY MqttAssumption
<1>2. /\ \A k \in Threads \ {c} : ~Busy(k)
      /\ OneRetry /\ ~leaked
      /\ ~row => /\ client = "none" /\ \A r \in Recs : ~LiveRec(r)
                 /\ \A p \in Pubs : ~Sends(p)
  BY OnlyPhase, NoConn
<1>3. OneRetry' /\ ~leaked'
  BY <1>2 DEF OneRetry, LiveRec, connection, recons
<1>4. ~row' => /\ client' = "none" /\ \A r \in Recs : rtask'[r].pc = "free"
               /\ \A p \in Pubs : ~Sends(p)'
  BY <1>2 DEF LiveRec, connection, recons
<1>5. QED  BY <1>1, <1>2, <1>3, <1>4, NoConn, LinkedKept

(* The instructions of such a request.                                      *)
LEMMA PlainStepLinked ==
    ASSUME MInv, AInv, LInv, ~overlap, NEW c \in Threads,
           Execute(c) \/ Database(c) \/ Starts(c) \/ Check(c) \/ Create(c)
    PROVE  Linked'
<1>1. /\ Busy(c) /\ ~Has(call[c].code, Conn)
      /\ \E t \in Seq(Instr), w \in {"ready", "db"} :
            Moves(c, t, w, None) /\ ~Has(t, Conn) /\ Shaped(t)
  BY PlainMoves DEF LInv, Busy
<1>2. CASE Execute(c) \/ Database(c) \/ Starts(c) \/ Check(c)
  <2>1. UNCHANGED <<row, connection, recons, ptask>>
    BY <1>2, ExecuteMoves, DatabaseMoves, StartsMoves, CheckMoves DEF db, publishers
  <2>2. (\A p \in Pubs : Sends(p)' => Sends(p)) /\ (Sending' => Sending)
    BY <2>1 DEF Sends, LivePub, Sending
  <2>3. QED  BY <1>1, <2>1, <2>2, PlainLinked
<1>3. CASE Create(c)
  <2>1. UNCHANGED <<row, connection, recons>>
    BY <1>3, CreateMoves DEF db
  <2>2. PICK d \in Devices, x \in SparePubs :
           /\ Devs(c) = {d}
           /\ ptask' = [ptask EXCEPT ![x] = [pc |-> "new", dev |-> d, conn |-> "none",
                                              cancelled |-> FALSE]]
    BY <1>3, CreateMoves
  <2>3. ptask \in [Pubs -> PubRecord] /\ x \in Pubs
    BY TypeParts DEF MInv, OtherTypes, SparePubs
  <2>4. \A p \in Pubs : IF p = x THEN ptask'[p].pc = "new" ELSE ptask'[p] = ptask[p]
    BY <2>2, <2>3
  <2>5. row
    <3>1. Op(c) = "create" /\ call[c].code # <<>> /\ call[c].code \in Seq(Instr)
      BY <1>3, CreateMoves, CallTypes
    <3>2. call[c].code[1].op = "create" /\ call[c].code[1].devs = {d} /\ 1 \in 1 .. Len(call[c].code)
      BY <2>2, <3>1, Front, Lengths
    <3>3. Ready(call[c].code)
      BY <1>1, OnlyRequest
    <3>4. config[d] = "on"
      BY <3>2, <3>3 DEF Ready, StartsEnabled, Begins
    <3>5. QED  BY <3>4 DEF LInv, Unused
  <2>6. Sending' => Sending
    BY <2>4 DEF Sending, Sends, LivePub
  <2>7. QED  BY <1>1, <2>1, <2>5, <2>6, PlainLinked
<1>4. QED  BY <1>2, <1>3

(* Cancellations come first in a code.                                      *)
LEMMA CancelsFirst ==
    ASSUME MInv, NEW c \in Threads, call[c].code # <<>>
    PROVE  ~Begins(Rest(c), {"cancels"})
<1> SUFFICES ASSUME Begins(Rest(c), {"cancels"}) PROVE FALSE
  OBVIOUS
<1>1. /\ Rest(c) \in Seq(Instr) /\ Rest(c) # <<>> /\ Rest(c)[1].op = "cancels"
      /\ Len(Rest(c)) = Len(call[c].code) - 1 /\ Len(call[c].code) \in Nat
      /\ \A i \in 1 .. Len(Rest(c)) : Rest(c)[i] = call[c].code[i + 1]
  BY RestTypes DEF Begins
<1>2. Len(Rest(c)) \in Nat /\ Len(Rest(c)) > 0
  BY <1>1, Lengths
<1>3. 1 \in 1 .. Len(Rest(c)) /\ 2 \in 1 .. Len(call[c].code) /\ 1 + 1 = 2
  BY <1>1, <1>2
<1>4. call[c].code[2].op = "cancels"
  BY <1>1, <1>3
<1>5. First(call[c].code, 2)
  BY <1>3, CallTypes DEF Formed, Fits
<1>6. QED  BY <1>4, <1>5 DEF First

(* Who closes the client or cancels the retry is to connect or to forget.   *)
LEMMA ClosesThenEnds ==
    ASSUME MInv, CodesShaped, NEW c \in Threads, Has(call[c].code, Conn)
    PROVE  Has(call[c].code, Recovery)
<1>1. PICK i \in 1 .. Len(call[c].code) : call[c].code[i].op \in Conn
  BY DEF Has
<1>2. Len(call[c].code) \in Nat
  BY CallTypes, Lengths
<1>3. CASE call[c].code[i].op \in Recovery
  BY <1>3 DEF Has
<1>4. CASE call[c].code[i].op \in {"recon", "close"}
  <2>1. CloseThenRecover(call[c].code, i)
    BY CallTypes DEF Formed, Fits
  <2>2. PICK j \in i + 1 .. Len(call[c].code) : call[c].code[j].op \in {"reopen", "forget"}
    BY <1>4, <2>1 DEF CloseThenRecover
  <2>3. j \in 1 .. Len(call[c].code) /\ call[c].code[j].op \in Recovery
    BY <1>2, <2>2 DEF Recovery
  <2>4. QED  BY <2>3 DEF Has
<1>5. QED  BY <1>1, <1>3, <1>4 DEF Conn, Recovery

(* The pending retry is cancelled: it is the only one, and awaited.         *)
LEMMA CancelReconnectLinked ==
    ASSUME MInv, RInv, AInv, LInv, ~overlap, NEW c \in Threads, CancelReconnect(c)
    PROVE  Linked'
<1>1. /\ Op(c) = "recon" /\ call[c].code # <<>> /\ call[c].on = None /\ recon' = None /\ Busy(c)
      /\ UNCHANGED <<db, connection, publishers, hist>> /\ None \notin Recs
  BY CancelReconnectMoves, MqttAssumption DEF Busy
<1>2. /\ \A k \in Threads \ {c} : ~Busy(k)
      /\ Phase(c) /\ OneRetry /\ ~leaked /\ Shaped(call[c].code)
      /\ ~row => /\ ~Has(call[c].code, {"open", "reopen"})
                 /\ \/ Has(call[c].code, {"forget"})
                    \/ /\ client = "none" /\ \A r \in Recs : ~LiveRec(r)
                       /\ \A p \in Pubs : ~Sends(p)
  BY <1>1, OnlyPhase
<1>3. /\ ~Begins(Rest(c), {"cancels"})
      /\ \A ops : Has(call[c].code, ops) <=> Op(c) \in ops \/ Has(Rest(c), ops)
  BY <1>1, CancelsFirst, RestShaped DEF LInv
<1>4. call[c].code[1].op = "recon" /\ Len(call[c].code) \in Nat \ {0} /\ Has(call[c].code, Conn)
  BY <1>1, <1>3, Front, RestTypes DEF Conn
<1>5. ~Has(Rest(c), {"recon"})
  <2> SUFFICES ASSUME NEW i \in 1 .. Len(Rest(c)), Rest(c)[i].op = "recon" PROVE FALSE
    BY DEF Has
  <2>1. i + 1 \in 1 .. Len(call[c].code) /\ 1 \in 1 .. Len(call[c].code) /\ i + 1 # 1
        /\ call[c].code[i + 1].op = "recon"
    BY <1>1, <1>4, RestTypes
  <2>2. QED  BY <1>2, <1>4, <2>1 DEF Shaped, Once
<1>6. Has(Rest(c), {"close"}) /\ Has(Rest(c), Recovery)
  <2>1. Has(call[c].code, {"close"})
    BY <1>1, <1>2, <1>3 DEF Shaped, ReconCloses
  <2>2. Has(call[c].code, Recovery)
    BY <1>4, ClosesThenEnds DEF LInv
  <2>3. QED  BY <1>1, <1>3, <2>1, <2>2 DEF Recovery
<1>7. /\ UNCHANGED <<row, client, leaked, broker, ptask>>
      /\ \A p \in Pubs : Sends(p)' <=> Sends(p)
      /\ Sending' <=> Sending
  BY <1>1 DEF db, connection, publishers, Sends, LivePub, Sending
<1>8. Has(Rest(c), Recovery) /\ ~Has(Rest(c), Stopping) => \A p \in Pubs : ~Sends(p)'
  BY <1>1, <1>2, <1>3, <1>6, <1>7 DEF Phase, SendersGone, Stopping
<1>9. CASE /\ recon \in Recs /\ LiveRec(recon)
           /\ rtask' = [rtask EXCEPT ![recon].cancelled = TRUE]
           /\ Moves(c, Rest(c), "task", recon)
  <2>1. rtask \in [Recs -> RecRecord]
    BY TypeParts DEF MInv, OtherTypes
  <2>2. /\ rtask'[recon].cancelled /\ rtask'[recon].pc = rtask[recon].pc
        /\ \A r \in Recs \ {recon} : rtask'[r] = rtask[r]
    <3>1. PICK q : q = [rtask[recon] EXCEPT !.cancelled = TRUE]
      OBVIOUS
    <3>2. q.cancelled /\ q.pc = rtask[recon].pc /\ rtask' = [rtask EXCEPT ![recon] = q]
      BY <1>9, <2>1, <3>1 DEF RecRecord
    <3>3. QED  BY <1>9, <2>1, <3>2
  <2>3. \A r \in Recs : rtask'[r].pc # "free" => r = recon
    BY <1>2, <1>9, <2>2 DEF OneRetry, LiveRec
  <2>4. broker # "up" /\ (Single => ~Sending)
    BY <1>2, <1>9 DEF OneRetry
  <2>5. OneRetry'
    BY <1>7, <2>2, <2>3, <2>4 DEF OneRetry, LiveRec
  <2>6. ~row' => /\ ~Has(Rest(c), {"open", "reopen"}) /\ Has(Rest(c), {"forget"})
    BY <1>1, <1>2, <1>3, <1>7, <1>9
  <2>7. QED
    BY <1>2, <1>3, <1>5, <1>6, <1>7, <1>8, <1>9, <2>2, <2>3, <2>4, <2>5, <2>6, LinkedKept
<1>10. CASE /\ ~(recon # None /\ LiveRec(recon)) /\ UNCHANGED rtask
            /\ Moves(c, Rest(c), "ready", None) /\ (Rest(c) # <<>> => loop' = c)
  <2>1. \A r \in Recs : ~LiveRec(r)
    <3> SUFFICES ASSUME NEW r \in Recs, LiveRec(r) PROVE FALSE
      OBVIOUS
    <3>1. rtask[r].cancelled
      BY <1>1, <1>2, <1>10 DEF OneRetry
    <3>2. PICK k \in Threads : call[k].on = r
      BY <3>1 DEF RInv, RetryAwaited
    <3>3. k # c => call[k].on = None
      BY <1>2, OthersIdle
    <3>4. QED  BY <1>1, <3>2, <3>3
  <2>2. \A r \in Recs : rtask'[r].pc = "free"
    BY <1>10, <2>1 DEF LiveRec
  <2>3. OneRetry'
    BY <2>2 DEF OneRetry, LiveRec
  <2>4. Has(Rest(c), {"list"}) => loop' = c
    <3>1. <<>> \in Seq(Instr) /\ Len(<<>>) = 0
      OBVIOUS
    <3>2. ~Has(<<>>, {"list"})
      BY <3>1 DEF Has
    <3>3. QED  BY <1>10, <3>2
  <2>5. ~row' => /\ ~Has(Rest(c), {"open", "reopen"})
                 /\ \/ Has(Rest(c), {"forget"})
                    \/ /\ client' = "none" /\ \A p \in Pubs : ~Sends(p)'
    BY <1>1, <1>2, <1>3, <1>7
  <2>6. QED
    BY <1>1, <1>2, <1>3, <1>6, <1>7, <1>8, <1>10, <2>2, <2>3, <2>4, <2>5, LinkedKept
<1>11. QED  BY <1>9, <1>10, CancelReconnectMoves

(* The publish tasks are listed: all of them, when it is to connect.        *)
LEMMA ListLinked ==
    ASSUME MInv, AInv, LInv, ~overlap, NEW c \in Threads, ListTasks(c)
    PROVE  Linked'
<1>1. /\ Op(c) = "list" /\ call[c].code # <<>> /\ call[c].on = None /\ Busy(c) /\ loop' = c
      /\ UNCHANGED <<db, connection, recons, publishers, hist>> /\ None \notin Recs \cup Pubs
  BY ListMoves, MqttAssumption DEF Busy
<1>2. PICK t \in Seq(Instr) :
         /\ Moves(c, t, "ready", None) /\ Len(t) = Len(call[c].code)
         /\ t[1] = I("cancels", {d \in Devs(c) : pub[d] # None})
         /\ \A i \in 2 .. Len(t) : t[i] = call[c].code[i]
  BY ListMoves
<1>3. /\ \A k \in Threads \ {c} : ~Busy(k)
      /\ Phase(c) /\ OneRetry /\ ~leaked /\ Shaped(call[c].code)
      /\ ~row => /\ ~Has(call[c].code, {"open", "reopen"})
                 /\ \/ Has(call[c].code, {"forget"})
                    \/ /\ client = "none" /\ \A r \in Recs : ~LiveRec(r)
                       /\ \A p \in Pubs : ~Sends(p)
  BY <1>1, OnlyPhase
<1>4. \A ops : ops \cap Stopping = {} => (Has(t, ops) <=> Has(call[c].code, ops))
  BY <1>1, <1>2, StoppingShaped DEF LInv, Stopping
<1>5. /\ Has(t, Conn) <=> Has(call[c].code, Conn)
      /\ Has(t, Recovery) <=> Has(call[c].code, Recovery)
      /\ Has(t, {"recon"}) <=> Has(call[c].code, {"recon"})
      /\ Has(t, {"close"}) <=> Has(call[c].code, {"close"})
      /\ Has(t, {"forget"}) <=> Has(call[c].code, {"forget"})
      /\ Has(t, {"open", "reopen"}) <=> Has(call[c].code, {"open", "reopen"})
  BY <1>4 DEF Conn, Recovery, Stopping
<1>6. /\ UNCHANGED <<row, client, leaked, broker, ptask, pub, rtask, recon>>
      /\ \A p \in Pubs : Sends(p)' <=> Sends(p)
      /\ Sending' <=> Sending
  BY <1>1 DEF db, connection, recons, publishers, Sends, LivePub, Sending
<1>7. Has(t, Stopping) /\ t[1].devs = {d \in Devs(c) : pub[d] # None}
  <2>1. t[1].op = "cancels" /\ t[1].devs = {d \in Devs(c) : pub[d] # None}
    BY <1>2 DEF I
  <2>2. 1 \in 1 .. Len(t)
    BY <1>1, <1>2, RestTypes
  <2>3. QED  BY <2>1, <2>2 DEF Has, Stopping
<1>8. ASSUME Has(t, Recovery), NEW p \in Pubs, Sends(p)' PROVE ptask'[p].dev \in t[1].devs
  <2>1. Has(call[c].code, Conn)
    BY <1>5, <1>8, HasMore DEF Conn, Recovery
  <2>2. Devs(c) = Devices
    <3>1. call[c].code[1].op = "list" /\ call[c].code[1].devs = Devs(c) /\ 1 \in 1 .. Len(call[c].code)
      BY <1>1, Front, RestTypes
    <3>2. QED  BY <1>3, <2>1, <3>1 DEF Shaped, OnlyConn
  <2>3. Sends(p) /\ LivePub(p) /\ ptask[p].dev \in Devices
    BY <1>6, <1>8 DEF Sends, MInv, PubsOfDevices
  <2>4. pub[ptask[p].dev] = p
    BY <2>3 DEF AInv, Alone, Registered, Sends
  <2>5. QED  BY <1>1, <1>6, <1>7, <2>2, <2>3, <2>4
<1>9. Has(t, Conn) /\ ~Has(t, {"recon"}) => \A r \in Recs : rtask'[r].pc # "free" => None = r
  BY <1>1, <1>3, <1>5, <1>6 DEF Phase, RetryGone, LiveRec
<1>10. Has(t, Recovery) /\ ~Has(t, {"close"}) => client' = "none"
  BY <1>3, <1>5, <1>6 DEF Phase, ClientGone
<1>11. OneRetry' /\ ~leaked'
  BY <1>3, <1>6 DEF OneRetry, LiveRec
<1>12. ~row' => /\ ~Has(t, {"open", "reopen"})
                /\ \/ Has(t, {"forget"})
                   \/ /\ client' = "none" /\ \A r \in Recs : rtask'[r].pc = "free"
                      /\ \A p \in Pubs : ~Sends(p)'
  BY <1>3, <1>5, <1>6 DEF LiveRec
<1>13. QED
  BY <1>1, <1>2, <1>3, <1>7, <1>8, <1>9, <1>10, <1>11, <1>12, LinkedKept

(* A request works through its list.  The task it awaits is then the only   *)
(* one left of it, if there is one device.                                  *)
LEMMA CancelLinked ==
    ASSUME MInv, AInv, LInv, ~overlap, NEW c \in Threads, CancelPublish(c)
    PROVE  Linked'
<1>1. /\ Op(c) = "cancels" /\ call[c].code # <<>> /\ call[c].on = None /\ Busy(c)
      /\ UNCHANGED <<db, connection, recons, hist>> /\ None \notin Recs \cup Pubs
      /\ Pubs \cap Recs = {}
  BY CancelMoves, MqttAssumption DEF Busy
<1>2. /\ \A k \in Threads \ {c} : ~Busy(k)
      /\ Phase(c) /\ OneRetry /\ ~leaked /\ Shaped(call[c].code)
      /\ ~row => /\ ~Has(call[c].code, {"open", "reopen"})
                 /\ \/ Has(call[c].code, {"forget"})
                    \/ /\ client = "none" /\ \A r \in Recs : ~LiveRec(r)
                       /\ \A p \in Pubs : ~Sends(p)
  BY <1>1, OnlyPhase
<1>3. /\ UNCHANGED <<row, client, leaked, broker, rtask, recon>>
      /\ call[c].code[1].op = "cancels" /\ call[c].code[1].devs = Devs(c)
      /\ Devs(c) \in SUBSET Devices
  BY <1>1, Front DEF db, connection, recons
<1>4. Has(call[c].code, Recovery) =>
         \A p \in Pubs : Sends(p) => ptask[p].dev \in Devs(c)
  BY <1>1, <1>2, <1>3 DEF Phase, SendersGone, Begins
<1>5. Has(call[c].code, Conn) /\ ~Has(call[c].code, {"recon"}) =>
         \A r \in Recs : rtask'[r].pc # "free" => None = r
  BY <1>1, <1>2, <1>3 DEF Phase, RetryGone, LiveRec
<1>6. Has(call[c].code, Recovery) /\ ~Has(call[c].code, {"close"}) => client' = "none"
  BY <1>2, <1>3 DEF Phase, ClientGone
<1>7. (Sending' => Sending) => OneRetry' /\ ~leaked'
  BY <1>2, <1>3 DEF OneRetry, LiveRec
<1>8. CASE Devs(c) = {} /\ UNCHANGED publishers /\ Moves(c, Rest(c), "ready", None)
           /\ (Rest(c) # <<>> => loop' = c)
  <2>1. /\ ~Begins(Rest(c), {"cancels"})
        /\ \A ops : Has(call[c].code, ops) <=> Op(c) \in ops \/ Has(Rest(c), ops)
    BY <1>1, CancelsFirst, RestShaped DEF LInv
  <2>2. /\ Has(Rest(c), Conn) <=> Has(call[c].code, Conn)
        /\ Has(Rest(c), Recovery) <=> Has(call[c].code, Recovery)
        /\ Has(Rest(c), {"recon"}) <=> Has(call[c].code, {"recon"})
        /\ Has(Rest(c), {"close"}) <=> Has(call[c].code, {"close"})
        /\ Has(Rest(c), {"forget"}) <=> Has(call[c].code, {"forget"})
        /\ Has(Rest(c), {"open", "reopen"}) <=> Has(call[c].code, {"open", "reopen"})
    BY <1>1, <2>1 DEF Conn, Recovery
  <2>3. (\A p \in Pubs : Sends(p)' <=> Sends(p)) /\ (Sending' => Sending)
    BY <1>8 DEF publishers, Sends, LivePub, Sending
  <2>4. Has(Rest(c), Recovery) => \A p \in Pubs : ~Sends(p)'
    BY <1>4, <1>8, <2>2, <2>3
  <2>5. Has(Rest(c), {"list"}) => loop' = c
    <3>1. <<>> \in Seq(Instr) /\ Len(<<>>) = 0
      OBVIOUS
    <3>2. ~Has(<<>>, {"list"})
      BY <3>1 DEF Has
    <3>3. QED  BY <1>8, <3>2
  <2>6. ~row' => /\ ~Has(Rest(c), {"open", "reopen"})
                 /\ \/ Has(Rest(c), {"forget"})
                    \/ /\ client' = "none" /\ \A r \in Recs : rtask'[r].pc = "free"
                       /\ \A p \in Pubs : ~Sends(p)'
    BY <1>2, <1>3, <2>2, <2>3 DEF LiveRec
  <2>7. QED
    BY <1>1, <1>2, <1>5, <1>6, <1>7, <1>8, <2>1, <2>2, <2>3, <2>4, <2>5, <2>6, LinkedKept
<1>9. ASSUME NEW d \in Devs(c), NEW t \in Seq(Instr), NEW w \in {"ready", "task"},
             NEW o \in Pubs \cup {None}, Moves(c, t, w, o),
             Len(t) = Len(call[c].code), t[1] = I("cancels", Devs(c) \ {d}),
             \A i \in 2 .. Len(t) : t[i] = call[c].code[i],
             \/ /\ pub[d] # None /\ LivePub(pub[d]) /\ o = pub[d]
                /\ ptask' = [ptask EXCEPT ![pub[d]].cancelled = TRUE]
             \/ /\ ~(pub[d] # None /\ LivePub(pub[d])) /\ UNCHANGED ptask
      PROVE  Linked'
  <2>1. \A ops : ops \cap Stopping = {} => (Has(t, ops) <=> Has(call[c].code, ops))
    BY <1>1, <1>9, StoppingShaped DEF LInv, Stopping
  <2>2. /\ Has(t, Conn) <=> Has(call[c].code, Conn)
        /\ Has(t, Recovery) <=> Has(call[c].code, Recovery)
        /\ Has(t, {"recon"}) <=> Has(call[c].code, {"recon"})
        /\ Has(t, {"close"}) <=> Has(call[c].code, {"close"})
        /\ Has(t, {"forget"}) <=> Has(call[c].code, {"forget"})
        /\ Has(t, {"open", "reopen"}) <=> Has(call[c].code, {"open", "reopen"})
    BY <2>1 DEF Conn, Recovery, Stopping
  <2>3. ptask \in [Pubs -> PubRecord] /\ pub \in [Devices -> Pubs \cup {None}] /\ d \in Devices
    BY <1>3, <1>9, TypeParts DEF MInv, OtherTypes
  <2>4. \A p \in Pubs : Sends(p)' => Sends(p) /\ ptask'[p] = ptask[p] /\ (LivePub(pub[d]) => p # pub[d])
    <3>1. CASE UNCHANGED ptask /\ ~(pub[d] # None /\ LivePub(pub[d]))
      <4>1. \A p \in Pubs : Sends(p)' => LivePub(p) /\ Sends(p) /\ ptask'[p] = ptask[p]
        BY <3>1 DEF Sends, LivePub
      <4>2. QED  BY <1>1, <3>1, <4>1
    <3>2. CASE pub[d] # None /\ ptask' = [ptask EXCEPT ![pub[d]].cancelled = TRUE]
      <4>1. PICK q : q = [ptask[pub[d]] EXCEPT !.cancelled = TRUE]
        OBVIOUS
      <4>2. pub[d] \in Pubs /\ q.cancelled /\ ptask' = [ptask EXCEPT ![pub[d]] = q]
        BY <2>3, <3>2, <4>1 DEF PubRecord
      <4>3. \A p \in Pubs : IF p = pub[d] THEN ptask'[p].cancelled ELSE ptask'[p] = ptask[p]
        BY <2>3, <4>2
      <4>4. QED  BY <4>3 DEF Sends, LivePub
    <3>3. QED  BY <1>9, <3>1, <3>2
  <2>5. Sending' => Sending
    BY <2>4 DEF Sending
  <2>6. ASSUME Has(t, Recovery), NEW p \in Pubs, Sends(p)'
        PROVE  ~Single /\ ptask'[p].dev \in Devs(c) \ {d}
    <3>1. Sends(p) /\ LivePub(p) /\ (LivePub(pub[d]) => p # pub[d])
      BY <2>4, <2>6 DEF Sends
    <3>2. ptask[p].dev \in Devs(c) /\ pub[ptask[p].dev] = p /\ ptask'[p] = ptask[p]
      BY <1>4, <2>2, <2>4, <2>6, <3>1 DEF AInv, Alone, Registered, Sends
    <3>3. ptask[p].dev # d
      BY <3>1, <3>2
    <3>4. QED  BY <1>3, <2>3, <3>2, <3>3 DEF Single
  <2>7. Has(t, Recovery) => ~Has(t, {"list"})
    <3> SUFFICES ASSUME Has(t, Recovery), NEW i \in 1 .. Len(t), t[i].op = "list" PROVE FALSE
      BY DEF Has
    <3>1. Len(t) \in Nat \ {0} /\ t[1].op = "cancels"
      BY <1>1, <1>9, RestTypes DEF I
    <3>2. i # 1 /\ i \in 2 .. Len(t) /\ 1 \in 1 .. Len(t)
      BY <3>1
    <3>3. call[c].code[i].op = "list"
      BY <1>9, <3>2
    <3>4. Has(call[c].code, Conn)
      BY <2>2, HasMore DEF Conn, Recovery
    <3>5. QED  BY <1>2, <1>3, <1>9, <3>2, <3>3, <3>4 DEF Shaped, Once, Stopping
  <2>8. ~row' => /\ ~Has(t, {"open", "reopen"})
                 /\ \/ Has(t, {"forget"})
                    \/ /\ client' = "none" /\ \A r \in Recs : rtask'[r].pc = "free"
                       /\ \A p \in Pubs : ~Sends(p)'
    BY <1>2, <1>3, <2>2, <2>4 DEF LiveRec
  <2>9. Has(t, Conn) /\ ~Has(t, {"recon"}) => \A r \in Recs : rtask'[r].pc # "free" => o = r
    BY <1>1, <1>5, <2>2
  <2>10. o \notin Recs /\ w # "net" /\ OneRetry' /\ ~leaked'
    BY <1>1, <1>7, <1>9, <2>5
  <2>11. /\ Has(t, Recovery) /\ ~Has(t, Stopping) => \A p \in Pubs : ~Sends(p)'
         /\ Has(t, Recovery) /\ Begins(t, {"cancels"}) =>
               \A p \in Pubs : Sends(p)' => (Single => loop' = c) /\ ptask'[p].dev \in t[1].devs
         /\ Has(t, Recovery) /\ Has(t, {"list"}) /\ ~Has(t, {"recon"}) => loop' = c \/ o \in Recs
         /\ Has(t, Recovery) /\ ~Has(t, {"close"}) => client' = "none"
    <3>1. t[1].op = "cancels" /\ t[1].devs = Devs(c) \ {d}
      BY <1>9 DEF I
    <3>2. 1 \in 1 .. Len(t)
      BY <1>1, <1>9, RestTypes
    <3>3. Has(t, Stopping)
      BY <3>1, <3>2 DEF Has, Stopping
    <3>4. QED  BY <1>6, <2>2, <2>6, <2>7, <3>1, <3>3
  <2>12. QED
    BY <1>2, <1>9, <2>8, <2>9, <2>10, <2>11, LinkedKept
<1>10. CASE ~(Devs(c) = {} /\ UNCHANGED publishers /\ Moves(c, Rest(c), "ready", None)
              /\ (Rest(c) # <<>> => loop' = c))
  <2>1. PICK d \in Devs(c), t \in Seq(Instr), w \in {"ready", "task"}, o \in Pubs \cup {None} :
           /\ Moves(c, t, w, o)
           /\ Len(t) = Len(call[c].code) /\ t[1] = I("cancels", Devs(c) \ {d})
           /\ \A i \in 2 .. Len(t) : t[i] = call[c].code[i]
           /\ d \in Devices /\ pub' = [pub EXCEPT ![d] = None]
           /\ \/ /\ pub[d] # None /\ LivePub(pub[d]) /\ o = pub[d]
                 /\ ptask' = [ptask EXCEPT ![pub[d]].cancelled = TRUE]
                 /\ UNCHANGED pconf
              \/ /\ ~(pub[d] # None /\ LivePub(pub[d])) /\ o = None
                 /\ pconf' = pconf \ {d} /\ UNCHANGED ptask
    BY <1>10, CancelMoves
  <2>2. QED  BY <1>9, <2>1
<1>11. QED  BY <1>8, <1>10

(* A request that is to close the client, to connect or to forget the       *)
(* broker: the retry and the publish tasks are gone.                        *)
LEMMA NothingLeft ==
    ASSUME MInv, AInv, LInv, ~overlap, NEW c \in Threads, call[c].code # <<>>, call[c].on = None,
           Op(c) \in {"close"} \cup Recovery
    PROVE  /\ Has(call[c].code, Recovery) /\ ~Has(call[c].code, Stopping)
           /\ ~Has(call[c].code, {"recon"}) /\ ~Has(call[c].code, {"list"})
           /\ ~Begins(call[c].code, {"cancels"})
           /\ (\A r \in Recs : ~LiveRec(r)) /\ \A p \in Pubs : ~Sends(p)
           /\ Op(c) # "close" => client = "none" /\ ~Has(Rest(c), Conn)
<1>1. Busy(c) /\ None \notin Recs
  BY MqttAssumption DEF Busy
<1>2. /\ call[c].code \in Seq(Instr) /\ Shaped(call[c].code) /\ Phase(c)
      /\ call[c].code[1].op = Op(c) /\ Len(call[c].code) \in Nat \ {0}
  BY <1>1, OnlyPhase, CallTypes, Front, RestTypes
<1>3. ~Has(call[c].code, Stopping \cup {"recon"})
  BY <1>2, ShapedFront, HasMore
<1>4. ~Has(call[c].code, Stopping) /\ ~Has(call[c].code, {"recon"}) /\ ~Has(call[c].code, {"list"})
  BY <1>3, HasMore DEF Stopping
<1>5. Has(call[c].code, Conn) /\ Has(call[c].code, Recovery)
  <2>1. Has(call[c].code, Conn)
    BY <1>2 DEF Has, Conn, Recovery
  <2>2. QED  BY <2>1, ClosesThenEnds DEF LInv
<1>6. \A r \in Recs : ~LiveRec(r)
  BY <1>1, <1>2, <1>4, <1>5 DEF Phase, RetryGone
<1>7. \A p \in Pubs : ~Sends(p)
  BY <1>2, <1>4, <1>5 DEF Phase, SendersGone
<1>8. ASSUME Op(c) # "close" PROVE client = "none" /\ ~Has(Rest(c), Conn)
  <2>1. ~Has(call[c].code, {"close"})
    BY <1>2, <1>8, ShapedFront, HasMore
  <2>2. \A i \in 1 .. Len(Rest(c)) : Rest(c)[i].op \in {"query", "exit"}
    <3> TAKE i \in 1 .. Len(Rest(c))
    <3>1. 1 \in 1 .. Len(call[c].code) /\ i + 1 \in 1 .. Len(call[c].code) /\ 1 < i + 1
          /\ Rest(c)[i] = call[c].code[i + 1]
      BY <1>2, RestTypes
    <3>2. QED  BY <1>2, <1>8, <3>1 DEF Shaped, ConnOrder
  <2>3. QED  BY <1>2, <1>5, <2>1, <2>2 DEF Phase, ClientGone, Has, Conn
<1>9. ~Begins(call[c].code, {"cancels"})
  BY <1>2 DEF Begins, Recovery
<1>10. QED  BY <1>4, <1>5, <1>6, <1>7, <1>8, <1>9

(* The client is closed, the broker forgotten, an attempt to connect begins *)
(* and ends.                                                                *)
LEMMA CloseLinked ==
    ASSUME MInv, AInv, LInv, ~overlap, NEW c \in Threads, Close(c)
    PROVE  Linked'
<1>1. /\ Op(c) = "close" /\ call[c].code # <<>> /\ call[c].on = None /\ Busy(c)
      /\ UNCHANGED <<db, net, leaked, recons, pub, pconf, hist>> /\ None \notin Recs
      /\ OtherTypes
  BY CloseMoves, TypeParts, MqttAssumption DEF Busy, MInv
<1>2. /\ \A k \in Threads \ {c} : ~Busy(k)
      /\ Phase(c) /\ OneRetry /\ ~leaked /\ Shaped(call[c].code)
      /\ ~row => /\ ~Has(call[c].code, {"open", "reopen"})
                 /\ \/ Has(call[c].code, {"forget"})
                    \/ /\ client = "none" /\ \A r \in Recs : ~LiveRec(r)
                       /\ \A p \in Pubs : ~Sends(p)
  BY <1>1, OnlyPhase
<1>3. /\ Has(call[c].code, Recovery) /\ ~Has(call[c].code, Stopping)
      /\ ~Has(call[c].code, {"recon"}) /\ ~Has(call[c].code, {"list"})
      /\ ~Begins(call[c].code, {"cancels"})
      /\ (\A r \in Recs : ~LiveRec(r)) /\ \A p \in Pubs : ~Sends(p)
  BY <1>1, NothingLeft
<1>4. UNCHANGED <<row, leaked, recon, rtask>> /\ \A r \in Recs : rtask'[r].pc = "free"
  BY <1>1, <1>3 DEF db, recons, LiveRec
<1>5. OneRetry'
  BY <1>4 DEF OneRetry, LiveRec
<1>6. /\ ~Begins(Rest(c), {"cancels"})
      /\ \A ops : Has(call[c].code, ops) <=> Op(c) \in ops \/ Has(Rest(c), ops)
  BY <1>1, CancelsFirst, RestShaped DEF LInv
<1>7. CASE CloseClient /\ Moves(c, call[c].code, "ready", None)
  <2>1. \A p \in Pubs : ~Sends(p)'
    BY <1>1, <1>3, <1>7, InFlightMoves DEF CloseClient, SamePubs, Sends, LivePub
  <2>2. client' = "none"
    BY <1>7 DEF CloseClient
  <2>3. QED
    BY <1>1, <1>2, <1>3, <1>4, <1>5, <1>7, <2>1, <2>2, LinkedKept
<1>8. CASE client = "none" /\ UNCHANGED <<client, ptask>> /\ Moves(c, Rest(c), "ready", None)
  <2>1. \A p \in Pubs : ~Sends(p)'
    BY <1>3, <1>8 DEF Sends, LivePub
  <2>2. ~row' => /\ ~Has(Rest(c), {"open", "reopen"})
                 /\ client' = "none"
    BY <1>2, <1>4, <1>6, <1>8
  <2>3. ~Has(Rest(c), {"list"}) /\ client' = "none"
    BY <1>3, <1>6, <1>8
  <2>4. QED
    BY <1>1, <1>2, <1>4, <1>5, <1>6, <1>8, <2>1, <2>2, <2>3, LinkedKept
<1>9. QED  BY <1>7, <1>8, CloseMoves

(* The broker is forgotten: nothing of it is left.                          *)
LEMMA ForgetLinked ==
    ASSUME MInv, AInv, LInv, ~overlap, NEW c \in Threads, Forget(c)
    PROVE  Linked'
<1>1. /\ Op(c) = "forget" /\ call[c].code # <<>> /\ call[c].on = None /\ Busy(c)
      /\ Moves(c, Rest(c), "ready", None)
      /\ UNCHANGED <<db, net, client, leaked, recons, publishers, hist>> /\ None \notin Recs
  BY ForgetMoves, MqttAssumption DEF Busy
<1>2. (\A k \in Threads \ {c} : ~Busy(k)) /\ ~leaked
  BY <1>1, OnlyPhase
<1>3. /\ (\A r \in Recs : ~LiveRec(r)) /\ (\A p \in Pubs : ~Sends(p))
      /\ client = "none" /\ ~Has(Rest(c), Conn)
  BY <1>1, NothingLeft DEF Recovery
<1>4. /\ UNCHANGED <<row, leaked, client>> /\ (\A r \in Recs : rtask'[r].pc = "free")
      /\ \A p \in Pubs : ~Sends(p)'
  BY <1>1, <1>3 DEF db, recons, publishers, LiveRec, Sends, LivePub
<1>5. OneRetry'
  BY <1>4 DEF OneRetry, LiveRec
<1>6. ~Has(Rest(c), Recovery) /\ ~Has(Rest(c), {"open", "reopen"})
  BY <1>3, NoConn
<1>7. QED
  BY <1>1, <1>2, <1>3, <1>4, <1>5, <1>6, LinkedKept

(* An attempt to connect begins.                                            *)
LEMMA OpenLinked ==
    ASSUME MInv, AInv, LInv, ~overlap, NEW c \in Threads, Open(c)
    PROVE  Linked'
<1>1. /\ Op(c) \in {"open", "reopen"} /\ call[c].code # <<>> /\ call[c].on = None /\ Busy(c)
      /\ broker' = "down" /\ Moves(c, call[c].code, "net", None)
      /\ UNCHANGED <<db, net, client, leaked, recons, publishers, hist>> /\ None \notin Recs
  BY OpenMoves, MqttAssumption DEF Busy
<1>2. /\ \A k \in Threads \ {c} : ~Busy(k)
      /\ ~leaked
      /\ ~row => /\ ~Has(call[c].code, {"open", "reopen"})
                 /\ \/ Has(call[c].code, {"forget"})
                    \/ /\ client = "none" /\ \A r \in Recs : ~LiveRec(r)
                       /\ \A p \in Pubs : ~Sends(p)
  BY <1>1, OnlyPhase
<1>3. /\ Has(call[c].code, Recovery) /\ ~Has(call[c].code, Stopping)
      /\ ~Has(call[c].code, {"recon"}) /\ ~Has(call[c].code, {"list"})
      /\ ~Begins(call[c].code, {"cancels"})
      /\ (\A r \in Recs : ~LiveRec(r)) /\ (\A p \in Pubs : ~Sends(p))
      /\ client = "none"
  BY <1>1, NothingLeft DEF Recovery
<1>4. /\ UNCHANGED <<row, leaked, client>> /\ (\A r \in Recs : rtask'[r].pc = "free")
      /\ \A p \in Pubs : ~Sends(p)'
  BY <1>1, <1>3 DEF db, recons, publishers, LiveRec, Sends, LivePub
<1>5. OneRetry'
  BY <1>4 DEF OneRetry, LiveRec
<1>6. QED
  BY <1>1, <1>2, <1>3, <1>4, <1>5, LinkedKept

(* It ends with a client where there was none, or with a retry where there  *)
(* was none.                                                                *)
LEMMA OpenedLinked ==
    ASSUME MInv, AInv, LInv, ~overlap, NEW c \in Threads, Opened(c)
    PROVE  Linked'
<1>1. /\ Op(c) \in {"open", "reopen"} /\ call[c].code # <<>> /\ call[c].on = None /\ Busy(c)
      /\ call[c].wait = "net"
      /\ UNCHANGED <<db, net, pub, pconf, hist>> /\ None \notin Recs /\ OtherTypes
  BY OpenedMoves, TypeParts, MqttAssumption DEF Busy, MInv
<1>2. /\ \A k \in Threads \ {c} : ~Busy(k)
      /\ Phase(c) /\ ~leaked /\ (~row => ~Has(call[c].code, {"open", "reopen"}))
  BY <1>1, OnlyPhase
<1>3. row' /\ broker # "up"
  <2>1. 1 \in 1 .. Len(call[c].code) /\ call[c].code[1].op = Op(c)
    BY <1>1, Front, RestTypes
  <2>2. Has(call[c].code, {"open", "reopen"})
    BY <1>1, <2>1 DEF Has
  <2>3. QED  BY <1>1, <1>2, <2>2 DEF Phase, Connecting, db
<1>4. /\ (\A r \in Recs : ~LiveRec(r)) /\ (\A p \in Pubs : ~Sends(p))
      /\ client = "none" /\ ~Has(Rest(c), Conn)
  BY <1>1, NothingLeft DEF Recovery
<1>5. ~Has(Rest(c), Recovery) /\ ~Has(<<>>, Conn) /\ ~Has(<<>>, Recovery)
  <2>1. <<>> \in Seq(Instr) /\ Len(<<>>) = 0
    OBVIOUS
  <2>2. QED  BY <1>4, <2>1, NoConn DEF Has
<1>6. ASSUME OneRetry', ~leaked', NEW t, Moves(c, t, "ready", None), ~Has(t, Conn), ~Has(t, Recovery)
      PROVE  Linked'
  BY <1>1, <1>2, <1>3, <1>6, LinkedKept
<1>7. CASE Connect /\ UNCHANGED recons /\ Moves(c, Rest(c), "ready", None)
  <2>1. ~leaked'
    BY <1>2, <1>4, <1>7 DEF Connect
  <2>2. OneRetry'
    BY <1>4, <1>7 DEF OneRetry, LiveRec, recons
  <2>3. QED  BY <1>4, <1>5, <1>6, <1>7, <2>1, <2>2
<1>8. CASE Schedule /\ UNCHANGED <<client, leaked, broker, ptask>>
           /\ \E t \in {Rest(c), <<>>} : Moves(c, t, "ready", None)
  <2>1. OneRetry'
    <3>1. CASE UNCHANGED recons
      BY <1>4, <3>1 DEF OneRetry, LiveRec, recons
    <3>2. CASE \E r \in SpareRecs :
                 recon' = r /\ rtask' = [rtask EXCEPT ![r] = [pc |-> "new", cancelled |-> FALSE]]
      <4>1. PICK r \in Recs : /\ recon' = r
                              /\ rtask' = [rtask EXCEPT ![r] = [pc |-> "new", cancelled |-> FALSE]]
        BY <3>2 DEF SpareRecs
      <4>2. /\ rtask'[r].pc = "new" /\ ~rtask'[r].cancelled
            /\ \A q \in Recs \ {r} : rtask'[q].pc = "free"
        BY <1>1, <1>4, <4>1 DEF OtherTypes, LiveRec
      <4>3. ~Sending'
        BY <1>4, <1>8 DEF Sending, Sends, LivePub
      <4>4. QED  BY <1>3, <1>8, <4>1, <4>2, <4>3 DEF OneRetry, LiveRec
    <3>3. QED  BY <1>1, <1>8, <3>1, <3>2, ScheduleMoves
  <2>2. PICK t \in {Rest(c), <<>>} : Moves(c, t, "ready", None)
    BY <1>8
  <2>3. ~Has(t, Conn) /\ ~Has(t, Recovery) /\ ~leaked'
    BY <1>2, <1>4, <1>5, <1>8, <2>2
  <2>4. QED  BY <1>6, <2>1, <2>2, <2>3
<1>9. QED  BY <1>7, <1>8, OpenedMoves

(* A request whose await is over: the retry it waited for is gone.          *)
LEMMA ResumeLinked ==
    ASSUME MInv, AInv, LInv, ~overlap, NEW c \in Threads, Resume(c)
    PROVE  Linked'
<1>1. /\ Busy(c) /\ Moves(c, call[c].code, "ready", None)
      /\ UNCHANGED <<db, connection, recons, pub, ptask, hist>>
      /\ None \notin Recs /\ None \notin Pubs /\ Pubs \cap Recs = {} /\ c # None
  BY ResumeMoves, CallTypes, MqttAssumption
<1>2. /\ \A k \in Threads \ {c} : ~Busy(k)
      /\ Phase(c) /\ OneRetry /\ ~leaked /\ Shaped(call[c].code)
      /\ ~row => /\ ~Has(call[c].code, {"open", "reopen"})
                 /\ \/ Has(call[c].code, {"forget"})
                    \/ /\ client = "none" /\ \A r \in Recs : ~LiveRec(r)
                       /\ \A p \in Pubs : ~Sends(p)
  BY <1>1, OnlyPhase
<1>3. /\ UNCHANGED <<row, client, leaked, broker, rtask, recon>>
      /\ \A p \in Pubs : (Sends(p)' <=> Sends(p)) /\ ptask'[p].dev = ptask[p].dev
      /\ Sending' <=> Sending
  BY <1>1 DEF db, connection, recons, Sends, LivePub, Sending
<1>4. OneRetry'
  BY <1>2, <1>3 DEF OneRetry, LiveRec
<1>5. loop # c /\ (call[c].code # <<>> => loop' = c)
  BY <1>1 DEF Resume
<1>6. Has(call[c].code, Conn) /\ ~Has(call[c].code, {"recon"}) =>
         \A r \in Recs : rtask'[r].pc # "free" => None = r
  <2> SUFFICES ASSUME Has(call[c].code, Conn), ~Has(call[c].code, {"recon"}), NEW r \in Recs, LiveRec(r)
               PROVE  FALSE
    BY <1>3 DEF LiveRec
  <2>1. call[c].on = r
    BY <1>2 DEF Phase, RetryGone
  <2>2. QED  BY <1>1, <2>1, ResumeMoves
<1>7. Has(call[c].code, {"list"}) => loop' = c
  <2>1. <<>> \in Seq(Instr) /\ Len(<<>>) = 0
    OBVIOUS
  <2>2. ~Has(<<>>, {"list"})
    BY <2>1 DEF Has
  <2>3. QED  BY <1>5, <2>2
<1>8. /\ Has(call[c].code, Recovery) /\ ~Has(call[c].code, Stopping) => \A p \in Pubs : ~Sends(p)'
      /\ Has(call[c].code, Recovery) /\ Begins(call[c].code, {"cancels"}) =>
            \A p \in Pubs : Sends(p)' => loop' = c /\ ptask'[p].dev \in call[c].code[1].devs
      /\ Has(call[c].code, Recovery) /\ ~Has(call[c].code, {"close"}) => client' = "none"
  BY <1>2, <1>3, <1>5 DEF Phase, SendersGone, ClientGone, Begins
<1>9. ~row' => /\ ~Has(call[c].code, {"open", "reopen"})
               /\ \/ Has(call[c].code, {"forget"})
                  \/ /\ client' = "none" /\ \A r \in Recs : rtask'[r].pc = "free"
                     /\ \A p \in Pubs : ~Sends(p)'
  BY <1>2, <1>3 DEF LiveRec
<1>10. QED
  BY <1>1, <1>2, <1>3, <1>4, <1>6, <1>7, <1>8, <1>9, LinkedKept

(* A request's steps leave a broker that is not configured without configs. *)
LEMMA CallStepUnused ==
    ASSUME MInv, Unused, NEW c \in Threads, CallStep(c)
    PROVE  Unused' /\ UNCHANGED <<row, overlap>>
<1>1. CASE UNCHANGED <<row, config, overlap>>
  BY <1>1 DEF Unused
<1>2. CASE Database(c)
  <2>1. UNCHANGED <<row, overlap>> /\ Op(c) \in DbOps /\ call[c].code # <<>>
    BY <1>2, DatabaseMoves DEF hist
  <2>2. config \in [Devices -> {"none", "off", "on"}]
    BY TypeParts DEF MInv, OtherTypes
  <2>3. ASSUME ~row, NEW e \in Devices PROVE config'[e] = "none"
    <3>1. \A d \in Devices : config[d] = "none"
      BY <2>3 DEF Unused
    <3>2. CASE Op(c) \in {"enable", "disable"}
      <4>1. Dev(c) \in Devices
        BY <2>1, <3>2, FrontOne DEF ForOne, DbOps
      <4>2. config' = SetConfig(Dev(c), "on") \/ config' = SetConfig(Dev(c), "off")
        BY <1>2, <3>2 DEF Database
      <4>3. QED  BY <3>1, <4>1, <4>2 DEF SetConfig
    <3>3. CASE Op(c) = "drop"
      <4>1. config' = [config EXCEPT ![Dev(c)] = "none"]
        BY <1>2, <3>3 DEF Database
      <4>2. QED  BY <2>2, <3>1, <4>1
    <3>4. CASE Op(c) \notin {"enable", "disable", "drop"}
      BY <1>2, <3>1, <3>4 DEF Database
    <3>5. QED  BY <3>2, <3>3, <3>4
  <2>4. QED  BY <2>1, <2>3 DEF Unused
<1>3. CASE Resume(c) \/ CancelReconnect(c) \/ ListTasks(c) \/ CancelPublish(c) \/ Close(c) \/ Forget(c)
  BY <1>1, <1>3, ResumeMoves, CancelReconnectMoves, ListMoves, CancelMoves, CloseMoves, ForgetMoves
     DEF db, hist
<1>4. CASE Open(c) \/ Opened(c) \/ Execute(c) \/ Starts(c) \/ Check(c) \/ Create(c)
  BY <1>1, <1>4, OpenMoves, OpenedMoves, ExecuteMoves, StartsMoves, CheckMoves, CreateMoves
     DEF db, hist
<1>5. QED  BY <1>2, <1>3, <1>4 DEF CallStep

(* What a request's step keeps.                                             *)
LEMMA CallStepLinked ==
    ASSUME MInv, RInv, AInv, LInv, NEW c \in Threads, CallStep(c)
    PROVE  LInv'
<1>1. CodesShaped' /\ Unused' /\ UNCHANGED overlap
  BY CallStepShaped, CallStepUnused DEF LInv
<1>2. ASSUME ~overlap PROVE Linked'
  BY <1>2, CancelReconnectLinked, ListLinked, CancelLinked, CloseLinked, ForgetLinked, OpenLinked,
     OpenedLinked, ResumeLinked, PlainStepLinked DEF CallStep
<1>3. QED  BY <1>1, <1>2 DEF LInv

(* The codes of the broker's requests and of the shutdown.                  *)
LEMMA BrokerShapes ==
    LET stops(t) == Has(t, {"recon"}) /\ Has(t, {"list"}) /\ Has(t, {"close"})
        ends(t) == Has(t, {"forget"}) /\ ~Has(t, {"open", "reopen"}) IN
    /\ Shaped(<<I("open", {})>>)
    /\ LET t == DropConnection \o <<I("reopen", {}), I("query", Devices)>> IN
       Shaped(t) /\ stops(t)
    /\ LET t == DropConnection \o <<I("forget", {})>> IN Shaped(t) /\ stops(t) /\ ends(t)
    /\ LET t == <<I("list", Devices), I("recon", {}), I("close", {}), I("forget", {}), I("exit", {})>> IN
       Shaped(t) /\ stops(t) /\ ends(t)
<1> DEFINE stops(t) == Has(t, {"recon"}) /\ Has(t, {"list"}) /\ Has(t, {"close"})
           ends(t) == Has(t, {"forget"}) /\ ~Has(t, {"open", "reopen"})
<1>1. PICK a, b, c, e, f, g, h, x :
         /\ a = I("recon", {}) /\ b = I("list", Devices) /\ c = I("close", {})
         /\ e = I("reopen", {}) /\ f = I("query", Devices) /\ g = I("forget", {})
         /\ h = I("open", {}) /\ x = I("exit", {})
  OBVIOUS
<1>2. /\ {a, b, c, e, f, g, h, x} \subseteq Instr
      /\ a.op = "recon" /\ b.op = "list" /\ c.op = "close" /\ e.op = "reopen" /\ f.op = "query"
      /\ g.op = "forget" /\ h.op = "open" /\ x.op = "exit" /\ b.devs = Devices
  BY <1>1 DEF I, Instr, Ops
<1>3. Shaped(<<h>>)
  <2>0. PICK t : t = <<h>>
    OBVIOUS
  <2>1. Len(t) = 1 /\ t[1] = h
    BY <2>0
  <2>2. \A i \in 1 .. Len(t) : i = 1 /\ t[i].op = "open"
    BY <1>2, <2>1
  <2>3. \A i, j \in 1 .. Len(t) : i = j /\ ~(i < j)
    BY <2>2
  <2>4. ~Has(t, {"recon"})
    BY <2>2 DEF Has
  <2>5. OnlyConn(t) /\ Once(t) /\ ConnOrder(t) /\ ReconCloses(t)
    BY <2>2, <2>3, <2>4 DEF OnlyConn, Once, ConnOrder, ReconCloses, Conn
  <2>6. QED  BY <2>0, <2>5 DEF Shaped
<1>4. /\ DropConnection \in Seq(Instr) /\ Len(DropConnection) = 3 /\ DropConnection[1] = a
      /\ DropConnection[2] = b /\ DropConnection[3] = c
  BY <1>1, <1>2 DEF DropConnection
<1>5. ASSUME NEW v \in Seq(Instr)
      PROVE  LET t == DropConnection \o v IN
             /\ Len(t) = 3 + Len(v) /\ t[1] = a /\ t[2] = b /\ t[3] = c
             /\ \A i \in 1 .. Len(v) : t[i + 3] = v[i]
  <2>1. PICK u, t : u = DropConnection /\ t = u \o v
    OBVIOUS
  <2>2. /\ Len(t) = Len(u) + Len(v) /\ Len(v) \in Nat
        /\ \A i \in 1 .. Len(u) + Len(v) : t[i] = IF i <= Len(u) THEN u[i] ELSE v[i - Len(u)]
    BY <1>4, <2>1, ConcatProperties, Lengths
  <2>3. Len(u) = 3 /\ u[1] = a /\ u[2] = b /\ u[3] = c
    BY <1>4, <2>1
  <2>4. QED  BY <2>1, <2>2, <2>3
<1>6. LET t == DropConnection \o <<e, f>> IN Shaped(t) /\ stops(t)
  <2>1. PICK v, t : v = <<e, f>> /\ t = DropConnection \o v
    OBVIOUS
  <2>2. v \in Seq(Instr) /\ Len(v) = 2 /\ v[1] = e /\ v[2] = f
    BY <1>2, <2>1
  <2>3. /\ Len(t) = 3 + Len(v) /\ t[1] = a /\ t[2] = b /\ t[3] = c
        /\ \A i \in 1 .. Len(v) : t[i + 3] = v[i]
    BY <1>5, <2>1, <2>2
  <2>4. Len(t) = 5 /\ t[4] = e /\ t[5] = f
    BY <2>2, <2>3
  <2>5. /\ \A i \in 1 .. Len(t) : i \in {1, 2, 3, 4, 5}
        /\ 1 \in 1 .. Len(t) /\ 2 \in 1 .. Len(t) /\ 3 \in 1 .. Len(t)
    BY <2>4
  <2>6. stops(t)
    BY <1>2, <2>3, <2>5 DEF Has
  <2>7. OnlyConn(t)
    BY <1>2, <2>3, <2>4, <2>5 DEF OnlyConn, Conn, Stopping
  <2>8. Once(t)
    BY <1>2, <2>3, <2>4, <2>5 DEF Once, Stopping
  <2>9. ConnOrder(t)
    BY <1>2, <2>3, <2>4, <2>5 DEF ConnOrder, Recovery
  <2>10. QED  BY <2>1, <2>6, <2>7, <2>8, <2>9 DEF Shaped, ReconCloses
<1>7. LET t == DropConnection \o <<g>> IN Shaped(t) /\ stops(t) /\ ends(t)
  <2>1. PICK v, t : v = <<g>> /\ t = DropConnection \o v
    OBVIOUS
  <2>2. v \in Seq(Instr) /\ Len(v) = 1 /\ v[1] = g
    BY <1>2, <2>1
  <2>3. /\ Len(t) = 3 + Len(v) /\ t[1] = a /\ t[2] = b /\ t[3] = c
        /\ \A i \in 1 .. Len(v) : t[i + 3] = v[i]
    BY <1>5, <2>1, <2>2
  <2>4. Len(t) = 4 /\ t[4] = g
    BY <2>2, <2>3
  <2>5. /\ \A i \in 1 .. Len(t) : i \in {1, 2, 3, 4}
        /\ 1 \in 1 .. Len(t) /\ 2 \in 1 .. Len(t) /\ 3 \in 1 .. Len(t) /\ 4 \in 1 .. Len(t)
    BY <2>4
  <2>6. stops(t) /\ ends(t)
    BY <1>2, <2>3, <2>4, <2>5 DEF Has
  <2>7. OnlyConn(t)
    BY <1>2, <2>3, <2>4, <2>5 DEF OnlyConn, Conn, Stopping
  <2>8. Once(t)
    BY <1>2, <2>3, <2>4, <2>5 DEF Once, Stopping
  <2>9. ConnOrder(t)
    BY <1>2, <2>3, <2>4, <2>5 DEF ConnOrder, Recovery
  <2>10. QED  BY <2>1, <2>6, <2>7, <2>8, <2>9 DEF Shaped, ReconCloses
<1>8. LET t == <<b, a, c, g, x>> IN Shaped(t) /\ stops(t) /\ ends(t)
  <2>1. PICK t : t = <<b, a, c, g, x>>
    OBVIOUS
  <2>4. Len(t) = 5 /\ t[1] = b /\ t[2] = a /\ t[3] = c /\ t[4] = g /\ t[5] = x
    BY <2>1
  <2>5. /\ \A i \in 1 .. Len(t) : i \in {1, 2, 3, 4, 5}
        /\ 1 \in 1 .. Len(t) /\ 2 \in 1 .. Len(t) /\ 3 \in 1 .. Len(t) /\ 4 \in 1 .. Len(t)
    BY <2>4
  <2>6. stops(t) /\ ends(t)
    BY <1>2, <2>4, <2>5 DEF Has
  <2>7. OnlyConn(t)
    BY <1>2, <2>4, <2>5 DEF OnlyConn, Conn, Stopping
  <2>8. Once(t)
    BY <1>2, <2>4, <2>5 DEF Once, Stopping
  <2>9. ConnOrder(t)
    BY <1>2, <2>4, <2>5 DEF ConnOrder, Recovery
  <2>10. QED  BY <2>1, <2>6, <2>7, <2>8, <2>9 DEF Shaped, ReconCloses
<1>9. QED  BY <1>1, <1>3, <1>6, <1>7, <1>8

(* The codes of a device's requests leave the connection alone.             *)
LEMMA DeviceShapes ==
    ASSUME NEW d \in Devices,
           NEW t \in {<<I("drop", {d}), I("list", {d})>>, <<I("disable", {d}), I("list", {d})>>,
                      <<I("configs", {d}), I("running", {d})>>,
                      <<I("list", {d}), I("stopped", {d})>>,
                      <<I("enable", {d})>> \o StartPublishing("try", d)}
    PROVE  Shaped(t) /\ ~Has(t, Conn)
<1> DEFINE P == {"drop", "list", "disable", "configs", "running", "stopped", "enable", "try", "create"}
<1>1. ASSUME NEW op \in P PROVE I(op, {d}) \in Instr /\ I(op, {d}).op = op
  BY <1>1 DEF I, Instr, Ops
<1>2. ASSUME NEW x \in P, NEW y \in P, t = <<I(x, {d}), I(y, {d})>>
      PROVE  \A i \in 1 .. Len(t) : t[i].op \in P
  <2>1. Len(t) = 2 /\ t[1] = I(x, {d}) /\ t[2] = I(y, {d})
    BY <1>2
  <2>2. \A i \in 1 .. Len(t) : i \in {1, 2}
    BY <2>1
  <2>3. t[1].op = x /\ t[2].op = y
    BY <1>1, <2>1
  <2>4. QED  BY <2>2, <2>3
<1>3. ASSUME t = <<I("enable", {d})>> \o StartPublishing("try", d)
      PROVE  \A i \in 1 .. Len(t) : t[i].op \in P
  <2>1. PICK u, v : u = <<I("enable", {d})>> /\ v = StartPublishing("try", d)
    OBVIOUS
  <2>2. /\ u \in Seq(Instr) /\ Len(u) = 1 /\ u[1] = I("enable", {d})
        /\ v \in Seq(Instr) /\ Len(v) = 3
        /\ v[1] = I("try", {d}) /\ v[2] = I("list", {d}) /\ v[3] = I("create", {d})
    <3>1. I("enable", {d}) \in Instr /\ I("try", {d}) \in Instr
          /\ I("list", {d}) \in Instr /\ I("create", {d}) \in Instr
      BY <1>1
    <3>2. QED  BY <2>1, <3>1 DEF StartPublishing
  <2>3. /\ Len(t) = Len(u) + Len(v)
        /\ \A i \in 1 .. Len(u) + Len(v) : t[i] = IF i <= Len(u) THEN u[i] ELSE v[i - Len(u)]
    BY <1>3, <2>1, <2>2, ConcatProperties
  <2>4. /\ Len(t) = 4 /\ t[1] = I("enable", {d}) /\ t[2] = I("try", {d}) /\ t[3] = I("list", {d})
        /\ t[4] = I("create", {d})
    BY <2>2, <2>3
  <2>5. \A i \in 1 .. Len(t) : i \in {1, 2, 3, 4}
    BY <2>4
  <2>6. t[1].op \in P /\ t[2].op \in P /\ t[3].op \in P /\ t[4].op \in P
    BY <1>1, <2>4
  <2>7. QED  BY <2>5, <2>6
<1>4. \A i \in 1 .. Len(t) : t[i].op \in P
  <2>1. {"drop", "list", "disable", "configs", "running", "stopped"} \subseteq P
    OBVIOUS
  <2>2. QED  BY <1>2, <1>3, <2>1
<1>5. ~Has(t, Conn) /\ \A i, j \in 1 .. Len(t) : i < j => t[i].op # "query"
  BY <1>4 DEF Has, Conn
<1>6. QED  BY <1>5, PlainShaped

(* A request begins when no other one is in progress.                       *)
LEMMA BeginLinked ==
    ASSUME MInv, LInv, NEW c \in Threads,
           ~overlap' => ~overlap /\ \A k \in Threads : ~Busy(k),
           NEW t, Moves(c, t, "ready", None), Shaped(t), ~Begins(t, {"cancels"}),
           UNCHANGED <<config, connection, recons, ptask>>,
           Has(t, Conn) => \/ ~row /\ ~Has(t, {"list"})
                           \/ Has(t, {"recon"}) /\ Has(t, {"list"}) /\ Has(t, {"close"}),
           ~row' => /\ ~Has(t, {"open", "reopen"})
                    /\ ~row \/ (Has(t, {"forget"}) /\ \A d \in Devices : config[d] = "none")
    PROVE  LInv'
<1>1. CodesShaped'
  BY OneShaped DEF LInv
<1>2. Unused'
  BY DEF LInv, Unused
<1>3. ASSUME ~overlap' PROVE Linked'
  <2>1. Linked /\ \A k \in Threads \ {c} : ~Busy(k)
    BY <1>3 DEF LInv
  <2>2. \A k \in Threads : ~Has(call[k].code, {"forget"})
    BY <1>3, OthersIdle DEF Has
  <2>3. ~row => /\ client = "none" /\ \A r \in Recs : ~LiveRec(r)
                /\ \A p \in Pubs : ~Sends(p)
    BY <2>1, <2>2 DEF Linked, Unconfigured
  <2>4. /\ client' = client /\ leaked' = leaked /\ broker' = broker /\ recon' = recon
        /\ rtask' = rtask /\ (\A p \in Pubs : Sends(p)' <=> Sends(p)) /\ (Sending' <=> Sending)
    BY DEF connection, recons, Sends, LivePub, Sending
  <2>5. OneRetry' /\ ~leaked'
    BY <2>1, <2>4 DEF Linked, OneRetry, LiveRec
  <2>6. None \notin Recs
    BY MqttAssumption
  <2>7. Has(t, Recovery) => Has(t, Conn)
    BY HasMore DEF Recovery, Conn
  <2>8. Has(t, {"list"}) => Has(t, Stopping)
    BY HasMore DEF Stopping
  <2>9. Has(t, Conn) /\ ~Has(t, {"recon"}) => \A r \in Recs : rtask'[r].pc # "free" => None = r
    BY <2>3, <2>4 DEF LiveRec
  <2>10. Has(t, Recovery) /\ ~Has(t, Stopping) => \A p \in Pubs : ~Sends(p)'
    BY <2>3, <2>4, <2>7, <2>8
  <2>11. ~(Has(t, Recovery) /\ Has(t, {"list"}) /\ ~Has(t, {"recon"}))
    BY <2>7
  <2>12. Has(t, Recovery) /\ ~Has(t, {"close"}) => client' = "none"
    BY <2>3, <2>4, <2>7
  <2>13. ~row' => /\ ~Has(t, {"open", "reopen"})
                  /\ \/ Has(t, {"forget"})
                     \/ /\ client' = "none" /\ \A r \in Recs : rtask'[r].pc = "free"
                        /\ \A p \in Pubs : ~Sends(p)'
    BY <2>3, <2>4 DEF LiveRec
  <2>14. QED
    BY <2>1, <2>5, <2>6, <2>9, <2>10, <2>11, <2>12, <2>13, LinkedKept
<1>4. QED  BY <1>1, <1>2, <1>3 DEF LInv

(* A request that begins is in the state its code describes.                *)
LEMMA RequestLinked ==
    ASSUME MInv, AInv, LInv, NEW c \in Calls, Request(c)
    PROVE  LInv'
<1>1. /\ UNCHANGED <<config, device, connection, recons, publishers, loop, untold>>
      /\ ~overlap' => ~overlap /\ \A k \in Threads : ~Busy(k)
      /\ c \in Threads
  BY RequestMoves DEF Threads
<1>2. ASSUME NEW t, Begin(c, t) PROVE Moves(c, t, "ready", None) /\ ~Begins(t, {"cancels"})
  <2>1. PICK u \in Seq(Instr) : Opens(u) /\ Moves(c, u, "ready", None)
    BY RequestMoves
  <2>2. call' = [call EXCEPT ![c].code = t] /\ call \in [Threads -> CallRecord]
    BY <1>1, <1>2, CallTypes DEF Begin, Admitted
  <2>3. call'[c].code = t
    BY <1>1, <2>2 DEF CallRecord
  <2>4. u = t
    BY <2>1, <2>3 DEF Moves
  <2>5. QED  BY <2>1, <2>4 DEF Opens, Begins
<1>3. UNCHANGED <<config, connection, recons, ptask>>
  BY <1>1 DEF publishers
<1>4. CASE CreateBroker(c)
  <2>1. PICK t : t = <<I("open", {})>>
    OBVIOUS
  <2>2. Shaped(t) /\ Begin(c, t) /\ ~row /\ row'
    BY <1>4, <2>1, BrokerShapes DEF CreateBroker
  <2>3. ~Has(t, {"list"})
    <3>1. I("open", {}).op = "open" /\ Len(t) = 1 /\ t[1] = I("open", {})
      BY <2>1 DEF I
    <3>2. \A i \in 1 .. Len(t) : t[i].op = "open"
      BY <3>1
    <3>3. QED  BY <3>2 DEF Has
  <2>4. QED  BY <1>1, <1>2, <1>3, <2>2, <2>3, BeginLinked
<1>5. CASE UpdateBroker(c)
  <2>1. PICK t : t = DropConnection \o <<I("reopen", {}), I("query", Devices)>>
    OBVIOUS
  <2>2. /\ Shaped(t) /\ Has(t, {"recon"}) /\ Has(t, {"list"}) /\ Has(t, {"close"})
        /\ Begin(c, t) /\ row /\ row' = row
    BY <1>5, <2>1, BrokerShapes DEF UpdateBroker, db
  <2>3. QED  BY <1>1, <1>2, <1>3, <2>2, BeginLinked
<1>6. CASE DeleteBroker(c)
  <2>1. PICK t : t = DropConnection \o <<I("forget", {})>>
    OBVIOUS
  <2>2. /\ Shaped(t) /\ Has(t, {"recon"}) /\ Has(t, {"list"}) /\ Has(t, {"close"})
        /\ Has(t, {"forget"}) /\ ~Has(t, {"open", "reopen"})
        /\ Begin(c, t) /\ \A d \in Devices : config[d] = "none"
    BY <1>6, <2>1, BrokerShapes DEF DeleteBroker
  <2>3. QED  BY <1>1, <1>2, <1>3, <2>2, BeginLinked
<1>7. ASSUME NEW d \in Devices,
             \/ DeleteConfig(c, d) \/ StartMqttPublishing(c, d) \/ StopMqttPublishing(c, d)
             \/ StartDevice(c, d) \/ StopDevice(c, d)
      PROVE  LInv'
  <2>1. /\ row' = row
        /\ \E t \in {<<I("drop", {d}), I("list", {d})>>, <<I("disable", {d}), I("list", {d})>>,
                     <<I("configs", {d}), I("running", {d})>>,
                     <<I("list", {d}), I("stopped", {d})>>,
                     <<I("enable", {d})>> \o StartPublishing("try", d)} : Begin(c, t)
    BY <1>7
       DEF DeleteConfig, StartMqttPublishing, StopMqttPublishing, StartDevice, StopDevice, db
  <2>2. PICK t : Begin(c, t) /\ Shaped(t) /\ ~Has(t, Conn)
    BY <2>1, DeviceShapes
  <2>3. ~Has(t, {"open", "reopen"})
    BY <2>2, NoConn
  <2>4. QED  BY <1>1, <1>2, <1>3, <2>1, <2>2, <2>3, BeginLinked
<1>8. QED  BY <1>4, <1>5, <1>6, <1>7 DEF Request

(* So is the shutdown.                                                      *)
LEMMA ShutdownLinked ==
    ASSUME MInv, AInv, LInv, Shutdown
    PROVE  LInv'
<1>1. /\ UNCHANGED <<db, connection, recons, publishers, loop, hist>>
      /\ \A c \in Threads : ~Busy(c)
      /\ Main \in Threads
  BY ShutdownMoves DEF Threads
<1>2. PICK t : t = <<I("list", Devices), I("recon", {}), I("close", {}), I("forget", {}), I("exit", {})>>
  OBVIOUS
<1>3. Moves(Main, t, "ready", None) /\ ~Begins(t, {"cancels"})
  <2>1. PICK u \in Seq(Instr) : Opens(u) /\ Moves(Main, u, "ready", None)
    BY ShutdownMoves
  <2>2. call' = [call EXCEPT ![Main].code = t] /\ call \in [Threads -> CallRecord]
    BY <1>1, <1>2, CallTypes DEF Shutdown
  <2>3. call'[Main].code = t
    BY <1>1, <2>2 DEF CallRecord
  <2>4. u = t
    BY <2>1, <2>3 DEF Moves
  <2>5. QED  BY <2>1, <2>4 DEF Opens, Begins
<1>4. /\ Shaped(t) /\ Has(t, {"recon"}) /\ Has(t, {"list"}) /\ Has(t, {"close"})
      /\ Has(t, {"forget"}) /\ ~Has(t, {"open", "reopen"})
  BY <1>2, BrokerShapes
<1>5. UNCHANGED <<row, config, connection, recons, ptask, overlap>>
  BY <1>1 DEF publishers, db, hist
<1>6. QED  BY <1>1, <1>3, <1>4, <1>5, BeginLinked

-----------------------------------------------------------------------------
(* The tasks, and the world.  What they leave the requests with.            *)
LEMMA TasksLinked ==
    ASSUME Linked, UNCHANGED <<row, call, loop>>,
           \A r \in Recs : rtask'[r].pc # "free" =>
               LiveRec(r) \/ \A c \in Threads : Has(call[c].code, Conn) => Has(call[c].code, {"recon"}),
           \A p \in Pubs : Sends(p)' => Sends(p) /\ ptask'[p].dev = ptask[p].dev,
           client' # "none" /\ client = "none" =>
               \A c \in Threads : Has(call[c].code, Recovery) => Has(call[c].code, {"close"}),
           broker' = "up" =>
               broker = "up" \/ \A c \in Threads : call[c].on \notin Recs /\ call[c].wait # "net",
           Sending' => Sending \/ \A c \in Threads : call[c].on \notin Recs,
           \A c \in Threads : call[c].on \in Recs /\ rtask'[call[c].on].pc # "free" =>
               LiveRec(call[c].on) /\ rtask'[call[c].on].cancelled = rtask[call[c].on].cancelled,
           ~row => \/ client # "none" \/ (\E r \in Recs : LiveRec(r)) \/ (\E p \in Pubs : Sends(p))
                   \/ client' = "none" /\ \A r \in Recs : rtask'[r].pc = "free",
           OneRetry', ~leaked'
    PROVE  Linked'
<1>1. ASSUME NEW c \in Threads PROVE Phase(c)'
  <2>1. Phase(c) /\ call' = call /\ loop' = loop
    BY DEF Linked
  <2>2. RetryGone(c)'
    BY <2>1 DEF Phase, RetryGone, LiveRec
  <2>3. SendersGone(c)'
    BY <2>1 DEF Phase, SendersGone
  <2>4. ClientGone(c)' /\ Connecting(c)'
    BY <2>1 DEF Phase, ClientGone, Connecting
  <2>5. AwaitsRetry(c)'
    BY <2>1 DEF Phase, AwaitsRetry, LiveRec
  <2>6. QED  BY <2>2, <2>3, <2>4, <2>5 DEF Phase
<1>2. Unconfigured'
  <2> SUFFICES ASSUME ~row PROVE Unconfigured'
    BY DEF Unconfigured
  <2>1. \A c \in Threads : ~Has(call'[c].code, {"open", "reopen"})
    BY DEF Linked, Unconfigured
  <2>2. CASE \E c \in Threads : Has(call[c].code, {"forget"})
    BY <2>1, <2>2 DEF Unconfigured
  <2>3. CASE client = "none" /\ (\A r \in Recs : ~LiveRec(r)) /\ \A p \in Pubs : ~Sends(p)
    <3>1. client' = "none" /\ (\A r \in Recs : rtask'[r].pc = "free") /\ \A p \in Pubs : ~Sends(p)'
      BY <2>3
    <3>2. QED  BY <2>1, <3>1 DEF Unconfigured, LiveRec
  <2>4. QED  BY <2>2, <2>3 DEF Linked, Unconfigured
<1>3. QED  BY <1>1, <1>2 DEF Linked

(* As long as no request awaits the retry it may connect: whoever connects  *)
(* has cancelled it before, and none is past the cancellation.              *)
LEMMA RetryRuns ==
    ASSUME MInv, LInv, ~overlap, NEW r \in Recs, LiveRec(r), ~rtask[r].cancelled, NEW c \in Threads
    PROVE  /\ call[c].on \notin Recs /\ call[c].wait # "net"
           /\ Has(call[c].code, Conn) => Has(call[c].code, {"recon"}) /\ Has(call[c].code, {"close"})
<1>1. Phase(c) /\ Shaped(call[c].code) /\ call[c].code \in Seq(Instr)
  BY CallTypes DEF LInv, Linked, CodesShaped
<1>2. call[c].on \notin Recs
  <2> SUFFICES ASSUME call[c].on \in Recs PROVE FALSE
    OBVIOUS
  <2>1. /\ LiveRec(call[c].on) => rtask[call[c].on].cancelled
        /\ Has(call[c].code, Recovery) /\ ~Has(call[c].code, {"recon"})
    BY <1>1 DEF Phase, AwaitsRetry
  <2>2. Has(call[c].code, Conn)
    BY <2>1, HasMore DEF Recovery, Conn
  <2>3. call[c].on = r
    BY <1>1, <2>1, <2>2 DEF Phase, RetryGone
  <2>4. QED  BY <2>1, <2>3
<1>3. ASSUME Has(call[c].code, Conn) PROVE Has(call[c].code, {"recon"}) /\ Has(call[c].code, {"close"})
  <2>1. Has(call[c].code, {"recon"})
    BY <1>1, <1>2, <1>3 DEF Phase, RetryGone
  <2>2. QED  BY <1>1, <2>1 DEF Shaped, ReconCloses
<1>4. call[c].wait # "net"
  <2> SUFFICES ASSUME call[c].wait = "net" PROVE FALSE
    OBVIOUS
  <2>1. call[c].code # <<>> /\ call[c].code[1].op \in {"open", "reopen"}
    BY DEF MInv, Waits, Begins
  <2>2. Has(call[c].code, Conn) /\ ~Has(call[c].code, Stopping \cup {"recon", "close"})
    <3>1. 1 \in 1 .. Len(call[c].code)
      BY <1>1, <2>1, Lengths
    <3>2. QED  BY <1>1, <2>1, <3>1, ShapedFront DEF Has, Conn, Recovery
  <2>3. QED  BY <1>3, <2>2, HasMore
<1>5. QED  BY <1>2, <1>3, <1>4

(* A step that leaves the connection, the retries and what is published.    *)
LEMMA RestLinked ==
    ASSUME Linked, UNCHANGED <<row, call, loop, recons, broker, leaked>>,
           client = "none" => client' = "none",
           \A p \in Pubs : Sends(p)' => Sends(p) /\ ptask'[p].dev = ptask[p].dev,
           Sending' => Sending
    PROVE  Linked'
<1>1. recon' = recon /\ rtask' = rtask
  BY DEF recons
<1>2. OneRetry' /\ ~leaked'
  BY <1>1 DEF Linked, OneRetry, LiveRec
<1>3. QED  BY <1>1, <1>2, TasksLinked DEF LiveRec

(* The reconnect task: it connects while no request does, and finds the     *)
(* client closed.                                                           *)
LEMMA ReconLinked ==
    ASSUME MInv, LInv, ~overlap, NEW r \in Recs, ReconStep(r)
    PROVE  Linked'
<1>1. /\ LiveRec(r) /\ UNCHANGED <<db, net, pub, pconf, call, loop, hist>> /\ SamePubs
      /\ OtherTypes /\ None \notin Recs
  BY RecMoves, TypeParts, MqttAssumption DEF MInv
<1>2. /\ Linked /\ row' = row /\ ~leaked
      /\ (\A p \in Pubs : Sends(p)' => Sends(p) /\ ptask'[p].dev = ptask[p].dev)
      /\ Sending' => Sending
  BY <1>1 DEF LInv, Linked, db, SamePubs, Sends, LivePub, Sending
<1>3. PICK q \in RecRecord :
         /\ rtask' = [rtask EXCEPT ![r] = q]
         /\ q.pc # "free" => q.cancelled = rtask[r].cancelled
  BY RecMoves
<1>4. rtask'[r] = q /\ \A x \in Recs \ {r} : rtask'[x] = rtask[x]
  BY <1>1, <1>3 DEF OtherTypes
<1>5. \A x \in Recs : rtask'[x].pc # "free" =>
         LiveRec(x) /\ rtask'[x].cancelled = rtask[x].cancelled /\ x = r
  <2> SUFFICES ASSUME NEW x \in Recs, rtask'[x].pc # "free"
               PROVE  LiveRec(x) /\ rtask'[x].cancelled = rtask[x].cancelled /\ x = r
    OBVIOUS
  <2>1. LiveRec(x)
    BY <1>1, <1>4 DEF LiveRec
  <2>2. x = r
    BY <1>1, <1>2, <2>1 DEF Linked, OneRetry
  <2>3. QED  BY <1>3, <1>4, <2>1, <2>2
<1>6. ASSUME OneRetry', ~leaked',
             client' # "none" /\ client = "none" =>
                 \A c \in Threads : Has(call[c].code, Recovery) => Has(call[c].code, {"close"}),
             broker' = "up" =>
                 broker = "up" \/ \A c \in Threads : call[c].on \notin Recs /\ call[c].wait # "net"
      PROVE  Linked'
  BY <1>1, <1>2, <1>5, <1>6, TasksLinked
<1>7. /\ \A x \in Recs : LiveRec(x) => x = r
      /\ ~rtask[r].cancelled => recon = r
      /\ broker # "up" /\ (Single => ~Sending)
      /\ rtask[r].pc \in {"closing", "opening"} /\ ~rtask[r].cancelled => client = "none"
  BY <1>1, <1>2 DEF Linked, OneRetry
<1>8. ASSUME rtask'[r].pc = "free" PROVE OneRetry'
  BY <1>5, <1>8 DEF OneRetry, LiveRec
<1>9. ASSUME ~rtask[r].cancelled, recon' = recon, broker' # "up",
             rtask'[r].pc \in {"closing", "opening"} => client' = "none"
      PROVE  OneRetry'
  BY <1>1, <1>2, <1>5, <1>7, <1>9 DEF OneRetry, LiveRec
<1>10. FreeRec.pc = "free" /\ \A x : rtask' = [rtask EXCEPT ![r] = x] => rtask'[r] = x
  BY <1>1 DEF FreeRec, OtherTypes
<1>11. \A x : rtask' = [rtask EXCEPT ![r].pc = x] => rtask'[r].pc = x
  <2>1. rtask[r] \in RecRecord /\ rtask \in [Recs -> RecRecord]
    BY <1>1 DEF OtherTypes
  <2>2. QED  BY <2>1 DEF RecRecord
<1>12. CASE ReconnectCancelled(r)
  <2>1. rtask' = [rtask EXCEPT ![r] = FreeRec] /\ UNCHANGED connection
    BY <1>12 DEF ReconnectCancelled, Reconnected
  <2>2. QED  BY <1>2, <1>6, <1>8, <1>10, <2>1 DEF connection
<1>13. CASE ReconnectStarts(r)
  <2>1. /\ rtask' = [rtask EXCEPT ![r].pc = "sleep"] /\ UNCHANGED <<connection, recon>>
        /\ ~rtask[r].cancelled
    BY <1>13 DEF ReconnectStarts
  <2>2. QED  BY <1>2, <1>6, <1>7, <1>9, <1>11, <2>1 DEF connection
<1>14. CASE ReconnectWakes(r)
  <2>1. ~rtask[r].cancelled
    BY <1>14 DEF ReconnectWakes
  <2>2. CASE broker = "absent"
    <3>1. rtask' = [rtask EXCEPT ![r] = FreeRec] /\ UNCHANGED connection
      BY <1>14, <2>2 DEF ReconnectWakes, Reconnected
    <3>2. QED  BY <1>2, <1>6, <1>8, <1>10, <3>1 DEF connection
  <2>3. CASE broker # "absent" /\ client # "none"
    <3>1. /\ client' = "none" /\ UNCHANGED <<broker, leaked, recon>>
          /\ rtask' = [rtask EXCEPT ![r].pc = "closing"]
      BY <1>14, <2>3 DEF ReconnectWakes, CloseClient
    <3>2. QED  BY <1>2, <1>6, <1>7, <1>9, <2>1, <3>1
  <2>4. CASE broker # "absent" /\ client = "none"
    <3>1. /\ broker' = "down" /\ UNCHANGED <<client, leaked, recon>>
          /\ rtask' = [rtask EXCEPT ![r].pc = "opening"]
      BY <1>14, <2>4 DEF ReconnectWakes
    <3>2. QED  BY <1>2, <1>6, <1>9, <2>1, <2>4, <3>1
  <2>5. QED  BY <2>2, <2>3, <2>4
<1>15. CASE ReconnectClosed(r)
  <2>1. /\ broker' # "up" /\ UNCHANGED <<client, leaked, recon>> /\ client = "none"
        /\ ~rtask[r].cancelled
    BY <1>7, <1>15 DEF ReconnectClosed, Disconnected
  <2>2. QED  BY <1>2, <1>6, <1>9, <2>1
<1>16. CASE ReconnectOpened(r)
  <2>1. ~rtask[r].cancelled /\ client = "none"
    BY <1>7, <1>16 DEF ReconnectOpened
  <2>2. CASE net
    <3>1. Connect /\ rtask' = [rtask EXCEPT ![r] = FreeRec]
      BY <1>16, <2>2 DEF ReconnectOpened, Reconnected
    <3>2. ~leaked'
      BY <1>2, <2>1, <3>1 DEF Connect
    <3>3. \A c \in Threads : call[c].on \notin Recs /\ call[c].wait # "net"
      BY <1>1, <2>1, RetryRuns
    <3>4. \A c \in Threads : Has(call[c].code, Recovery) => Has(call[c].code, {"close"})
      BY <1>1, <2>1, RetryRuns, NoConn
    <3>5. QED  BY <1>6, <1>8, <1>10, <3>1, <3>2, <3>3, <3>4
  <2>3. CASE ~net
    <3>1. /\ UNCHANGED <<client, leaked, broker, recon>>
          /\ rtask' = [rtask EXCEPT ![r].pc = "sleep"]
      BY <1>16, <2>3 DEF ReconnectOpened, AfterFailure
    <3>2. QED  BY <1>2, <1>6, <1>7, <1>9, <2>1, <3>1
  <2>4. QED  BY <2>2, <2>3
<1>17. QED  BY <1>12, <1>13, <1>14, <1>15, <1>16 DEF ReconStep

(* A publish task that fails: nobody is past the cancellation of the retry  *)
(* it schedules, and there is none that is not registered any more.         *)
LEMMA FailsLinked ==
    ASSUME MInv, RInv, AInv, LInv, ~overlap, NEW p \in Pubs, PublishFails(p),
           Single \/ \A c \in Threads : ~PastRetry(c)
    PROVE  Linked'
<1>1. /\ ptask[p].pc = "sent" /\ ~ptask[p].cancelled /\ loop = None
      /\ broker' = Disconnected /\ Schedule
      /\ UNCHANGED <<row, net, client, leaked, pub, pconf, call, loop, hist>>
      /\ OtherTypes /\ None \notin Recs /\ None \notin Threads
  BY TypeParts, MqttAssumption DEF PublishFails, MInv, db, Threads
<1>2. Linked /\ Sends(p) /\ Sending
  BY <1>1 DEF LInv, Sends, LivePub, Sending
<1>3. ASSUME NEW c \in Threads
      PROVE  /\ call[c].on \notin Recs
             /\ Has(call[c].code, Conn) => Has(call[c].code, {"recon"})
  <2>1. Phase(c) /\ loop # c
    BY <1>1, <1>2 DEF Linked
  <2>2. call[c].on \notin Recs
    <3>1. CASE Single
      BY <1>2, <2>1, <3>1 DEF Phase, AwaitsRetry
    <3>2. CASE ~PastRetry(c)
      <4>1. call[c].on \in Recs => Has(call[c].code, Recovery) /\ ~Has(call[c].code, {"recon"})
        BY <2>1 DEF Phase, AwaitsRetry
      <4>2. Has(call[c].code, Recovery) => Has(call[c].code, Conn)
        BY HasMore DEF Conn, Recovery
      <4>3. QED  BY <3>2, <4>1, <4>2 DEF PastRetry
    <3>3. QED  BY <3>1, <3>2
  <2>3. ~PastRetry(c) => (Has(call[c].code, Conn) => Has(call[c].code, {"recon"}))
    BY DEF PastRetry
  <2>4. ASSUME Single, Has(call[c].code, Conn), ~Has(call[c].code, {"recon"}) PROVE FALSE
    <3>1. Has(call[c].code, Recovery)
      BY <2>4, ClosesThenEnds DEF LInv
    <3>2. Has(call[c].code, Stopping)
      BY <1>2, <2>1, <3>1 DEF Phase, SendersGone
    <3>3. PICK i \in 1 .. Len(call[c].code) : call[c].code[i].op \in Stopping
      BY <3>2 DEF Has
    <3>4. ~Has(call[c].code, {"list"})
      BY <2>1, <2>2, <2>4, <3>1 DEF Phase, SendersGone
    <3>5. call[c].code[i].op = "cancels"
      BY <3>3, <3>4 DEF Has, Stopping
    <3>6. i = 1
      BY <3>5, CallTypes DEF Formed, Fits, First
    <3>7. Begins(call[c].code, {"cancels"})
      <4>1. Len(<<>>) = 0
        OBVIOUS
      <4>2. QED  BY <3>3, <3>5, <3>6, <4>1 DEF Begins
    <3>8. QED  BY <1>2, <2>1, <2>4, <3>1, <3>7 DEF Phase, SendersGone
  <2>5. QED  BY <2>2, <2>3, <2>4
<1>4. /\ ptask'[p].pc = "sleep" /\ ptask'[p].dev = ptask[p].dev
      /\ ptask'[p].cancelled = ptask[p].cancelled
      /\ \A x \in Pubs \ {p} : ptask'[x] = ptask[x]
  <2>1. ptask' = [ptask EXCEPT ![p] = [[ptask[p] EXCEPT !.pc = "sleep"] EXCEPT !.conn = "none"]]
    BY <1>1 DEF PublishFails
  <2>2. ptask[p] \in PubRecord /\ ptask \in [Pubs -> PubRecord]
    BY <1>1 DEF OtherTypes
  <2>3. PICK y, q : y = [ptask[p] EXCEPT !.pc = "sleep"] /\ q = [y EXCEPT !.conn = "none"]
    OBVIOUS
  <2>4. y \in PubRecord /\ y.pc = "sleep" /\ y.dev = ptask[p].dev /\ y.cancelled = ptask[p].cancelled
    BY <2>2, <2>3 DEF PubRecord
  <2>5. q.pc = "sleep" /\ q.dev = ptask[p].dev /\ q.cancelled = ptask[p].cancelled
    BY <2>3, <2>4 DEF PubRecord
  <2>6. QED  BY <2>1, <2>2, <2>3, <2>5
<1>5. \A x \in Pubs : Sends(x)' => Sends(x) /\ ptask'[x].dev = ptask[x].dev
  BY <1>2, <1>4 DEF Sends, LivePub
<1>6. Single => ~Sending'
  <2> SUFFICES ASSUME Single, NEW x \in Pubs, Sends(x)', ptask'[x].pc = "sent" PROVE FALSE
    BY DEF Sending
  <2>1. Sends(x) /\ x # p
    BY <1>4, <1>5
  <2>2. ptask[x].dev \in Devices /\ ptask[p].dev \in Devices
    BY <1>2, <2>1 DEF MInv, PubsOfDevices, Sends
  <2>3. pub[ptask[x].dev] = x /\ pub[ptask[p].dev] = p
    BY <1>2, <2>1 DEF AInv, Alone, Registered, Sends
  <2>4. QED  BY <2>1, <2>2, <2>3 DEF Single
<1>7. broker' # "up"
  BY <1>1 DEF Disconnected
<1>8. OneRetry'
  <2>1. CASE UNCHANGED recons
    BY <1>1, <1>2, <1>6, <1>7, <2>1 DEF Linked, OneRetry, LiveRec, recons
  <2>2. CASE \E r \in SpareRecs :
               recon' = r /\ rtask' = [rtask EXCEPT ![r] = [pc |-> "new", cancelled |-> FALSE]]
    <3>1. PICK r \in Recs : /\ recon' = r /\ recon # r
                            /\ rtask' = [rtask EXCEPT ![r] = [pc |-> "new", cancelled |-> FALSE]]
      BY <2>2 DEF SpareRecs
    <3>2. ASSUME NEW x \in Recs, LiveRec(x) PROVE FALSE
      <4>1. ~rtask[x].cancelled
        BY <1>3, <3>2 DEF RInv, RetryAwaited
      <4>2. recon = x
        BY <1>2, <3>2, <4>1 DEF Linked, OneRetry
      <4>3. recon' = recon
        BY <1>1, <3>2, <4>2 DEF Schedule, recons
      <4>4. QED  BY <3>1, <4>3
    <3>3. /\ rtask'[r].pc = "new" /\ ~rtask'[r].cancelled
          /\ \A x \in Recs \ {r} : rtask'[x].pc = "free"
      BY <1>1, <3>1, <3>2 DEF OtherTypes, LiveRec
    <3>4. QED  BY <1>6, <1>7, <3>1, <3>3 DEF OneRetry, LiveRec
  <2>3. QED  BY <1>1, <2>1, <2>2, ScheduleMoves
<1>9. QED
  BY <1>1, <1>2, <1>3, <1>5, <1>7, <1>8, TasksLinked DEF Linked

(* A publish task that goes on: one sends only while the broker is          *)
(* connected, when there is no retry.                                       *)
LEMMA PubLinked ==
    ASSUME MInv, RInv, AInv, LInv, ~overlap, NEW p \in Pubs, PubStep(p), Single \/ ~RacingFailure
    PROVE  Linked'
<1>1. /\ LivePub(p) /\ UNCHANGED <<row, client, leaked, call, loop, overlap>>
      /\ OtherTypes /\ ptask[p] \in PubRecord
  BY PubMoves, TypeParts DEF MInv, OtherTypes, db, hist
<1>2. Linked
  BY DEF LInv
<1>3. PICK q \in PubRecord :
         /\ ptask' = [ptask EXCEPT ![p] = q] /\ q.dev = ptask[p].dev
         /\ q.pc # "free" => q.cancelled = ptask[p].cancelled
  BY PubMoves
<1>4. ptask'[p] = q /\ \A x \in Pubs \ {p} : ptask'[x] = ptask[x]
  BY <1>1, <1>3 DEF OtherTypes
<1>5. \A x \in Pubs : Sends(x)' => Sends(x) /\ ptask'[x].dev = ptask[x].dev
  BY <1>1, <1>3, <1>4 DEF Sends, LivePub
<1>6. ASSUME UNCHANGED <<broker, recons>>, q.pc = "sent" => Sends(p) /\ ptask[p].pc = "sent"
      PROVE  Linked'
  <2>1. Sending' => Sending
    BY <1>4, <1>5, <1>6 DEF Sending
  <2>2. QED  BY <1>1, <1>2, <1>5, <1>6, <2>1, RestLinked
<1>7. CASE PublishCancelled(p)
  <2>1. ptask' = [ptask EXCEPT ![p] = [FreePub EXCEPT !.dev = ptask[p].dev]]
    BY <1>7 DEF PublishCancelled
  <2>2. FreePub \in PubRecord /\ FreePub.pc = "free"
    BY DEF FreePub, PubRecord
  <2>3. q.pc = "free"
    BY <1>1, <1>4, <2>1, <2>2 DEF PubRecord, OtherTypes
  <2>4. QED  BY <1>6, <1>7, <2>3 DEF PublishCancelled, connection
<1>8. CASE PublishStarts(p)
  <2>1. ptask' = [ptask EXCEPT ![p] = [ptask[p] EXCEPT
                     !.pc = IF ptask[p].dev \in pconf THEN "sleep" ELSE "free"]]
    BY <1>8 DEF PublishStarts
  <2>2. q.pc # "sent"
    BY <1>1, <1>4, <2>1 DEF PubRecord, OtherTypes
  <2>3. QED  BY <1>6, <1>8, <2>2 DEF PublishStarts, connection
<1>9. CASE PublishWakes(p)
  <2>1. /\ broker = "up" /\ client # "none"
        /\ UNCHANGED <<broker, recon, rtask>> /\ recons' = recons
    BY <1>9 DEF PublishWakes, connection, recons
  <2>2. \A r \in Recs : ~LiveRec(r)
    BY <1>2, <2>1 DEF Linked, OneRetry
  <2>3. \A c \in Threads : call[c].on \notin Recs
    BY <1>2, <2>1 DEF Linked, Phase, AwaitsRetry
  <2>4. OneRetry' /\ ~leaked'
    BY <1>1, <1>2, <2>1, <2>2 DEF Linked, OneRetry, LiveRec
  <2>5. QED
    BY <1>1, <1>2, <1>5, <2>1, <2>2, <2>3, <2>4, TasksLinked DEF LiveRec
<1>10. CASE Published(p)
  BY <1>1, <1>6, <1>10 DEF Published, Sends, LivePub, connection
<1>11. CASE PublishFails(p)
  BY <1>11, FailsLinked DEF RacingFailure
<1>12. QED  BY <1>7, <1>8, <1>9, <1>10, <1>11 DEF PubStep

(* The application starts with nothing that could be left.                  *)
LEMMA StartedLinked == Started /\ Unused => LInv
<1> SUFFICES ASSUME Started, Unused PROVE LInv
  OBVIOUS
<1>1. /\ row \in BOOLEAN /\ None \notin Recs /\ Main \in Threads
      /\ \A c \in Threads :
           /\ call[c].wait = "ready" /\ call[c].on = None
           /\ call[c].code = IF c = Main THEN Boot ELSE <<>>
  BY BootingCalls, MqttAssumption DEF Started, Threads
<1>2. /\ Len(Boot) = IF row THEN 2 ELSE 1
      /\ \A i \in 1 .. Len(Boot) : Boot[i].op = IF row /\ i = 1 THEN "open" ELSE "query"
      /\ Boot \in Seq(Instr) /\ Boot # <<>>
  BY <1>1, BootFormed
<1>3. client = "none" /\ ~leaked /\ (\A r \in Recs : ~LiveRec(r)) /\ (\A p \in Pubs : ~Sends(p))
  BY DEF Started, LiveRec, FreeRec, Sends, LivePub, FreePub
<1>4. Shaped(Boot) /\ (~row => ~Has(Boot, {"open", "reopen"})) /\ ~Has(Boot, {"recon", "list"})
      /\ ~Begins(Boot, {"cancels"})
  <2>1. \A i \in 1 .. Len(Boot) : i = 1 \/ (i = 2 /\ row)
    BY <1>1, <1>2
  <2>2. 1 \in 1 .. Len(Boot)
    BY <1>2, Lengths
  <2>3. \A i \in 1 .. Len(Boot) : Boot[i].op \in {"open", "query"} /\ (~row => Boot[i].op = "query")
    BY <1>2
  <2>4. ~Has(Boot, {"recon"}) /\ ~Has(Boot, {"recon", "list"})
        /\ (~row => ~Has(Boot, {"open", "reopen"}))
    BY <2>3 DEF Has
  <2>5. OnlyConn(Boot) /\ Once(Boot)
    BY <2>3 DEF OnlyConn, Once, Conn, Stopping
  <2>6. ASSUME NEW i \in 1 .. Len(Boot), NEW j \in 1 .. Len(Boot), i < j
        PROVE  Boot[i].op = "open" /\ Boot[j].op = "query"
    <3>1. i = 1 /\ j = 2 /\ row
      BY <2>1, <2>6
    <3>2. QED  BY <1>2, <3>1
  <2>7. ConnOrder(Boot)
    BY <2>6 DEF ConnOrder
  <2>8. QED  BY <2>2, <2>3, <2>4, <2>5, <2>7 DEF Shaped, ReconCloses, Begins
<1>5. ASSUME NEW s, s \in {Boot, <<>>}
      PROVE  /\ Shaped(s) /\ (~row => ~Has(s, {"open", "reopen"})) /\ ~Has(s, {"list"})
             /\ ~Begins(s, {"cancels"})
  <2>1. CASE s = Boot
    BY <1>4, <2>1, HasMore
  <2>2. CASE s = <<>>
    <3>1. Len(s) = 0
      BY <2>2
    <3>2. \A ops : ~Has(s, ops)
      BY <3>1 DEF Has
    <3>3. \A i, j \in 1 .. Len(s) : i < j => s[i].op # "query"
      BY <3>1
    <3>4. QED  BY <2>2, <3>2, <3>3, PlainShaped DEF Begins
  <2>3. QED  BY <1>5, <2>1, <2>2
<1>6. \A c \in Threads : call[c].code \in {Boot, <<>>}
  BY <1>1
<1>7. CodesShaped
  BY <1>5, <1>6 DEF CodesShaped
<1>8. \A c \in Threads : Phase(c)
  BY <1>1, <1>3, <1>5, <1>6
     DEF Phase, RetryGone, SendersGone, ClientGone, AwaitsRetry, Connecting
<1>9. OneRetry
  BY <1>3 DEF OneRetry
<1>10. Unconfigured
  BY <1>3, <1>5, <1>6 DEF Unconfigured
<1>11. QED  BY <1>3, <1>7, <1>8, <1>9, <1>10 DEF LInv, Linked

(* Every step keeps that requests and the reconnect task connect in turn.   *)
LEMMA LInvStep ==
    ASSUME MInv, RInv, AInv, LInv, [Next]_vars, Single \/ [~RacingFailure]_vars
    PROVE  LInv'
<1>1. OtherTypes
  BY TypeParts DEF MInv
<1>2. ASSUME UNCHANGED <<row, config, call, overlap>>, ~overlap => Linked' PROVE LInv'
  BY <1>2 DEF LInv, CodesShaped, Unused
<1>3. SamePubs \/ UNCHANGED ptask =>
         /\ \A p \in Pubs : Sends(p)' => Sends(p) /\ ptask'[p].dev = ptask[p].dev
         /\ Sending' => Sending
  BY DEF SamePubs, Sends, LivePub, Sending
<1>4. CASE Writes
  <2>1. /\ UNCHANGED <<call, loop, recons, broker, leaked, client, ptask>>
        /\ row => row'
        /\ ~row' => \A d \in Devices : config[d] = "none" => config'[d] = "none"
        /\ overlap' \in BOOLEAN /\ overlap \in BOOLEAN /\ (~overlap' => ~overlap)
        /\ row \in BOOLEAN /\ row' \in BOOLEAN
    BY <1>1, <1>4, WritesMoves DEF connection, publishers, hist, OtherTypes
  <2>2. CASE row' = row
    <3>1. Linked => Linked'
      BY <1>3, <2>1, <2>2, RestLinked
    <3>2. CodesShaped' /\ Unused'
      BY <2>1, <2>2 DEF LInv, CodesShaped, Unused
    <3>3. QED  BY <2>1, <3>1, <3>2 DEF LInv
  <2>3. CASE row' # row
    <3>1. row'
      BY <2>1, <2>3
    <3>2. Linked => Linked'
      <4> SUFFICES ASSUME Linked PROVE Linked'
        OBVIOUS
      <4>1. Unconfigured' /\ ~leaked'
        BY <2>1, <3>1 DEF Linked, Unconfigured
      <4>2. recon' = recon /\ rtask' = rtask
        BY <2>1 DEF recons
      <4>3. OneRetry'
        BY <2>1, <4>2 DEF Linked, OneRetry, LiveRec, Sending, Sends, LivePub
      <4>4. \A c \in Threads : Phase(c)'
        BY <2>1, <4>2 DEF Linked, Phase, RetryGone, SendersGone, ClientGone, AwaitsRetry, Connecting,
                         Sending, Sends, LiveRec, LivePub
      <4>5. QED  BY <4>1, <4>3, <4>4 DEF Linked
    <3>3. CodesShaped' /\ Unused'
      BY <2>1, <3>1 DEF LInv, CodesShaped, Unused
    <3>4. QED  BY <2>1, <3>2, <3>3 DEF LInv
  <2>4. QED  BY <2>2, <2>3
<1>5. ASSUME NEW r \in Recs, ReconStep(r) PROVE LInv'
  BY <1>2, <1>5, ReconLinked, RecMoves DEF db, hist
<1>6. ASSUME Single \/ ~RacingFailure, NEW p \in Pubs, PubStep(p) PROVE LInv'
  BY <1>2, <1>6, PubLinked, PubMoves DEF db, hist
<1>7. CASE NetDrops
  <2>1. /\ UNCHANGED <<row, config, call, loop, recons, broker, leaked, overlap>>
        /\ client = "none" => client' = "none"
    BY <1>7 DEF NetDrops, db, hist
  <2>2. SamePubs
    BY <1>1, <1>7, NetDropsMoves
  <2>3. QED  BY <1>2, <1>3, <2>1, <2>2, RestLinked DEF LInv
<1>8. CASE NetReturns
  <2>1. UNCHANGED <<row, config, call, loop, recons, broker, leaked, overlap, client, ptask>>
    BY <1>8 DEF NetReturns, db, hist, publishers
  <2>2. QED  BY <1>2, <1>3, <2>1, RestLinked DEF LInv
<1>9. CASE Restart
  <2>1. Unused'
    BY <1>9 DEF Restart, db, LInv, Unused
  <2>2. QED  BY <1>9, <2>1, RestartStarts, StartedLinked, PTL
<1>10. CASE UNCHANGED vars
  <2>1. UNCHANGED <<row, config, call, loop, recons, broker, leaked, overlap, client, ptask>>
    BY <1>10 DEF vars, recons
  <2>2. QED  BY <1>2, <1>3, <2>1, RestLinked DEF LInv
<1>11. QED
  BY <1>4, <1>5, <1>6, <1>7, <1>8, <1>9, <1>10, RequestLinked, CallStepLinked, ShutdownLinked DEF Next, Writes

(* It holds at first, and no client has leaked where it does.               *)
LEMMA LInvStarts ==
    /\ Init => MInv /\ RInv /\ AInv /\ LInv
    /\ LInv => NoLeakedConnection
<1>1. Init => Unused
  BY DEF Init, Unused
<1>2. Init => MInv /\ RInv /\ AInv /\ LInv
  BY <1>1, InitStarts, StartedHolds, StartedLinked
<1>3. LInv => NoLeakedConnection
  BY DEF LInv, Linked, NoLeakedConnection
<1>4. QED  BY <1>2, <1>3

(* As long as requests do not overlap no client is replaced while it is     *)
(* still open, if there is one device: requests and the reconnect task do   *)
(* not connect at the same time, whatever fails in between.                 *)
THEOREM ConnectsInTurn == Single => (Spec => []NoLeakedConnection)
<1> SUFFICES ASSUME Single PROVE Spec => []NoLeakedConnection
  OBVIOUS
<1>1. MInv /\ RInv /\ AInv /\ LInv /\ [Next]_vars => (MInv /\ RInv /\ AInv /\ LInv)'
  BY MInvStep, RInvStep, AInvStep, LInvStep
<1>2. QED  BY <1>1, LInvStarts, PTL DEF Spec

(* And for any number of devices, if no publish task fails while a request  *)
(* is past its cancellation of the retry: with two devices one can, while   *)
(* the request awaits the cancelled task of the other, and the retry it     *)
(* schedules connects besides the request.                                  *)
THEOREM OnlyRacesLeak == Spec /\ [][~RacingFailure]_vars => []NoLeakedConnection
<1>1. /\ MInv /\ RInv /\ AInv /\ LInv /\ [Next]_vars /\ [~RacingFailure]_vars
      => (MInv /\ RInv /\ AInv /\ LInv)'
  BY MInvStep, RInvStep, AInvStep, LInvStep
<1>2. QED  BY <1>1, LInvStarts, PTL DEF Spec
==============================================================================
