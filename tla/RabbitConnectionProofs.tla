------------------------ MODULE RabbitConnectionProofs ------------------------
(***************************************************************************)
(* Theorems about the broker connection of one process, for any number of    *)
(* queues, links, attempts to connect and any order of losses, timers,       *)
(* callers, shutdown and restarts.                                          *)
(*                                                                         *)
(* The argument is that connectPromise is a lock: whoever finds no channel   *)
(* joins the one attempt that runs.  So only that attempt can hold a link    *)
(* outside the fields, the fields are empty until it has set one up, and     *)
(* activeConsumers describes the link in the fields.                         *)
(***************************************************************************)
EXTENDS RabbitConnection, TLAPS

\* Only the attempt that callers share runs, and only it is awaited.
OneAttempt ==
  \A s \in Attempts :
    IF s = connectPromise THEN attempt[s].at # "idle" ELSE attempt[s] = Idle /\ awaiting[s] = {}

\* What an attempt holds, and what the fields hold meanwhile.  A process that an
\* unheard "error" event has ended leaves its attempt where it was.
AttemptShape ==
  \A s \in Attempts :
    /\ attempt[s].at \in {"setup", "starting", "closing"} <=> attempt[s].conn # None
    /\ attempt[s].at = "backoff" => attempt[s].try < MaxAttempts
    /\ attempt[s].at = "starting" => attempt[s].todo = Queues \ active /\ channel = attempt[s].conn
    /\ attempt[s].at \notin {"idle", "starting"} => channel = None
    /\ Alive /\ attempt[s].at \in {"setup", "starting"} => link[attempt[s].conn] = "open"
    /\ Alive /\ attempt[s].at = "closing" => link[attempt[s].conn] = "closing"

\* Consumers run on the link in the fields, one for each queue of activeConsumers.
Served ==
  \A i \in Links, q \in Queues : served[i][q] = IF channel = i /\ q \in active THEN 1 ELSE 0

ChannelReady ==
  channel # None =>
    /\ link[channel] = "open"
    /\ (\A s \in Attempts : attempt[s].conn # channel) => active = Queues

\* The parts of the type invariant: what attempts and callers share, and the rest.
TryingOK ==
  /\ connectPromise \in Attempts \cup {None}
  /\ attempt \in [Attempts ->
       [at : {"idle", "connecting", "setup", "starting", "closing", "backoff"},
        try : 0..MaxAttempts, conn : Links \cup {None}, todo : SUBSET Queues]]
  /\ awaiting \in [Attempts -> SUBSET Caller]
  /\ boot \in {"starting", "running", "exited"}
  /\ OneAttempt

FieldsOK ==
  /\ up \in BOOLEAN /\ timer \in BOOLEAN /\ shuttingDown \in BOOLEAN
  /\ link \in [Links -> {"none", "open", "closing"}]
  /\ served \in [Links -> [Queues -> Nat]]
  /\ channel \in Links \cup {None}
  /\ active \subseteq Queues

ConnInv ==
  /\ FieldsOK /\ TryingOK
  /\ AttemptShape /\ Served /\ ChannelReady
  /\ NothingLeaks
  /\ ReconnectOwed

-----------------------------------------------------------------------------
(* Attempts. *)

\* The attempt that runs is the one that is shared.
LEMMA Running ==
  ASSUME TryingOK, NEW s \in Attempts, attempt[s].at # "idle"
  PROVE  s = connectPromise /\ \A r \in Attempts : r # s => attempt[r] = Idle /\ awaiting[r] = {}
BY DEF TryingOK, OneAttempt, Idle

AttemptRecord ==
  [at : {"idle", "connecting", "setup", "starting", "closing", "backoff"},
   try : 0..MaxAttempts, conn : Links \cup {None}, todo : SUBSET Queues]

\* An attempt that has just begun.
Begun == [at |-> "connecting", try |-> 1, conn |-> None, todo |-> {}]

LEMMA IdleAt ==
  ASSUME NEW at, NEW try
  PROVE  [Idle EXCEPT !.at = at, !.try = try] = [at |-> at, try |-> try, conn |-> None, todo |-> {}]
<1>1. PICK r : r = [Idle EXCEPT !.at = at]
  OBVIOUS
<1>2. r = [at |-> at, try |-> 0, conn |-> None, todo |-> {}]
  BY <1>1 DEF Idle
<1>3. [r EXCEPT !.try = try] = [at |-> at, try |-> try, conn |-> None, todo |-> {}]
  BY <1>2
<1>. QED
  BY <1>1, <1>3

LEMMA BegunIs ==
  /\ [Idle EXCEPT !.at = "connecting", !.try = 1] = Begun
  /\ Begun \in AttemptRecord /\ Idle \in AttemptRecord
<1>1. [Idle EXCEPT !.at = "connecting", !.try = 1] = Begun
  BY IdleAt DEF Begun
<1>2. 0 \in 0..MaxAttempts /\ 1 \in 0..MaxAttempts
  BY MaxAttemptsAssumption
<1>3. Begun \in AttemptRecord /\ Idle \in AttemptRecord
  BY <1>2 DEF Begun, Idle, AttemptRecord
<1>. QED
  BY <1>1, <1>3

\* A running attempt goes on to another point.
LEMMA Moves ==
  ASSUME TryingOK, NEW s \in Attempts, attempt[s].at # "idle",
         NEW rec \in AttemptRecord, rec.at # "idle", attempt' = [attempt EXCEPT ![s] = rec],
         UNCHANGED <<connectPromise, awaiting, boot>>
  PROVE  /\ TryingOK' /\ attempt'[s] = rec
         /\ \A r \in Attempts : r # s => attempt'[r] = Idle
<1>1. s = connectPromise /\ \A r \in Attempts : r # s => attempt[r] = Idle /\ awaiting[r] = {}
  BY Running
<1>2. attempt'[s] = rec /\ \A r \in Attempts : r # s => attempt'[r] = attempt[r]
  BY DEF TryingOK
<1>3. attempt' \in [Attempts -> AttemptRecord]
  BY DEF TryingOK, AttemptRecord
<1>4. OneAttempt'
  BY <1>1, <1>2 DEF OneAttempt
<1>. QED
  BY <1>1, <1>2, <1>3, <1>4 DEF TryingOK, AttemptRecord

\* An attempt that ends leaves none running; boot ends in service only when connected.
LEMMA EndsEffect ==
  ASSUME TryingOK, NEW s \in Attempts, attempt[s].at # "idle", NEW t, NEW connected,
         Ends(s, t, connected)
  PROVE  /\ TryingOK' /\ timer' = t
         /\ \A r \in Attempts : attempt'[r] = Idle
         /\ boot' = boot \/ boot' = "exited" \/ (connected /\ boot' = "running")
<1>1. s = connectPromise /\ \A r \in Attempts : r # s => attempt[r] = Idle /\ awaiting[r] = {}
  BY Running
<1>2. \A r \in Attempts : attempt'[r] = Idle /\ awaiting'[r] = {}
  BY <1>1 DEF Ends, TryingOK
<1>3. attempt' \in [Attempts -> AttemptRecord]
  BY BegunIs DEF Ends, TryingOK, AttemptRecord
<1>4. OneAttempt'
  BY <1>2, NoLinkAssumption DEF Ends, OneAttempt
<1>. QED
  BY <1>2, <1>3, <1>4 DEF Ends, TryingOK, AttemptRecord

\* A failed attempt waits or ends, without a link; whoever waited for a reconnect
\* still has one to come.
LEMMA FailsEffect ==
  ASSUME TryingOK, NEW s \in Attempts, attempt[s].at # "idle", NEW t \in BOOLEAN, Fails(s, t)
  PROVE  /\ TryingOK' /\ timer' \in BOOLEAN
         /\ \A r \in Attempts : attempt'[r].at \in {"idle", "backoff"} /\ attempt'[r].conn = None
         /\ \A r \in Attempts : attempt'[r].at = "backoff" => attempt'[r].try < MaxAttempts
         /\ boot' \in {boot, "exited"}
         /\ t => timer'
         /\ ~ shuttingDown /\ (\E r \in Attempts : "timer" \in awaiting[r]) =>
              timer' \/ \E r \in Attempts : "timer" \in awaiting'[r]
<1>0. \A r \in Attempts : r # s => awaiting[r] = {}
  BY Running
<1>1. CASE attempt[s].try < MaxAttempts
  <2>1. attempt[s].try \in 0..MaxAttempts
    BY DEF TryingOK
  <2>2. PICK rec \in AttemptRecord :
          /\ rec.at = "backoff" /\ rec.conn = None /\ rec.try < MaxAttempts
          /\ attempt' = [attempt EXCEPT ![s] = rec]
    <3>1. [Idle EXCEPT !.at = "backoff", !.try = attempt[s].try] =
            [at |-> "backoff", try |-> attempt[s].try, conn |-> None, todo |-> {}]
      BY IdleAt
    <3>2. [at |-> "backoff", try |-> attempt[s].try, conn |-> None, todo |-> {}] \in AttemptRecord
      BY <2>1 DEF AttemptRecord
    <3>. QED
      BY <1>1, <3>1, <3>2 DEF Fails
  <2>3. /\ TryingOK' /\ attempt'[s] = rec /\ \A r \in Attempts : r # s => attempt'[r] = Idle
        /\ timer' = t /\ UNCHANGED <<awaiting, boot>>
    BY <1>1, <2>2, Moves DEF Fails
  <2>4. \A r \in Attempts :
          /\ attempt'[r].at \in {"idle", "backoff"} /\ attempt'[r].conn = None
          /\ attempt'[r].at = "backoff" => attempt'[r].try < MaxAttempts
    BY <2>2, <2>3 DEF Idle
  <2>5. boot' \in {boot, "exited"} /\ \A r \in Attempts : awaiting'[r] = awaiting[r]
    BY <2>3
  <2>. QED
    BY <2>3, <2>4, <2>5, Zenon
<1>2. CASE ~ (attempt[s].try < MaxAttempts)
  <2>1. PICK u \in BOOLEAN : u = IF "timer" \in awaiting[s] THEN t \/ ~ shuttingDown ELSE t
    OBVIOUS
  <2>2. Ends(s, u, FALSE)
    BY <1>2, <2>1 DEF Fails, Rejects, AfterExhausted, Scheduled
  <2>3. /\ TryingOK' /\ timer' = u
        /\ \A r \in Attempts : attempt'[r] = Idle
        /\ boot' = boot \/ boot' = "exited"
    BY <2>2, EndsEffect
  <2>. QED
    BY <1>0, <2>1, <2>3 DEF Idle
<1>. QED
  BY <1>1, <1>2

\* A caller without a channel joins the attempt that runs or starts one.
LEMMA RetryEffect ==
  ASSUME TryingOK, NEW caller \in Caller, ConnectWithRetry(caller), UNCHANGED boot
  PROVE  /\ TryingOK'
         /\ \E r \in Attempts : caller \in awaiting'[r]
         /\ \A r \in Attempts : attempt'[r] = attempt[r] \/ attempt'[r] = Begun
         /\ \A r \in Attempts : awaiting[r] \subseteq awaiting'[r]
<1>1. CASE connectPromise # None
  <2>1. connectPromise \in Attempts /\ awaiting' = [awaiting EXCEPT ![connectPromise] = @ \cup {caller}]
        /\ UNCHANGED <<connectPromise, attempt>>
    BY <1>1 DEF ConnectWithRetry, Shared, TryingOK
  <2>2. \A r \in Attempts :
          awaiting'[r] = IF r = connectPromise THEN awaiting[r] \cup {caller} ELSE awaiting[r]
    BY <2>1 DEF TryingOK
  <2>3. awaiting' \in [Attempts -> SUBSET Caller]
    BY <2>1 DEF TryingOK
  <2>4. OneAttempt'
    BY <2>1, <2>2 DEF OneAttempt, TryingOK
  <2>. QED
    BY <2>1, <2>2, <2>3, <2>4 DEF TryingOK
<1>2. CASE connectPromise = None
  <2>1. PICK s \in Attempts :
          /\ attempt' = [attempt EXCEPT ![s] = Begun]
          /\ connectPromise' = s /\ awaiting' = [awaiting EXCEPT ![s] = {caller}]
    BY <1>2, BegunIs DEF ConnectWithRetry, Shared
  <2>2. \A r \in Attempts : attempt[r] = Idle /\ awaiting[r] = {}
    BY <1>2, NoLinkAssumption DEF OneAttempt, TryingOK
  <2>3. \A r \in Attempts :
          /\ attempt'[r] = IF r = s THEN Begun ELSE attempt[r]
          /\ awaiting'[r] = IF r = s THEN {caller} ELSE awaiting[r]
    BY <2>1 DEF TryingOK
  <2>4. attempt' \in [Attempts -> AttemptRecord]
    BY <2>1, BegunIs DEF TryingOK, AttemptRecord
  <2>5. OneAttempt'
    <3>1. Begun.at # "idle"
      BY DEF Begun
    <3>. QED
      BY <2>1, <2>2, <2>3, <3>1 DEF OneAttempt
  <2>6. awaiting' \in [Attempts -> SUBSET Caller]
    BY <2>1 DEF TryingOK
  <2>. QED
    BY <2>1, <2>2, <2>3, <2>4, <2>5, <2>6 DEF TryingOK, AttemptRecord
<1>. QED
  BY <1>1, <1>2

-----------------------------------------------------------------------------
(* What holds while there is no channel. *)

\* Outside the fields, only the attempt that runs can have an open link.
LEMMA NoChannel ==
  ASSUME ConnInv, channel = None
  PROVE  /\ \A i \in Links, q \in Queues : served[i][q] = 0
         /\ \A s \in Attempts : attempt[s].at # "starting"
         /\ \A s \in Attempts : attempt[s].at # "idle" =>
              \A i \in Links : link[i] = "open" => attempt[s].at = "setup" /\ attempt[s].conn = i
         /\ (\A s \in Attempts : attempt[s].at # "setup") => \A i \in Links : link[i] # "open"
<1>1. \A i \in Links, q \in Queues : served[i][q] = 0
  BY NoLinkAssumption DEF ConnInv, Served
<1>2. ASSUME NEW s \in Attempts PROVE attempt[s].at # "starting"
  BY DEF ConnInv, AttemptShape
<1>3. ASSUME NEW i \in Links, link[i] = "open"
      PROVE  \E s \in Attempts : attempt[s].conn = i /\ attempt[s].at = "setup"
  BY <1>2, <1>3, NoLinkAssumption DEF ConnInv, NothingLeaks
<1>4. ASSUME NEW s \in Attempts, attempt[s].at # "idle", NEW i \in Links, link[i] = "open"
      PROVE  attempt[s].at = "setup" /\ attempt[s].conn = i
  <2>1. PICK r \in Attempts : attempt[r].conn = i /\ attempt[r].at = "setup"
    BY <1>3, <1>4
  <2>2. r = s
    BY <1>4, <2>1, Running DEF ConnInv
  <2>. QED
    BY <2>1, <2>2
<1>. QED
  BY <1>1, <1>2, <1>3, <1>4

\* A state without a channel, an open link or a consumer: attempts are between two
\* connections or wait for theirs to close.
LEMMA Disconnected ==
  ASSUME FieldsOK', TryingOK', channel' = None,
         \A i \in Links : link'[i] # "open",
         \A i \in Links, q \in Queues : served'[i][q] = 0,
         \A r \in Attempts :
           \/ attempt'[r].at \in {"idle", "connecting", "backoff"} /\ attempt'[r].conn = None
           \/ attempt'[r].at = "closing" /\ attempt'[r].conn # None /\ link'[attempt'[r].conn] = "closing",
         \A r \in Attempts : attempt'[r].at = "backoff" => attempt'[r].try < MaxAttempts,
         ReconnectOwed'
  PROVE  ConnInv'
<1>1. AttemptShape'
  BY DEF AttemptShape
<1>2. Served' /\ ChannelReady' /\ NothingLeaks'
  BY NoLinkAssumption DEF Served, ChannelReady, NothingLeaks
<1>. QED
  BY <1>1, <1>2 DEF ConnInv

\* An attempt fails and leaves no link behind.
LEMMA FailsWell ==
  ASSUME ConnInv, NEW s \in Attempts, attempt[s].at # "idle", NEW t \in BOOLEAN, Fails(s, t),
         UNCHANGED shuttingDown, t \/ (channel = None /\ (timer => t)) \/ shuttingDown,
         FieldsOK', channel' = None,
         \A i \in Links : link'[i] # "open",
         \A i \in Links, q \in Queues : served'[i][q] = 0
  PROVE  ConnInv'
<1>1. /\ TryingOK' /\ timer' \in BOOLEAN
      /\ \A r \in Attempts : attempt'[r].at \in {"idle", "backoff"} /\ attempt'[r].conn = None
      /\ \A r \in Attempts : attempt'[r].at = "backoff" => attempt'[r].try < MaxAttempts
      /\ boot' \in {boot, "exited"}
      /\ t => timer'
      /\ ~ shuttingDown /\ (\E r \in Attempts : "timer" \in awaiting[r]) =>
           timer' \/ \E r \in Attempts : "timer" \in awaiting'[r]
  BY FailsEffect DEF ConnInv
<1>2. ReconnectOwed'
  BY <1>1 DEF ConnInv, ReconnectOwed
<1>. QED
  BY <1>1, <1>2, Disconnected

\* What a loss does to the links.
LEMMA BreaksEffect ==
  ASSUME FieldsOK, NEW i \in Links, NEW kind, Breaks(i, kind)
  PROVE  /\ link' \in [Links -> {"none", "open", "closing"}]
         /\ link'[i] = IF kind = "channel" THEN "closing" ELSE "none"
         /\ \A j \in Links : j # i => link'[j] = link[j]
         /\ served' \in [Links -> [Queues -> Nat]]
         /\ \A q \in Queues : served'[i][q] = 0
         /\ \A j \in Links : j # i => served'[j] = served[j]
         /\ Alive /\ link[i] = "open" /\ up' \in BOOLEAN
BY DEF FieldsOK, Breaks, NoConsumers

-----------------------------------------------------------------------------
(* The steps of an attempt. *)

LEMMA StepConnects ==
  ASSUME ConnInv, NEW s \in Attempts, Connects(s)
  PROVE  ConnInv'
<1>1. /\ attempt[s].at = "connecting" /\ channel = None /\ attempt[s].at # "idle"
      /\ s = connectPromise /\ attempt[s] \in AttemptRecord
  BY Running DEF Connects, ConnInv, AttemptShape, TryingOK, AttemptRecord
<1>2. PICK i \in Links : /\ link' = [link EXCEPT ![i] = "open"]
                         /\ attempt' = [attempt EXCEPT ![s].at = "setup", ![s].conn = i]
  BY DEF Connects
<1>3. PICK rec \in AttemptRecord :
        rec.at = "setup" /\ rec.conn = i /\ attempt' = [attempt EXCEPT ![s] = rec]
  <2>1. PICK a \in AttemptRecord : a = attempt[s]
    BY <1>1
  <2>2. PICK rec : rec = [a EXCEPT !.at = "setup", !.conn = i]
    OBVIOUS
  <2>3. rec = [at |-> "setup", try |-> a.try, conn |-> i, todo |-> a.todo]
    BY <2>2 DEF AttemptRecord
  <2>4. rec \in AttemptRecord
    BY <2>3 DEF AttemptRecord
  <2>5. attempt' = [attempt EXCEPT ![s] = rec]
    BY <1>2, <2>1, <2>2 DEF ConnInv, TryingOK
  <2>. QED
    BY <2>3, <2>4, <2>5
<1>4. /\ TryingOK' /\ attempt'[s] = rec /\ \A r \in Attempts : r # s => attempt'[r] = Idle
      /\ UNCHANGED <<awaiting, boot>>
  BY <1>1, <1>3, Moves DEF Connects, ConnInv
<1>5. FieldsOK' /\ UNCHANGED <<channel, active, timer, shuttingDown, served>>
  BY <1>2 DEF Connects, ConnInv, FieldsOK, fields
<1>6. link'[i] = "open" /\ \A j \in Links : j # i => link'[j] = link[j] /\ link[j] # "open"
  <2>1. \A j \in Links : link[j] # "open"
    BY <1>1, NoChannel
  <2>. QED
    BY <1>2, <2>1 DEF ConnInv, FieldsOK
<1>7. AttemptShape'
  BY <1>1, <1>3, <1>4, <1>5, <1>6, NoLinkAssumption DEF AttemptShape, Idle
<1>8. Served' /\ ChannelReady' /\ NothingLeaks'
  BY <1>1, <1>3, <1>4, <1>5, <1>6, NoLinkAssumption
  DEF ConnInv, Served, ChannelReady, NothingLeaks
<1>9. ReconnectOwed'
  BY <1>4, <1>5 DEF ConnInv, ReconnectOwed
<1>. QED
  BY <1>4, <1>5, <1>7, <1>8, <1>9 DEF ConnInv

LEMMA StepRefused ==
  ASSUME ConnInv, NEW s \in Attempts, Refused(s)
  PROVE  ConnInv'
<1>1. attempt[s].at = "connecting" /\ channel = None /\ attempt[s].at # "idle"
  BY DEF Refused, ConnInv, AttemptShape
<1>2. \A i \in Links : link[i] # "open" /\ \A q \in Queues : served[i][q] = 0
  BY <1>1, NoChannel
<1>3. PICK t \in BOOLEAN : t = timer /\ Fails(s, t)
  BY DEF Refused, ConnInv, FieldsOK
<1>4. timer' \in BOOLEAN
  BY <1>1, <1>3, FailsEffect DEF ConnInv
<1>5. FieldsOK' /\ UNCHANGED <<link, served, channel, shuttingDown>>
  BY <1>4 DEF Refused, ConnInv, FieldsOK, broker, fields
<1>6. timer => t
  BY <1>3
<1>. QED
  BY <1>1, <1>2, <1>3, <1>5, <1>6, FailsWell

LEMMA StepSetsUp ==
  ASSUME ConnInv, NEW s \in Attempts, SetsUp(s)
  PROVE  ConnInv'
<1>1. /\ attempt[s].at = "setup" /\ channel = None /\ attempt[s].at # "idle" /\ Alive
      /\ attempt[s].conn \in Links /\ link[attempt[s].conn] = "open"
      /\ attempt[s] \in AttemptRecord
  BY DEF SetsUp, ConnInv, AttemptShape, TryingOK, AttemptRecord
<1>2. PICK i \in Links : i = attempt[s].conn
  BY <1>1
<1>3. /\ channel' = i /\ active' = {}
      /\ attempt' = [attempt EXCEPT ![s].at = "starting", ![s].todo = Queues \ active']
      /\ UNCHANGED <<timer, connectPromise, awaiting, boot, link, served, up, shuttingDown>>
  BY <1>2, QueuesAssumption DEF SetsUp, Cleared, broker
<1>4. PICK rec \in AttemptRecord :
        /\ rec.at = "starting" /\ rec.conn = i /\ rec.todo = Queues
        /\ attempt' = [attempt EXCEPT ![s] = rec]
  <2>1. PICK a \in AttemptRecord : a = attempt[s]
    BY <1>1
  <2>2. PICK rec : rec = [a EXCEPT !.at = "starting", !.todo = Queues]
    OBVIOUS
  <2>3. rec = [at |-> "starting", try |-> a.try, conn |-> i, todo |-> Queues]
    BY <1>2, <2>1, <2>2 DEF AttemptRecord
  <2>4. rec \in AttemptRecord
    BY <2>1, <2>3 DEF AttemptRecord
  <2>5. attempt' = [attempt EXCEPT ![s] = rec]
    <3>1. attempt' = [attempt EXCEPT ![s].at = "starting", ![s].todo = Queues]
      BY <1>3
    <3>. QED
      BY <2>1, <2>2, <3>1 DEF ConnInv, TryingOK
  <2>. QED
    BY <2>3, <2>4, <2>5
<1>5. TryingOK' /\ attempt'[s] = rec /\ \A r \in Attempts : r # s => attempt'[r] = Idle
  BY ZenonT(40), <1>1, <1>3, <1>4, Moves DEF ConnInv
<1>6. FieldsOK'
  BY <1>3 DEF ConnInv, FieldsOK
<1>7. AttemptShape'
  <2>1. i # None /\ link'[i] = "open" /\ Queues \ active' = Queues
    BY <1>1, <1>2, <1>3, NoLinkAssumption
  <2>2. \A r \in Attempts : r # s => attempt'[r].at = "idle" /\ attempt'[r].conn = None
    BY <1>5 DEF Idle
  <2>. QED
    BY <1>3, <1>4, <1>5, <2>1, <2>2 DEF AttemptShape
<1>8. Served'
  BY <1>1, <1>3, NoChannel DEF Served
<1>9. ChannelReady' /\ ReconnectOwed'
  BY <1>1, <1>2, <1>3, <1>4, <1>5, NoLinkAssumption DEF ChannelReady, ReconnectOwed
<1>10. NothingLeaks'
  BY <1>1, <1>2, <1>3, NoChannel DEF NothingLeaks
<1>. QED
  BY <1>5, <1>6, <1>7, <1>8, <1>9, <1>10 DEF ConnInv

LEMMA StepConsumes ==
  ASSUME ConnInv, NEW s \in Attempts, NEW q \in Queues, Consumes(s, q)
  PROVE  ConnInv'
<1>1. /\ attempt[s].at = "starting" /\ attempt[s].at # "idle" /\ Alive
      /\ attempt[s].conn \in Links /\ channel = attempt[s].conn
      /\ link[attempt[s].conn] = "open"
      /\ attempt[s].todo = Queues \ active /\ q \in attempt[s].todo
      /\ attempt[s] \in AttemptRecord
  BY DEF Consumes, ConnInv, AttemptShape, TryingOK, AttemptRecord
<1>2. PICK i \in Links : i = attempt[s].conn
  BY <1>1
<1>3. /\ served' = [served EXCEPT ![i][q] = @ + 1] /\ active' = active \cup {q}
      /\ UNCHANGED <<up, link, channel, shuttingDown>>
  BY <1>2 DEF Consumes
<1>4. served[i][q] = 0 /\ i # None /\ channel = i
  BY <1>1, <1>2, NoLinkAssumption DEF ConnInv, Served
<1>5. /\ served' \in [Links -> [Queues -> Nat]]
      /\ \A j \in Links, r \in Queues : served'[j][r] = IF j = i /\ r = q THEN 1 ELSE served[j][r]
  BY <1>3, <1>4 DEF ConnInv, FieldsOK
<1>6. Served'
  <2>1. \A j \in Links, r \in Queues : served[j][r] = IF channel = j /\ r \in active THEN 1 ELSE 0
    BY DEF ConnInv, Served
  <2>2. \A j \in Links, r \in Queues : served'[j][r] = IF channel' = j /\ r \in active' THEN 1 ELSE 0
    BY <1>3, <1>4, <1>5, <2>1
  <2>. QED
    BY <2>2 DEF Served
<1>7. NothingLeaks'
  <2>1. ASSUME NEW j \in Links, link[j] = "open" PROVE channel = j
    <3>1. PICK r \in Attempts : channel # j => attempt[r].conn = j /\ attempt[r].at # "idle"
      BY <1>1, <2>1 DEF ConnInv, NothingLeaks
    <3>. QED
      BY <1>1, <3>1, Running DEF ConnInv
  <2>. QED
    BY <1>3, <2>1 DEF NothingLeaks
<1>8. ReconnectOwed'
  BY <1>3, <1>4 DEF ReconnectOwed
<1>9. CASE attempt[s].todo = {q}
  <2>1. Ends(s, timer, channel # None)
    BY <1>9 DEF Consumes
  <2>2. PICK t \in BOOLEAN : t = timer
    BY DEF ConnInv, FieldsOK
  <2>3. Ends(s, t, TRUE)
    BY <1>4, <2>1, <2>2
  <2>4. TryingOK' /\ timer' = t /\ \A r \in Attempts : attempt'[r] = Idle
    BY <1>1, <2>3, EndsEffect DEF ConnInv
  <2>5. FieldsOK'
    BY <1>3, <1>5, <2>4 DEF ConnInv, FieldsOK
  <2>6. AttemptShape'
    BY <2>4 DEF AttemptShape, Idle
  <2>7. active' = Queues
    BY <1>1, <1>3, <1>9 DEF ConnInv, FieldsOK
  <2>8. ChannelReady'
    BY <1>1, <1>2, <1>3, <2>7 DEF ChannelReady
  <2>. QED
    BY <1>6, <1>7, <1>8, <2>4, <2>5, <2>6, <2>8 DEF ConnInv
<1>10. CASE attempt[s].todo # {q}
  <2>1. /\ attempt' = [attempt EXCEPT ![s].todo = @ \ {q}]
        /\ UNCHANGED <<timer, connectPromise, awaiting, boot>>
    BY <1>10 DEF Consumes
  <2>2. PICK rec \in AttemptRecord :
          /\ rec.at = "starting" /\ rec.conn = i /\ rec.todo = Queues \ active'
          /\ attempt' = [attempt EXCEPT ![s] = rec]
    <3>1. PICK a \in AttemptRecord : a = attempt[s]
      BY <1>1
    <3>2. PICK rec : rec = [a EXCEPT !.todo = @ \ {q}]
      OBVIOUS
    <3>3. rec = [at |-> "starting", try |-> a.try, conn |-> i, todo |-> a.todo \ {q}]
      BY <1>1, <1>2, <3>1, <3>2 DEF AttemptRecord
    <3>4. rec \in AttemptRecord /\ rec.todo = Queues \ active'
      BY <1>1, <1>3, <3>1, <3>3 DEF AttemptRecord
    <3>5. attempt' = [attempt EXCEPT ![s] = rec]
      BY <2>1, <3>1, <3>2 DEF ConnInv, TryingOK
    <3>. QED
      BY <3>3, <3>4, <3>5
  <2>3. TryingOK' /\ attempt'[s] = rec /\ \A r \in Attempts : r # s => attempt'[r] = Idle
    BY <1>1, <2>1, <2>2, Moves DEF ConnInv
  <2>4. FieldsOK'
    BY <1>3, <1>5, <2>1 DEF ConnInv, FieldsOK
  <2>5. AttemptShape'
    <3>1. \A r \in Attempts : r # s => attempt'[r].at = "idle" /\ attempt'[r].conn = None
      BY <2>3 DEF Idle
    <3>2. link'[i] = "open" /\ channel' = i
      BY <1>1, <1>2, <1>3
    <3>. QED
      BY <1>4, <2>2, <2>3, <3>1, <3>2 DEF AttemptShape
  <2>6. ChannelReady'
    BY <1>1, <1>2, <1>3, <2>2, <2>3 DEF ChannelReady
  <2>. QED
    BY <1>6, <1>7, <1>8, <2>3, <2>4, <2>5, <2>6 DEF ConnInv
<1>. QED
  BY <1>9, <1>10

LEMMA StepTriesAgain ==
  ASSUME ConnInv, NEW s \in Attempts, TriesAgain(s)
  PROVE  ConnInv'
<1>1. /\ attempt[s].at = "backoff" /\ attempt[s].at # "idle" /\ channel = None
      /\ attempt[s].try < MaxAttempts /\ attempt[s].conn = None
      /\ attempt[s] \in AttemptRecord
  BY DEF TriesAgain, ConnInv, AttemptShape, TryingOK, AttemptRecord
<1>2. \A i \in Links : link[i] # "open" /\ \A q \in Queues : served[i][q] = 0
  BY <1>1, NoChannel
<1>3. UNCHANGED <<up, link, served, channel, active, shuttingDown>>
  BY DEF TriesAgain, broker, fields
<1>4. CASE shuttingDown
  <2>1. PICK t \in BOOLEAN : t = IF "timer" \in awaiting[s] THEN AfterExhausted(timer) ELSE timer
    BY DEF ConnInv, FieldsOK, AfterExhausted, Scheduled
  <2>2. Ends(s, t, FALSE)
    BY <1>4, <2>1 DEF TriesAgain, Rejects
  <2>3. TryingOK' /\ timer' = t /\ \A r \in Attempts : attempt'[r] = Idle
    BY <1>1, <2>2, EndsEffect DEF ConnInv
  <2>4. FieldsOK'
    BY <1>3, <2>3 DEF ConnInv, FieldsOK
  <2>5. ReconnectOwed'
    BY <1>3, <1>4 DEF ReconnectOwed
  <2>6. \A r \in Attempts : attempt'[r].at = "idle" /\ attempt'[r].conn = None
    BY <2>3 DEF Idle
  <2>. QED
    BY <1>1, <1>2, <1>3, <2>3, <2>4, <2>5, <2>6, Disconnected
<1>5. CASE ~ shuttingDown
  <2>1. /\ attempt' = [attempt EXCEPT ![s].at = "connecting", ![s].try = @ + 1]
        /\ UNCHANGED <<timer, connectPromise, awaiting, boot>>
    BY <1>5 DEF TriesAgain
  <2>2. PICK rec \in AttemptRecord :
          /\ rec.at = "connecting" /\ rec.conn = None
          /\ attempt' = [attempt EXCEPT ![s] = rec]
    <3>1. PICK a \in AttemptRecord : a = attempt[s]
      BY <1>1
    <3>2. PICK rec : rec = [a EXCEPT !.at = "connecting", !.try = @ + 1]
      OBVIOUS
    <3>3. rec = [at |-> "connecting", try |-> a.try + 1, conn |-> None, todo |-> a.todo]
      BY <1>1, <3>1, <3>2 DEF AttemptRecord
    <3>4. a.try + 1 \in 0..MaxAttempts
      BY <1>1, <3>1, MaxAttemptsAssumption DEF AttemptRecord
    <3>5. rec \in AttemptRecord
      BY <3>1, <3>3, <3>4 DEF AttemptRecord
    <3>6. attempt' = [attempt EXCEPT ![s] = rec]
      BY <2>1, <3>1, <3>2 DEF ConnInv, TryingOK
    <3>. QED
      BY <3>3, <3>5, <3>6
  <2>3. TryingOK' /\ attempt'[s] = rec /\ \A r \in Attempts : r # s => attempt'[r] = Idle
    BY ZenonT(40), <1>1, <2>1, <2>2, Moves DEF ConnInv
  <2>4. FieldsOK'
    BY <1>3, <2>1 DEF ConnInv, FieldsOK
  <2>5. ReconnectOwed'
    BY <1>3, <2>1 DEF ConnInv, ReconnectOwed
  <2>6. \A r \in Attempts : attempt'[r].at \in {"idle", "connecting"} /\ attempt'[r].conn = None
    BY <2>2, <2>3 DEF Idle
  <2>. QED
    BY <1>1, <1>2, <1>3, <2>3, <2>4, <2>5, <2>6, Disconnected
<1>. QED
  BY <1>4, <1>5

-----------------------------------------------------------------------------
(* Losses. *)

LEMMA StepBreaksInSetup ==
  ASSUME ConnInv, NEW s \in Attempts, NEW kind, NEW late \in BOOLEAN, BreaksInSetup(s, kind, late)
  PROVE  ConnInv'
<1>1. /\ attempt[s].at = "setup" /\ channel = None /\ attempt[s].at # "idle"
      /\ attempt[s].conn \in Links /\ attempt[s].conn # None /\ attempt[s] \in AttemptRecord
  BY DEF BreaksInSetup, ConnInv, AttemptShape, TryingOK, AttemptRecord
<1>2. PICK i \in Links : i = attempt[s].conn
  BY <1>1
<1>3. Breaks(i, kind) /\ UNCHANGED shuttingDown /\ channel' = None /\ active' \subseteq Queues
  BY <1>1, <1>2 DEF BreaksInSetup, fields, ConnInv, FieldsOK
<1>4. /\ link' \in [Links -> {"none", "open", "closing"}]
      /\ link'[i] = IF kind = "channel" THEN "closing" ELSE "none"
      /\ \A j \in Links : j # i => link'[j] = link[j]
      /\ served' \in [Links -> [Queues -> Nat]]
      /\ \A q \in Queues : served'[i][q] = 0
      /\ \A j \in Links : j # i => served'[j] = served[j]
      /\ up' \in BOOLEAN
  BY <1>3, BreaksEffect DEF ConnInv
<1>5. \A j \in Links : j # i => link[j] # "open" /\ \A q \in Queues : served[j][q] = 0
  BY <1>1, <1>2, NoChannel
<1>6. \A j \in Links : link'[j] # "open" /\ \A q \in Queues : served'[j][q] = 0
  BY <1>4, <1>5
<1>7. CASE kind = "channel"
  <2>1. /\ attempt' = [attempt EXCEPT ![s].at = "closing", ![s].todo = {}]
        /\ UNCHANGED <<connectPromise, awaiting, boot, timer>>
    BY <1>7 DEF BreaksInSetup, Closes
  <2>2. PICK rec \in AttemptRecord :
          /\ rec.at = "closing" /\ rec.conn = i
          /\ attempt' = [attempt EXCEPT ![s] = rec]
    <3>1. PICK a \in AttemptRecord : a = attempt[s]
      BY <1>1
    <3>2. PICK rec : rec = [a EXCEPT !.at = "closing", !.todo = {}]
      OBVIOUS
    <3>3. rec = [at |-> "closing", try |-> a.try, conn |-> i, todo |-> {}]
      BY <1>2, <3>1, <3>2 DEF AttemptRecord
    <3>4. rec \in AttemptRecord
      BY <3>1, <3>3 DEF AttemptRecord
    <3>5. attempt' = [attempt EXCEPT ![s] = rec]
      BY <2>1, <3>1, <3>2 DEF ConnInv, TryingOK
    <3>. QED
      BY <3>3, <3>4, <3>5
  <2>3. TryingOK' /\ attempt'[s] = rec /\ \A r \in Attempts : r # s => attempt'[r] = Idle
    BY <1>1, <2>1, <2>2, Moves DEF ConnInv
  <2>4. FieldsOK'
    BY <1>3, <1>4, <2>1 DEF ConnInv, FieldsOK
  <2>5. ReconnectOwed'
    BY <1>1, <1>3, <2>1 DEF ConnInv, ReconnectOwed
  <2>6. /\ attempt'[s].at = "closing" /\ attempt'[s].conn = i /\ i # None
        /\ \A r \in Attempts : r # s => attempt'[r].at = "idle" /\ attempt'[r].conn = None
    BY <1>1, <1>2, <2>2, <2>3 DEF Idle
  <2>7. \A r \in Attempts :
          \/ attempt'[r].at \in {"idle", "connecting", "backoff"} /\ attempt'[r].conn = None
          \/ /\ attempt'[r].at = "closing" /\ attempt'[r].conn # None
             /\ link'[attempt'[r].conn] = "closing"
    BY <1>4, <1>7, <2>6
  <2>8. \A r \in Attempts : attempt'[r].at # "backoff"
    BY <2>6
  <2>. QED
    BY <1>3, <1>6, <2>3, <2>4, <2>5, <2>7, <2>8, Disconnected
<1>8. CASE kind # "channel"
  <2>1. PICK t \in BOOLEAN : t = timer /\ Fails(s, t)
    BY <1>8 DEF BreaksInSetup, ConnInv, FieldsOK
  <2>2. timer' \in BOOLEAN
    BY <1>1, <2>1, FailsEffect DEF ConnInv
  <2>3. FieldsOK'
    BY <1>3, <1>4, <2>2 DEF ConnInv, FieldsOK
  <2>4. timer => t
    BY <2>1
  <2>. QED
    BY <1>1, <1>3, <1>6, <2>1, <2>3, <2>4, FailsWell
<1>. QED
  BY <1>7, <1>8

LEMMA StepCrashesInSetup ==
  ASSUME ConnInv, NEW s \in Attempts, NEW kind, CrashesInSetup(s, kind)
  PROVE  ConnInv'
<1>1. /\ attempt[s].at = "setup" /\ channel = None /\ attempt[s].at # "idle"
      /\ attempt[s].conn \in Links
  BY NoLinkAssumption DEF CrashesInSetup, ConnInv, AttemptShape, TryingOK
<1>2. PICK i \in Links : i = attempt[s].conn
  BY <1>1
<1>3. /\ Breaks(i, kind) /\ boot' = "exited"
      /\ UNCHANGED <<channel, active, timer, connectPromise, attempt, awaiting, shuttingDown>>
  BY <1>2 DEF CrashesInSetup, fields, trying
<1>4. /\ link' \in [Links -> {"none", "open", "closing"}]
      /\ link'[i] # "open"
      /\ \A j \in Links : j # i => link'[j] = link[j]
      /\ served' \in [Links -> [Queues -> Nat]]
      /\ \A q \in Queues : served'[i][q] = 0
      /\ \A j \in Links : j # i => served'[j] = served[j]
      /\ up' \in BOOLEAN
  BY <1>3, BreaksEffect DEF ConnInv
<1>5. \A j \in Links : link'[j] # "open" /\ \A q \in Queues : served'[j][q] = 0
  BY <1>1, <1>2, <1>4, NoChannel
<1>6. FieldsOK' /\ TryingOK'
  BY <1>3, <1>4 DEF ConnInv, FieldsOK, TryingOK, OneAttempt
<1>7. AttemptShape'
  BY <1>3 DEF ConnInv, AttemptShape, Alive
<1>8. Served' /\ ChannelReady' /\ NothingLeaks' /\ ReconnectOwed'
  BY <1>1, <1>3, <1>5, NoLinkAssumption DEF Served, ChannelReady, NothingLeaks, ReconnectOwed
<1>. QED
  BY <1>6, <1>7, <1>8 DEF ConnInv

\* While consumers are being started, the only open link is the one in the fields.
LEMMA InStart ==
  ASSUME ConnInv, NEW s \in Attempts, attempt[s].at = "starting", Alive
  PROVE  /\ attempt[s].conn \in Links /\ channel = attempt[s].conn /\ attempt[s].conn # None
         /\ \A j \in Links : j # channel => link[j] # "open" /\ \A q \in Queues : served[j][q] = 0
<1>1. /\ attempt[s].conn \in Links /\ channel = attempt[s].conn /\ attempt[s].conn # None
      /\ attempt[s].at # "idle"
  BY NoLinkAssumption DEF ConnInv, AttemptShape, TryingOK
<1>2. ASSUME NEW j \in Links, j # channel, link[j] = "open" PROVE FALSE
  <2>1. PICK r \in Attempts : attempt[r].conn = j /\ attempt[r].at # "idle"
    BY <1>2 DEF ConnInv, NothingLeaks
  <2>. QED
    BY <1>1, <1>2, <2>1, Running DEF ConnInv
<1>3. ASSUME NEW j \in Links, j # channel, NEW q \in Queues PROVE served[j][q] = 0
  BY <1>3 DEF ConnInv, Served
<1>. QED
  BY <1>1, <1>2, <1>3

LEMMA StepBreaksInStart ==
  ASSUME ConnInv, NEW s \in Attempts, NEW kind,
         BreaksInStart(s, kind) \/ \E q \in Queues : BreaksAfterReply(s, q, kind)
  PROVE  ConnInv'
<1>1. /\ attempt[s].at = "starting" /\ attempt[s].at # "idle" /\ UNCHANGED shuttingDown
      /\ Breaks(attempt[s].conn, kind)
  BY DEF BreaksInStart, BreaksAfterReply
<1>2. /\ attempt[s].conn \in Links /\ channel = attempt[s].conn /\ attempt[s].conn # None
      /\ \A j \in Links : j # channel => link[j] # "open" /\ \A q \in Queues : served[j][q] = 0
  BY <1>1, InStart DEF Breaks
<1>3. PICK i \in Links : i = attempt[s].conn
  BY <1>2
<1>4. Breaks(i, kind) /\ channel = i /\ i # None
  BY <1>1, <1>2, <1>3
<1>5. /\ link' \in [Links -> {"none", "open", "closing"}]
      /\ link'[i] # "open"
      /\ \A j \in Links : j # i => link'[j] = link[j]
      /\ served' \in [Links -> [Queues -> Nat]]
      /\ \A q \in Queues : served'[i][q] = 0
      /\ \A j \in Links : j # i => served'[j] = served[j]
      /\ up' \in BOOLEAN
  BY <1>4, BreaksEffect DEF ConnInv
<1>6. \A j \in Links : link'[j] # "open" /\ \A q \in Queues : served'[j][q] = 0
  BY <1>2, <1>4, <1>5
<1>7. PICK t \in BOOLEAN : t = (timer \/ ~ shuttingDown) /\ t = TimerAfterLoss(i)
  BY <1>4 DEF TimerAfterLoss, AfterLoss, Scheduled
<1>8. ASSUME Fails(s, t), channel' = None, active' = {} PROVE ConnInv'
  <2>1. timer' \in BOOLEAN
    BY <1>1, <1>8, FailsEffect DEF ConnInv
  <2>2. FieldsOK'
    BY <1>1, <1>5, <1>8, <2>1 DEF ConnInv, FieldsOK
  <2>3. t \/ shuttingDown
    BY <1>7
  <2>. QED
    BY <1>1, <1>6, <1>8, <2>2, <2>3, FailsWell
<1>9. CASE BreaksInStart(s, kind)
  <2>1. Fails(s, TimerAfterLoss(i)) /\ channel' = None /\ active' = {}
    BY <1>3, <1>9 DEF BreaksInStart
  <2>. QED
    BY <1>7, <1>8, <2>1
<1>10. ASSUME NEW q \in Queues, BreaksAfterReply(s, q, kind) PROVE ConnInv'
  <2>1. CASE attempt[s].todo = {q}
    <3>1. /\ channel' = None /\ active' = {q}
          /\ Ends(s, TimerAfterLoss(i), FALSE)
      BY <1>3, <1>4, <1>10, <2>1 DEF BreaksAfterReply, ChannelAfterLoss
    <3>2. Ends(s, t, FALSE)
      BY <1>7, <3>1
    <3>3. /\ TryingOK' /\ timer' = t /\ (boot' = boot \/ boot' = "exited")
          /\ \A r \in Attempts : attempt'[r] = Idle
      BY <1>1, <3>2, EndsEffect DEF ConnInv
    <3>4. FieldsOK'
      BY <1>1, <1>5, <3>1, <3>3 DEF ConnInv, FieldsOK
    <3>5. ReconnectOwed'
      BY <1>1, <1>7, <3>3 DEF ReconnectOwed
    <3>6. \A r \in Attempts : attempt'[r].at = "idle" /\ attempt'[r].conn = None
      BY <3>3 DEF Idle
    <3>. QED
      BY <1>6, <3>1, <3>3, <3>4, <3>5, <3>6, Disconnected
  <2>2. CASE attempt[s].todo # {q}
    <3>1. Fails(s, TimerAfterLoss(i)) /\ channel' = None /\ active' = {}
      BY <1>3, <1>10, <2>2 DEF BreaksAfterReply
    <3>. QED
      BY <1>7, <1>8, <3>1
  <2>. QED
    BY <2>1, <2>2
<1>. QED
  BY <1>9, <1>10

\* With a channel in use nobody is connecting.
LEMMA InUse ==
  ASSUME ConnInv, channel # None, \A s \in Attempts : attempt[s].conn # channel
  PROVE  /\ \A s \in Attempts : attempt[s].at = "idle" /\ attempt[s].conn = None
         /\ \A j \in Links : j # channel => link[j] # "open" /\ \A q \in Queues : served[j][q] = 0
<1>1. \A s \in Attempts : attempt[s].at = "idle" /\ attempt[s].conn = None
  BY DEF ConnInv, AttemptShape
<1>. QED
  BY <1>1 DEF ConnInv, NothingLeaks, Served

LEMMA StepBreaksInUse ==
  ASSUME ConnInv, NEW kind, BreaksInUse(kind)
  PROVE  ConnInv'
<1>1. /\ channel # None /\ channel \in Links /\ Breaks(channel, kind)
      /\ channel' = None /\ active' = {} /\ timer' = (timer \/ ~ shuttingDown)
      /\ UNCHANGED <<connectPromise, attempt, awaiting, boot, shuttingDown>>
  BY DEF BreaksInUse, AfterLoss, Scheduled, trying, ConnInv, FieldsOK
<1>2. /\ \A s \in Attempts : attempt[s].at = "idle" /\ attempt[s].conn = None
      /\ \A j \in Links : j # channel => link[j] # "open" /\ \A q \in Queues : served[j][q] = 0
  BY InUse DEF BreaksInUse
<1>3. PICK i \in Links : i = channel
  BY <1>1
<1>4. /\ link' \in [Links -> {"none", "open", "closing"}]
      /\ link'[i] # "open"
      /\ \A j \in Links : j # i => link'[j] = link[j]
      /\ served' \in [Links -> [Queues -> Nat]]
      /\ \A q \in Queues : served'[i][q] = 0
      /\ \A j \in Links : j # i => served'[j] = served[j]
      /\ up' \in BOOLEAN
  BY <1>1, <1>3, BreaksEffect DEF ConnInv
<1>5. \A j \in Links : link'[j] # "open" /\ \A q \in Queues : served'[j][q] = 0
  BY <1>2, <1>3, <1>4
<1>6. TryingOK' /\ FieldsOK'
  BY <1>1, <1>4 DEF ConnInv, FieldsOK, TryingOK, OneAttempt
<1>7. ReconnectOwed'
  BY <1>1 DEF ReconnectOwed
<1>8. \A s \in Attempts : attempt'[s].at = "idle" /\ attempt'[s].conn = None
  BY <1>1, <1>2
<1>. QED
  BY <1>1, <1>5, <1>6, <1>7, <1>8, Disconnected

LEMMA StepClosed ==
  ASSUME ConnInv, NEW i \in Links, Closed(i)
  PROVE  ConnInv'
<1>1. /\ Alive /\ link[i] = "closing" /\ link' = [link EXCEPT ![i] = "none"]
      /\ UNCHANGED <<up, served, channel, active, shuttingDown>>
  BY DEF Closed, fields
<1>2. /\ link' \in [Links -> {"none", "open", "closing"}] /\ link'[i] = "none"
      /\ \A j \in Links : j # i => link'[j] = link[j]
  BY <1>1 DEF ConnInv, FieldsOK
<1>3. ASSUME NEW s \in Attempts, attempt[s].conn = i, Fails(s, timer) PROVE ConnInv'
  <2>1. attempt[s].at = "closing" /\ channel = None /\ attempt[s].at # "idle"
    BY <1>1, <1>3, NoLinkAssumption DEF ConnInv, AttemptShape
  <2>2. \A j \in Links : link[j] # "open" /\ \A q \in Queues : served[j][q] = 0
    BY <2>1, NoChannel
  <2>3. PICK t \in BOOLEAN : t = timer /\ Fails(s, t)
    BY <1>3 DEF ConnInv, FieldsOK
  <2>4. timer' \in BOOLEAN
    BY <2>1, <2>3, FailsEffect DEF ConnInv
  <2>5. FieldsOK'
    BY <1>1, <1>2, <2>4 DEF ConnInv, FieldsOK
  <2>6. timer => t
    BY <2>3
  <2>7. \A j \in Links : link'[j] # "open" /\ \A q \in Queues : served'[j][q] = 0
    BY <1>1, <1>2, <2>2
  <2>. QED
    BY <1>1, <2>1, <2>3, <2>5, <2>6, <2>7, FailsWell
<1>4. ASSUME \A s \in Attempts : attempt[s].conn # i,
             UNCHANGED <<timer, connectPromise, attempt, awaiting, boot>>
      PROVE  ConnInv'
  <2>1. FieldsOK' /\ TryingOK'
    BY <1>1, <1>2, <1>4 DEF ConnInv, FieldsOK, TryingOK, OneAttempt
  <2>2. AttemptShape'
    <3>1. \A s \in Attempts : attempt[s].conn # None => attempt[s].conn \in Links
      BY DEF ConnInv, TryingOK
    <3>. QED
      BY <1>1, <1>2, <1>4, <3>1 DEF ConnInv, AttemptShape, Alive
  <2>3. Served' /\ ReconnectOwed' /\ NothingLeaks'
    BY <1>1, <1>2, <1>4 DEF ConnInv, Served, ReconnectOwed, NothingLeaks
  <2>4. ChannelReady'
    <3>1. channel # None => channel \in Links /\ link[channel] = "open"
      BY DEF ConnInv, FieldsOK, ChannelReady
    <3>. QED
      BY <1>1, <1>2, <1>4, <3>1 DEF ConnInv, ChannelReady
  <2>. QED
    BY <2>1, <2>2, <2>3, <2>4 DEF ConnInv
<1>. QED
  BY <1>3, <1>4 DEF Closed, trying

-----------------------------------------------------------------------------
(* Callers, shutdown, restarts. *)

\* Somebody without a channel asks for one.
LEMMA StepRetries ==
  ASSUME ConnInv, NEW caller \in Caller, channel = None, ConnectWithRetry(caller),
         UNCHANGED <<up, link, served, channel, active, boot, shuttingDown>>, timer' \in BOOLEAN,
         caller = "timer" \/ UNCHANGED timer
  PROVE  ConnInv'
<1>1. /\ TryingOK'
      /\ \E r \in Attempts : caller \in awaiting'[r]
      /\ \A r \in Attempts : attempt'[r] = attempt[r] \/ attempt'[r] = Begun
      /\ \A r \in Attempts : awaiting[r] \subseteq awaiting'[r]
  BY RetryEffect DEF ConnInv
<1>2. FieldsOK'
  BY DEF ConnInv, FieldsOK
<1>3. Begun.at = "connecting" /\ Begun.conn = None
  BY DEF Begun
<1>4. AttemptShape'
  <2>1. ASSUME NEW s \in Attempts, attempt'[s] = Begun
        PROVE  attempt'[s].at = "connecting" /\ attempt'[s].conn = None
    BY <1>3, <2>1
  <2>2. ASSUME NEW s \in Attempts, attempt'[s] = attempt[s]
        PROVE  /\ attempt'[s].at \in {"setup", "starting", "closing"} <=> attempt'[s].conn # None
               /\ attempt'[s].at = "backoff" => attempt'[s].try < MaxAttempts
               /\ attempt'[s].at = "starting" =>
                    attempt'[s].todo = Queues \ active' /\ channel' = attempt'[s].conn
               /\ attempt'[s].at \notin {"idle", "starting"} => channel' = None
               /\ Alive' /\ attempt'[s].at \in {"setup", "starting"} => link'[attempt'[s].conn] = "open"
               /\ Alive' /\ attempt'[s].at = "closing" => link'[attempt'[s].conn] = "closing"
    BY <2>2 DEF ConnInv, AttemptShape, Alive
  <2>. QED
    BY <1>1, <2>1, <2>2 DEF AttemptShape
<1>5. Served' /\ ChannelReady'
  BY DEF ConnInv, Served, ChannelReady
<1>6. NothingLeaks'
  <2>1. ASSUME NEW i \in Links, link[i] = "open"
        PROVE  \E s \in Attempts : attempt'[s].conn = i /\ attempt'[s].at \in {"setup", "starting"}
    <3>1. PICK s \in Attempts : attempt[s].conn = i /\ attempt[s].at \in {"setup", "starting"}
      BY <2>1, NoLinkAssumption DEF ConnInv, NothingLeaks
    <3>2. connectPromise = s /\ connectPromise # None
      BY <3>1, Running, NoLinkAssumption DEF ConnInv
    <3>3. UNCHANGED attempt
      BY <3>2 DEF ConnectWithRetry, Shared
    <3>. QED
      BY <3>1, <3>3
  <2>. QED
    BY <2>1 DEF NothingLeaks
<1>7. ReconnectOwed'
  <2>1. CASE caller = "timer"
    BY <1>1, <2>1 DEF ReconnectOwed
  <2>2. CASE UNCHANGED timer
    BY <1>1, <2>2 DEF ConnInv, ReconnectOwed
  <2>. QED
    BY <2>1, <2>2
<1>. QED
  BY <1>1, <1>2, <1>4, <1>5, <1>6, <1>7 DEF ConnInv

LEMMA StepTimerFires ==
  ASSUME ConnInv, TimerFires
  PROVE  ConnInv'
<1>1. UNCHANGED <<up, link, served, channel, active, boot, shuttingDown>> /\ timer' \in BOOLEAN
  BY DEF TimerFires, broker, fields, AfterExhausted, Scheduled, ConnInv, FieldsOK
<1>2. CASE channel = None /\ ~ (shuttingDown /\ Shared = None)
  BY <1>1, <1>2, StepRetries DEF TimerFires, Caller
<1>3. CASE channel # None \/ (shuttingDown /\ Shared = None)
  <2>1. UNCHANGED <<connectPromise, attempt, awaiting>>
    BY <1>3 DEF TimerFires, trying
  <2>2. FieldsOK' /\ TryingOK'
    BY <1>1, <2>1 DEF ConnInv, FieldsOK, TryingOK, OneAttempt
  <2>3. AttemptShape' /\ Served' /\ ChannelReady' /\ NothingLeaks'
    BY <1>1, <2>1 DEF ConnInv, AttemptShape, Alive, Served, ChannelReady, NothingLeaks
  <2>4. ReconnectOwed'
    BY <1>1, <1>3 DEF ReconnectOwed
  <2>. QED
    BY <2>2, <2>3, <2>4 DEF ConnInv
<1>. QED
  BY <1>2, <1>3

LEMMA StepGetChannel ==
  ASSUME ConnInv, GetChannel
  PROVE  ConnInv'
<1>1. /\ UNCHANGED <<up, link, served, channel, active, timer, boot, shuttingDown>>
      /\ channel = None /\ ConnectWithRetry("publisher")
  BY DEF GetChannel, broker, fields
<1>2. timer' \in BOOLEAN
  BY <1>1 DEF ConnInv, FieldsOK
<1>. QED
  BY <1>1, <1>2, StepRetries DEF Caller

\* Shutdown empties the fields; an attempt that starts consumers there waits for the
\* link to close.
LEMMA StepDestroy ==
  ASSUME ConnInv, Destroy
  PROVE  ConnInv'
<1>1. /\ shuttingDown' = TRUE /\ timer' = FALSE /\ channel' = None /\ active' = {}
      /\ UNCHANGED <<up, connectPromise, awaiting, boot>> /\ Alive
  BY DEF Destroy
<1>2. /\ link' \in [Links -> {"none", "open", "closing"}]
      /\ \A i \in Links : link'[i] = IF i = channel THEN "closing" ELSE link[i]
  BY DEF Destroy, ConnInv, FieldsOK
<1>3. /\ served' \in [Links -> [Queues -> Nat]]
      /\ \A i \in Links, q \in Queues : served'[i][q] = IF i = channel THEN 0 ELSE served[i][q]
  BY DEF Destroy, ConnInv, FieldsOK, NoConsumers
<1>4. FieldsOK'
  BY <1>1, <1>2, <1>3 DEF ConnInv, FieldsOK
<1>5. ReconnectOwed'
  BY <1>1 DEF ReconnectOwed
<1>6. \A i \in Links, q \in Queues : served'[i][q] = 0
  BY <1>3 DEF ConnInv, Served
<1>7. Served' /\ ChannelReady'
  BY <1>1, <1>6, NoLinkAssumption DEF Served, ChannelReady
<1>8. CASE channel = None
  <2>1. UNCHANGED attempt
    <3>1. attempt' = [s \in Attempts |-> attempt[s]]
      BY <1>8 DEF Destroy
    <3>. QED
      BY <3>1 DEF ConnInv, TryingOK
  <2>2. \A i \in Links : link'[i] = link[i]
    BY <1>2, <1>8, NoLinkAssumption
  <2>3. TryingOK'
    BY <1>1, <2>1 DEF ConnInv, TryingOK, OneAttempt
  <2>4. AttemptShape'
    <3>1. \A s \in Attempts : attempt[s].conn # None => attempt[s].conn \in Links
      BY DEF ConnInv, TryingOK
    <3>2. \A s \in Attempts : attempt[s].at # "starting"
      BY <1>8, NoChannel
    <3>. QED
      BY <1>1, <2>1, <2>2, <3>1, <3>2 DEF ConnInv, AttemptShape, Alive
  <2>5. NothingLeaks'
    BY <1>1, <1>8, <2>1, <2>2 DEF ConnInv, NothingLeaks
  <2>. QED
    BY <1>4, <1>5, <1>7, <2>3, <2>4, <2>5 DEF ConnInv
<1>9. CASE channel # None
  <2>1. attempt' = [s \in Attempts |->
          IF attempt[s].conn = channel
          THEN [attempt[s] EXCEPT !.at = "closing", !.todo = {}] ELSE attempt[s]]
    BY <1>9 DEF Destroy
  <2>2. channel \in Links
    BY <1>9 DEF ConnInv, FieldsOK
  <2>3. ASSUME NEW s \in Attempts, attempt[s].conn = channel
        PROVE  /\ attempt'[s] \in AttemptRecord /\ attempt'[s].at = "closing"
               /\ attempt'[s].conn = channel /\ s = connectPromise
    <3>1. PICK a \in AttemptRecord : a = attempt[s]
      BY DEF ConnInv, TryingOK, AttemptRecord
    <3>2. PICK rec : rec = [a EXCEPT !.at = "closing", !.todo = {}]
      OBVIOUS
    <3>3. rec = [at |-> "closing", try |-> a.try, conn |-> a.conn, todo |-> {}]
      BY <3>2 DEF AttemptRecord
    <3>4. rec \in AttemptRecord /\ rec.at = "closing" /\ rec.conn = channel
      BY <2>3, <3>1, <3>3 DEF AttemptRecord
    <3>5. attempt'[s] = rec
      BY <2>1, <2>3, <3>1, <3>2
    <3>6. attempt[s].at # "idle"
      BY <1>9, <2>3 DEF ConnInv, AttemptShape
    <3>. QED
      BY <3>4, <3>5, <3>6, Running DEF ConnInv
  <2>4. ASSUME NEW s \in Attempts, attempt[s].conn # channel
        PROVE  attempt'[s] = attempt[s] /\ attempt[s].at = "idle" /\ attempt[s].conn = None
    BY <1>9, <2>1, <2>4 DEF ConnInv, AttemptShape
  <2>5. attempt' \in [Attempts -> AttemptRecord]
    <3>1. \A s \in Attempts : attempt[s] \in AttemptRecord
      BY DEF ConnInv, TryingOK, AttemptRecord
    <3>2. \A s \in Attempts : attempt'[s] \in AttemptRecord
      BY <2>3, <2>4, <3>1
    <3>3. attempt' = [s \in Attempts |-> attempt'[s]]
      BY <2>1
    <3>. QED
      BY <3>2, <3>3
  <2>6. OneAttempt'
    <3>1. \A s \in Attempts :
            IF s = connectPromise THEN attempt[s].at # "idle" ELSE attempt[s] = Idle /\ awaiting[s] = {}
      BY DEF ConnInv, TryingOK, OneAttempt
    <3>. QED
      BY <1>1, <2>3, <2>4, <3>1 DEF OneAttempt
  <2>7. TryingOK'
    BY <1>1, <2>5, <2>6 DEF ConnInv, TryingOK, AttemptRecord
  <2>8. \A i \in Links : link'[i] # "open"
    <3>1. ASSUME NEW i \in Links, link[i] = "open" PROVE i = channel
      <4>1. channel # i => \E s \in Attempts : attempt[s].conn = i
        BY <3>1 DEF ConnInv, NothingLeaks
      <4>. QED
        BY <2>4, <4>1, NoLinkAssumption
    <3>. QED
      BY <1>2, <3>1
  <2>9. \A s \in Attempts :
          \/ attempt'[s].at \in {"idle", "connecting", "backoff"} /\ attempt'[s].conn = None
          \/ /\ attempt'[s].at = "closing" /\ attempt'[s].conn # None
             /\ link'[attempt'[s].conn] = "closing"
    BY <1>2, <1>9, <2>2, <2>3, <2>4
  <2>10. \A s \in Attempts : attempt'[s].at # "backoff"
    BY <2>3, <2>4
  <2>. QED
    BY <1>1, <1>4, <1>5, <1>6, <2>7, <2>8, <2>9, <2>10, Disconnected
<1>. QED
  BY <1>8, <1>9

\* A process that has just started, for the first time or again.
Started ==
  /\ up \in BOOLEAN /\ shuttingDown \in BOOLEAN
  /\ link = NoLinks /\ served = NobodyServed
  /\ channel = None /\ active = {}
  /\ timer = FALSE
  /\ connectPromise = 1 /\ attempt = FirstAttempt /\ awaiting = FirstAwaiting
  /\ boot = "starting"

LEMMA StartedWell == Started => ConnInv
<1> SUFFICES ASSUME Started PROVE ConnInv
  OBVIOUS
<1> USE DEF Started
<1>1. 1 \in Attempts /\ 1 # None
  BY AttemptsAssumption, NoLinkAssumption
<1>2. \A s \in Attempts : attempt[s] = IF s = 1 THEN Begun ELSE Idle
  BY BegunIs DEF FirstAttempt
<1>3. attempt \in [Attempts -> AttemptRecord]
  BY BegunIs DEF FirstAttempt
<1>4. /\ Begun.at = "connecting" /\ Begun.conn = None
      /\ Idle.at = "idle" /\ Idle.conn = None
  BY DEF Begun, Idle
<1>5. TryingOK
  <2>1. OneAttempt
    BY <1>2, <1>4 DEF OneAttempt, FirstAwaiting
  <2>2. awaiting \in [Attempts -> SUBSET Caller]
    BY DEF FirstAwaiting, Caller
  <2>. QED
    BY <1>1, <1>3, <2>1, <2>2 DEF TryingOK, AttemptRecord
<1>6. FieldsOK
  BY DEF FieldsOK, NoLinks, NobodyServed, NoConsumers
<1>7. AttemptShape
  <2>1. \A s \in Attempts : attempt[s].at \in {"idle", "connecting"} /\ attempt[s].conn = None
    BY <1>2, <1>4
  <2>. QED
    BY <2>1 DEF AttemptShape
<1>8. Served /\ ChannelReady /\ NothingLeaks /\ ReconnectOwed
  BY DEF Served, ChannelReady, NothingLeaks, ReconnectOwed, NoLinks, NobodyServed, NoConsumers
<1>. QED
  BY <1>5, <1>6, <1>7, <1>8 DEF ConnInv

LEMMA StepConn ==
  ASSUME ConnInv, [ConnNext]_connVars
  PROVE  ConnInv' \/ Started'
<1>1. ASSUME NEW s \in Attempts, AttemptNext(s) PROVE ConnInv'
  BY <1>1, StepConnects, StepRefused, StepSetsUp, StepConsumes, StepTriesAgain DEF AttemptNext
<1>2. ASSUME LossNext PROVE ConnInv'
  BY <1>2, StepBreaksInUse, StepBreaksInSetup, StepCrashesInSetup, StepBreaksInStart DEF LossNext
<1>3. ASSUME NEW i \in Links, Closed(i) PROVE ConnInv'
  BY <1>3, StepClosed
<1>4. CASE TimerFires \/ GetChannel \/ Destroy
  BY <1>4, StepTimerFires, StepGetChannel, StepDestroy
<1>5. CASE Restart
  BY <1>5 DEF Restart, Started, ConnInv, FieldsOK
<1>6. ASSUME UNCHANGED <<link, served, fields, timer, trying, boot, shuttingDown>>, up' \in BOOLEAN
      PROVE  ConnInv'
  <2>1. UNCHANGED <<link, served, channel, active, timer, connectPromise, attempt, awaiting, boot, shuttingDown>>
    BY <1>6 DEF fields, trying
  <2>2. FieldsOK' /\ TryingOK'
    BY <1>6, <2>1 DEF ConnInv, FieldsOK, TryingOK, OneAttempt
  <2>3. AttemptShape' /\ Served' /\ ChannelReady' /\ NothingLeaks' /\ ReconnectOwed'
    BY <2>1 DEF ConnInv, AttemptShape, Alive, Served, ChannelReady, NothingLeaks, ReconnectOwed
  <2>. QED
    BY <2>2, <2>3 DEF ConnInv
<1>7. CASE BrokerFails \/ BrokerBack \/ UNCHANGED connVars
  BY <1>6, <1>7 DEF BrokerFails, BrokerBack, connVars, broker, ConnInv, FieldsOK
<1>. QED
  BY <1>1, <1>2, <1>3, <1>4, <1>5, <1>7 DEF ConnNext

LEMMA ConnInvariance == ConnSpec => []ConnInv
<1>1. ConnInit => Started
  BY DEF ConnInit, Started
<1>2. ConnInv /\ [ConnNext]_connVars => ConnInv' \/ Started'
  BY StepConn
<1>. QED
  BY <1>1, <1>2, StartedWell, PTL DEF ConnSpec

-----------------------------------------------------------------------------

\* The fields connection, channel, connectPromise and activeConsumers and the state of
\* each attempt stay in the shapes the code can leave them in; no attempt exceeds
\* RABBITMQ_CONNECT_MAX_ATTEMPTS.
THEOREM ConnTypeCorrect == ConnSpec => []ConnTypeOK
<1>1. ConnInv => ConnTypeOK
  BY DEF ConnInv, FieldsOK, TryingOK, ConnTypeOK
<1>. QED
  BY <1>1, ConnInvariance, PTL

\* However callers, the reconnect timer, losses, shutdown and restarts interleave, no
\* open connection is overwritten or forgotten.
THEOREM NoConnectionLeaks == ConnSpec => []NothingLeaks
<1>1. ConnInv => NothingLeaks
  BY DEF ConnInv
<1>. QED
  BY <1>1, ConnInvariance, PTL

\* The channel callers get is open, and once it is fully started every registered
\* queue has exactly one consumer, on that channel and on no other.
THEOREM EachQueueOneConsumer == ConnSpec => []ConsumersRestored
<1>1. ConnInv => ConsumersRestored
  <2> SUFFICES ASSUME ConnInv PROVE ConsumersRestored
    OBVIOUS
  <2>1. channel # None => channel \in Links /\ link[channel] = "open"
    BY DEF ConnInv, FieldsOK, ChannelReady
  <2>2. channel # None /\ (\A s \in Attempts : attempt[s].conn # channel) =>
          \A q \in Queues : served[channel][q] = 1
    BY <2>1 DEF ConnInv, ChannelReady, Served
  <2>3. \A i \in Links, q \in Queues :
          served[i][q] <= 1 /\ (served[i][q] = 1 /\ link[i] = "open" => channel = i)
    BY DEF ConnInv, Served
  <2>. QED
    BY <2>1, <2>2, <2>3 DEF ConsumersRestored
<1>. QED
  BY <1>1, ConnInvariance, PTL

\* A running process that has lost its channel is never left without a timer, or an
\* attempt whose failure sets one.
THEOREM ReconnectIsOwed == ConnSpec => []ReconnectOwed
<1>1. ConnInv => ReconnectOwed
  BY DEF ConnInv
<1>. QED
  BY <1>1, ConnInvariance, PTL
=============================================================================
