-------------------------- MODULE SizeDaemonProofs --------------------------
(***************************************************************************)
(* SizeDaemon for any number of runs and clients: the name of the socket   *)
(* leads to the run that serves, and an answer is current.                 *)
(***************************************************************************)
EXTENDS SizeDaemon, TLAPS

Places == {"none", "config", "handlers", "remove", "bind", "listen", "test", "accept",
           "stat", "write", "close", "shut", "unlink", "stopped", "failed", "killed"}
Seen == Sizes \cup {Missing}
Daemons == [pc : Places, dir : {"start", "root"}, client : Clients \cup {NoClient},
            answer : Seen \cup {NoAnswer}]

TypeOK ==
    /\ daemon \in [Runs -> Daemons]
    /\ is_running \in [Runs -> BOOLEAN]
    /\ path \in Runs \cup {NoRun}
    /\ queue \in [Runs -> Seq(Clients)]
    /\ held \in [Runs -> SUBSET Clients]
    /\ client \in [Clients -> {"idle", "queued", "accepted", "gone", "closed"}]
    /\ file \in [Dirs -> Seen]
    /\ seen \in [Clients -> SUBSET Seen]
    /\ shared \in SUBSET Runs

-----------------------------------------------------------------------------
(* Types *)

LEMMA FreshType == ASSUME NEW place \in Places PROVE Fresh(place) \in Daemons
BY DEF Fresh, Daemons

LEMMA StartDir == "start" \in Dirs /\ Dirs \subseteq {"start", "root"}
BY DEF Dirs

LEMMA RunRecord == ASSUME TypeOK, NEW p \in Runs PROVE daemon[p] \in Daemons
BY DEF TypeOK

LEMMA GoType ==
    ASSUME TypeOK, NEW p \in Runs, NEW place \in Places, GoTo(p, place)
    PROVE  daemon' \in [Runs -> Daemons]
BY DEF TypeOK, GoTo, Daemons

LEMMA ReleaseType ==
    ASSUME TypeOK, NEW p \in Runs, Release(p)
    PROVE  /\ queue' \in [Runs -> Seq(Clients)]
           /\ held' \in [Runs -> SUBSET Clients]
           /\ client' \in [Clients -> {"idle", "queued", "accepted", "gone", "closed"}]
           /\ seen' \in [Clients -> SUBSET Seen]
<1>1. <<>> \in Seq(Clients) /\ {} \in SUBSET Clients /\ {} \in SUBSET Seen
  OBVIOUS
<1>. QED
  BY <1>1 DEF TypeOK, Release

LEMMA EndType ==
    ASSUME TypeOK, NEW p \in Runs, NEW how \in Places, End(p, how)
    PROVE  /\ daemon' \in [Runs -> Daemons]
           /\ shared' \in SUBSET Runs
           /\ queue' \in [Runs -> Seq(Clients)]
           /\ held' \in [Runs -> SUBSET Clients]
           /\ client' \in [Clients -> {"idle", "queued", "accepted", "gone", "closed"}]
           /\ seen' \in [Clients -> SUBSET Seen]
BY FreshType, ReleaseType DEF End, TypeOK

LEMMA AcceptType ==
    ASSUME TypeOK, NEW p \in Runs, Accept(p)
    PROVE  TypeOK' /\ Head(queue[p]) \in Clients
<1>1. queue[p] \in Seq(Clients) /\ queue[p] # <<>>
  BY DEF TypeOK, Accept
<1>2. Head(queue[p]) \in Clients /\ Tail(queue[p]) \in Seq(Clients)
  BY <1>1
<1>3. file["start"] \in Seen
  BY StartDir DEF TypeOK
<1>4. daemon' \in [Runs -> Daemons]
  <2> DEFINE d == [daemon[p] EXCEPT !.pc = "stat", !.client = Head(queue[p])]
  <2>1. d \in Daemons
    BY <1>2, RunRecord DEF Daemons, Places
  <2>2. daemon' = [daemon EXCEPT ![p] = d]
    BY DEF TypeOK, Accept
  <2>. QED
    BY <2>1, <2>2 DEF TypeOK
<1>. QED
  BY <1>2, <1>3, <1>4 DEF TypeOK, Accept

LEMMA LookedType == ASSUME TypeOK, NEW p \in Runs PROVE Looked(p) \in Seen
<1>1. CASE RelativePath
  BY <1>1, ConfigAssumption DEF Looked, TypeOK, Dirs, Daemons
<1>2. CASE ~RelativePath
  BY <1>2, StartDir DEF Looked, TypeOK
<1>. QED
  BY <1>1, <1>2

LEMMA RunType == ASSUME TypeOK, NEW p \in Runs, Run(p) PROVE TypeOK'
<1>1. CASE read_config(p)
  <2>1. PICK options \in Options : GoTo(p, Verdict(options))
    BY <1>1 DEF read_config
  <2>2. Verdict(options) \in Places
    BY DEF Verdict, Places, Options
  <2>. QED
    BY <1>1, <2>1, <2>2, GoType DEF read_config, TypeOK, net
<1>2. CASE daemonize(p)
  <2>1. PICK dir \in Dirs : daemon' = [daemon EXCEPT ![p] = [@ EXCEPT !.pc = "remove", !.dir = dir]]
    BY <1>2 DEF daemonize, TypeOK
  <2>2. [daemon[p] EXCEPT !.pc = "remove", !.dir = dir] \in Daemons
    BY RunRecord, StartDir DEF Daemons, Places
  <2>. QED
    BY <1>2, <2>1, <2>2 DEF daemonize, TypeOK, net
<1>3. CASE RemoveOld(p)
  BY <1>3, GoType DEF RemoveOld, Unlinked, TypeOK, net, Places
<1>4. CASE Bind(p)
  BY <1>4, GoType DEF Bind, TypeOK, net, Places
<1>5. CASE SetupFails(p)
  BY <1>5, EndType DEF SetupFails, TypeOK, Places
<1>6. CASE Listen(p)
  BY <1>6, GoType DEF Listen, TypeOK, net, Places
<1>7. CASE TestRunning(p)
  BY <1>7, GoType DEF TestRunning, TypeOK, net, Places
<1>8. CASE Accept(p)
  BY <1>8, AcceptType
<1>9. CASE AcceptFails(p)
  BY <1>9, GoType DEF AcceptFails, TypeOK, net, Places
<1>10. CASE Stat(p)
  <2>1. daemon' = [daemon EXCEPT ![p] = [@ EXCEPT !.pc = "write", !.answer = Looked(p)]]
    BY <1>10 DEF Stat, TypeOK
  <2>2. [daemon[p] EXCEPT !.pc = "write", !.answer = Looked(p)] \in Daemons
    BY RunRecord, LookedType DEF Daemons, Places
  <2>. QED
    BY <1>10, <2>1, <2>2 DEF Stat, TypeOK, net
<1>11. CASE Write(p)
  BY <1>11, GoType, EndType DEF Write, TypeOK, net, Places
<1>12. CASE Close(p)
  <2>1. daemon' = [daemon EXCEPT ![p] = [@ EXCEPT !.pc = "test", !.client = NoClient]]
    BY <1>12 DEF Close, TypeOK
  <2>2. [daemon[p] EXCEPT !.pc = "test", !.client = NoClient] \in Daemons
    BY RunRecord DEF Daemons, Places
  <2>. QED
    BY <1>12, <2>1, <2>2 DEF Close, TypeOK
<1>13. CASE Shut(p)
  BY <1>13, GoType, ReleaseType DEF Shut, TypeOK, Places
<1>14. CASE RemoveName(p)
  BY <1>14, EndType DEF RemoveName, Unlinked, TypeOK, Places
<1>. QED
  BY <1>1, <1>2, <1>3, <1>4, <1>5, <1>6, <1>7, <1>8, <1>9, <1>10, <1>11, <1>12, <1>13, <1>14
     DEF Run, Serve

LEMMA EnvironmentType == ASSUME TypeOK, Environment PROVE TypeOK'
<1>1. ASSUME NEW p \in Runs, Start(p) PROVE TypeOK'
  <2>1. InUse \subseteq Runs
    BY DEF InUse
  <2>. QED
    BY <1>1, <2>1, GoType DEF Start, TypeOK, net, Places
<1>2. ASSUME NEW p \in Runs, Signal(p) PROVE TypeOK'
  BY <1>2, EndType DEF Signal, TypeOK, net, Places
<1>3. ASSUME NEW p \in Runs, Kill(p) PROVE TypeOK'
  BY <1>3, EndType DEF Kill, TypeOK, Places
<1>4. ASSUME NEW c \in Clients, Connect(c) PROVE TypeOK'
  <2>1. path \in Runs /\ queue[path] \in Seq(Clients)
    BY <1>4 DEF Connect, TypeOK
  <2>2. Append(queue[path], c) \in Seq(Clients)
    BY <2>1
  <2>. QED
    BY <1>4, <2>1, <2>2 DEF Connect, TypeOK
<1>5. ASSUME NEW c \in Clients, HangUp(c) PROVE TypeOK'
  BY <1>5 DEF HangUp, TypeOK
<1>6. ASSUME NEW dir \in Dirs, FileChanges(dir) PROVE TypeOK'
  BY <1>6 DEF FileChanges, TypeOK, Seen
<1>. QED
  BY <1>1, <1>2, <1>3, <1>4, <1>5, <1>6 DEF Environment

(* The variables keep their types: the queue of a run holds clients, the   *)
(* name leads to a run or to none, and an answer is a size, the word for a *)
(* missing file or nothing.                                                *)
THEOREM TypeCorrect == Spec => []TypeOK
<1>1. Init => TypeOK
  <2>1. <<>> \in Seq(Clients)
    OBVIOUS
  <2>. QED
    BY <2>1, FreshType DEF Init, TypeOK, Places, Seen
<1>2. TypeOK /\ [Next]_vars => TypeOK'
  <2>1. TypeOK /\ UNCHANGED vars => TypeOK'
    BY DEF TypeOK, vars
  <2>. QED
    BY <2>1, RunType, EnvironmentType DEF Next
<1>. QED
  BY <1>1, <1>2, PTL DEF Spec

-----------------------------------------------------------------------------
(* The name *)

\* The runs that have made their name and not yet let go of it.
Named(p) == At(p, "listen") \/ Serving(p)

\* Runs that are alive together know it, and the name of one that was alone
\* since it made it is its own.
NameInv ==
    /\ \A p, q \in InUse : p # q => p \in shared
    /\ \A p \in Runs : Named(p) /\ p \notin shared => path = p

\* A run that ends only leaves the set of those alive.
LEMMA EndKeepsNames ==
    ASSUME TypeOK, NameInv, NEW p \in Runs, NEW how \in {"stopped", "failed", "killed"},
           End(p, how),
           path' = path \/ p \in InUse
    PROVE  NameInv'
<1>1. InUse' = InUse \ {p}
  BY DEF End, TypeOK, InUse, At, Ended, Fresh
<1>2. shared' = shared \ {p}
  BY DEF End
<1>3. \A q \in Runs \ {p} : daemon'[q] = daemon[q]
  BY DEF End, TypeOK
<1>4. ~Named(p)'
  BY DEF End, TypeOK, Named, At, Serving, Fresh
<1>5. ASSUME NEW q \in Runs, Named(q)', q \notin shared' PROVE path' = q
  <2>1. q # p /\ Named(q) /\ q \notin shared
    BY <1>2, <1>3, <1>4, <1>5 DEF Named, At, Serving
  <2>2. q \in InUse
    BY <2>1 DEF Named, Serving, InUse, At, Ended
  <2>3. p \notin InUse
    BY <2>1, <2>2 DEF NameInv
  <2>. QED
    BY <2>1, <2>3 DEF NameInv
<1>. QED
  BY <1>1, <1>2, <1>5 DEF NameInv

\* A run goes from one place to another where it is alive too.
LEMMA GoKeepsNames ==
    ASSUME TypeOK, NameInv, NEW p \in Runs, p \in InUse, NEW place \in Places,
           place \notin {"none", "stopped", "failed", "killed"},
           daemon'[p].pc = place, \A q \in Runs \ {p} : daemon'[q].pc = daemon[q].pc,
           UNCHANGED shared,
           Named(p)' /\ p \notin shared => path' = p
    PROVE  NameInv'
<1>1. InUse' = InUse
  BY DEF InUse, At, Ended
<1>2. ASSUME NEW q \in Runs \ {p}, Named(q)', q \notin shared PROVE FALSE
  <2>1. q \in InUse
    BY <1>2 DEF Named, Serving, InUse, At, Ended
  <2>. QED
    BY <1>2, <2>1 DEF NameInv
<1>. QED
  BY <1>1, <1>2 DEF NameInv

LEMMA RunKeepsNames == ASSUME TypeOK, NameInv, NEW p \in Runs, Run(p) PROVE NameInv'
<1>1. CASE read_config(p)
  <2>1. PICK options \in Options : GoTo(p, Verdict(options))
    BY <1>1 DEF read_config
  <2>2. Verdict(options) \in {"handlers", "failed", "killed"}
    BY DEF Verdict, Options
  <2>3. daemon'[p].pc = Verdict(options) /\ \A q \in Runs \ {p} : daemon'[q].pc = daemon[q].pc
    BY <2>1 DEF GoTo, TypeOK, Daemons
  <2>4. p \in InUse
    BY <1>1 DEF read_config, InUse, At, Ended
  <2>5. InUse' \subseteq InUse
    BY <2>3, <2>4 DEF InUse, At, Ended
  <2>6. \A q \in Runs : Named(q)' => Named(q)
    BY <2>2, <2>3 DEF Named, Serving, At
  <2>. QED
    BY <1>1, <2>5, <2>6 DEF NameInv, read_config
<1>2. CASE daemonize(p)
  <2>1. daemon'[p].pc = "remove" /\ \A q \in Runs \ {p} : daemon'[q].pc = daemon[q].pc
    BY <1>2 DEF daemonize, TypeOK, Daemons
  <2>. QED
    BY <1>2, <2>1, GoKeepsNames DEF daemonize, Places, Named, Serving, At, InUse, Ended
<1>3. CASE RemoveOld(p)
  BY <1>3, GoKeepsNames DEF RemoveOld, GoTo, TypeOK, Daemons, Places, Named, Serving, At, InUse, Ended
<1>4. CASE Bind(p)
  BY <1>4, GoKeepsNames DEF Bind, GoTo, TypeOK, Daemons, Places, Named, Serving, At, InUse, Ended
<1>5. CASE SetupFails(p)
  BY <1>5, EndKeepsNames DEF SetupFails
<1>6. CASE Listen(p) \/ TestRunning(p) \/ Accept(p) \/ AcceptFails(p) \/ Stat(p) \/ Close(p)
  <2>1. /\ daemon'[p].pc \in {"test", "accept", "shut", "stat", "write"}
        /\ \A q \in Runs \ {p} : daemon'[q].pc = daemon[q].pc
    BY <1>6 DEF Listen, TestRunning, Accept, AcceptFails, Stat, Close, GoTo, TypeOK, Daemons
  <2>2. /\ Named(p) /\ UNCHANGED <<path, shared>>
    BY <1>6 DEF Listen, TestRunning, Accept, AcceptFails, Stat, Close, Named, Serving, At
  <2>3. p \in InUse
    BY <2>2 DEF Named, Serving, InUse, At, Ended
  <2>4. Named(p) /\ p \notin shared => path' = p
    BY <2>2 DEF NameInv
  <2>. QED
    BY <2>1, <2>2, <2>3, <2>4, GoKeepsNames DEF Places
<1>7. CASE Write(p)
  <2>1. CASE End(p, "killed")
    BY <1>7, <2>1, EndKeepsNames DEF Write
  <2>2. CASE GoTo(p, "close") /\ UNCHANGED shared
    <3>1. Named(p) /\ p \in InUse
      BY <1>7 DEF Write, Named, Serving, InUse, At, Ended
    <3>2. daemon'[p].pc = "close" /\ \A q \in Runs \ {p} : daemon'[q].pc = daemon[q].pc
      BY <2>2 DEF GoTo, TypeOK, Daemons
    <3>3. p \notin shared => path' = p
      BY <3>1, <1>7 DEF NameInv, Write
    <3>. QED
      BY <2>2, <3>1, <3>2, <3>3, GoKeepsNames DEF Places
  <2>. QED
    BY <1>7, <2>1, <2>2 DEF Write
<1>8. CASE Shut(p)
  BY <1>8, GoKeepsNames DEF Shut, GoTo, TypeOK, Daemons, Places, Named, Serving, At, InUse, Ended
<1>9. CASE RemoveName(p)
  BY <1>9, EndKeepsNames DEF RemoveName, InUse, At, Ended
<1>. QED
  BY <1>1, <1>2, <1>3, <1>4, <1>5, <1>6, <1>7, <1>8, <1>9 DEF Run, Serve

LEMMA EnvironmentKeepsNames == ASSUME TypeOK, NameInv, Environment PROVE NameInv'
<1>1. ASSUME NEW p \in Runs, Start(p) PROVE NameInv'
  <2>1. \A q \in Runs \ {p} : daemon'[q] = daemon[q]
    BY <1>1 DEF Start, GoTo, TypeOK
  <2>2. daemon'[p].pc \in {"failed", "config"}
    BY <1>1 DEF Start, GoTo, TypeOK, Daemons
  <2>3. \A q \in Runs : Named(q)' => Named(q)
    BY <2>1, <2>2 DEF Named, Serving, At
  <2>4. InUse' \subseteq InUse \cup {p} /\ p \notin InUse
    BY <1>1, <2>1 DEF InUse, At, Ended, Start
  <2>5. shared \subseteq shared' /\ path' = path
    BY <1>1 DEF Start
  <2>6. CASE daemon'[p].pc = "failed"
    <3>1. InUse' \subseteq InUse
      BY <2>4, <2>6 DEF InUse, Ended
    <3>. QED
      BY <2>3, <2>5, <3>1 DEF NameInv
  <2>7. CASE daemon'[p].pc = "config"
    <3>1. shared' = IF InUse = {} THEN shared ELSE shared \cup InUse \cup {p}
      BY <1>1, <2>7 DEF Start, GoTo, TypeOK, Daemons
    <3>2. ASSUME NEW q \in InUse', NEW r \in InUse', q # r PROVE q \in shared'
      BY <2>4, <3>1, <3>2
    <3>. QED
      BY <2>3, <2>5, <3>2 DEF NameInv
  <2>. QED
    BY <2>2, <2>6, <2>7
<1>2. ASSUME NEW p \in Runs, Signal(p) PROVE NameInv'
  <2>1. CASE End(p, "killed")
    BY <1>2, <2>1, EndKeepsNames DEF Signal
  <2>2. CASE UNCHANGED <<daemon, shared>>
    BY <1>2, <2>2 DEF Signal, NameInv, InUse, At, Ended, Named, Serving
  <2>. QED
    BY <1>2, <2>1, <2>2 DEF Signal
<1>3. ASSUME NEW p \in Runs, Kill(p) PROVE NameInv'
  BY <1>3, EndKeepsNames DEF Kill
<1>4. ASSUME UNCHANGED <<daemon, path, shared>> PROVE NameInv'
  BY <1>4 DEF NameInv, InUse, At, Ended, Named, Serving
<1>. QED
  BY <1>1, <1>2, <1>3, <1>4 DEF Environment, Connect, HangUp, FileChanges

(* As long as a run serves, the name of the socket leads to it, unless it  *)
(* was alive together with another run: whatever an earlier run left       *)
(* behind is removed before bind, and nothing is removed after it.         *)
THEOREM NameLeadsToServer == Spec => []NameServed
<1>1. Init => NameInv
  BY DEF Init, NameInv, InUse, At, Fresh, Named, Serving
<1>2. TypeOK /\ NameInv /\ [Next]_vars => NameInv'
  <2>1. NameInv /\ UNCHANGED vars => NameInv'
    BY DEF vars, NameInv, InUse, At, Ended, Named, Serving
  <2>. QED
    BY <2>1, RunKeepsNames, EnvironmentKeepsNames DEF Next
<1>3. NameInv => NameServed
  BY DEF NameInv, NameServed, Named
<1>. QED
  BY <1>1, <1>2, <1>3, TypeCorrect, PTL DEF Spec

-----------------------------------------------------------------------------
(* The answer *)

\* The connections of a run.
Queued(p) == {queue[p][k] : k \in DOMAIN queue[p]}
Mine(p) == held[p] \cup Queued(p)

\* A connection belongs to one run, once; a client that has not connected
\* belongs to none.
Apart ==
    /\ \A p, q \in Runs : p # q => Mine(p) \cap Mine(q) = {}
    /\ \A p \in Runs : /\ held[p] \cap Queued(p) = {}
                       /\ \A j, k \in DOMAIN queue[p] : queue[p][j] = queue[p][k] => j = k
                       /\ \A c \in Mine(p) : client[c] # "idle"

\* The client a run serves is one it holds; what was seen since a client was
\* accepted goes on to what the file is now.
Served ==
    \A p \in Runs :
       /\ daemon[p].pc \in {"stat", "write", "close"} => daemon[p].client \in held[p]
       /\ \A c \in held[p] : file["start"] \in seen[c]

\* What a run looks up is the file that was given, as seen from where the
\* daemon was started.
LooksAtStart(p) == RelativePath => daemon[p].dir = "start"

CurrentFromStart ==
    \A p \in Runs : At(p, "write") /\ LooksAtStart(p) => daemon[p].answer \in seen[daemon[p].client]

AnswerInv == Apart /\ Served /\ CurrentFromStart

\* A step that leaves the connections alone and does not get to an answer.
LEMMA QuietKeepsAnswers ==
    ASSUME TypeOK, AnswerInv, NEW p \in Runs, UNCHANGED <<queue, held, client, seen, file>>,
           \A q \in Runs \ {p} : daemon'[q] = daemon[q],
           daemon'[p].pc \notin {"stat", "write"},
           daemon'[p].pc = "close" => daemon'[p].client \in held[p]
    PROVE  AnswerInv'
<1>1. Apart'
  BY DEF AnswerInv, Apart, Mine, Queued
<1>2. Served'
  BY DEF AnswerInv, Served
<1>3. CurrentFromStart'
  BY DEF AnswerInv, CurrentFromStart, At, LooksAtStart
<1>. QED
  BY <1>1, <1>2, <1>3 DEF AnswerInv

\* The connections of the others are left as they were.
LEMMA ReleaseEffect ==
    ASSUME TypeOK, AnswerInv, NEW p \in Runs, Release(p)
    PROVE  /\ held'[p] = {} /\ queue'[p] = <<>>
           /\ \A q \in Runs \ {p} :
                 held'[q] = held[q] /\ queue'[q] = queue[q]
           /\ \A q \in Runs \ {p} : \A c \in Mine(q) :
                 client'[c] = client[c] /\ seen'[c] = seen[c]
<1>1. \A q \in Runs \ {p} : \A c \in Mine(q) : c \in Clients /\ c \notin Mine(p)
  <2>1. \A q \in Runs : Mine(q) \subseteq Clients
    BY DEF TypeOK, Mine, Queued
  <2>. QED
    BY <2>1 DEF AnswerInv, Apart
<1>2. \A c \in Clients \ Mine(p) : client'[c] = client[c] /\ seen'[c] = seen[c]
  BY DEF Release, Mine, Queued
<1>. QED
  BY <1>1, <1>2 DEF Release, TypeOK

LEMMA ReleaseKeepsAnswers ==
    ASSUME TypeOK, AnswerInv, NEW p \in Runs, Release(p), UNCHANGED file,
           \A q \in Runs \ {p} : daemon'[q] = daemon[q],
           daemon'[p].pc \notin {"stat", "write", "close"}
    PROVE  AnswerInv'
<1>1. Mine(p)' = {} /\ Queued(p)' = {} /\ \A q \in Runs \ {p} : Mine(q)' = Mine(q) /\ Queued(q)' = Queued(q)
  BY ReleaseEffect DEF Mine, Queued
<1>2. Apart'
  <2>1. \A q, r \in Runs : q # r => (Mine(q) \cap Mine(r) = {})'
    BY <1>1 DEF AnswerInv, Apart
  <2>2. \A q \in Runs : (held[q] \cap Queued(q) = {})'
    BY <1>1, ReleaseEffect DEF AnswerInv, Apart
  <2>3. \A q \in Runs : \A j, k \in DOMAIN queue'[q] : queue'[q][j] = queue'[q][k] => j = k
    <3>1. DOMAIN queue'[p] = {}
      BY ReleaseEffect
    <3>. QED
      BY <3>1, ReleaseEffect DEF AnswerInv, Apart
  <2>4. \A q \in Runs : \A c \in Mine(q)' : client'[c] # "idle"
    BY <1>1, ReleaseEffect DEF AnswerInv, Apart
  <2>. QED
    BY <2>1, <2>2, <2>3, <2>4 DEF Apart
<1>3. Served'
  BY ReleaseEffect DEF AnswerInv, Served, Mine
<1>4. CurrentFromStart'
  <2>1. ASSUME NEW q \in Runs, At(q, "write")', LooksAtStart(q)'
        PROVE  daemon'[q].answer \in seen'[daemon'[q].client]
    <3>1. q # p /\ daemon'[q] = daemon[q]
      BY <2>1 DEF At
    <3>2. daemon[q].client \in Mine(q) /\ daemon[q].answer \in seen[daemon[q].client]
      BY <2>1, <3>1 DEF AnswerInv, Served, CurrentFromStart, At, LooksAtStart, Mine
    <3>. QED
      BY <3>1, <3>2, ReleaseEffect
  <2>. QED
    BY <2>1 DEF CurrentFromStart
<1>. QED
  BY <1>2, <1>3, <1>4 DEF AnswerInv

LEMMA EndKeepsAnswers ==
    ASSUME TypeOK, AnswerInv, NEW p \in Runs, NEW how \in {"stopped", "failed", "killed"},
           End(p, how), UNCHANGED file
    PROVE  AnswerInv'
BY ReleaseKeepsAnswers DEF End, TypeOK, Fresh

\* The head of the queue is accepted: from now on it is seen.
LEMMA AcceptKeepsAnswers ==
    ASSUME TypeOK, AnswerInv, NEW p \in Runs, Accept(p)
    PROVE  AnswerInv'
<1> DEFINE c == Head(queue[p])
           s == queue[p]
<1>1. s \in Seq(Clients) /\ s # <<>> /\ c \in Clients
  BY DEF TypeOK, Accept
<1>2. /\ Len(s) \in Nat \ {0} /\ Tail(s) \in Seq(Clients) /\ Len(Tail(s)) = Len(s) - 1
      /\ c = s[1] /\ \A k \in 1..Len(s) - 1 : Tail(s)[k] = s[k + 1]
  BY <1>1
<1>3. Queued(p)' = Queued(p) \ {c} /\ c \in Queued(p)
  <2>1. queue'[p] = Tail(s)
    BY DEF Accept, TypeOK
  <2>2. \A j, k \in 1..Len(s) : s[j] = s[k] => j = k
    BY <1>1 DEF AnswerInv, Apart
  <2>3. DOMAIN s = 1..Len(s) /\ DOMAIN Tail(s) = 1..Len(s) - 1
    BY <1>1, <1>2
  <2>4. ASSUME NEW x \in Queued(p), x # c PROVE x \in Queued(p)'
    <3>1. PICK k \in 1..Len(s) : x = s[k]
      BY <2>3, <2>4 DEF Queued
    <3>2. k - 1 \in 1..Len(s) - 1 /\ Tail(s)[k - 1] = x
      BY <1>2, <2>4, <3>1
    <3>. QED
      BY <2>1, <2>3, <3>2 DEF Queued
  <2>5. ASSUME NEW x \in Queued(p)' PROVE x \in Queued(p) /\ x # c
    <3>1. PICK k \in 1..Len(s) - 1 : x = Tail(s)[k]
      BY <2>1, <2>3, <2>5 DEF Queued
    <3>2. k + 1 \in 1..Len(s) /\ x = s[k + 1] /\ 1 \in 1..Len(s) /\ k + 1 # 1
      BY <1>2, <3>1
    <3>. QED
      BY <1>2, <2>2, <2>3, <3>2 DEF Queued
  <2>6. c \in Queued(p)
    <3>1. 1 \in DOMAIN s
      BY <1>2, <2>3
    <3>. QED
      BY <1>2, <3>1 DEF Queued
  <2>. QED
    BY <2>4, <2>5, <2>6
<1>4. held'[p] = held[p] \cup {c} /\ \A q \in Runs \ {p} : held'[q] = held[q] /\ queue'[q] = queue[q]
  BY DEF Accept, TypeOK
<1>5. Mine(p)' = Mine(p) /\ \A q \in Runs \ {p} : Mine(q)' = Mine(q) /\ Queued(q)' = Queued(q)
  BY <1>3, <1>4 DEF Mine, Queued
<1>6. \A d \in Clients : d # c => client'[d] = client[d] /\ seen'[d] = seen[d]
  BY DEF Accept, TypeOK
<1>7. client'[c] # "idle" /\ seen'[c] = {file["start"]}
  BY <1>1, <1>3 DEF Accept, TypeOK
<1>8. \A q \in Runs : Mine(q) \subseteq Clients
  BY DEF TypeOK, Mine, Queued
<1>9. daemon'[p].pc = "stat" /\ daemon'[p].client = c /\ \A q \in Runs \ {p} : daemon'[q] = daemon[q]
  BY DEF Accept, TypeOK, Daemons
<1>10. Apart'
  <2>1. \A q, r \in Runs : q # r => (Mine(q) \cap Mine(r) = {})'
    BY <1>5 DEF AnswerInv, Apart
  <2>2. \A q \in Runs : (held[q] \cap Queued(q) = {})'
    BY <1>3, <1>4, <1>5 DEF AnswerInv, Apart
  <2>3. \A q \in Runs : \A j, k \in DOMAIN queue'[q] : queue'[q][j] = queue'[q][k] => j = k
    <3>1. ASSUME NEW j \in DOMAIN queue'[p], NEW k \in DOMAIN queue'[p], queue'[p][j] = queue'[p][k]
          PROVE  j = k
      <4>1. queue'[p] = Tail(s)
        BY DEF Accept, TypeOK
      <4>2. j \in 1..Len(s) - 1 /\ k \in 1..Len(s) - 1 /\ s[j + 1] = s[k + 1]
        BY <1>2, <3>1, <4>1
      <4>3. j + 1 \in DOMAIN s /\ k + 1 \in DOMAIN s
        BY <1>1, <1>2, <4>2
      <4>4. j + 1 = k + 1
        BY <4>2, <4>3 DEF AnswerInv, Apart
      <4>. QED
        BY <4>2, <4>4
    <3>. QED
      BY <1>4, <3>1 DEF AnswerInv, Apart
  <2>4. \A q \in Runs : \A d \in Mine(q)' : client'[d] # "idle"
    BY <1>5, <1>6, <1>7, <1>8 DEF AnswerInv, Apart
  <2>. QED
    BY <2>1, <2>2, <2>3, <2>4 DEF Apart
<1>11. file' = file
  BY DEF Accept
<1>12. \A q \in Runs \ {p} : \A d \in held[q] : d \in Clients /\ d # c
  BY <1>3, <1>8 DEF AnswerInv, Apart, Mine
<1>13. Served'
  <2>1. \A d \in held[p] : d \in Clients
    BY <1>8 DEF Mine
  <2>. QED
    BY <1>4, <1>6, <1>7, <1>9, <1>11, <1>12, <2>1 DEF AnswerInv, Served
<1>14. CurrentFromStart'
  <2>1. ASSUME NEW q \in Runs, At(q, "write")', LooksAtStart(q)'
        PROVE  daemon'[q].answer \in seen'[daemon'[q].client]
    <3>1. q # p /\ daemon'[q] = daemon[q]
      BY <1>9, <2>1 DEF At
    <3>2. daemon[q].client \in held[q] /\ daemon[q].answer \in seen[daemon[q].client]
      BY <2>1, <3>1 DEF AnswerInv, Served, CurrentFromStart, At, LooksAtStart
    <3>. QED
      BY <1>6, <1>12, <3>1, <3>2
  <2>. QED
    BY <2>1 DEF CurrentFromStart
<1>. QED
  BY <1>10, <1>13, <1>14 DEF AnswerInv

\* What is looked up at the start directory is what was last seen.
LEMMA StatKeepsAnswers ==
    ASSUME TypeOK, AnswerInv, NEW p \in Runs, Stat(p)
    PROVE  AnswerInv'
<1>1. /\ daemon'[p].pc = "write" /\ daemon'[p].client = daemon[p].client
      /\ daemon'[p].dir = daemon[p].dir /\ daemon'[p].answer = Looked(p)
      /\ \A q \in Runs \ {p} : daemon'[q] = daemon[q]
  BY DEF Stat, TypeOK, Daemons
<1>2. UNCHANGED <<queue, held, client, seen, file>>
  BY DEF Stat, net
<1>3. daemon[p].client \in held[p]
  BY DEF Stat, At, AnswerInv, Served
<1>4. Apart'
  BY <1>2 DEF AnswerInv, Apart, Mine, Queued
<1>5. Served'
  BY <1>1, <1>2, <1>3 DEF AnswerInv, Served
<1>6. LooksAtStart(p) => Looked(p) \in seen[daemon[p].client]
  BY <1>3 DEF LooksAtStart, Looked, AnswerInv, Served
<1>7. CurrentFromStart'
  BY <1>1, <1>2, <1>6 DEF AnswerInv, CurrentFromStart, LooksAtStart, At
<1>. QED
  BY <1>4, <1>5, <1>7 DEF AnswerInv

LEMMA CloseKeepsAnswers ==
    ASSUME TypeOK, AnswerInv, NEW p \in Runs, Close(p)
    PROVE  AnswerInv'
<1> DEFINE c == daemon[p].client
<1>1. c \in held[p] /\ c \in Clients
  BY DEF Close, At, AnswerInv, Served, TypeOK
<1>2. daemon'[p].pc = "test" /\ \A q \in Runs \ {p} : daemon'[q] = daemon[q]
  BY DEF Close, TypeOK, Daemons
<1>3. /\ held'[p] = held[p] \ {c} /\ \A q \in Runs \ {p} : held'[q] = held[q]
      /\ UNCHANGED <<queue, file>>
  BY DEF Close, TypeOK
<1>4. /\ client'[c] = "closed"
      /\ \A d \in Clients : d # c => client'[d] = client[d] /\ seen'[d] = seen[d]
  BY <1>1 DEF Close, TypeOK
<1>5. \A q \in Runs : Mine(q) \subseteq Clients
  BY DEF TypeOK, Mine, Queued
<1>6. \A q \in Runs : Queued(q)' = Queued(q) /\ Mine(q)' \subseteq Mine(q)
  BY <1>3 DEF Mine, Queued
<1>7. \A q \in Runs : c \notin held'[q]
  BY <1>1, <1>3 DEF AnswerInv, Apart, Mine
<1>8. Apart'
  <2>1. \A q, r \in Runs : q # r => (Mine(q) \cap Mine(r) = {})'
    BY <1>6 DEF AnswerInv, Apart
  <2>2. \A q \in Runs : (held[q] \cap Queued(q) = {})'
    BY <1>3, <1>6 DEF AnswerInv, Apart
  <2>3. \A q \in Runs : \A d \in Mine(q)' : client'[d] # "idle"
    BY <1>4, <1>5, <1>6 DEF AnswerInv, Apart
  <2>. QED
    BY <1>3, <2>1, <2>2, <2>3 DEF AnswerInv, Apart
<1>9. \A q \in Runs : \A d \in held'[q] : d \in held[q] /\ seen'[d] = seen[d]
  BY <1>3, <1>4, <1>5, <1>7 DEF Mine
<1>10. \A q \in Runs : daemon'[q].pc \in {"stat", "write", "close"}
          => daemon'[q] = daemon[q] /\ daemon'[q].client \in held'[q]
  BY <1>2, <1>3 DEF AnswerInv, Served
<1>11. Served'
  BY <1>3, <1>9, <1>10 DEF AnswerInv, Served
<1>12. CurrentFromStart'
  <2>1. ASSUME NEW q \in Runs, At(q, "write")', LooksAtStart(q)'
        PROVE  daemon'[q].answer \in seen'[daemon'[q].client]
    <3>1. daemon'[q] = daemon[q] /\ daemon'[q].client \in held'[q]
      BY <1>10, <2>1 DEF At
    <3>2. daemon[q].answer \in seen[daemon[q].client]
      BY <2>1, <3>1 DEF AnswerInv, CurrentFromStart, At, LooksAtStart
    <3>. QED
      BY <1>9, <3>1, <3>2
  <2>. QED
    BY <2>1 DEF CurrentFromStart
<1>. QED
  BY <1>8, <1>11, <1>12 DEF AnswerInv

\* A client that has not connected is in no queue: it is there once.
LEMMA ConnectKeepsAnswers ==
    ASSUME TypeOK, AnswerInv, NEW c \in Clients, Connect(c)
    PROVE  AnswerInv'
<1>1. path \in Runs /\ client[c] = "idle"
  BY DEF Connect, TypeOK
<1>2. UNCHANGED <<daemon, path, held, file, seen>>
  BY DEF Connect
<1>3. client'[c] # "idle" /\ \A d \in Clients \ {c} : client'[d] = client[d]
  BY DEF Connect, TypeOK
<1>4. Served' /\ CurrentFromStart'
  BY <1>2 DEF AnswerInv, Served, CurrentFromStart, At, LooksAtStart
<1>5. \A q \in Runs : Mine(q) \subseteq Clients /\ c \notin Mine(q)
  BY <1>1 DEF TypeOK, Mine, Queued, AnswerInv, Apart
<1>6. CASE UNCHANGED queue
  <2>1. \A q \in Runs : Mine(q)' = Mine(q) /\ Queued(q)' = Queued(q)
    BY <1>2, <1>6 DEF Mine, Queued
  <2>2. \A q \in Runs : \A d \in Mine(q)' : client'[d] # "idle"
    BY <1>3, <1>5, <2>1 DEF AnswerInv, Apart
  <2>3. Apart'
    BY <1>2, <1>6, <2>1, <2>2 DEF AnswerInv, Apart
  <2>. QED
    BY <1>4, <2>3 DEF AnswerInv
<1>7. CASE queue' = [queue EXCEPT ![path] = Append(@, c)]
  <2> DEFINE s == queue[path]
  <2>1. s \in Seq(Clients) /\ Len(s) \in Nat /\ DOMAIN s = 1..Len(s)
    BY <1>1 DEF TypeOK
  <2>2. /\ queue'[path] = Append(s, c) /\ \A q \in Runs \ {path} : queue'[q] = queue[q]
    BY <1>1, <1>7 DEF TypeOK
  <2>3. /\ DOMAIN Append(s, c) = 1..Len(s) + 1 /\ Append(s, c)[Len(s) + 1] = c
        /\ \A k \in 1..Len(s) : Append(s, c)[k] = s[k]
    BY <2>1
  <2>4. Queued(path)' = Queued(path) \cup {c}
    <3>1. \A k \in 1..Len(s) + 1 : k = Len(s) + 1 \/ k \in 1..Len(s)
      BY <2>1
    <3>2. 1..Len(s) \subseteq 1..Len(s) + 1 /\ Len(s) + 1 \in 1..Len(s) + 1
      BY <2>1
    <3>. QED
      BY <1>2, <2>1, <2>2, <2>3, <3>1, <3>2 DEF Queued
  <2>5. \A q \in Runs \ {path} : Queued(q)' = Queued(q) /\ Mine(q)' = Mine(q)
    BY <1>2, <2>2 DEF Queued, Mine
  <2>6. Mine(path)' = Mine(path) \cup {c}
    BY <1>2, <2>4 DEF Mine
  <2>7. \A q, r \in Runs : q # r => (Mine(q) \cap Mine(r) = {})'
    BY <1>2, <1>5, <2>5, <2>6 DEF AnswerInv, Apart
  <2>8. \A q \in Runs : (held[q] \cap Queued(q) = {})'
    BY <1>2, <1>5, <2>4, <2>5 DEF AnswerInv, Apart, Mine
  <2>9. ASSUME NEW j \in DOMAIN queue'[path], NEW k \in DOMAIN queue'[path],
               queue'[path][j] = queue'[path][k]
        PROVE  j = k
    <3>1. j \in 1..Len(s) + 1 /\ k \in 1..Len(s) + 1 /\ Append(s, c)[j] = Append(s, c)[k]
      BY <2>2, <2>3, <2>9
    <3>2. \A i \in 1..Len(s) : Append(s, c)[i] # c
      BY <1>1, <1>5, <2>1, <2>3 DEF Mine, Queued
    <3>3. \A i \in 1..Len(s) + 1 : i = Len(s) + 1 \/ i \in 1..Len(s)
      BY <2>1
    <3>4. CASE j \in 1..Len(s) /\ k \in 1..Len(s)
      BY <1>1, <2>1, <2>3, <3>1, <3>4 DEF AnswerInv, Apart
    <3>. QED
      BY <2>3, <3>1, <3>2, <3>3, <3>4
  <2>10. \A q \in Runs : \A d \in Mine(q)' : client'[d] # "idle"
    BY <1>1, <1>2, <1>3, <1>5, <2>5, <2>6 DEF AnswerInv, Apart
  <2>11. Apart'
    BY <2>2, <2>7, <2>8, <2>9, <2>10 DEF AnswerInv, Apart
  <2>. QED
    BY <1>4, <2>11 DEF AnswerInv
<1>. QED
  BY <1>6, <1>7 DEF Connect

LEMMA FileKeepsAnswers ==
    ASSUME TypeOK, AnswerInv, NEW dir \in Dirs, FileChanges(dir)
    PROVE  AnswerInv'
<1>1. UNCHANGED <<daemon, queue, held, client>>
  BY DEF FileChanges
<1>2. \A c \in Clients : seen[c] \subseteq seen'[c]
  BY DEF FileChanges
<1>3. \A p \in Runs : \A c \in held[p] : file'["start"] \in seen'[c]
  <2>1. PICK size \in (Sizes \cup {Missing}) \ {file[dir]} :
          /\ file' = [file EXCEPT ![dir] = size]
          /\ seen' = [c \in Clients |-> IF dir = "start" /\ \E p \in Runs : c \in held[p]
                                      THEN seen[c] \cup {size} ELSE seen[c]]
    BY DEF FileChanges
  <2>2. \A p \in Runs : held[p] \subseteq Clients
    BY DEF TypeOK
  <2>3. CASE dir = "start"
    BY <2>1, <2>2, <2>3, StartDir DEF TypeOK
  <2>4. CASE dir # "start"
    <3>1. file'["start"] = file["start"]
      BY <2>1, <2>4, StartDir DEF TypeOK
    <3>. QED
      BY <1>2, <2>2, <3>1 DEF AnswerInv, Served
  <2>. QED
    BY <2>3, <2>4
<1>4. Apart'
  BY <1>1 DEF AnswerInv, Apart, Mine, Queued
<1>5. Served'
  BY <1>1, <1>3 DEF AnswerInv, Served
<1>6. CurrentFromStart'
  <2>1. \A p \in Runs : At(p, "write") => daemon[p].client \in Clients
    BY DEF AnswerInv, Served, At, TypeOK
  <2>. QED
    BY <1>1, <1>2, <2>1 DEF AnswerInv, CurrentFromStart, At, LooksAtStart
<1>. QED
  BY <1>4, <1>5, <1>6 DEF AnswerInv

LEMMA RunKeepsAnswers == ASSUME TypeOK, AnswerInv, NEW p \in Runs, Run(p) PROVE AnswerInv'
<1>1. CASE read_config(p)
  <2>1. PICK options \in Options : GoTo(p, Verdict(options))
    BY <1>1 DEF read_config
  <2>2. Verdict(options) \in {"handlers", "failed", "killed"}
    BY DEF Verdict, Options
  <2>3. daemon'[p].pc = Verdict(options) /\ \A q \in Runs \ {p} : daemon'[q] = daemon[q]
    BY <2>1 DEF GoTo, TypeOK, Daemons
  <2>. QED
    BY <1>1, <2>2, <2>3, QuietKeepsAnswers DEF read_config, net
<1>2. CASE daemonize(p)
  <2>1. daemon'[p].pc = "remove" /\ \A q \in Runs \ {p} : daemon'[q] = daemon[q]
    BY <1>2 DEF daemonize, TypeOK, Daemons
  <2>. QED
    BY <1>2, <2>1, QuietKeepsAnswers DEF daemonize, net
<1>3. CASE RemoveOld(p) \/ Bind(p) \/ Listen(p) \/ TestRunning(p) \/ AcceptFails(p)
  <2>1. /\ daemon'[p].pc \in {"bind", "listen", "test", "accept", "shut"}
        /\ \A q \in Runs \ {p} : daemon'[q] = daemon[q]
    BY <1>3 DEF RemoveOld, Bind, Listen, TestRunning, AcceptFails, GoTo, TypeOK, Daemons
  <2>2. UNCHANGED <<queue, held, client, seen, file>>
    BY <1>3 DEF RemoveOld, Bind, Listen, TestRunning, AcceptFails, net
  <2>. QED
    BY <2>1, <2>2, QuietKeepsAnswers
<1>4. CASE SetupFails(p)
  BY <1>4, EndKeepsAnswers DEF SetupFails
<1>5. CASE Accept(p)
  BY <1>5, AcceptKeepsAnswers
<1>6. CASE Stat(p)
  BY <1>6, StatKeepsAnswers
<1>7. CASE Write(p)
  <2>1. CASE End(p, "killed")
    BY <1>7, <2>1, EndKeepsAnswers DEF Write
  <2>2. CASE GoTo(p, "close") /\ UNCHANGED net
    <3>1. /\ daemon'[p].pc = "close" /\ daemon'[p].client = daemon[p].client
          /\ \A q \in Runs \ {p} : daemon'[q] = daemon[q]
      BY <2>2 DEF GoTo, TypeOK, Daemons
    <3>2. daemon[p].client \in held[p]
      BY <1>7 DEF Write, At, AnswerInv, Served
    <3>. QED
      BY <1>7, <2>2, <3>1, <3>2, QuietKeepsAnswers DEF Write, net
  <2>. QED
    BY <1>7, <2>1, <2>2 DEF Write
<1>8. CASE Close(p)
  BY <1>8, CloseKeepsAnswers
<1>9. CASE Shut(p)
  <2>1. daemon'[p].pc = "unlink" /\ \A q \in Runs \ {p} : daemon'[q] = daemon[q]
    BY <1>9 DEF Shut, GoTo, TypeOK, Daemons
  <2>. QED
    BY <1>9, <2>1, ReleaseKeepsAnswers DEF Shut
<1>10. CASE RemoveName(p)
  BY <1>10, EndKeepsAnswers DEF RemoveName
<1>. QED
  BY <1>1, <1>2, <1>3, <1>4, <1>5, <1>6, <1>7, <1>8, <1>9, <1>10 DEF Run, Serve

LEMMA EnvironmentKeepsAnswers == ASSUME TypeOK, AnswerInv, Environment PROVE AnswerInv'
<1>1. ASSUME NEW p \in Runs, Start(p) PROVE AnswerInv'
  <2>1. daemon'[p].pc \in {"failed", "config"} /\ \A q \in Runs \ {p} : daemon'[q] = daemon[q]
    BY <1>1 DEF Start, GoTo, TypeOK, Daemons
  <2>. QED
    BY <1>1, <2>1, QuietKeepsAnswers DEF Start, net
<1>2. ASSUME NEW p \in Runs, Signal(p) PROVE AnswerInv'
  <2>1. CASE End(p, "killed")
    BY <1>2, <2>1, EndKeepsAnswers DEF Signal
  <2>2. CASE UNCHANGED <<daemon, net>>
    BY <1>2, <2>2 DEF Signal, net, AnswerInv, Apart, Mine, Queued, Served, CurrentFromStart, At,
       LooksAtStart
  <2>. QED
    BY <1>2, <2>1, <2>2 DEF Signal
<1>3. ASSUME NEW p \in Runs, Kill(p) PROVE AnswerInv'
  BY <1>3, EndKeepsAnswers DEF Kill
<1>4. ASSUME NEW c \in Clients, HangUp(c) PROVE AnswerInv'
  <2>1. \A d \in Clients : client[d] # "idle" => client'[d] # "idle"
    BY <1>4 DEF HangUp, TypeOK
  <2>2. \A q \in Runs : Mine(q) \subseteq Clients
    BY DEF TypeOK, Mine, Queued
  <2>3. Apart'
    BY <1>4, <2>1, <2>2 DEF HangUp, AnswerInv, Apart, Mine, Queued
  <2>. QED
    BY <1>4, <2>3 DEF HangUp, AnswerInv, Served, CurrentFromStart, At, LooksAtStart
<1>. QED
  BY <1>1, <1>2, <1>3, <1>4, ConnectKeepsAnswers, FileKeepsAnswers DEF Environment

\* Every run that looks up the file from the directory it was started in
\* answers with what the file was while the client was served, whatever the
\* file, the other runs, signals and other clients do meanwhile.
THEOREM AnswerFromStart == Spec => []AnswerInv
<1>1. Init => AnswerInv
  BY DEF Init, AnswerInv, Apart, Mine, Queued, Served, CurrentFromStart, Fresh, At
<1>2. TypeOK /\ AnswerInv /\ [Next]_vars => AnswerInv'
  <2>1. AnswerInv /\ UNCHANGED vars => AnswerInv'
    BY DEF vars, AnswerInv, Apart, Mine, Queued, Served, CurrentFromStart, At, LooksAtStart
  <2>. QED
    BY <2>1, RunKeepsAnswers, EnvironmentKeepsAnswers DEF Next
<1>. QED
  BY <1>1, <1>2, TypeCorrect, PTL DEF Spec

\* With an absolute file_path, and by default, the answer is current.
THEOREM AnswerCurrent == ASSUME ~RelativePath PROVE Spec => []AnswerIsCurrent
<1>1. AnswerInv => AnswerIsCurrent
  BY DEF AnswerInv, CurrentFromStart, LooksAtStart, AnswerIsCurrent
<1>. QED
  BY <1>1, AnswerFromStart, PTL
=============================================================================
