-------------------------- MODULE AccountScanProofs --------------------------
(***************************************************************************)
(* Proofs about AccountScan, for any regions, classes and threads.         *)
(***************************************************************************)
EXTENDS AccountScan, TLAPS

\* From the end of the pool's "with" block on, the pool is idle.
PoolInv == pc \in {"compose", "returned", "raised"} => PoolIdle

Queued == {queue[i] : i \in DOMAIN queue}

\* A unit built for a region that has been opened.
Planned(u) == u \in UnitsOf(u.region, u.service) /\ u.region \notin todo

\* Every unit is in one place: to be submitted, in the queue or with a thread.
PlaceInv ==
  /\ pc = "session" => open = {} /\ PoolIdle
  /\ \A u \in open \cup Queued : Planned(u)
  /\ open \cap Queued = {}
  /\ \A i, j \in DOMAIN queue : queue[i] = queue[j] => i = j
  /\ \A t \in Threads : Busy(t) =>
       /\ Planned(worker[t].unit)
       /\ worker[t].left \subseteq worker[t].unit.classes
       /\ worker[t].unit \notin open \cup Queued
  /\ \A t, u \in Threads :
       t # u /\ Busy(t) /\ Busy(u) => worker[t].unit # worker[u].unit

\* Where the scan of a class in a region stands.
IsFor(u, c, r) == u.region = r /\ c \in u.classes
Pending(c, r) ==
  \/ r \in todo
  \/ \E u \in open \cup Queued : IsFor(u, c, r)
  \/ \E t \in Threads : Busy(t) /\ worker[t].unit.region = r /\ c \in worker[t].left

\* Until something fails, what is to be scanned is pending or done.
ScanInv ==
  /\ pc \notin {"session", "submit"} => todo = {} /\ open = {}
  /\ pc # "session" /\ ~prescan => \A c \in Classes : GetRegions(c) # {}
  /\ pc # "session" /\ ~AnyError =>
       \A c \in Classes : \A r \in GetRegions(c) :
         Pending(c, r) \/ <<c, r>> \in listed \cup empty
  /\ pc = "returned" =>
       artifact.errors = AnyError /\ artifact.resources = IF AnyError THEN {} ELSE listed

\* Next as the disjunction of its actions.
LEMMA NextCases ==
  ASSUME Next
  PROVE  \/ OpenSession \/ SessionFails \/ AllSubmitted
         \/ \E r \in Regions : OpenRegion(r) \/ OpenRegionFails(r)
         \/ \E u \in open : Submit(u)
         \/ PoolEnds \/ Write \/ WriteFails
         \/ \E t \in Threads : \/ StartUnit(t) \/ ClassFails(t) \/ EndUnit(t)
                               \/ \E c \in Classes : ScanClass(t, c) \/ ClassIsEmpty(t, c)
  BY DEF Next, Main, Work

-----------------------------------------------------------------------------
(* Types                                                                   *)

\* A thread is idle or works on a unit.
LEMMA WorkerTypes ==
  ASSUME TypeOK, NEW t \in Threads
  PROVE  /\ Busy(t) => /\ worker[t].unit \in Units /\ worker[t].left \subseteq Classes
                       /\ worker[t] \in Working
         /\ ~Busy(t) => worker[t] = Idle
<1>1. worker[t] \in Working \/ worker[t] = Idle
  BY DEF TypeOK
<1>2. ~Idle.working
  BY DEF Idle
<1>3. \A w \in Working : w.working /\ w.unit \in Units /\ w.left \subseteq Classes
  BY DEF Working
<1>4. QED
  BY <1>1, <1>2, <1>3 DEF Busy

LEMMA IdleType == ~Idle.working /\ Idle \notin Working
  BY DEF Idle, Working

\* A class is scanned in regions that AWS has.
LEMMA RegionsMapped ==
  ASSUME TypeOK, NEW c \in Classes
  PROVE  GetRegions(c) \subseteq Regions
<1>1. mapping[c] \subseteq Regions
  BY DEF TypeOK, Mappings
<1>2. QED
  BY <1>1 DEF GetRegions, Only

LEMMA UnitsTyped ==
  ASSUME NEW r \in Regions
  PROVE  /\ UnitsIn(r) \subseteq Units
         /\ \A u \in UnitsIn(r) : u.region = r /\ u \in UnitsOf(r, u.service)
<1>1. ASSUME NEW s \in Services, NEW u \in UnitsOf(r, s)
      PROVE  u \in Units /\ u.region = r /\ u.service = s
  <2>1. MappedTo(r, s) \subseteq Classes
    BY DEF MappedTo
  <2>2. PICK cs \in SUBSET Classes : u = Unit(r, s, cs)
    BY <1>1, <2>1 DEF UnitsOf
  <2>3. QED
    BY <2>2 DEF Unit, Units
<1>2. QED
  BY <1>1 DEF UnitsIn

\* The unit at the head of the queue, and what stays in it.
LEMMA QueueHead ==
  ASSUME TypeOK, queue # <<>>
  PROVE  /\ Len(queue) \in Nat \ {0} /\ DOMAIN queue = 1 .. Len(queue)
         /\ Head(queue) = queue[1] /\ Head(queue) \in Units
         /\ Tail(queue) \in Seq(Units)
         /\ DOMAIN Tail(queue) = 1 .. Len(queue) - 1
         /\ \A i \in 1 .. Len(queue) - 1 : Tail(queue)[i] = queue[i + 1]
  BY DEF TypeOK

\* Every variable keeps its type, and an artifact is written exactly when scan
\* returns.
THEOREM AccountTypeCorrect == Spec => []TypeOK
<1>1. Init => TypeOK
  <2> SUFFICES ASSUME Init PROVE TypeOK
    OBVIOUS
  <2>1. worker \in [Threads -> Working \cup {Idle}]
    BY DEF Init
  <2>2. artifact.written <=> pc = "returned"
    BY DEF Init
  <2>3. /\ queue \in Seq(Units)
        /\ artifact \in [written : BOOLEAN, errors : BOOLEAN, resources : SUBSET Listings]
    BY DEF Init
  <2>4. /\ open \subseteq Units /\ failed \subseteq Units
        /\ listed \subseteq Listings /\ empty \subseteq Listings
    BY DEF Init
  <2>5. mapping \in Mappings /\ todo \subseteq Regions /\ prescan \in BOOLEAN /\ pc = "session"
    BY DEF Init
  <2>6. QED
    BY <2>1, <2>2, <2>3, <2>4, <2>5 DEF TypeOK
<1>2. TypeOK /\ [Next]_vars => TypeOK'
  <2> SUFFICES ASSUME TypeOK, [Next]_vars PROVE TypeOK'
    OBVIOUS
  <2> USE DEF TypeOK, pool
  <2>1. CASE OpenSession
    <3>1. \A c \in Classes : GetRegions(c) \subseteq Regions
      BY RegionsMapped
    <3>2. todo' \subseteq Regions /\ open' \subseteq Units
      BY <2>1, <3>1 DEF OpenSession, PrescanError
    <3>3. pc' \in {"submit", "wait"} /\ prescan' \in BOOLEAN
      BY <2>1 DEF OpenSession, PrescanError
    <3>4. QED
      BY <2>1, <3>2, <3>3 DEF OpenSession
  <2>2. CASE SessionFails \/ AllSubmitted
    BY <2>2 DEF SessionFails, AllSubmitted, PrescanError
  <2>3. ASSUME NEW r \in Regions, OpenRegion(r) PROVE TypeOK'
    BY <2>3, UnitsTyped DEF OpenRegion
  <2>4. ASSUME NEW r \in Regions, OpenRegionFails(r) PROVE TypeOK'
    BY <2>4 DEF OpenRegionFails, PrescanError
  <2>5. ASSUME NEW u \in open, Submit(u) PROVE TypeOK'
    <3>1. queue' \in Seq(Units)
      BY <2>5 DEF Submit
    <3>2. QED
      BY <2>5, <3>1 DEF Submit
  <2>6. CASE PoolEnds \/ WriteFails
    BY <2>6 DEF PoolEnds, WriteFails
  <2>7. CASE Write
    BY <2>7 DEF Write, AnyError
  <2>8. ASSUME NEW t \in Threads, StartUnit(t) PROVE TypeOK'
    <3>1. queue' \in Seq(Units) /\ Head(queue) \in Units
      BY <2>8, QueueHead DEF StartUnit
    <3>2. [working |-> TRUE, unit |-> Head(queue), left |-> Head(queue).classes] \in Working
      BY <3>1 DEF Working, Units
    <3>3. worker' \in [Threads -> Working \cup {Idle}]
      BY <2>8, <3>2 DEF StartUnit
    <3>4. QED
      BY <2>8, <3>1, <3>3 DEF StartUnit
  <2>9. ASSUME NEW t \in Threads, ClassFails(t) \/ EndUnit(t) PROVE TypeOK'
    <3>1. worker' \in [Threads -> Working \cup {Idle}]
      BY <2>9 DEF ClassFails, EndUnit
    <3>2. failed' \subseteq Units
      BY <2>9, WorkerTypes DEF ClassFails, EndUnit, Scanning
    <3>3. QED
      BY <2>9, <3>1, <3>2 DEF ClassFails, EndUnit
  <2>10. ASSUME NEW t \in Threads, NEW c \in Classes, ScanClass(t, c) \/ ClassIsEmpty(t, c)
         PROVE  TypeOK'
    <3>1. worker[t] \in Working /\ worker' = [worker EXCEPT ![t].left = @ \ {c}]
      BY <2>10, WorkerTypes DEF ScanClass, ClassIsEmpty, ClassDone
    <3>2. [worker[t] EXCEPT !.left = @ \ {c}] \in Working
      BY <3>1 DEF Working
    <3>3. worker' \in [Threads -> Working \cup {Idle}]
      BY <3>1, <3>2
    <3>4. Here(t, c) \in Listings
      BY <3>1 DEF Here, Listings, Working, Units
    <3>5. QED
      BY <2>10, <3>3, <3>4 DEF ScanClass, ClassIsEmpty, ClassDone
  <2>11. CASE UNCHANGED vars
    BY <2>11 DEF vars
  <2>12. QED
    BY <2>1, <2>2, <2>3, <2>4, <2>5, <2>6, <2>7, <2>8, <2>9, <2>10, <2>11, NextCases
<1>3. QED
  BY <1>1, <1>2, PTL DEF Spec

-----------------------------------------------------------------------------
(* Every unit is in one place                                              *)

\* The mapping is built once.
LEMMA PlansKept ==
  ASSUME [Next]_vars
  PROVE  /\ mapping' = mapping
         /\ \A c \in Classes : GetRegions(c)' = GetRegions(c)
         /\ \A r, s : UnitsOf(r, s)' = UnitsOf(r, s)
<1>1. ASSUME NEW t \in Threads, NEW c \in Classes, ScanClass(t, c) \/ ClassIsEmpty(t, c)
      PROVE  mapping' = mapping
  BY <1>1 DEF ScanClass, ClassIsEmpty, ClassDone
<1>2. mapping' = mapping
  BY <1>1, NextCases
  DEF vars, OpenSession, SessionFails, AllSubmitted, OpenRegion, OpenRegionFails, Submit,
      PoolEnds, Write, WriteFails, StartUnit, ClassFails, EndUnit
<1>3. \A c \in Classes : GetRegions(c)' = GetRegions(c)
  BY <1>2 DEF GetRegions
<1>4. \A r, s : MappedTo(r, s)' = MappedTo(r, s)
  BY <1>3 DEF MappedTo
<1>5. QED
  BY <1>2, <1>3, <1>4 DEF UnitsOf

\* A scanned class is one fewer for its thread, and nothing else of the pool.
LEMMA ClassStep ==
  ASSUME TypeOK, NEW t \in Threads, NEW c \in Classes, ScanClass(t, c) \/ ClassIsEmpty(t, c)
  PROVE  /\ UNCHANGED <<mapping, pc, todo, open, queue, failed, prescan, artifact>>
         /\ Busy(t) /\ c \in worker[t].left
         /\ Busy(t)' /\ worker'[t].unit = worker[t].unit
         /\ worker'[t].left = worker[t].left \ {c}
         /\ \A u \in Threads \ {t} : worker'[u] = worker[u]
         /\ listed' \cup empty' = (listed \cup empty) \cup {Here(t, c)}
<1>1. /\ worker[t] \in Working /\ worker' = [worker EXCEPT ![t].left = @ \ {c}]
      /\ Busy(t) /\ c \in worker[t].left
      /\ UNCHANGED <<mapping, pc, todo, open, queue, failed, prescan, artifact>>
  BY WorkerTypes DEF ScanClass, ClassIsEmpty, ClassDone
<1>2. worker'[t] = [worker[t] EXCEPT !.left = @ \ {c}] /\ \A u \in Threads \ {t} : worker'[u] = worker[u]
  BY <1>1 DEF TypeOK
<1>3. /\ worker'[t].unit = worker[t].unit /\ worker'[t].left = worker[t].left \ {c}
      /\ worker'[t].working = worker[t].working
  <2> DEFINE w == worker[t]
  <2>1. w = [unit |-> w.unit, left |-> w.left, working |-> w.working]
    BY <1>1 DEF Working
  <2>2. [w EXCEPT !.left = @ \ {c}]
          = [unit |-> w.unit, left |-> w.left \ {c}, working |-> w.working]
    BY <2>1
  <2>3. QED
    BY <1>2, <2>2
<1>4. listed' \cup empty' = (listed \cup empty) \cup {Here(t, c)}
  BY DEF ScanClass, ClassIsEmpty
<1>5. QED
  BY <1>1, <1>2, <1>3, <1>4 DEF Busy

\* A thread is through with its unit, for better or worse.
LEMMA UnitOver ==
  ASSUME TypeOK, NEW t \in Threads, ClassFails(t) \/ EndUnit(t)
  PROVE  /\ UNCHANGED <<mapping, pc, todo, open, queue, listed, empty, prescan, artifact>>
         /\ Busy(t) /\ ~Busy(t)'
         /\ \A u \in Threads \ {t} : worker'[u] = worker[u]
         /\ failed' # {} \/ (worker[t].left = {} /\ failed' = failed)
<1>1. worker' = [worker EXCEPT ![t] = Idle] /\ Busy(t)
  BY DEF ClassFails, EndUnit, Scanning
<1>2. worker'[t] = Idle /\ \A u \in Threads \ {t} : worker'[u] = worker[u]
  BY <1>1 DEF TypeOK
<1>3. QED
  BY <1>1, <1>2, IdleType DEF ClassFails, EndUnit, Busy

\* A thread takes the first unit of the queue.
LEMMA UnitStarts ==
  ASSUME TypeOK, NEW t \in Threads, StartUnit(t)
  PROVE  /\ UNCHANGED <<mapping, pc, todo, open, listed, empty, failed, prescan, artifact>>
         /\ queue # <<>> /\ queue' = Tail(queue) /\ ~Busy(t) /\ Busy(t)'
         /\ worker'[t].unit = queue[1] /\ worker'[t].left = queue[1].classes
         /\ \A u \in Threads \ {t} : worker'[u] = worker[u]
<1>1. Head(queue) = queue[1]
  BY QueueHead DEF StartUnit
<1>2. /\ worker'[t] = [working |-> TRUE, unit |-> Head(queue), left |-> Head(queue).classes]
      /\ \A u \in Threads \ {t} : worker'[u] = worker[u]
  BY DEF StartUnit, TypeOK
<1>3. worker'[t].working /\ worker'[t].unit = queue[1] /\ worker'[t].left = queue[1].classes
  BY <1>1, <1>2
<1>4. QED
  BY <1>2, <1>3 DEF StartUnit, Busy

\* The first unit leaves the queue, the others stay.
LEMMA QueueTail ==
  ASSUME TypeOK, queue # <<>>, queue' = Tail(queue),
         \A i, j \in DOMAIN queue : queue[i] = queue[j] => i = j
  PROVE  /\ queue[1] \in Queued /\ Queued' = Queued \ {queue[1]}
         /\ \A i, j \in DOMAIN queue' : queue'[i] = queue'[j] => i = j
<1>1. /\ Len(queue) \in Nat \ {0} /\ DOMAIN queue = 1 .. Len(queue)
      /\ DOMAIN queue' = 1 .. Len(queue) - 1
      /\ \A i \in 1 .. Len(queue) - 1 : queue'[i] = queue[i + 1]
  BY QueueHead
<1>2. ASSUME NEW i \in DOMAIN queue' PROVE queue'[i] \in Queued \ {queue[1]}
  BY <1>1 DEF Queued
<1>3. ASSUME NEW i \in DOMAIN queue, i # 1 PROVE queue[i] \in Queued'
  <2>1. i - 1 \in DOMAIN queue' /\ queue'[i - 1] = queue[i]
    BY <1>1, <1>3
  <2>2. QED
    BY <2>1 DEF Queued
<1>4. queue[1] \in Queued
  BY <1>1 DEF Queued
<1>5. Queued' \subseteq Queued \ {queue[1]}
  BY <1>2 DEF Queued
<1>6. Queued \ {queue[1]} \subseteq Queued'
  BY <1>3 DEF Queued
<1>7. \A i, j \in DOMAIN queue' : queue'[i] = queue'[j] => i = j
  BY <1>1
<1>8. QED
  BY <1>4, <1>5, <1>6, <1>7

\* A unit joins the queue.
LEMMA QueueAppend ==
  ASSUME TypeOK, NEW u \in Units, queue' = Append(queue, u)
  PROVE  /\ Queued' = Queued \cup {u}
         /\ u \notin Queued /\ (\A i, j \in DOMAIN queue : queue[i] = queue[j] => i = j)
              => \A i, j \in DOMAIN queue' : queue'[i] = queue'[j] => i = j
<1>1. /\ Len(queue) \in Nat /\ DOMAIN queue = 1 .. Len(queue)
      /\ DOMAIN queue' = 1 .. Len(queue) + 1
      /\ \A i \in 1 .. Len(queue) : queue'[i] = queue[i]
      /\ queue'[Len(queue) + 1] = u
  BY DEF TypeOK
<1>2. DOMAIN queue' = DOMAIN queue \cup {Len(queue) + 1}
  BY <1>1
<1>3. QED
  BY <1>1, <1>2 DEF Queued

\* Nothing comes into the pool, and no region is still to be opened again.
LEMMA PlacesShrink ==
  ASSUME PlaceInv, UNCHANGED queue, \A r, s : UnitsOf(r, s)' = UnitsOf(r, s),
         open' \subseteq open, todo' \subseteq todo, pc' = "session" => pc = "session",
         \A t \in Threads : Busy(t)' => /\ Busy(t) /\ worker'[t].unit = worker[t].unit
                                        /\ worker'[t].left \subseteq worker[t].left
  PROVE  PlaceInv'
<1>1. Queued' = Queued
  BY DEF Queued
<1>2. ASSUME NEW u, Planned(u) PROVE Planned(u)'
  BY <1>2 DEF Planned
<1>3. pc' = "session" => open' = {} /\ PoolIdle'
  BY DEF PlaceInv, PoolIdle
<1>4. \A u \in open' \cup Queued' : Planned(u)'
  BY <1>1, <1>2 DEF PlaceInv
<1>5. ASSUME NEW t \in Threads, Busy(t)'
      PROVE  /\ Planned(worker[t].unit)'
             /\ worker'[t].left \subseteq worker'[t].unit.classes
             /\ worker'[t].unit \notin open' \cup Queued'
  BY <1>1, <1>5 DEF PlaceInv, Planned
<1>6. \A t, u \in Threads :
        t # u /\ Busy(t)' /\ Busy(u)' => worker'[t].unit # worker'[u].unit
  BY DEF PlaceInv
<1>7. open' \cap Queued' = {}
  BY <1>1 DEF PlaceInv
<1>8. QED
  BY <1>3, <1>4, <1>5, <1>6, <1>7 DEF PlaceInv

LEMMA Places == Spec => []PlaceInv
<1>1. Init => PlaceInv
  <2> SUFFICES ASSUME Init PROVE PlaceInv
    OBVIOUS
  <2>1. open = {} /\ Queued = {} /\ PoolIdle /\ \A t \in Threads : ~Busy(t)
    BY IdleType DEF Init, Queued, PoolIdle, Busy
  <2>2. DOMAIN queue = {}
    BY DEF Init
  <2>3. QED
    BY <2>1, <2>2 DEF PlaceInv
<1>2. TypeOK /\ PlaceInv /\ [Next]_vars => PlaceInv'
  <2> SUFFICES ASSUME TypeOK, PlaceInv, [Next]_vars PROVE PlaceInv'
    OBVIOUS
  <2> USE PlansKept
  <2>1. CASE OpenSession
    <3>1. UNCHANGED <<queue, worker>> /\ open' = {} /\ pc' # "session"
      BY <2>1 DEF OpenSession, PrescanError, pool, PlaceInv
    <3>2. Queued' = {} /\ \A t \in Threads : ~Busy(t)'
      BY <2>1, <3>1 DEF OpenSession, PlaceInv, PoolIdle, Queued, Busy
    <3>3. DOMAIN queue' = {}
      BY <2>1, <3>1 DEF OpenSession, PlaceInv, PoolIdle
    <3>4. QED
      BY <3>1, <3>2, <3>3 DEF PlaceInv
  <2>2. CASE \/ SessionFails \/ AllSubmitted \/ PoolEnds \/ Write \/ WriteFails
             \/ \E r \in Regions : OpenRegionFails(r)
    <3>1. /\ UNCHANGED <<queue, worker>> /\ open' \subseteq open /\ todo' \subseteq todo
          /\ pc' # "session"
      BY <2>2 DEF SessionFails, AllSubmitted, PoolEnds, Write, WriteFails, OpenRegionFails,
                  PrescanError, pool
    <3>2. QED
      BY <3>1, PlacesShrink DEF Busy
  <2>3. ASSUME NEW r \in Regions, OpenRegion(r) PROVE PlaceInv'
    <3>1. /\ r \in todo /\ open = {} /\ todo' = todo \ {r} /\ open' = UnitsIn(r)
          /\ UNCHANGED <<pc, queue, worker>> /\ pc = "submit"
      BY <2>3 DEF OpenRegion, pool
    <3>2. Queued' = Queued /\ \A t \in Threads : Busy(t)' = Busy(t)
      BY <3>1 DEF Queued, Busy
    <3>3. ASSUME NEW u, Planned(u) PROVE Planned(u)' /\ u.region # r
      BY <3>1, <3>3 DEF Planned
    <3>4. ASSUME NEW u \in UnitsIn(r) PROVE Planned(u)' /\ u.region = r
      BY <3>1, UnitsTyped DEF Planned
    <3>5. open' \cap Queued' = {} /\ \A u \in open' \cup Queued' : Planned(u)'
      BY <3>1, <3>2, <3>3, <3>4 DEF PlaceInv
    <3>6. ASSUME NEW t \in Threads, Busy(t)
          PROVE  /\ Planned(worker[t].unit)'
                 /\ worker[t].left \subseteq worker[t].unit.classes
                 /\ worker[t].unit \notin open' \cup Queued'
      <4>1. /\ Planned(worker[t].unit) /\ worker[t].unit \notin Queued
            /\ worker[t].left \subseteq worker[t].unit.classes
        BY <3>6 DEF PlaceInv
      <4>2. worker[t].unit.region # r /\ UNCHANGED worker
        BY <3>1, <4>1 DEF Planned
      <4>3. QED
        BY <3>1, <3>2, <3>4, <4>1, <4>2 DEF Planned
    <3>7. QED
      BY <3>1, <3>2, <3>5, <3>6 DEF PlaceInv
  <2>4. ASSUME NEW u \in open, Submit(u) PROVE PlaceInv'
    <3>1. /\ u \in Units /\ queue' = Append(queue, u) /\ open' = open \ {u}
          /\ UNCHANGED <<pc, todo, worker>> /\ pc = "submit"
      BY <2>4 DEF Submit, TypeOK
    <3>2. Queued' = Queued \cup {u} /\ \A i, j \in DOMAIN queue' : queue'[i] = queue'[j] => i = j
      BY <3>1, QueueAppend DEF PlaceInv
    <3>3. ASSUME NEW v, Planned(v) PROVE Planned(v)'
      BY <3>1, <3>3 DEF Planned
    <3>4. \A v \in open' \cup Queued' : Planned(v)'
      BY <3>1, <3>2, <3>3 DEF PlaceInv
    <3>5. \A t \in Threads : Busy(t)' = Busy(t)
      BY <3>1 DEF Busy
    <3>6. ASSUME NEW t \in Threads, Busy(t)
          PROVE  /\ Planned(worker[t].unit)'
                 /\ worker[t].left \subseteq worker[t].unit.classes
                 /\ worker[t].unit \notin open' \cup Queued'
      BY <3>1, <3>2, <3>6 DEF PlaceInv, Planned
    <3>7. QED
      BY <3>1, <3>2, <3>4, <3>5, <3>6 DEF PlaceInv
  <2>5. ASSUME NEW t \in Threads, StartUnit(t) PROVE PlaceInv'
    <3>1. /\ UNCHANGED <<pc, todo, open>> /\ queue # <<>> /\ queue' = Tail(queue)
          /\ ~Busy(t) /\ worker'[t].unit = queue[1] /\ worker'[t].left = queue[1].classes
          /\ \A u \in Threads \ {t} : worker'[u] = worker[u] /\ Busy(u)' = Busy(u)
      BY <2>5, UnitStarts DEF Busy
    <3>2. /\ queue[1] \in Queued /\ Queued' = Queued \ {queue[1]}
          /\ \A i, j \in DOMAIN queue' : queue'[i] = queue'[j] => i = j
      BY <3>1, QueueTail DEF PlaceInv
    <3>3. ASSUME NEW v, Planned(v) PROVE Planned(v)'
      BY <3>1, <3>3 DEF Planned
    <3>4. pc # "session"
      BY <3>1 DEF PlaceInv, PoolIdle
    <3>5. \A v \in open' \cup Queued' : Planned(v)'
      BY <3>1, <3>2, <3>3 DEF PlaceInv
    <3>6. ASSUME NEW u \in Threads, Busy(u)'
          PROVE  /\ Planned(worker[u].unit)'
                 /\ worker'[u].left \subseteq worker'[u].unit.classes
                 /\ worker'[u].unit \notin open' \cup Queued'
                 /\ u # t => worker'[u].unit # worker'[t].unit
      <4>1. CASE u = t
        BY <3>1, <3>2, <4>1 DEF PlaceInv, Planned
      <4>2. CASE u # t
        BY <3>1, <3>2, <3>6, <4>2 DEF PlaceInv, Planned
      <4>3. QED
        BY <4>1, <4>2
    <3>7. \A u, v \in Threads :
            u # v /\ Busy(u)' /\ Busy(v)' => worker'[u].unit # worker'[v].unit
      BY <3>1, <3>6 DEF PlaceInv
    <3>8. open' \cap Queued' = {}
      BY <3>1, <3>2 DEF PlaceInv
    <3>9. QED
      BY <3>1, <3>2, <3>4, <3>5, <3>6, <3>7, <3>8 DEF PlaceInv
  <2>6. ASSUME NEW t \in Threads, ClassFails(t) \/ EndUnit(t) PROVE PlaceInv'
    BY <2>6, UnitOver, PlacesShrink DEF Busy
  <2>7. ASSUME NEW t \in Threads, NEW c \in Classes, ScanClass(t, c) \/ ClassIsEmpty(t, c)
        PROVE  PlaceInv'
    BY <2>7, ClassStep, PlacesShrink DEF Busy
  <2>8. CASE UNCHANGED vars
    BY <2>8, PlacesShrink DEF vars, Busy
  <2>9. QED
    BY <2>1, <2>2, <2>3, <2>4, <2>5, <2>6, <2>7, <2>8, NextCases
<1>3. QED
  BY <1>1, <1>2, AccountTypeCorrect, PTL DEF Spec

\* Two classes of one service are never scanned in one region at once, unless
\* one is marked for it: the other ones of a service are in one unit, and that
\* unit is with one thread.
THEOREM SerialClassesNeverOverlap == Spec => []SerialClassesAlone
<1>1. TypeOK /\ PlaceInv => SerialClassesAlone
  <2> SUFFICES ASSUME TypeOK, PlaceInv, NEW t \in Threads, NEW u \in Threads,
                      t # u, Busy(t), Busy(u), worker[t].unit.region = worker[u].unit.region,
                      NEW c \in worker[t].left, NEW d \in worker[u].left,
                      ServiceOf[c] = ServiceOf[d], c \notin ParallelScan, d \notin ParallelScan
               PROVE  FALSE
    BY DEF SerialClassesAlone
  <2>1. ASSUME NEW v, Planned(v), NEW e \in v.classes, e \notin ParallelScan
        PROVE  /\ v = Unit(v.region, v.service, MappedTo(v.region, v.service) \ ParallelScan)
               /\ v.service = ServiceOf[e]
    <3>1. v \in UnitsOf(v.region, v.service)
      BY <2>1 DEF Planned
    <3>2. ASSUME NEW f \in ParallelScan PROVE v # Unit(v.region, v.service, {f})
      BY <2>1, <3>2 DEF Unit
    <3>3. v = Unit(v.region, v.service, MappedTo(v.region, v.service) \ ParallelScan)
      BY <3>1, <3>2 DEF UnitsOf
    <3>4. v.classes = MappedTo(v.region, v.service) \ ParallelScan
      BY <3>3 DEF Unit
    <3>5. v.service = ServiceOf[e]
      BY <2>1, <3>4 DEF MappedTo
    <3>6. QED
      BY <3>3, <3>5
  <2>2. worker[t].unit = worker[u].unit
    <3>1. /\ Planned(worker[t].unit) /\ c \in worker[t].unit.classes
          /\ Planned(worker[u].unit) /\ d \in worker[u].unit.classes
      BY DEF PlaceInv
    <3>2. worker[t].unit.service = worker[u].unit.service
      BY <2>1, <3>1
    <3>3. QED
      BY <2>1, <3>1, <3>2
  <2>3. QED
    BY <2>2 DEF PlaceInv
<1>2. QED
  BY <1>1, AccountTypeCorrect, Places, PTL

-----------------------------------------------------------------------------
(* What an artifact holds                                                  *)

LEMMA PoolInvariant == Spec => []PoolInv
<1> USE DEF PoolInv
<1>1. Init => PoolInv
  BY DEF Init
<1>2. TypeOK /\ PoolInv /\ [Next]_vars => PoolInv'
  <2> SUFFICES ASSUME TypeOK, PoolInv, [Next]_vars PROVE PoolInv'
    OBVIOUS
  <2>1. CASE OpenSession \/ SessionFails \/ AllSubmitted
    BY <2>1 DEF OpenSession, SessionFails, AllSubmitted, PrescanError
  <2>2. ASSUME NEW r \in Regions, OpenRegion(r) \/ OpenRegionFails(r) PROVE PoolInv'
    BY <2>2 DEF OpenRegion, OpenRegionFails, PrescanError
  <2>3. ASSUME NEW u \in open, Submit(u) PROVE PoolInv'
    BY <2>3 DEF Submit
  <2>4. CASE PoolEnds \/ Write \/ WriteFails
    BY <2>4 DEF PoolEnds, Write, WriteFails, pool, PoolIdle, Busy
  <2>5. ASSUME NEW t \in Threads, StartUnit(t) \/ ClassFails(t) \/ EndUnit(t) PROVE PoolInv'
    BY <2>5, UnitStarts, UnitOver DEF PoolIdle
  <2>6. ASSUME NEW t \in Threads, NEW c \in Classes, ScanClass(t, c) \/ ClassIsEmpty(t, c)
        PROVE  PoolInv'
    BY <2>6, ClassStep DEF PoolIdle
  <2>7. CASE UNCHANGED vars
    BY <2>7 DEF vars, PoolIdle, Busy
  <2>8. QED
    BY <2>1, <2>2, <2>3, <2>4, <2>5, <2>6, <2>7, NextCases
<1>3. QED
  BY <1>1, <1>2, AccountTypeCorrect, PTL DEF Spec

\* Once scan has returned or raised, no unit of it is left in the pool, whatever
\* failed in the main thread or in the units.
THEOREM NothingRuns == Spec => []NothingLeftRunning
<1>1. PoolInv => NothingLeftRunning
  BY DEF PoolInv, NothingLeftRunning
<1>2. QED
  BY <1>1, PoolInvariant, PTL

\* A class that is mapped to a region is in a unit built for the region.
LEMMA UnitForClass ==
  ASSUME TypeOK, NEW c \in Classes, NEW r \in GetRegions(c)
  PROVE  \E u \in UnitsIn(r) : IsFor(u, c, r)
<1> DEFINE s == ServiceOf[c]
<1>1. s \in Services /\ c \in MappedTo(r, s)
  BY ScanAssumption DEF MappedTo
<1>2. PICK cs : c \in cs /\ Unit(r, s, cs) \in UnitsOf(r, s)
  BY <1>1 DEF UnitsOf
<1>3. Unit(r, s, cs) \in UnitsIn(r)
  BY <1>1, <1>2 DEF UnitsIn
<1>4. QED
  BY <1>2, <1>3 DEF IsFor, Unit

\* What is scanned once is not lost while nothing fails.
LEMMA ScanGoesOn ==
  ASSUME ScanInv, \A c \in Classes : GetRegions(c)' = GetRegions(c),
         pc # "session", pc' \in {pc, "wait", "compose", "raised"}, prescan' = prescan,
         pc' \notin {"session", "submit"} => todo' = {} /\ open' = {},
         failed' # {} \/ failed' = failed, pc = "returned" => UNCHANGED <<artifact, listed, failed>>,
         ~AnyError' => \A c \in Classes : \A r \in GetRegions(c) :
           Pending(c, r) => Pending(c, r)' \/ <<c, r>> \in listed' \cup empty',
         listed \cup empty \subseteq listed' \cup empty'
  PROVE  ScanInv'
<1>1. ~AnyError' => ~AnyError
  BY DEF AnyError
<1>2. pc # "session" /\ ~prescan' => \A c \in Classes : GetRegions(c)' # {}
  BY DEF ScanInv
<1>3. ASSUME ~AnyError', NEW c \in Classes, NEW r \in GetRegions(c)
      PROVE  Pending(c, r)' \/ <<c, r>> \in listed' \cup empty'
  BY <1>1, <1>3 DEF ScanInv
<1>4. pc' = "returned" =>
        artifact'.errors = AnyError' /\ artifact'.resources = IF AnyError' THEN {} ELSE listed'
  BY DEF ScanInv, AnyError
<1>5. QED
  BY <1>2, <1>3, <1>4 DEF ScanInv

\* After an error in the main thread there is only the error to be told.
LEMMA ScanAborted ==
  ASSUME PrescanError PROVE ScanInv'
  BY DEF PrescanError, ScanInv, AnyError

LEMMA ScanInvariant == Spec => []ScanInv
<1>1. Init => ScanInv
  BY DEF Init, ScanInv
<1>2. TypeOK /\ PlaceInv /\ PoolInv /\ ScanInv /\ [Next]_vars => ScanInv'
  <2> SUFFICES ASSUME TypeOK, PlaceInv, PoolInv, ScanInv, [Next]_vars PROVE ScanInv'
    OBVIOUS
  <2>1. \A c \in Classes : GetRegions(c)' = GetRegions(c)
    BY PlansKept
  <2>2. CASE OpenSession
    <3>1. CASE \A c \in Classes : GetRegions(c) # {}
      <4>1. todo' = UNION {GetRegions(c) : c \in Classes} /\ pc' = "submit"
        BY <2>2, <3>1 DEF OpenSession
      <4>2. \A c \in Classes : \A r \in GetRegions(c)' : Pending(c, r)'
        BY <2>1, <4>1 DEF Pending
      <4>3. QED
        BY <2>1, <3>1, <4>1, <4>2 DEF ScanInv
    <3>2. QED
      BY <2>2, <3>1, ScanAborted DEF OpenSession
  <2>3. CASE SessionFails \/ \E r \in Regions : OpenRegionFails(r)
    BY <2>3, ScanAborted DEF SessionFails, OpenRegionFails
  <2>4. ASSUME NEW r \in Regions, OpenRegion(r) PROVE ScanInv'
    <3>1. /\ open = {} /\ todo' = todo \ {r} /\ open' = UnitsIn(r) /\ pc = "submit"
          /\ UNCHANGED <<pc, queue, worker, listed, empty, failed, prescan, artifact>>
      BY <2>4 DEF OpenRegion, pool
    <3>2. ASSUME NEW c \in Classes, NEW q \in GetRegions(c), Pending(c, q)
          PROVE  Pending(c, q)'
      <4>1. CASE q = r
        <5>1. \E u \in open' : IsFor(u, c, q)
          BY <3>1, <4>1, UnitForClass
        <5>2. QED
          BY <5>1 DEF Pending, IsFor
      <4>2. CASE q # r
        BY <3>1, <3>2, <4>2 DEF Pending, Queued, Busy
      <4>3. QED
        BY <4>1, <4>2
    <3>3. QED
      BY <2>1, <3>1, <3>2, ScanGoesOn
  <2>5. ASSUME NEW u \in open, Submit(u) PROVE ScanInv'
    <3>1. /\ u \in Units /\ queue' = Append(queue, u) /\ open' = open \ {u} /\ pc = "submit"
          /\ UNCHANGED <<pc, todo, worker, listed, empty, failed, prescan, artifact>>
      BY <2>5 DEF Submit, TypeOK
    <3>2. open' \cup Queued' = open \cup Queued
      BY <3>1, QueueAppend
    <3>3. \A c, r : Pending(c, r) => Pending(c, r)'
      BY <3>1, <3>2 DEF Pending, Busy
    <3>4. QED
      BY <2>1, <3>1, <3>3, ScanGoesOn
  <2>6. CASE AllSubmitted \/ PoolEnds \/ WriteFails
    <3>1. /\ UNCHANGED <<todo, open, queue, worker, listed, empty, failed, prescan, artifact>>
          /\ pc \in {"submit", "wait", "compose"} /\ pc' \in {"wait", "compose", "raised"}
          /\ todo = {} /\ open = {}
      BY <2>6 DEF AllSubmitted, PoolEnds, WriteFails, pool, ScanInv
    <3>2. \A c, r : Pending(c, r) => Pending(c, r)'
      BY <3>1 DEF Pending, Queued, Busy
    <3>3. QED
      BY <2>1, <3>1, <3>2, ScanGoesOn
  <2>7. CASE Write
    <3>1. /\ UNCHANGED <<todo, open, queue, worker, listed, empty, failed, prescan>>
          /\ pc = "compose" /\ pc' = "returned"
          /\ artifact'.errors = AnyError
          /\ artifact'.resources = IF AnyError THEN {} ELSE listed
      BY <2>7 DEF Write, pool
    <3>2. \A c, r : Pending(c, r) => Pending(c, r)'
      BY <3>1 DEF Pending, Queued, Busy
    <3>3. AnyError' = AnyError
      BY <3>1 DEF AnyError
    <3>4. QED
      BY <2>1, <3>1, <3>2, <3>3 DEF ScanInv
  <2>8. ASSUME NEW t \in Threads, StartUnit(t) PROVE ScanInv'
    <3>1. /\ UNCHANGED <<pc, todo, open, listed, empty, failed, prescan, artifact>>
          /\ ~Busy(t) /\ Busy(t)' /\ queue # <<>>
          /\ worker'[t].unit = queue[1] /\ worker'[t].left = queue[1].classes
          /\ \A u \in Threads \ {t} : worker'[u] = worker[u] /\ Busy(u)' = Busy(u)
      BY <2>8, UnitStarts DEF Busy
    <3>2. Queued' = Queued \ {queue[1]}
      BY <2>8, UnitStarts, QueueTail DEF PlaceInv
    <3>3. ASSUME NEW c \in Classes, NEW r \in GetRegions(c), Pending(c, r)
          PROVE  Pending(c, r)'
      <4>1. CASE IsFor(queue[1], c, r)
        BY <3>1, <4>1 DEF Pending, IsFor
      <4>2. CASE ~IsFor(queue[1], c, r)
        BY <3>1, <3>2, <3>3, <4>2 DEF Pending
      <4>3. QED
        BY <4>1, <4>2
    <3>4. pc # "session"
      BY <3>1 DEF PlaceInv, PoolIdle
    <3>5. QED
      BY <2>1, <3>1, <3>3, <3>4, ScanGoesOn DEF ScanInv
  <2>9. ASSUME NEW t \in Threads, ClassFails(t) \/ EndUnit(t) PROVE ScanInv'
    <3>1. /\ UNCHANGED <<pc, todo, open, queue, listed, empty, prescan, artifact>>
          /\ Busy(t)
          /\ failed' # {} \/ (worker[t].left = {} /\ failed' = failed)
          /\ \A u \in Threads \ {t} : worker'[u] = worker[u] /\ Busy(u)' = Busy(u)
      BY <2>9, UnitOver DEF Busy
    <3>2. pc # "session" /\ pc # "returned"
      BY <3>1 DEF PlaceInv, PoolInv, PoolIdle
    <3>3. ASSUME NEW c \in Classes, NEW r \in GetRegions(c), Pending(c, r), ~AnyError'
          PROVE  Pending(c, r)'
      <4>1. worker[t].left = {} /\ Queued' = Queued
        BY <3>1, <3>3 DEF AnyError, Queued
      <4>2. QED
        BY <3>1, <3>3, <4>1 DEF Pending
    <3>4. QED
      BY <2>1, <3>1, <3>2, <3>3, ScanGoesOn DEF ScanInv
  <2>10. ASSUME NEW t \in Threads, NEW c \in Classes, ScanClass(t, c) \/ ClassIsEmpty(t, c)
         PROVE  ScanInv'
    <3>1. /\ UNCHANGED <<pc, todo, open, queue, failed, prescan, artifact>>
          /\ Busy(t) /\ Busy(t)' /\ worker'[t].unit = worker[t].unit
          /\ worker'[t].left = worker[t].left \ {c}
          /\ \A u \in Threads \ {t} : worker'[u] = worker[u] /\ Busy(u)' = Busy(u)
          /\ listed' \cup empty' = (listed \cup empty) \cup {<<c, worker[t].unit.region>>}
      BY <2>10, ClassStep DEF Busy, Here
    <3>2. pc # "session" /\ pc # "returned" /\ Queued' = Queued
      BY <3>1 DEF PlaceInv, PoolInv, PoolIdle, Queued
    <3>3. ASSUME NEW d \in Classes, NEW r \in GetRegions(d), Pending(d, r)
          PROVE  Pending(d, r)' \/ <<d, r>> \in listed' \cup empty'
      <4>1. CASE d = c /\ r = worker[t].unit.region
        BY <3>1, <4>1
      <4>2. CASE ~(d = c /\ r = worker[t].unit.region)
        BY <3>1, <3>2, <3>3, <4>2 DEF Pending
      <4>3. QED
        BY <4>1, <4>2
    <3>4. QED
      BY <2>1, <3>1, <3>2, <3>3, ScanGoesOn DEF ScanInv
  <2>11. CASE UNCHANGED vars
    BY <2>11 DEF vars, ScanInv, Pending, Queued, Busy, AnyError, GetRegions
  <2>12. QED
    BY <2>2, <2>3, <2>4, <2>5, <2>6, <2>7, <2>8, <2>9, <2>10, <2>11, NextCases
<1>3. QED
  BY <1>1, <1>2, AccountTypeCorrect, Places, PoolInvariant, PTL DEF Spec

\* An artifact without errors holds the listing of every class in every region
\* it is mapped to, short only of those AWS refused with an ignored code; one
\* with errors holds no listing at all.
THEOREM ArtifactComplete == Spec => []CompleteOrErrors
<1>1. TypeOK /\ PoolInv /\ ScanInv => CompleteOrErrors
  <2> SUFFICES ASSUME TypeOK, PoolInv, ScanInv, pc = "returned"
               PROVE  IF artifact.errors THEN artifact.resources = {}
                      ELSE \A c \in Classes :
                             /\ GetRegions(c) # {}
                             /\ \A r \in GetRegions(c) :
                                  <<c, r>> \in artifact.resources \cup empty
    BY DEF CompleteOrErrors, TypeOK
  <2>1. artifact.errors = AnyError /\ artifact.resources = IF AnyError THEN {} ELSE listed
    BY DEF ScanInv
  <2>2. ASSUME ~AnyError, NEW c \in Classes
        PROVE  /\ GetRegions(c) # {}
               /\ \A r \in GetRegions(c) : <<c, r>> \in listed \cup empty
    <3>1. todo = {} /\ open = {} /\ Queued = {} /\ \A t \in Threads : ~Busy(t)
      BY DEF ScanInv, PoolInv, PoolIdle, Queued
    <3>2. \A r \in GetRegions(c) : ~Pending(c, r)
      BY <3>1 DEF Pending
    <3>3. QED
      BY <2>2, <3>2 DEF ScanInv, AnyError
  <2>3. QED
    BY <2>1, <2>2
<1>2. QED
  BY <1>1, AccountTypeCorrect, PoolInvariant, ScanInvariant, PTL
=============================================================================
