--------------------------- MODULE VlaStoreProofs ---------------------------
(***************************************************************************)
(* Proofs about the lazily built repositories and the VLAs, for any number *)
(* of requests and any size of pools (properties in VlaStoreProps).        *)
(***************************************************************************)
EXTENDS VlaStoreProps, TLAPS

TypeInv ==
  /\ durable \subseteq Service
  /\ global \in [Kind -> Call \cup {NoRepo}]
  /\ request \in [Call -> Request \cup {NoRepo}]
  /\ pc \in [Call -> Running \cup {"idle", "done", "lost"}]
  /\ repo \in [Call -> Call \cup {NoRepo}]
  /\ answer \in [Call -> {"none", "200", "201", "204", "401", "404", "500"}]
  /\ before \in [Call -> SUBSET Call]

\* Who has done something has arrived, who has answered is done, and who came
\* before another had ended.
ArrivedInv ==
  /\ \A c \in Call : pc[c] # "idle" => request[c] \in Request
  /\ \A c \in Call : answer[c] # "none" => pc[c] = "done"
  /\ \A c, d \in Call : c \in before[d] => Ended(c)

\* A handler past the test of its global has a database; a pool is open from
\* its creation, and only pools have tables.
PoolInv ==
  /\ \A c \in Call :
       pc[c] \in {"pool", "tables", "acquire", "statement"} => Durable(c)
  /\ \A c \in Call : pc[c] = "tables" => c \in pools
  /\ \A c \in pools : c \in Call /\ pc[c] # "idle"
  /\ ready \subseteq pools

\* A global holds a repository of its kind, with tables if there is a
\* database, and it is set once there is one.
GlobalInv ==
  /\ \A k \in Kind : global[k] # NoRepo =>
       LET p == global[k]
       IN  pc[p] # "idle" /\ KindOf(p) = k /\ (Durable(p) => p \in ready)
  /\ \A p \in ready : global[KindOf(p)] # NoRepo

\* Who builds a pool, or has built one, found no global: whatever has tables
\* meanwhile had not ended before.
OverlapInv ==
  \A q \in Call : (pc[q] \in {"pool", "tables"} \/ q \in pools) =>
    \A p \in ready : p # q /\ KindOf(p) = KindOf(q) => p \notin before[q]

IInv ==
  /\ TypeInv
  /\ ArrivedInv
  /\ PoolInv
  /\ GlobalInv
  /\ NoStatementBeforeTables
  /\ OverlapInv
  /\ CreatedVlaIsKept

-----------------------------------------------------------------------------
\* Every request is about one kind of repository, and every kind belongs to
\* one service.
LEMMA KindsPartitioned ==
  /\ \A c \in Call : KindOf(c) \in Kind
  /\ \A s, t \in Service, k \in Kind : k \in KindsOf(s) \cap KindsOf(t) => s = t
  /\ \A s \in Service : KindsOf(s) \subseteq Kind
  BY DEF KindOf, KindsOf, Kind, Service

\* Nothing of this changes but when a request arrives.
LEMMA RequestsStay ==
  ASSUME UNCHANGED history
  PROVE  \A c \in Call :
           /\ KindOf(c)' = KindOf(c)
           /\ \A s \in Service : At(c, s)' = At(c, s)
           /\ Durable(c)' = Durable(c)
           /\ before'[c] = before[c]
           /\ request'[c] = request[c]
  BY DEF history, KindOf, At, Durable

\* Requests of one kind go to the same service.
LEMMA DurableByKind ==
  ASSUME TypeInv, ArrivedInv,
         NEW c \in Call, NEW d \in Call,
         pc[d] # "idle", KindOf(d) = KindOf(c), Durable(c)
  PROVE  Durable(d)
  BY RequestAssumption DEF Durable, At, ArrivedInv

-----------------------------------------------------------------------------
\* The invariant holds at the start of the services.
LEMMA InvInit == Init => IInv
  BY StoreAssumption
  DEF Init, IInv, TypeInv, ArrivedInv, PoolInv, GlobalInv, OverlapInv, Kind,
      Service, Running, NoStatementBeforeTables, CreatedVlaIsKept

\* A request that comes changes nothing that is shared.
LEMMA ArriveStep ==
  ASSUME IInv, NEW c \in Call, Arrive(c)
  PROVE  IInv'
  <1> USE StoreAssumption, RequestAssumption DEF IInv
  <1>1. /\ pc[c] = "idle"
        /\ \A d \in Call \ {c} :
             /\ pc'[d] = pc[d]
             /\ request'[d] = request[d]
             /\ before'[d] = before[d]
        /\ pc'[c] \in {"authorize", "getRepo"}
        /\ request'[c] \in Request
        /\ before'[c] = {d \in Call : Ended(d)}
        /\ UNCHANGED <<durable, vlas, process, repo, holds, answer>>
    BY DEF Arrive, Goto, TypeInv
  <1>2. TypeInv'
    BY <1>1 DEF Arrive, Goto, TypeInv, Running, process
  <1>3. ArrivedInv'
    BY <1>1 DEF ArrivedInv, TypeInv, Ended
  <1>4. \A d \in Call \ {c} :
          /\ KindOf(d)' = KindOf(d)
          /\ \A s \in Service : At(d, s)' = At(d, s)
          /\ Durable(d)' = Durable(d)
    BY <1>1 DEF KindOf, At, Durable
  <1>5. PoolInv'
    BY <1>1, <1>4 DEF PoolInv, process
  <1>6. GlobalInv'
    <2>1. ASSUME NEW k \in Kind, global[k] # NoRepo
          PROVE  global[k] \in Call \ {c}
      BY <1>1, <2>1 DEF GlobalInv, TypeInv
    <2>2. \A p \in ready : p \in Call \ {c}
      BY <1>1 DEF PoolInv
    <2> QED
      BY <1>1, <1>4, <2>1, <2>2 DEF GlobalInv, process
  <1>7. NoStatementBeforeTables'
    BY <1>1, <1>4 DEF NoStatementBeforeTables, PoolInv, process
  <1>8. OverlapInv'
    BY <1>1, <1>4 DEF OverlapInv, PoolInv, process
  <1>9. CreatedVlaIsKept'
    BY <1>1, <1>4 DEF CreatedVlaIsKept, ArrivedInv, Service
  <1> QED
    BY <1>2, <1>3, <1>5, <1>6, <1>7, <1>8, <1>9

\* What every step of a handler keeps: its call had not ended, and only its
\* own place and answer change.
LEMMA HandlerMoves ==
  ASSUME IInv, NEW c \in Call, Handler(c)
  PROVE  /\ pc[c] \in Running
         /\ pc'[c] # "idle"
         /\ answer'[c] # "none" => pc'[c] = "done"
         /\ \A d \in Call \ {c} :
              pc'[d] = pc[d] /\ answer'[d] = answer[d] /\ repo'[d] = repo[d]
         /\ UNCHANGED history
         /\ TypeInv'
  <1> USE StoreAssumption DEF IInv, TypeInv, history, Goto, Finish, Running
  <1>1. answer[c] = "none" \/ pc[c] = "done"
    BY DEF ArrivedInv
  <1>2. KindOf(c) \in Kind
    BY KindsPartitioned
  <1>3. CASE Authorize(c)
    BY <1>1, <1>3 DEF Authorize, process
  <1>4. CASE GetRepo(c)
    BY <1>1, <1>2, <1>4 DEF GetRepo, process
  <1>5. CASE CreatePool(c)
    BY <1>1, <1>5 DEF CreatePool
  <1>6. CASE EnsureTables(c)
    BY <1>1, <1>2, <1>6 DEF EnsureTables, Publish
  <1>7. CASE BuildFails(c)
    BY <1>1, <1>7 DEF BuildFails, process
  <1>8. CASE Acquire(c)
    BY <1>1, <1>8 DEF Acquire, process
  <1>9. CASE Statement(c)
    BY <1>1, <1>9 DEF Statement, Status, process
  <1>10. CASE StatementFails(c)
    BY <1>1, <1>10 DEF StatementFails, process
  <1>11. CASE InMemory(c)
    BY <1>1, <1>2, <1>11 DEF InMemory, Publish, Status
  <1> QED
    BY <1>3, <1>4, <1>5, <1>6, <1>7, <1>8, <1>9, <1>10, <1>11 DEF Handler

\* A step that leaves the VLAs alone, or adds to them, keeps what was created;
\* only a removal takes VLAs away, and it is under way then.
LEMMA CreatedStep ==
  ASSUME IInv, NEW c \in Call, Handler(c)
  PROVE  CreatedVlaIsKept'
  <1> USE DEF IInv
  <1>1. /\ pc[c] \in Running
        /\ \A d \in Call \ {c} : pc'[d] = pc[d] /\ answer'[d] = answer[d]
        /\ \A d \in Call : /\ before'[d] = before[d]
                           /\ request'[d] = request[d]
                           /\ \A s \in Service : At(d, s)' = At(d, s)
        /\ durable' = durable
        /\ request[c] \in Request
        /\ answer[c] = "none" /\ c \notin {d \in Call : Ended(d)}
    BY HandlerMoves, RequestsStay DEF Running, ArrivedInv, Ended, history
  <1>2. request[c] # NoRepo
    BY <1>1, RequestAssumption
  <1>3. CASE UNCHANGED vlas /\ answer'[c] # "201"
    BY <1>1, <1>3 DEF CreatedVlaIsKept, Running, Service
  <1>4. CASE Effect(c) /\ answer'[c] \in {Status(c), "500"}
    <2> SUFFICES ASSUME NEW x \in Call, answer'[x] = "201", x \notin vlas'
                 PROVE  \E d \in Call :
                          /\ request'[d] # NoRepo /\ d \notin before'[x]
                          /\ \/ /\ request'[d].op = "removeAll"
                                /\ answer'[d] \in {"204", "500"}
                             \/ /\ "vlaManager" \notin durable'
                                /\ At(d, "vlaManager")' /\ pc'[d] = "lost"
      BY DEF CreatedVlaIsKept
    <2>1. x # c
      BY <1>4 DEF Effect, Status
    <2>2. answer[x] = "201" /\ c \notin before[x]
      BY <1>1, <2>1 DEF ArrivedInv
    <2>3. CASE x \notin vlas
      BY <1>1, <2>2, <2>3 DEF CreatedVlaIsKept, Running, Service
    <2>4. CASE x \in vlas
      <3>1. request[c].op = "removeAll"
        BY <1>4, <2>4 DEF Effect
      <3> QED
        BY <1>1, <1>2, <1>4, <2>2, <3>1 DEF Status
    <2> QED
      BY <2>3, <2>4
  <1>5. CASE UNCHANGED vlas /\ answer'[c] = "201"
    <2>1. Statement(c) \/ InMemory(c)
      BY <1>1, <1>5 DEF Handler, Authorize, GetRepo, CreatePool, EnsureTables,
         BuildFails, Acquire, StatementFails, Finish, TypeInv
    <2> QED
      BY <1>4, <2>1 DEF Statement, InMemory, Finish, TypeInv
  <1> QED
    BY <1>3, <1>4, <1>5
    DEF Handler, Authorize, GetRepo, CreatePool, EnsureTables, BuildFails,
        Acquire, Statement, StatementFails, InMemory, Finish, TypeInv

\* What a handler's step does to the globals, the pools and its own place:
\* nothing, or one of four things.
LEMMA BuilderMoves ==
  ASSUME IInv, NEW c \in Call, Handler(c)
  PROVE  \/ /\ UNCHANGED process
            /\ pc'[c] \notin {"pool", "tables"}
            /\ pc'[c] \in {"acquire", "statement"} =>
                 \/ pc[c] = "acquire" /\ repo'[c] = repo[c]
                 \/ /\ pc[c] = "getRepo" /\ Durable(c)
                    /\ global[KindOf(c)] # NoRepo
                    /\ repo'[c] = global[KindOf(c)]
         \/ /\ UNCHANGED process
            /\ pc'[c] = "pool" /\ Durable(c) /\ global[KindOf(c)] = NoRepo
         \/ /\ UNCHANGED <<global, ready>>
            /\ pools' = pools \cup {c}
            /\ pc[c] = "pool" /\ pc'[c] = "tables"
         \/ /\ UNCHANGED pools
            /\ ready' = ready \cup {c} /\ Publish(c)
            /\ pc[c] = "tables" /\ pc'[c] = "acquire" /\ repo'[c] = c
         \/ /\ UNCHANGED <<pools, ready>>
            /\ ~Durable(c) /\ pc'[c] = "done"
            /\ Publish(c) \/ UNCHANGED global
  <1> USE DEF IInv, TypeInv, Goto, Finish, process
  <1>1. CASE Authorize(c)
    BY <1>1 DEF Authorize
  <1>2. CASE GetRepo(c)
    BY <1>2 DEF GetRepo
  <1>3. CASE CreatePool(c)
    BY <1>3 DEF CreatePool
  <1>4. CASE EnsureTables(c)
    BY <1>4 DEF EnsureTables
  <1>5. CASE BuildFails(c)
    BY <1>5 DEF BuildFails
  <1>6. CASE Acquire(c)
    BY <1>6 DEF Acquire
  <1>7. CASE Statement(c)
    BY <1>7 DEF Statement
  <1>8. CASE StatementFails(c)
    BY <1>8 DEF StatementFails
  <1>9. CASE InMemory(c)
    BY <1>9 DEF InMemory
  <1> QED
    BY <1>1, <1>2, <1>3, <1>4, <1>5, <1>6, <1>7, <1>8, <1>9 DEF Handler

\* Every step of a handler preserves the inductive invariant.
LEMMA HandlerStep ==
  ASSUME IInv, NEW c \in Call, Handler(c)
  PROVE  IInv'
  <1> USE StoreAssumption DEF IInv
  <1>1. /\ pc[c] \in Running /\ pc'[c] # "idle" /\ TypeInv'
        /\ answer'[c] # "none" => pc'[c] = "done"
        /\ \A d \in Call \ {c} :
             pc'[d] = pc[d] /\ answer'[d] = answer[d] /\ repo'[d] = repo[d]
        /\ \A d \in Call : /\ KindOf(d)' = KindOf(d) /\ Durable(d)' = Durable(d)
                           /\ before'[d] = before[d]
                           /\ request'[d] = request[d]
                           /\ KindOf(d) \in Kind
    BY HandlerMoves, RequestsStay, KindsPartitioned
  <1>2. ArrivedInv'
    BY <1>1 DEF ArrivedInv, Ended, Running
  <1>3. \A d \in Call : c \notin before[d]
    BY <1>1 DEF ArrivedInv, Ended, Running
  <1>4. PoolInv'
    BY <1>1, BuilderMoves DEF PoolInv, TypeInv, process, Running
  <1>5. GlobalInv'
    <2>1. CASE UNCHANGED <<global, ready>>
      BY <1>1, <2>1 DEF GlobalInv, PoolInv, TypeInv
    <2>2. CASE Publish(c) /\ ready' = ready \cup {c}
      BY <1>1, <2>2 DEF GlobalInv, PoolInv, TypeInv, Publish
    <2>3. CASE Publish(c) /\ UNCHANGED ready /\ ~Durable(c)
      BY <1>1, <2>3 DEF GlobalInv, PoolInv, TypeInv, Publish
    <2> QED
      BY <2>1, <2>2, <2>3, BuilderMoves DEF process
  <1>6. NoStatementBeforeTables'
    <2> SUFFICES ASSUME NEW d \in Call, pc'[d] \in {"acquire", "statement"}
                 PROVE  repo'[d] \in ready' /\ KindOf(repo'[d]) = KindOf(d)
      BY HandlerMoves DEF NoStatementBeforeTables, KindOf, history
    <2>1. ready \subseteq ready' /\ ready \subseteq Call
      BY BuilderMoves DEF process, PoolInv
    <2>2. CASE pc[d] \in {"acquire", "statement"} /\ repo'[d] = repo[d]
      BY <1>1, <2>1, <2>2 DEF NoStatementBeforeTables
    <2>3. CASE d = c /\ Durable(c) /\ global[KindOf(c)] # NoRepo
               /\ repo'[c] = global[KindOf(c)]
      <3>1. /\ repo'[c] \in Call /\ pc[repo'[c]] # "idle"
            /\ KindOf(repo'[c]) = KindOf(c)
            /\ Durable(repo'[c]) => repo'[c] \in ready
        BY <1>1, <2>3 DEF GlobalInv, TypeInv
      <3>2. Durable(repo'[c])
        BY <2>3, <3>1, DurableByKind
      <3> QED
        BY <1>1, <2>1, <2>3, <3>1, <3>2
    <2>4. CASE d = c /\ repo'[c] = c /\ c \in ready'
      BY <1>1, <2>4
    <2> QED
      BY <1>1, <2>2, <2>3, <2>4, BuilderMoves DEF Running
  <1>7. OverlapInv'
    <2> SUFFICES ASSUME NEW q \in Call, NEW p \in ready',
                        pc'[q] \in {"pool", "tables"} \/ q \in pools',
                        p # q, KindOf(p)' = KindOf(q)'
                 PROVE  p \notin before'[q]
      BY DEF OverlapInv
    <2>1. CASE p = c
      BY <1>1, <1>3, <2>1
    <2>2. CASE p \in ready /\ (pc[q] \in {"pool", "tables"} \/ q \in pools)
      <3>1. p \in Call
        BY <2>2 DEF PoolInv
      <3> QED
        BY <1>1, <2>2, <3>1 DEF OverlapInv
    <2>3. CASE p \in ready /\ q = c /\ global[KindOf(c)] = NoRepo
      <3>1. p \in Call /\ global[KindOf(p)] # NoRepo
        BY <2>3 DEF PoolInv, GlobalInv
      <3> QED
        BY <1>1, <2>3, <3>1
    <2> QED
      BY <1>1, <2>1, <2>2, <2>3, BuilderMoves DEF process
  <1>8. CreatedVlaIsKept'
    BY CreatedStep
  <1> QED
    BY <1>1, <1>2, <1>4, <1>5, <1>6, <1>7, <1>8

\* The end of a process takes the globals and the pools of its service, and
\* nothing of the other one.
LEMMA CrashStep ==
  ASSUME IInv, NEW s \in Service, Crash(s)
  PROVE  IInv'
  <1> USE StoreAssumption DEF IInv
  <1> DEFINE Here == {c \in Call : At(c, s)}
  <1>1. /\ \A c \in Call : \/ pc'[c] = pc[c]
                           \/ pc[c] \in Running /\ pc'[c] = "lost"
        /\ \A c \in Here : pc'[c] \notin Running
        /\ pools' = pools \ Here /\ ready' = ready \ Here
        /\ \A k \in Kind :
             global'[k] = IF k \in KindsOf(s) THEN NoRepo ELSE global[k]
        /\ UNCHANGED <<history, repo, answer>>
        /\ \A c \in Call : /\ KindOf(c)' = KindOf(c) /\ Durable(c)' = Durable(c)
                           /\ before'[c] = before[c]
                           /\ KindOf(c) \in Kind
    <2>1. UNCHANGED <<history, repo, answer>>
      BY DEF Crash
    <2>2. \A c \in Call : /\ KindOf(c)' = KindOf(c) /\ Durable(c)' = Durable(c)
                          /\ before'[c] = before[c]
                          /\ KindOf(c) \in Kind
      BY <2>1, RequestsStay, KindsPartitioned
    <2>3. \A c \in Call :
            pc'[c] = IF At(c, s) /\ pc[c] \in Running THEN "lost" ELSE pc[c]
      BY DEF Crash
    <2>4. \A c \in Here : pc'[c] \notin Running
      BY <2>3 DEF Running
    <2>5. pools' = pools \ Here /\ ready' = ready \ Here
      BY DEF Crash
    <2>6. \A k \in Kind :
            global'[k] = IF k \in KindsOf(s) THEN NoRepo ELSE global[k]
      BY DEF Crash
    <2> QED
      BY <2>1, <2>2, <2>3, <2>4, <2>5, <2>6
  <1>2. TypeInv'
    BY DEF Crash, TypeInv, history, Running
  <1>3. ArrivedInv'
    BY <1>1 DEF ArrivedInv, Ended, Running, history
  <1>4. PoolInv'
    BY <1>1 DEF PoolInv, Running
  <1>5. \A p \in Call : pc[p] # "idle" =>
          (p \in Here <=> KindOf(p) \in KindsOf(s))
    BY RequestAssumption DEF At, ArrivedInv
  <1>6. GlobalInv'
    <2>1. ASSUME NEW k \in Kind, global'[k] # NoRepo
          PROVE  /\ global[k] \in Call /\ global'[k] = global[k]
                 /\ pc'[global[k]] # "idle" /\ KindOf(global[k]) = k
                 /\ Durable(global[k]) => global[k] \in ready'
      BY <1>1, <1>5, <2>1 DEF GlobalInv, TypeInv
    <2>2. ASSUME NEW p \in ready'
          PROVE  p \in Call /\ global'[KindOf(p)] # NoRepo
      BY <1>1, <1>5, <2>2 DEF GlobalInv, PoolInv
    <2> QED
      BY <1>1, <2>1, <2>2 DEF GlobalInv
  <1>7. NoStatementBeforeTables'
    <2> SUFFICES ASSUME NEW d \in Call, pc'[d] \in {"acquire", "statement"}
                 PROVE  repo'[d] \in ready' /\ KindOf(repo'[d]) = KindOf(d)
      BY <1>1 DEF NoStatementBeforeTables, KindOf, history
    <2>1. pc[d] \in {"acquire", "statement"} /\ d \notin Here
      BY <1>1 DEF Running
    <2>2. repo[d] \in ready /\ repo[d] \in Call /\ KindOf(repo[d]) = KindOf(d)
      BY <2>1 DEF NoStatementBeforeTables, PoolInv
    <2>3. repo[d] \notin Here
      BY <1>5, <2>1, <2>2 DEF PoolInv
    <2> QED
      BY <1>1, <2>2, <2>3
  <1>8. OverlapInv'
    BY <1>1 DEF OverlapInv, PoolInv
  <1>9. CreatedVlaIsKept'
    <2> SUFFICES ASSUME NEW x \in Call, answer'[x] = "201", x \notin vlas'
                 PROVE  \E d \in Call :
                          /\ request'[d] # NoRepo /\ d \notin before'[x]
                          /\ \/ /\ request'[d].op = "removeAll"
                                /\ answer'[d] \in {"204", "500"}
                             \/ /\ "vlaManager" \notin durable'
                                /\ At(d, "vlaManager")' /\ pc'[d] = "lost"
      BY DEF CreatedVlaIsKept
    <2>1. \A d \in Call : At(d, "vlaManager")' = At(d, "vlaManager")
      BY <1>1, RequestsStay DEF Service
    <2>2. CASE x \notin vlas
      BY <1>1, <2>1, <2>2 DEF CreatedVlaIsKept, history, Running
    <2>3. CASE x \in vlas
      <3>1. s = "vlaManager" /\ s \notin durable
        BY <2>3 DEF Crash, Surviving, Service
      <3>2. PICK d \in Call : At(d, s) /\ pc[d] \in Running /\ pc'[d] = "lost"
        BY DEF Crash
      <3>3. request[d] # NoRepo /\ d \notin before[x]
        BY <3>2 DEF At, ArrivedInv, Ended, Running
      <3> QED
        BY <1>1, <2>1, <3>1, <3>2, <3>3 DEF history
    <2> QED
      BY <2>2, <2>3
  <1> QED
    BY <1>2, <1>3, <1>4, <1>6, <1>7, <1>8, <1>9

\* Every step of the services preserves the inductive invariant.
LEMMA InvStep == IInv /\ [Next]_vars => IInv'
  <1> SUFFICES ASSUME IInv, [Next]_vars PROVE IInv'
    OBVIOUS
  <1>1. ASSUME NEW c \in Call, Arrive(c) PROVE IInv'
    BY <1>1, ArriveStep
  <1>2. ASSUME NEW c \in Call, Handler(c) PROVE IInv'
    BY <1>2, HandlerStep
  <1>3. ASSUME NEW s \in Service, Crash(s) PROVE IInv'
    BY <1>3, CrashStep
  <1>4. CASE UNCHANGED vars
    BY <1>4
    DEF vars, process, history, IInv, TypeInv, ArrivedInv, PoolInv, GlobalInv,
        OverlapInv, NoStatementBeforeTables, CreatedVlaIsKept, KindOf, At,
        Durable, Ended
  <1> QED
    BY <1>1, <1>2, <1>3, <1>4 DEF Next

\* The inductive invariant always holds.
LEMMA Inductive == Spec => []IInv
  BY InvInit, InvStep, PTL DEF Spec

-----------------------------------------------------------------------------
\* However many requests build repositories at once, each runs its statement
\* on a pool whose tables were ensured (get_repo, get_template_repo and
\* get_whitelist, which set their globals after the await).
THEOREM StatementsFollowTables == Spec => []NoStatementBeforeTables
  BY Inductive, PTL DEF IInv

\* A second pool of a kind is owed to requests that overlapped, or to a
\* building that failed or has not ended: a service under steady load has one.
THEOREM PoolsComeFromOverlaps == Spec => []PoolsNeedOverlap
  <1>1. IInv => PoolsNeedOverlap
    BY DEF IInv, PoolInv, OverlapInv, PoolsNeedOverlap
  <1> QED
    BY <1>1, Inductive, PTL

\* A VLA whose id was told to a client is there until a DELETE /vla that had
\* not ended when its creation came, or until a process without a database
\* ends.
THEOREM CreatedVlasAreKept == Spec => []CreatedVlaIsKept
  BY Inductive, PTL DEF IInv
=============================================================================
