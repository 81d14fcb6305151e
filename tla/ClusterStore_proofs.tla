------------------------- MODULE ClusterStore_proofs -------------------------
(***************************************************************************)
(* Proofs about ClusterStore for any set of calls, on both backends. The   *)
(* inductive invariant says what the copy an UpdateCluster call holds has  *)
(* to do with the stored cluster: if the backend's comparison succeeds,    *)
(* the two are the same.                                                   *)
(***************************************************************************)
EXTENDS ClusterStore, TLAPS

\* A call whose write may still be executed.
Pending(u) == pc[u] = "write" \/ u \in lost

PcInv ==
    /\ \A c \in Creators : pc[c] \in {"create"} \cup Returned
    /\ \A u \in Updaters : pc[u] \in {"get", "write"} \cup Returned
    /\ \A d \in Deleters : pc[d] \in {"delete"} \cup Returned

ObjInv ==
    /\ ~Exists => obj = NoObject
    /\ obj.rev <= rev
    /\ Exists => births > 0
    /\ Backend = "etcd" => births <= 1

CallInv ==
    \A x \in Calls :
        /\ pc[x] \notin Returned => x \notin applied
        /\ x \in lost => pc[x] = "err" /\ x \notin applied

\* Write numbers only grow; so do the versions of a key that is created once.
SnapInv ==
    \A u \in Updaters : Pending(u) =>
        /\ births > 0
        /\ snap[u].version > 0
        /\ snap[u].rev <= rev
        /\ Exists /\ obj.rev = snap[u].rev => obj = snap[u]
        /\ Backend = "etcd" /\ Exists =>
              /\ snap[u].version <= obj.version
              /\ obj.version = snap[u].version => obj = snap[u]

IInv == TypeOK /\ PcInv /\ ObjInv /\ CallInv /\ SnapInv

-----------------------------------------------------------------------------
\* Records with the fields of a stored cluster are stored clusters.
LEMMA ObjectType ==
    ASSUME NEW v \in Nat, NEW r \in Nat, NEW cs \in SUBSET Caps,
           NEW l \in Creators \cup Updaters \cup {"none"}
    PROVE  [version |-> v, rev |-> r, caps |-> cs, labels |-> l] \in Objects
  BY Zenon DEF Objects

\* The fields of a stored cluster.
LEMMA ObjectFields ==
    ASSUME NEW o \in Objects
    PROVE  /\ o.version \in Nat /\ o.rev \in Nat
           /\ o.caps \in SUBSET Caps
           /\ o.labels \in Creators \cup Updaters \cup {"none"}
  BY DEF Objects

\* The state the store starts from satisfies the invariant.
LEMMA InitIInv == Init => IInv
  <1> SUFFICES ASSUME Init PROVE IInv
    OBVIOUS
  <1>1. NoObject \in Objects
    BY ObjectType DEF NoObject
  <1>2. TypeOK
    BY <1>1 DEF Init, TypeOK, Returned, Calls
  <1>3. PcInv
    BY ClusterStoreAssumption DEF Init, PcInv, Calls
  <1>4. ObjInv /\ SnapInv /\ CallInv
    BY DEF Init, ObjInv, SnapInv, CallInv, Pending, Exists, NoObject, Calls, Returned
  <1>5. QED
    BY <1>2, <1>3, <1>4 DEF IInv

\* When the comparison of UpdateCluster succeeds, the cluster exists and is the
\* one the call has read.
LEMMA UnmodifiedIsSame ==
    ASSUME IInv, NEW u \in Updaters, Pending(u), Unmodified(u)
    PROVE  Exists /\ obj = snap[u]
  <1>1. snap[u].version \in Nat /\ obj.version \in Nat
    BY ObjectFields DEF IInv, TypeOK
  <1>2. QED
    BY <1>1 DEF IInv, SnapInv, Unmodified, Exists

\* What a write of UpdateCluster stores is the mutation of the stored cluster.
LEMMA MutatedType ==
    ASSUME IInv, NEW u \in Updaters
    PROVE  /\ Mutated(u) \in Objects
           /\ Mutated(u).version = obj.version + 1
           /\ Mutated(u).rev = rev + 1
  <1>1. /\ snap[u] \in Objects /\ obj \in Objects /\ rev \in Nat
        /\ CapOf[u] \in Caps
    BY DEF IInv, TypeOK, Caps
  <1>2. /\ obj.version + 1 \in Nat /\ rev + 1 \in Nat
        /\ snap[u].caps \in SUBSET Caps
        /\ snap[u].labels \in Creators \cup Updaters \cup {"none"}
    BY <1>1, ObjectFields
  <1>3. (IF u \in Editors THEN snap[u].caps ELSE snap[u].caps \cup {CapOf[u]}) \in SUBSET Caps
    BY <1>1, <1>2
  <1>4. (IF u \in Editors THEN u ELSE snap[u].labels) \in Creators \cup Updaters \cup {"none"}
    BY <1>2
  <1>5. Mutated(u) \in Objects
    BY <1>2, <1>3, <1>4, ObjectType DEF Mutated
  <1>6. QED
    BY <1>5 DEF Mutated

\* What CreateCluster stores is a cluster.
LEMMA NewType ==
    ASSUME IInv, NEW c \in Creators
    PROVE  /\ New(c) \in Objects
           /\ New(c).version = obj.version + 1
           /\ New(c).rev = rev + 1
  <1>1. obj \in Objects /\ rev \in Nat /\ {CapOf[c]} \in SUBSET Caps
    BY DEF IInv, TypeOK, Caps
  <1>2. obj.version + 1 \in Nat /\ rev + 1 \in Nat
    BY <1>1, ObjectFields
  <1>3. New(c) \in Objects
    BY <1>1, <1>2, ObjectType DEF New
  <1>4. QED
    BY <1>3 DEF New

-----------------------------------------------------------------------------
\* A write that creates or changes the cluster preserves the invariant.
LEMMA ExecuteStep ==
    ASSUME IInv, NEW x \in Creators \cup Updaters, NEW new \in Objects, Execute(x, new),
           new.version = obj.version + 1, new.rev = rev + 1,
           Backend = "etcd" => births' <= 1,
           x \notin applied,
           \/ pc' = [pc EXCEPT ![x] = "ok"]
           \/ pc[x] = "err" /\ pc' = pc,
           lost' = lost \ {x}, UNCHANGED <<snap, fails>>
    PROVE  IInv'
  <1>1. /\ obj \in Objects /\ obj' = new /\ rev \in Nat /\ rev' = rev + 1
        /\ births \in Nat /\ births' = IF ~Exists THEN births + 1 ELSE births
        /\ applied' = applied \cup {x}
        /\ obj.version \in Nat /\ obj.rev \in Nat
        /\ x \in Calls
    BY ObjectFields DEF IInv, TypeOK, Execute, Calls
  <1>2. births' \in Nat /\ births' > 0 /\ Exists'
    BY <1>1 DEF IInv, ObjInv, Exists
  <1>3. TypeOK'
    BY <1>1, <1>2 DEF IInv, TypeOK, Returned
  <1>4. PcInv'
    BY DEF IInv, PcInv, TypeOK, Returned, Calls
  <1>5. ObjInv'
    BY <1>1, <1>2 DEF ObjInv
  <1>6. CallInv'
    BY <1>1 DEF IInv, CallInv, TypeOK, Returned
  <1>7. SnapInv'
    <2>1. \A v \in Updaters : snap[v].version \in Nat /\ snap[v].rev \in Nat
      BY ObjectFields DEF IInv, TypeOK
    <2> SUFFICES ASSUME NEW v \in Updaters, Pending(v)'
                 PROVE  /\ births' > 0
                        /\ snap[v].version > 0
                        /\ snap[v].rev <= rev' /\ obj'.rev # snap[v].rev
                        /\ Backend = "etcd" => snap[v].version < obj'.version
      BY <1>1, <2>1 DEF SnapInv
    <2>2. Pending(v)
      BY <1>1 DEF Pending, IInv, TypeOK, Calls
    <2>3. /\ births > 0 /\ snap[v].version > 0 /\ snap[v].rev <= rev
          /\ Backend = "etcd" /\ Exists => snap[v].version <= obj.version
      BY <2>2 DEF IInv, SnapInv
    <2>4. Backend = "etcd" => Exists
      BY <1>1, <2>3
    <2>5. QED
      BY <1>1, <1>2, <2>1, <2>3, <2>4
  <1>8. QED
    BY <1>3, <1>4, <1>5, <1>6, <1>7 DEF IInv

\* A deletion preserves the invariant.
LEMMA RemoveStep ==
    ASSUME IInv, NEW d \in Deleters, Remove(d), d \notin applied,
           \/ pc' = [pc EXCEPT ![d] = "ok"]
           \/ pc[d] = "err" /\ pc' = pc,
           lost' = lost \ {d}, UNCHANGED <<snap, fails>>
    PROVE  IInv'
  <1>1. /\ obj' = NoObject /\ rev \in Nat /\ rev' = rev + 1 /\ births' = births
        /\ applied' = applied \cup {d} /\ d \in Calls
    BY DEF IInv, TypeOK, Remove, Calls
  <1>2. ~Exists' /\ obj'.rev = 0
    BY <1>1 DEF Exists, NoObject
  <1>3. NoObject \in Objects
    BY ObjectType DEF NoObject
  <1>4. TypeOK'
    BY <1>1, <1>3 DEF IInv, TypeOK, Returned
  <1>5. PcInv'
    BY DEF IInv, PcInv, TypeOK, Returned, Calls
  <1>6. ObjInv'
    BY <1>1, <1>2 DEF IInv, ObjInv
  <1>7. CallInv'
    BY <1>1 DEF IInv, CallInv, TypeOK, Returned
  <1>8. SnapInv'
    <2> SUFFICES ASSUME NEW v \in Updaters, Pending(v)'
                 PROVE  births' > 0 /\ snap[v].version > 0 /\ snap[v].rev <= rev'
      BY <1>2 DEF SnapInv
    <2>1. Pending(v)
      BY <1>1, ClusterStoreAssumption DEF Pending, IInv, TypeOK, Calls
    <2>2. snap[v].rev \in Nat
      BY ObjectFields DEF IInv, TypeOK
    <2>3. QED
      BY <1>1, <2>1, <2>2 DEF IInv, SnapInv
  <1>9. QED
    BY <1>4, <1>5, <1>6, <1>7, <1>8 DEF IInv

\* A step that leaves the cluster alone and makes no write pending, other than
\* one with a fresh copy, preserves the invariant.
LEMMA QuietStep ==
    ASSUME IInv, NotExecuted, TypeOK', PcInv', CallInv',
           \A v \in Updaters :
              Pending(v)' => \/ Pending(v) /\ snap'[v] = snap[v]
                             \/ Exists /\ snap'[v] = obj
    PROVE  IInv'
  <1>1. obj' = obj /\ rev' = rev /\ births' = births /\ Exists' = Exists
    BY DEF NotExecuted, Exists
  <1>2. ObjInv'
    BY <1>1 DEF IInv, ObjInv
  <1>3. SnapInv'
    <2> SUFFICES ASSUME NEW v \in Updaters, Pending(v)'
                 PROVE  /\ births > 0
                        /\ snap'[v].version > 0
                        /\ snap'[v].rev <= rev
                        /\ Exists /\ obj.rev = snap'[v].rev => obj = snap'[v]
                        /\ Backend = "etcd" /\ Exists =>
                              /\ snap'[v].version <= obj.version
                              /\ obj.version = snap'[v].version => obj = snap'[v]
      BY <1>1 DEF SnapInv
    <2>1. CASE Pending(v) /\ snap'[v] = snap[v]
      BY <2>1 DEF IInv, SnapInv
    <2>2. CASE Exists /\ snap'[v] = obj
      <3>1. obj.version \in Nat
        BY ObjectFields DEF IInv, TypeOK
      <3>2. QED
        BY <2>2, <3>1 DEF IInv, ObjInv, Exists
    <2>3. QED
      BY <2>1, <2>2
  <1>4. QED
    BY <1>2, <1>3 DEF IInv

\* The steps that execute no write.
LEMMA NotExecutedSteps ==
    ASSUME IInv, NotExecuted,
           \/ \E u \in Updaters : UpdateClusterGet(u)
           \/ \E u \in Updaters : pc[u] = "write" /\ Retry(u) /\ UNCHANGED <<snap, lost>>
           \/ /\ UNCHANGED <<snap, fails, lost>>
              /\ \E x \in Calls, r \in Returned :
                    pc[x] \notin Returned /\ pc' = [pc EXCEPT ![x] = r]
           \/ \E x \in Calls : Error(x)
           \/ UNCHANGED <<pc, snap, fails>> /\ lost' \subseteq lost
    PROVE  IInv'
  <1>1. applied' = applied /\ obj' = obj /\ rev' = rev /\ births' = births
    BY DEF NotExecuted
  <1>2. ASSUME NEW u \in Updaters, UpdateClusterGet(u) PROVE IInv'
    <2>1. /\ UNCHANGED <<fails, lost>> /\ pc[u] = "get" /\ u \in Calls
          /\ \/ Exists /\ snap' = [snap EXCEPT ![u] = obj] /\ pc' = [pc EXCEPT ![u] = "write"]
             \/ snap' = snap /\ pc' = [pc EXCEPT ![u] = "notFound"]
      BY <1>2 DEF UpdateClusterGet, Return, Calls
    <2>2. TypeOK'
      BY <1>1, <2>1 DEF IInv, TypeOK, Returned
    <2>3. PcInv' /\ CallInv'
      BY <1>1, <2>1, ClusterStoreAssumption DEF IInv, TypeOK, PcInv, CallInv, Calls, Returned
    <2>4. \A v \in Updaters :
              Pending(v)' => \/ Pending(v) /\ snap'[v] = snap[v]
                             \/ Exists /\ snap'[v] = obj
      BY <2>1 DEF Pending, IInv, TypeOK, Calls
    <2>5. QED
      BY <2>2, <2>3, <2>4, QuietStep
  <1>3. ASSUME NEW u \in Updaters, pc[u] = "write", Retry(u), UNCHANGED <<snap, lost>>
        PROVE  IInv'
    <2>1. /\ fails' = [fails EXCEPT ![u] = fails[u] + 1] /\ u \in Calls
          /\ pc' = [pc EXCEPT ![u] = "get"] \/ pc' = [pc EXCEPT ![u] = "retryErr"]
      BY <1>3 DEF Retry, Return, Calls
    <2>2. TypeOK'
      BY <1>1, <1>3, <2>1 DEF IInv, TypeOK, Returned
    <2>3. PcInv' /\ CallInv'
      BY <1>1, <1>3, <2>1, ClusterStoreAssumption
         DEF IInv, TypeOK, PcInv, CallInv, Calls, Returned
    <2>4. \A v \in Updaters : Pending(v)' => Pending(v) /\ snap'[v] = snap[v]
      BY <1>3, <2>1 DEF Pending, IInv, TypeOK, Calls
    <2>5. QED
      BY <2>2, <2>3, <2>4, QuietStep
  <1>4. ASSUME UNCHANGED <<snap, fails, lost>>, NEW x \in Calls, NEW r \in Returned,
               pc[x] \notin Returned, pc' = [pc EXCEPT ![x] = r]
        PROVE  IInv'
    <2>1. TypeOK'
      BY <1>1, <1>4 DEF IInv, TypeOK
    <2>2. PcInv' /\ CallInv'
      BY <1>1, <1>4 DEF IInv, TypeOK, PcInv, CallInv, Calls, Returned
    <2>3. \A v \in Updaters : Pending(v)' => Pending(v) /\ snap'[v] = snap[v]
      BY <1>4 DEF Pending, IInv, TypeOK, Calls, Returned
    <2>4. QED
      BY <2>1, <2>2, <2>3, QuietStep
  <1>5. ASSUME NEW x \in Calls, Error(x) PROVE IInv'
    <2>1. /\ pc[x] \notin Returned /\ pc' = [pc EXCEPT ![x] = "err"]
          /\ UNCHANGED <<snap, fails>>
          /\ lost' = IF pc[x] = "get" THEN lost ELSE lost \cup {x}
      BY <1>5 DEF Error, Return
    <2>2. TypeOK'
      BY <1>1, <2>1 DEF IInv, TypeOK, Returned
    <2>3. PcInv' /\ CallInv'
      BY <1>1, <2>1 DEF IInv, TypeOK, PcInv, CallInv, Calls, Returned
    <2>4. \A v \in Updaters : Pending(v)' => Pending(v) /\ snap'[v] = snap[v]
      BY <2>1 DEF Pending, IInv, PcInv, TypeOK, Calls, Returned
    <2>5. QED
      BY <2>2, <2>3, <2>4, QuietStep
  <1>6. ASSUME UNCHANGED <<pc, snap, fails>>, lost' \subseteq lost PROVE IInv'
    <2>1. TypeOK' /\ PcInv' /\ CallInv'
      BY <1>1, <1>6 DEF IInv, TypeOK, PcInv, CallInv
    <2>2. \A v \in Updaters : Pending(v)' => Pending(v) /\ snap'[v] = snap[v]
      BY <1>6 DEF Pending
    <2>3. QED
      BY <2>1, <2>2, QuietStep
  <1>7. QED
    BY <1>2, <1>3, <1>4, <1>5, <1>6

\* Calls that are at work, or whose write is on its way, have had no effect.
LEMMA NoEffectYet ==
    ASSUME IInv, NEW x \in Calls, pc[x] \notin Returned \/ x \in lost
    PROVE  x \notin applied /\ (x \in lost => pc[x] = "err") /\ (pc[x] \notin Returned => x \notin lost)
  BY DEF IInv, CallInv, Returned

\* Every step of the store preserves the invariant.
LEMMA NextIInv == IInv /\ [StableNext]_vars => IInv'
  <1> SUFFICES ASSUME IInv, [StableNext]_vars PROVE IInv'
    OBVIOUS
  <1>1. ASSUME NEW c \in Creators, CreateCluster(c), Backend = "etcd" => births' <= 1 PROVE IInv'
    <2>1. c \in Calls /\ pc[c] = "create" /\ c \notin applied /\ c \notin lost
      BY <1>1, NoEffectYet DEF CreateCluster, Calls, Returned
    <2>2. CASE MayCreate
      <3>1. Execute(c, New(c)) /\ pc' = [pc EXCEPT ![c] = "ok"] /\ lost' = lost \ {c}
        BY <1>1, <2>1, <2>2 DEF CreateCluster, Return
      <3>2. QED
        BY <1>1, <2>1, <3>1, NewType, ExecuteStep DEF CreateCluster
    <2>3. CASE ~MayCreate
      BY <1>1, <2>1, <2>3, NotExecutedSteps DEF CreateCluster, Return, Returned
    <2>4. QED
      BY <2>2, <2>3
  <1>2. ASSUME NEW c \in Creators, LateCreate(c), Backend = "etcd" => births' <= 1 PROVE IInv'
    <2>1. c \in Calls /\ pc[c] = "err" /\ c \notin applied
      BY <1>2, NoEffectYet DEF LateCreate, Calls
    <2>2. CASE MayCreate
      <3>1. Execute(c, New(c)) /\ pc' = pc /\ lost' = lost \ {c} /\ UNCHANGED <<snap, fails>>
        BY <1>2, <2>2 DEF LateCreate
      <3>2. QED
        BY <1>2, <2>1, <3>1, NewType, ExecuteStep
    <2>3. CASE ~MayCreate
      BY <1>2, <2>3, NotExecutedSteps DEF LateCreate
    <2>4. QED
      BY <2>2, <2>3
  <1>3. ASSUME NEW u \in Updaters, UpdateClusterGet(u) PROVE IInv'
    BY <1>3, NotExecutedSteps DEF UpdateClusterGet
  <1>4. ASSUME NEW u \in Updaters, UpdateClusterWrite(u), Backend = "etcd" => births' <= 1
        PROVE  IInv'
    <2>1. u \in Calls /\ pc[u] = "write" /\ u \notin applied /\ u \notin lost
      BY <1>4, NoEffectYet DEF UpdateClusterWrite, Calls, Returned
    <2>2. CASE Unmodified(u)
      <3>1. Execute(u, Mutated(u)) /\ pc' = [pc EXCEPT ![u] = "ok"] /\ lost' = lost \ {u}
        BY <1>4, <2>1, <2>2 DEF UpdateClusterWrite, Return
      <3>2. UNCHANGED <<snap, fails>>
        BY <1>4, <2>2 DEF UpdateClusterWrite
      <3>3. QED
        BY <1>4, <2>1, <3>1, <3>2, MutatedType, ExecuteStep
    <2>3. CASE ~Unmodified(u)
      BY <1>4, <2>1, <2>3, NotExecutedSteps DEF UpdateClusterWrite, Return, Returned
    <2>4. QED
      BY <2>2, <2>3
  <1>5. ASSUME NEW u \in Updaters, LateWrite(u), Backend = "etcd" => births' <= 1 PROVE IInv'
    <2>1. u \in Calls /\ pc[u] = "err" /\ u \notin applied
      BY <1>5, NoEffectYet DEF LateWrite, Calls
    <2>2. CASE Unmodified(u)
      <3>1. Execute(u, Mutated(u)) /\ pc' = pc /\ lost' = lost \ {u} /\ UNCHANGED <<snap, fails>>
        BY <1>5, <2>2 DEF LateWrite
      <3>2. QED
        BY <1>5, <2>1, <3>1, MutatedType, ExecuteStep
    <2>3. CASE ~Unmodified(u)
      BY <1>5, <2>3, NotExecutedSteps DEF LateWrite
    <2>4. QED
      BY <2>2, <2>3
  <1>6. ASSUME NEW d \in Deleters, DeleteCluster(d) PROVE IInv'
    <2>1. d \in Calls /\ pc[d] = "delete" /\ d \notin applied /\ d \notin lost
      BY <1>6, NoEffectYet DEF DeleteCluster, Calls, Returned
    <2>2. CASE Exists
      <3>1. Remove(d) /\ pc' = [pc EXCEPT ![d] = "ok"] /\ lost' = lost \ {d}
            /\ UNCHANGED <<snap, fails>>
        BY <1>6, <2>1, <2>2 DEF DeleteCluster, Return
      <3>2. QED
        BY <2>1, <3>1, RemoveStep
    <2>3. CASE ~Exists
      BY <1>6, <2>1, <2>3, NotExecutedSteps DEF DeleteCluster, Return, Returned
    <2>4. QED
      BY <2>2, <2>3
  <1>7. ASSUME NEW d \in Deleters, LateDelete(d) PROVE IInv'
    <2>1. d \in Calls /\ pc[d] = "err" /\ d \notin applied
      BY <1>7, NoEffectYet DEF LateDelete, Calls
    <2>2. CASE Exists
      <3>1. Remove(d) /\ pc' = pc /\ lost' = lost \ {d} /\ UNCHANGED <<snap, fails>>
        BY <1>7, <2>2 DEF LateDelete
      <3>2. QED
        BY <2>1, <3>1, RemoveStep
    <2>3. CASE ~Exists
      BY <1>7, <2>3, NotExecutedSteps DEF LateDelete
    <2>4. QED
      BY <2>2, <2>3
  <1>8. ASSUME NEW x \in Calls, Error(x) PROVE IInv'
    BY <1>8, NotExecutedSteps DEF Error
  <1>9. CASE UNCHANGED vars
    BY <1>9, NotExecutedSteps DEF vars, NotExecuted
  <1>10. QED
    BY <1>1, <1>2, <1>3, <1>4, <1>5, <1>6, <1>7, <1>8, <1>9
       DEF StableNext, Next, UpdateCluster, Finished

-----------------------------------------------------------------------------
\* The store's state is always well typed.
THEOREM ClusterTypeOK == StableSpec => []TypeOK
  BY InitIInv, NextIInv, PTL DEF StableSpec, IInv

\* An update takes effect only on the cluster its call has read: on custom
\* resources in every behaviour, on etcd as long as a deleted cluster is not
\* created anew, for any number of concurrent calls and lost answers.
THEOREM ClusterModifiedIsRetried == StableSpec => ModifiedIsRetried
  <1>1. IInv /\ [StableNext]_vars =>
           [\A u \in Updaters : u \in applied' \ applied => Exists /\ obj.rev = snap[u].rev]_vars
    <2> SUFFICES ASSUME IInv, StableNext, NEW u \in Updaters, u \in applied', u \notin applied
                 PROVE  Exists /\ obj.rev = snap[u].rev
      OBVIOUS
    <2>1. Pending(u) /\ Unmodified(u)
      BY ClusterStoreAssumption
         DEF StableNext, Next, CreateCluster, LateCreate, UpdateCluster, UpdateClusterGet,
             UpdateClusterWrite, LateWrite, DeleteCluster, LateDelete, Error, Finished,
             Execute, Remove, NotExecuted, Pending, vars
    <2>2. QED
      BY <2>1, UnmodifiedIsSame
  <1>2. QED
    BY <1>1, InitIInv, NextIInv, PTL DEF StableSpec, ModifiedIsRetried

-----------------------------------------------------------------------------
(* Refinement: each request maps to a step of AtomicCluster or to a stutter. *)

Report == [x \in Calls |-> IF pc[x] \in Returned THEN pc[x] ELSE "none"]

\* The reports of a call that returns, or has returned an error before.
LEMMA ReportStep ==
    ASSUME IInv, NEW x \in Calls, NEW r \in Returned
    PROVE  /\ pc[x] \notin Returned => Report[x] = "none"
           /\ pc[x] = "err" => Report[x] = "err"
           /\ pc' = [pc EXCEPT ![x] = r] => Report' = [Report EXCEPT ![x] = r]
           /\ pc' = pc => Report' = Report
  BY DEF Report, IInv, TypeOK, Returned

\* A write that is executed is the effect of its call.
LEMMA EffectRefines ==
    ASSUME IInv, NEW x \in Calls, x \notin applied, applied' = applied \cup {x},
           \/ pc[x] \notin Returned /\ pc' = [pc EXCEPT ![x] = "ok"]
           \/ pc[x] = "err" /\ pc' = pc
    PROVE  Promise!TakesEffect(x)
  <1>1. \/ Report[x] = "none" /\ Report' = [Report EXCEPT ![x] = "ok"]
        \/ Report[x] = "err" /\ Report' = Report
    BY ReportStep DEF Returned
  <1>2. QED
    BY <1>1 DEF Promise!TakesEffect, Report

LEMMA CreateRefines ==
    ASSUME IInv, NEW c \in Creators, Execute(c, New(c)), c \notin applied,
           \/ pc[c] \notin Returned /\ pc' = [pc EXCEPT ![c] = "ok"]
           \/ pc[c] = "err" /\ pc' = pc
    PROVE  Promise!Next
  <1>1. Promise!TakesEffect(c)
    BY EffectRefines DEF Execute, Calls
  <1>2. Exists' = TRUE /\ obj'.caps = {CapOf[c]} /\ obj'.labels = c
    <2>1. obj.version \in Nat
      BY ObjectFields DEF IInv, TypeOK
    <2>2. QED
      BY <2>1 DEF Execute, New, Exists
  <1>3. Promise!Create(c)
    BY <1>1, <1>2 DEF Promise!Create
  <1>4. QED
    BY <1>3 DEF Promise!Next

LEMMA UpdateRefines ==
    ASSUME IInv, NEW u \in Updaters, Pending(u), Unmodified(u), Execute(u, Mutated(u)),
           u \notin applied,
           \/ pc[u] \notin Returned /\ pc' = [pc EXCEPT ![u] = "ok"]
           \/ pc[u] = "err" /\ pc' = pc
    PROVE  Promise!Next
  <1>1. Promise!TakesEffect(u)
    BY EffectRefines DEF Execute, Calls
  <1>2. Exists /\ obj = snap[u]
    BY UnmodifiedIsSame
  <1>3. /\ obj'.caps = IF u \in Editors THEN obj.caps ELSE obj.caps \cup {CapOf[u]}
        /\ obj'.labels = IF u \in Editors THEN u ELSE obj.labels
        /\ Exists' = Exists
    <2>1. obj.version \in Nat
      BY ObjectFields DEF IInv, TypeOK
    <2>2. obj' = Mutated(u)
      BY DEF Execute
    <2>3. Exists'
      BY <2>1, <2>2 DEF Mutated, Exists
    <2>4. QED
      BY <1>2, <2>2, <2>3 DEF Mutated
  <1>4. Promise!Update(u)
    BY <1>1, <1>2, <1>3 DEF Promise!Update
  <1>5. QED
    BY <1>4 DEF Promise!Next

LEMMA DeleteRefines ==
    ASSUME IInv, NEW d \in Deleters, Exists, Remove(d), d \notin applied,
           \/ pc[d] \notin Returned /\ pc' = [pc EXCEPT ![d] = "ok"]
           \/ pc[d] = "err" /\ pc' = pc
    PROVE  Promise!Next
  <1>1. Promise!TakesEffect(d)
    BY EffectRefines DEF Remove, Calls
  <1>2. Exists' = FALSE /\ obj'.caps = {} /\ obj'.labels = "none"
    BY DEF Remove, NoObject, Exists
  <1>3. Promise!Delete(d)
    BY <1>1, <1>2 DEF Promise!Delete
  <1>4. QED
    BY <1>3 DEF Promise!Next

\* A call that returns without an effect is the Refuse of AtomicCluster.
LEMMA RefuseRefines ==
    ASSUME IInv, NotExecuted, NEW x \in Calls, pc[x] \notin Returned,
           NEW r \in {"notFound", "exists", "retryErr", "err"},
           r = "notFound" => ~Exists, r = "exists" => Exists,
           pc' = [pc EXCEPT ![x] = r]
    PROVE  Promise!Next
  <1>1. x \notin applied
    BY NoEffectYet
  <1>2. Report[x] = "none" /\ Report' = [Report EXCEPT ![x] = r]
    BY ReportStep DEF Returned
  <1>3. Exists' = Exists /\ obj' = obj /\ applied' = applied
    BY DEF NotExecuted, Exists
  <1>4. Promise!Refuse(x, r)
    BY <1>1, <1>2, <1>3 DEF Promise!Refuse, Report
  <1>5. QED
    BY <1>4 DEF Promise!Next, Promise!Calls, Calls

\* A step that executes nothing and returns nothing is a stutter.
LEMMA StutterRefines ==
    ASSUME NotExecuted, Report' = Report
    PROVE  UNCHANGED Promise!vars
  <1>1. Exists' = Exists
    BY DEF NotExecuted, Exists
  <1>2. QED
    BY <1>1 DEF NotExecuted, Promise!vars, Report

\* Every step of the store is a step of AtomicCluster or a stutter.
LEMMA StepRefines == IInv /\ [StableNext]_vars => [Promise!Next]_(Promise!vars)
  <1> SUFFICES ASSUME IInv, [StableNext]_vars PROVE [Promise!Next]_(Promise!vars)
    OBVIOUS
  <1>1. ASSUME NEW c \in Creators, CreateCluster(c) PROVE Promise!Next
    <2>1. c \in Calls /\ pc[c] \notin Returned
      BY <1>1 DEF CreateCluster, Calls, Returned
    <2>2. CASE MayCreate
      BY <1>1, <2>1, <2>2, NoEffectYet, CreateRefines DEF CreateCluster, Return
    <2>3. CASE ~MayCreate
      <3>1. Exists
        BY <2>3 DEF MayCreate
      <3>2. QED
        BY <1>1, <2>1, <2>3, <3>1, RefuseRefines DEF CreateCluster, Return
    <2>4. QED
      BY <2>2, <2>3
  <1>2. ASSUME NEW c \in Creators, LateCreate(c) PROVE [Promise!Next]_(Promise!vars)
    <2>1. c \in Calls /\ c \notin applied /\ pc[c] = "err" /\ pc' = pc /\ Report' = Report
      BY <1>2, NoEffectYet DEF LateCreate, Calls, Report
    <2>2. CASE MayCreate
      BY <1>2, <2>1, <2>2, CreateRefines DEF LateCreate
    <2>3. CASE ~MayCreate
      BY <1>2, <2>1, <2>3, StutterRefines DEF LateCreate
    <2>4. QED
      BY <2>2, <2>3
  <1>3. ASSUME NEW u \in Updaters, UpdateClusterGet(u) PROVE [Promise!Next]_(Promise!vars)
    <2>1. u \in Calls /\ pc[u] \notin Returned /\ NotExecuted
      BY <1>3 DEF UpdateClusterGet, Calls, Returned
    <2>2. CASE Exists
      <3>1. Report' = Report
        BY <1>3, <2>1, <2>2 DEF UpdateClusterGet, Return, Report, Returned, IInv, TypeOK
      <3>2. QED
        BY <2>1, <3>1, StutterRefines
    <2>3. CASE ~Exists
      BY <1>3, <2>1, <2>3, RefuseRefines DEF UpdateClusterGet, Return
    <2>4. QED
      BY <2>2, <2>3
  <1>4. ASSUME NEW u \in Updaters, UpdateClusterWrite(u) PROVE [Promise!Next]_(Promise!vars)
    <2>1. u \in Calls /\ pc[u] \notin Returned /\ Pending(u) /\ u \notin applied
      BY <1>4, NoEffectYet DEF UpdateClusterWrite, Calls, Returned, Pending
    <2>2. CASE Unmodified(u)
      BY <1>4, <2>1, <2>2, UpdateRefines DEF UpdateClusterWrite, Return
    <2>3. CASE ~Unmodified(u) /\ Retry(u) /\ NotExecuted
      <3>1. CASE pc' = [pc EXCEPT ![u] = "get"]
        <4>1. Report' = Report
          BY <2>1, <3>1 DEF Report, Returned, IInv, TypeOK
        <4>2. QED
          BY <2>3, <4>1, StutterRefines
      <3>2. CASE pc' = [pc EXCEPT ![u] = "retryErr"]
        BY <2>1, <2>3, <3>2, RefuseRefines
      <3>3. QED
        BY <2>3, <3>1, <3>2 DEF Retry, Return
    <2>4. CASE ~Exists /\ Return(u, "notFound") /\ NotExecuted
      BY <2>1, <2>4, RefuseRefines DEF Return
    <2>5. QED
      BY <1>4, <2>2, <2>3, <2>4 DEF UpdateClusterWrite
  <1>5. ASSUME NEW u \in Updaters, LateWrite(u) PROVE [Promise!Next]_(Promise!vars)
    <2>1. /\ u \in Calls /\ u \notin applied /\ pc[u] = "err" /\ pc' = pc /\ Report' = Report
          /\ Pending(u)
      BY <1>5, NoEffectYet DEF LateWrite, Calls, Report, Pending
    <2>2. CASE Unmodified(u)
      BY <1>5, <2>1, <2>2, UpdateRefines DEF LateWrite
    <2>3. CASE ~Unmodified(u)
      BY <1>5, <2>1, <2>3, StutterRefines DEF LateWrite
    <2>4. QED
      BY <2>2, <2>3
  <1>6. ASSUME NEW d \in Deleters, DeleteCluster(d) PROVE Promise!Next
    <2>1. d \in Calls /\ pc[d] \notin Returned /\ d \notin applied
      BY <1>6, NoEffectYet DEF DeleteCluster, Calls, Returned
    <2>2. CASE Exists
      BY <1>6, <2>1, <2>2, DeleteRefines DEF DeleteCluster, Return
    <2>3. CASE ~Exists
      BY <1>6, <2>1, <2>3, RefuseRefines DEF DeleteCluster, Return
    <2>4. QED
      BY <2>2, <2>3
  <1>7. ASSUME NEW d \in Deleters, LateDelete(d) PROVE [Promise!Next]_(Promise!vars)
    <2>1. d \in Calls /\ d \notin applied /\ pc[d] = "err" /\ pc' = pc /\ Report' = Report
      BY <1>7, NoEffectYet DEF LateDelete, Calls, Report
    <2>2. CASE Exists
      BY <1>7, <2>1, <2>2, DeleteRefines DEF LateDelete
    <2>3. CASE ~Exists
      BY <1>7, <2>1, <2>3, StutterRefines DEF LateDelete
    <2>4. QED
      BY <2>2, <2>3
  <1>8. ASSUME NEW x \in Calls, Error(x) PROVE Promise!Next
    BY <1>8, RefuseRefines DEF Error, Return
  <1>9. CASE UNCHANGED vars
    BY <1>9, StutterRefines DEF vars, NotExecuted, Report
  <1>10. QED
    BY <1>1, <1>2, <1>3, <1>4, <1>5, <1>6, <1>7, <1>8, <1>9
       DEF StableNext, Next, UpdateCluster, Finished

\* The cluster store implements AtomicCluster: on custom resources in every
\* behaviour, on etcd as long as a deleted cluster is not created anew.
THEOREM ClusterImplementsAtomicCluster == StableSpec => ImplementsAtomicCluster
  <1>1. Init => Promise!Init
    BY ClusterStoreAssumption
       DEF Init, Promise!Init, NoObject, Exists, Promise!Calls, Calls, Returned
  <1>2. QED
    BY <1>1, InitIInv, NextIInv, StepRefines, PTL
       DEF StableSpec, ImplementsAtomicCluster, Promise!Spec
=============================================================================
