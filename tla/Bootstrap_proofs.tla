--------------------------- MODULE Bootstrap_proofs ---------------------------
(***************************************************************************)
(* Proofs about Bootstrap, for any requests, tokens and capabilities and any *)
(* number of failing calls. The first part is about both backends, the      *)
(* second about custom resources, where at most one request can create the  *)
(* cluster: FounderInv says where that request can be, and who knows of its *)
(* key.                                                                     *)
(***************************************************************************)
EXTENDS Bootstrap, TLAPS

Positions == Steps \cup Statuses \cup {"idle", "dead"}

TypeInv ==
    /\ pc \in [Requests -> Positions]
    /\ DOMAIN mayJoin = Requests /\ DOMAIN read = Requests
    /\ DOMAIN cluster = {"exists", "caps"}
    /\ deletes \in Nat
    /\ \A w \in late : /\ w = [by |-> w.by, write |-> w.write]
                      /\ w.by \in Requests /\ w.write \in Writes
                      /\ pc[w.by] \in {"failed", "dead"}

\* A request on its way to edit the cluster has a token that may join it, and so has
\* one whose edit is still under way.
JoinInv ==
    /\ \A r \in Requests : pc[r] \in {"canEdit", "editUpdateToken", "editUpdateCluster"} => mayJoin[r]
    /\ \A w \in late : w.write = "editUpdateCluster" => mayJoin[w.by]

-----------------------------------------------------------------------------
\* A handler moves itself only, unless it ends the process.
LEMMA OneMoves ==
    ASSUME NEW r \in Requests, TypeInv, Handler(r) \/ HandleBootstrapAuth(r), ~InstallFatal(r)
    PROVE  \E l \in Positions : pc' = [pc EXCEPT ![r] = l]
  <1> USE DEF Goto, Fault, WriteFault, Positions, Statuses, Steps
  <1>1. CASE HandleBootstrapAuth(r)
    BY <1>1 DEF HandleBootstrapAuth
  <1>2. CASE GetToken(r)
    BY <1>2 DEF GetToken, Validate
  <1>3. CASE GetCluster(r) \/ CanInstall(r)
    BY <1>3 DEF GetCluster, CanInstall, Decision, CannotInstall
  <1>4. CASE CreateCluster(r) \/ CreateUpdateToken(r) \/ EditUpdateToken(r) \/ EditUpdateCluster(r)
    BY <1>4, Zenon DEF CreateCluster, CreateUpdateToken, EditUpdateToken, EditUpdateCluster, UpdateToken
  <1>5. CASE EditGetKeyring(r) \/ PutKeyring(r) \/ CreateKeyring(r)
    BY <1>5 DEF EditGetKeyring, PutKeyring, CreateKeyring, Overwrite
  <1>6. CASE InstallCapabilities(r) \/ InstallSecret(r) \/ InstallLoggingCluster(r)
    BY <1>6 DEF InstallCapabilities, InstallSecret, InstallLoggingCluster, Answer
  <1> QED BY <1>1, <1>2, <1>3, <1>4, <1>5, <1>6 DEF Handler

\* What a handler leaves under way is the write at which it failed.
LEMMA LateGrows ==
    ASSUME NEW r \in Requests, TypeInv, Handler(r) \/ HandleBootstrapAuth(r), ~InstallFatal(r),
           NEW w \in late', w \notin late
    PROVE  w = WriteOf(r) /\ Sends(r) /\ pc' = [pc EXCEPT ![r] = "failed"]
  <1>1. CASE HandleBootstrapAuth(r) \/ GetToken(r) \/ GetCluster(r) \/ CanInstall(r)
    BY <1>1 DEF HandleBootstrapAuth, GetToken, GetCluster, CanInstall
  <1>2. CASE EditGetKeyring(r) \/ InstallCapabilities(r) \/ InstallSecret(r) \/ InstallLoggingCluster(r)
    BY <1>2 DEF EditGetKeyring, InstallCapabilities, InstallSecret, InstallLoggingCluster
  <1>3. WriteFault(r) => pc' = [pc EXCEPT ![r] = "failed"] \/ late' = late
    BY Zenon DEF WriteFault, Fault, Goto, Sends, Writes
  <1>4. CASE CreateCluster(r) \/ EditUpdateCluster(r)
    BY <1>3, <1>4 DEF CreateCluster, EditUpdateCluster, StoreCluster, WriteFault
  <1>5. CASE CreateUpdateToken(r) \/ EditUpdateToken(r)
    BY <1>3, <1>5 DEF CreateUpdateToken, EditUpdateToken, UpdateToken, StoreToken, WriteFault
  <1>6. CASE PutKeyring(r) \/ CreateKeyring(r)
    BY <1>3, <1>6 DEF PutKeyring, CreateKeyring, Overwrite, StoreKeyring, WriteFault
  <1> QED BY <1>1, <1>2, <1>4, <1>5, <1>6 DEF Handler

\* A store that executes a write has it no longer under way, and moves no handler.
LEMMA OneLess ==
    ASSUME NEW w \in late, LateWrite(w)
    PROVE  late' \subseteq late \ {w}
  BY DEF LateWrite, StoreCluster, StoreToken, StoreKeyring

LEMMA LateShrinks ==
    ASSUME LateStore
    PROVE  late' \subseteq late /\ UNCHANGED <<backend, pc, mayJoin, read, deletes>>
  BY OneLess DEF LateStore

\* TypeInv holds at first, and every step keeps it.
LEMMA InitTypeInv == Init => TypeInv
  BY DEF Init, TypeInv, Positions, NoCluster, NoKeyring

LEMMA NextTypeInv == TypeInv /\ [Next]_vars => TypeInv'
  <1> SUFFICES ASSUME TypeInv, [Next]_vars PROVE TypeInv'
    OBVIOUS
  <1>1. pc' \in [Requests -> Positions]
    <2>1. ASSUME NEW r \in Requests, InstallFatal(r) PROVE pc' \in [Requests -> Positions]
      BY <2>1 DEF InstallFatal, TypeInv, Positions
    <2>2. ASSUME NEW r \in Requests, Handler(r) \/ HandleBootstrapAuth(r), ~InstallFatal(r)
          PROVE  pc' \in [Requests -> Positions]
      BY <2>2, OneMoves DEF TypeInv
    <2>3. CASE DeleteCluster \/ UNCHANGED vars \/ \E t \in Tokens : TokenEnds(t)
      BY <2>3 DEF DeleteCluster, vars, TokenEnds, RevokeBootstrapToken, garbageCollectToken,
                  DeleteToken, TokenExpires, TypeInv
    <2>4. CASE LateStore
      BY <2>4, LateShrinks DEF TypeInv
    <2> QED BY <2>1, <2>2, <2>3, <2>4 DEF Next, Finished
  <1>l. \A w \in late' : /\ w = [by |-> w.by, write |-> w.write]
                         /\ w.by \in Requests /\ w.write \in Writes
                         /\ pc'[w.by] \in {"failed", "dead"}
    <2>1. ASSUME NEW r \in Requests, InstallFatal(r), NEW w \in late'
          PROVE  /\ w = [by |-> w.by, write |-> w.write] /\ w.by \in Requests /\ w.write \in Writes
                 /\ pc'[w.by] \in {"failed", "dead"}
      <3>1. CASE w \in late
        BY <2>1, <3>1 DEF InstallFatal, TypeInv
      <3>2. CASE w \notin late
        <4>1. PICK q \in Requests : w = WriteOf(q) /\ Sends(q)
          BY <2>1, <3>2 DEF InstallFatal
        <4>2. w.by = q /\ w.write = pc[q] /\ pc[q] \in Writes
          BY <4>1 DEF WriteOf, Sends
        <4>3. pc'[q] = "dead"
          BY <2>1, <4>2 DEF InstallFatal, InFlight, Writes, Steps
        <4> QED BY <4>1, <4>2, <4>3 DEF WriteOf
      <3> QED BY <3>1, <3>2
    <2>2. ASSUME NEW r \in Requests, Handler(r) \/ HandleBootstrapAuth(r), ~InstallFatal(r), NEW w \in late'
          PROVE  /\ w = [by |-> w.by, write |-> w.write] /\ w.by \in Requests /\ w.write \in Writes
                 /\ pc'[w.by] \in {"failed", "dead"}
      <3>1. CASE w \in late
        <4>1. w.by \in Requests /\ pc[w.by] \in {"failed", "dead"}
          BY <3>1 DEF TypeInv
        <4>2. pc[r] \notin {"failed", "dead"}
          BY <2>2, Zenon DEF Handler, HandleBootstrapAuth, GetToken, GetCluster, CanInstall, CreateCluster,
                CreateUpdateToken, EditUpdateToken, EditUpdateCluster, EditGetKeyring,
                PutKeyring, CreateKeyring, InstallCapabilities, InstallSecret, InstallLoggingCluster
        <4>3. pc'[w.by] = pc[w.by]
          BY <2>2, <4>1, <4>2, OneMoves DEF TypeInv
        <4> QED BY <3>1, <4>1, <4>3 DEF TypeInv
      <3>2. CASE w \notin late
        <4>1. w = WriteOf(r) /\ Sends(r) /\ pc' = [pc EXCEPT ![r] = "failed"]
          BY <2>2, <3>2, LateGrows
        <4> QED BY <4>1 DEF WriteOf, Sends, TypeInv
      <3> QED BY <3>1, <3>2
    <2>3. CASE UNCHANGED vars \/ \E t \in Tokens : TokenEnds(t)
      BY <2>3 DEF vars, TokenEnds, RevokeBootstrapToken, garbageCollectToken,
                  DeleteToken, TokenExpires, TypeInv
    <2>4. CASE LateStore
      BY <2>4, LateShrinks DEF TypeInv
    <2>5. CASE DeleteCluster
      BY <2>5 DEF DeleteCluster, StoreCluster, TypeInv
    <2> QED BY <2>1, <2>2, <2>3, <2>4, <2>5 DEF Next, Finished
  <1>2. ASSUME NEW r \in Requests, Handler(r) \/ HandleBootstrapAuth(r)
        PROVE  TypeInv'
    <2> USE <1>1, <1>l, <1>2 DEF TypeInv, stores
    <2>1. CASE HandleBootstrapAuth(r)
      BY <2>1 DEF HandleBootstrapAuth
    <2>2. CASE GetToken(r)
      BY <2>2 DEF GetToken
    <2>3. CASE GetCluster(r) \/ CanInstall(r)
      BY <2>3 DEF GetCluster, CanInstall
    <2>4. CASE CreateCluster(r) \/ EditUpdateCluster(r)
      BY <2>4 DEF CreateCluster, EditUpdateCluster, StoreCluster, NewCluster, EditedCluster
    <2>5. CASE CreateUpdateToken(r) \/ EditUpdateToken(r)
      BY <2>5, Zenon DEF CreateUpdateToken, EditUpdateToken, UpdateToken
    <2>6. CASE EditGetKeyring(r)
      BY <2>6 DEF EditGetKeyring
    <2>7. CASE PutKeyring(r) \/ CreateKeyring(r)
      BY <2>7 DEF PutKeyring, CreateKeyring, Overwrite, Merge
    <2>8. CASE InstallCapabilities(r) \/ InstallSecret(r) \/ InstallLoggingCluster(r) \/ InstallFatal(r)
      BY <2>8 DEF InstallCapabilities, InstallSecret, InstallLoggingCluster, InstallFatal
    <2> QED BY <2>1, <2>2, <2>3, <2>4, <2>5, <2>6, <2>7, <2>8 DEF Handler
  <1>3. CASE DeleteCluster
    BY <1>1, <1>l, <1>3 DEF DeleteCluster, StoreCluster, TypeInv, NoCluster
  <1>4. ASSUME NEW t \in Tokens, TokenEnds(t) PROVE TypeInv'
    BY <1>1, <1>l, <1>4 DEF TokenEnds, RevokeBootstrapToken, garbageCollectToken, DeleteToken,
                      TokenExpires, TypeInv
  <1>5. CASE UNCHANGED vars
    BY <1>5 DEF vars, stores, TypeInv
  <1>6. CASE LateStore
    <2>1. DOMAIN cluster' = {"exists", "caps"}
      BY <1>6 DEF LateStore, LateWrite, StoreCluster, StoreToken, StoreKeyring, NewCluster,
                  EditedCluster, stores, TypeInv
    <2> QED BY <1>1, <1>l, <1>6, <2>1, LateShrinks DEF TypeInv
  <1> QED BY <1>2, <1>3, <1>4, <1>5, <1>6 DEF Next, Finished

-----------------------------------------------------------------------------
\* The first part of JoinInv, and then what is under way.
LEMMA NextJoinPc ==
    ASSUME TypeInv, JoinInv, NEW r \in Requests, Handler(r) \/ HandleBootstrapAuth(r), ~InstallFatal(r)
    PROVE  \A q \in Requests :
               pc'[q] \in {"canEdit", "editUpdateToken", "editUpdateCluster"} => mayJoin'[q]
  <1> USE DEF TypeInv, JoinInv
  <1>1. PICK l \in Positions : pc' = [pc EXCEPT ![r] = l]
    BY OneMoves
  <1> USE <1>1 DEF Goto, Fault, WriteFault
  <1>2. CASE GetToken(r)
    BY <1>2 DEF GetToken, Validate
  <1>3. CASE GetCluster(r)
    BY <1>3 DEF GetCluster, Decision
  <1>4. CASE CanInstall(r)
    BY <1>4 DEF CanInstall, CannotInstall
  <1>5. CASE CreateCluster(r) \/ CreateUpdateToken(r) \/ EditUpdateToken(r) \/ EditUpdateCluster(r)
    BY <1>5, Zenon DEF CreateCluster, CreateUpdateToken, EditUpdateToken, EditUpdateCluster, UpdateToken
  <1>6. CASE EditGetKeyring(r) \/ PutKeyring(r) \/ CreateKeyring(r)
    BY <1>6 DEF EditGetKeyring, PutKeyring, CreateKeyring, Overwrite
  <1>7. CASE InstallCapabilities(r) \/ InstallSecret(r) \/ InstallLoggingCluster(r)
    BY <1>7 DEF InstallCapabilities, InstallSecret, InstallLoggingCluster, Answer
  <1>8. CASE HandleBootstrapAuth(r)
    BY <1>8 DEF HandleBootstrapAuth
  <1> QED BY <1>2, <1>3, <1>4, <1>5, <1>6, <1>7, <1>8 DEF Handler

LEMMA NextJoinLate ==
    ASSUME TypeInv, JoinInv, NEW r \in Requests, Handler(r) \/ HandleBootstrapAuth(r), NEW w \in late',
           w.write = "editUpdateCluster"
    PROVE  mayJoin'[w.by]
  <1>1. mayJoin' = mayJoin \/ (pc[r] = "getToken" /\ \E b : mayJoin' = [mayJoin EXCEPT ![r] = b])
    BY Zenon DEF Handler, HandleBootstrapAuth, GetToken, GetCluster, CanInstall, CreateCluster,
            CreateUpdateToken, EditUpdateToken, UpdateToken, EditUpdateCluster, EditGetKeyring, PutKeyring,
            CreateKeyring, InstallCapabilities, InstallSecret, InstallLoggingCluster, InstallFatal
  <1>2. CASE w \in late
    <2>1. w.by \in Requests /\ (w.by # r \/ pc[r] # "getToken")
      BY <1>2 DEF TypeInv
    <2>2. mayJoin[w.by]
      BY <1>2 DEF JoinInv
    <2> QED BY <1>1, <2>1, <2>2 DEF TypeInv
  <1>3. ASSUME NEW q \in Requests, w = WriteOf(q), mayJoin' = mayJoin PROVE mayJoin'[w.by]
    BY <1>3 DEF WriteOf, JoinInv
  <1>4. CASE w \notin late /\ ~InstallFatal(r)
    <2>1. w = WriteOf(r) /\ Sends(r)
      BY <1>4, LateGrows
    <2> QED BY <1>1, <1>3, <2>1 DEF Sends, Writes
  <1>5. CASE w \notin late /\ InstallFatal(r)
    BY <1>3, <1>5 DEF InstallFatal
  <1> QED BY <1>2, <1>4, <1>5

LEMMA NextJoinInv == TypeInv /\ JoinInv /\ [Next]_vars => JoinInv'
  <1> SUFFICES ASSUME TypeInv, JoinInv, [Next]_vars PROVE JoinInv'
    OBVIOUS
  <1>1. ASSUME NEW r \in Requests, Handler(r) \/ HandleBootstrapAuth(r), ~InstallFatal(r)
        PROVE  JoinInv'
    BY <1>1, NextJoinPc, NextJoinLate DEF JoinInv
  <1>2. ASSUME NEW r \in Requests, InstallFatal(r) PROVE JoinInv'
    <2>1. \A q \in Requests :
             pc'[q] \in {"canEdit", "editUpdateToken", "editUpdateCluster"} => mayJoin'[q]
      BY <1>2 DEF InstallFatal, TypeInv, JoinInv
    <2> QED BY <1>2, <2>1, NextJoinLate DEF JoinInv, Handler
  <1>3. CASE UNCHANGED vars \/ \E t \in Tokens : TokenEnds(t)
    BY <1>3 DEF vars, TokenEnds, RevokeBootstrapToken, garbageCollectToken,
                DeleteToken, TokenExpires, JoinInv
  <1>4. CASE DeleteCluster
    BY <1>4 DEF DeleteCluster, StoreCluster, JoinInv
  <1>5. CASE LateStore
    BY <1>5, LateShrinks DEF JoinInv
  <1> QED BY <1>1, <1>2, <1>3, <1>4, <1>5 DEF Next, Finished

\* With custom resources an existing cluster is changed only by a request whose
\* token was seen to have the capability to join it (GetToken and GetCluster in
\* pkg/bootstrap/server.go, whatever happens to the token in between, and whenever
\* the API server executes its update).
THEOREM BootstrapEditNeedsJoin == Spec => EditNeedsJoin
  <1> DEFINE Needs ==
        backend = "crds" /\ cluster.exists /\ cluster'.exists /\ cluster' # cluster
            => \E r \in Requests :
                  /\ mayJoin[r]
                  /\ pc'[r] # pc[r] \/ \E w \in late \ late' : w.by = r
  <1>1. Init => TypeInv /\ JoinInv
    <2>1. Init => JoinInv
      BY DEF Init, JoinInv
    <2> QED BY <2>1, InitTypeInv
  <1>2. TypeInv /\ JoinInv /\ [Next]_vars => [Needs]_vars
    <2> SUFFICES ASSUME TypeInv, JoinInv, Next PROVE Needs
      OBVIOUS
    <2>1. ASSUME NEW r \in Requests, EditUpdateCluster(r) PROVE Needs
      <3>1. pc[r] = "editUpdateCluster" /\ mayJoin[r]
        BY <2>1 DEF EditUpdateCluster, JoinInv
      <3>2. pc'[r] # "editUpdateCluster"
        BY <2>1 DEF EditUpdateCluster, WriteFault, Fault, Goto, TypeInv
      <3> QED BY <3>1, <3>2
    <2>2. ASSUME NEW r \in Requests, CreateCluster(r) PROVE Needs
      BY <2>2 DEF CreateCluster, MayCreate
    <2>3. ASSUME NEW r \in Requests, HandleBootstrapAuth(r) \/ Handler(r),
                 ~EditUpdateCluster(r), ~CreateCluster(r)
          PROVE  cluster' = cluster
      BY <2>3, Zenon
         DEF Handler, HandleBootstrapAuth, GetToken, GetCluster, CanInstall, CreateUpdateToken,
                  EditUpdateToken, UpdateToken, EditGetKeyring, PutKeyring, CreateKeyring,
                  InstallCapabilities, InstallSecret, InstallLoggingCluster, InstallFatal, stores
    <2>4. CASE DeleteCluster
      BY <2>4 DEF DeleteCluster, StoreCluster, NoCluster
    <2>5. ASSUME NEW t \in Tokens, TokenEnds(t) PROVE cluster' = cluster
      BY <2>5 DEF TokenEnds, RevokeBootstrapToken, garbageCollectToken, DeleteToken, TokenExpires
    <2>6. CASE LateStore
      <3>1. PICK w \in late : LateWrite(w)
        BY <2>6 DEF LateStore
      <3>2. CASE w.write = "editUpdateCluster"
        <4>1. w \notin late' /\ mayJoin[w.by] /\ w.by \in Requests
          BY <3>1, <3>2 DEF LateWrite, StoreCluster, JoinInv, TypeInv
        <4> QED BY <4>1
      <3>3. CASE w.write = "createCluster"
        BY <3>1, <3>3 DEF LateWrite, MayCreate, stores
      <3>4. CASE w.write \notin {"createCluster", "editUpdateCluster"}
        <4>1. cluster' = cluster
          BY <3>1, <3>4 DEF LateWrite, stores
        <4> QED BY <4>1
      <3> QED BY <3>2, <3>3, <3>4
    <2> QED BY <2>1, <2>2, <2>3, <2>4, <2>5, <2>6 DEF Next, Finished, vars, stores
  <1>3. Spec => [](TypeInv /\ JoinInv)
    BY <1>1, NextTypeInv, NextJoinInv, PTL DEF Spec
  <1> QED BY <1>2, <1>3, PTL DEF Spec, EditNeedsJoin

-----------------------------------------------------------------------------
LEMMA NextHalf == TypeInv /\ HalfBootstrapReported /\ [Next]_vars => HalfBootstrapReported'
  <1> SUFFICES ASSUME TypeInv, HalfBootstrapReported, [Next]_vars,
                      cluster'.exists, ~keyring'.exists
               PROVE  \E r \in Requests :
                          pc'[r] \in {"createUpdateToken", "put", "putCreate", "failed", "dead"}
    BY DEF HalfBootstrapReported
  <1> DEFINE At == {"createUpdateToken", "put", "putCreate", "failed", "dead"}
  <1>1. ASSUME NEW r \in Requests, CreateCluster(r), pc[r] \notin At PROVE pc'[r] \in At
    BY <1>1 DEF CreateCluster, WriteFault, Fault, Goto, TypeInv
  <1>2. ASSUME NEW q \in Requests, NEW r \in Requests, pc[q] \in At,
               HandleBootstrapAuth(r) \/ Handler(r)
        PROVE  pc'[q] \in At
    <2>1. CASE q # r /\ ~InstallFatal(r)
      BY <1>2, <2>1, OneMoves DEF TypeInv
    <2>2. CASE InstallFatal(r)
      BY <2>2, <1>2 DEF InstallFatal, InFlight, Steps
    <2>3. CASE q = r /\ CreateUpdateToken(r)
      BY <2>3, Zenon DEF CreateUpdateToken, UpdateToken, WriteFault, Fault, Goto, TypeInv
    <2>4. CASE q = r /\ (PutKeyring(r) \/ CreateKeyring(r))
      <3>1. ~Overwrite(r)
        BY DEF Overwrite, StoreKeyring
      <3>2. CASE PutKeyring(r)
        BY <2>4, <3>1, <3>2 DEF PutKeyring, WriteFault, Fault, Goto, TypeInv
      <3>3. CASE CreateKeyring(r)
        BY <2>4, <3>1, <3>3 DEF CreateKeyring, WriteFault, Fault, Goto, TypeInv
      <3> QED BY <2>4, <3>2, <3>3
    <2>5. CASE q = r /\ ~CreateUpdateToken(r) /\ ~PutKeyring(r) /\ ~CreateKeyring(r) /\ ~InstallFatal(r)
      BY <2>5, <1>2, Zenon
         DEF Handler, HandleBootstrapAuth, GetToken, GetCluster, CanInstall, CreateCluster,
                  EditUpdateToken, EditUpdateCluster, EditGetKeyring, InstallCapabilities,
                  InstallSecret, InstallLoggingCluster
    <2> QED BY <2>1, <2>2, <2>3, <2>4, <2>5
  <1>3. CASE cluster.exists /\ ~keyring.exists
    <2>1. PICK q \in Requests : pc[q] \in At
      BY <1>3 DEF HalfBootstrapReported
    <2>2. CASE \E r \in Requests : HandleBootstrapAuth(r) \/ Handler(r)
      BY <2>1, <2>2, <1>2
    <2>3. CASE ~\E r \in Requests : HandleBootstrapAuth(r) \/ Handler(r)
      <3>1. pc' = pc
        BY <2>3 DEF Next, Finished, vars, DeleteCluster, TokenEnds, RevokeBootstrapToken,
                    garbageCollectToken, DeleteToken, TokenExpires, LateStore
      <3> QED BY <2>1, <3>1
    <2> QED BY <2>2, <2>3
  <1>4. ASSUME NEW r \in Requests, CreateCluster(r) PROVE \E q \in Requests : pc'[q] \in At
    BY <1>1, <1>2, <1>4 DEF Handler
  <1>6. CASE LateStore
    <2>1. PICK w \in late : LateWrite(w)
      BY <1>6 DEF LateStore
    <2>2. w.by \in Requests /\ pc'[w.by] \in At
      BY <1>6, LateShrinks DEF TypeInv
    <2> QED BY <2>2
  <1>5. ASSUME ~LateStore, ~\E r \in Requests : CreateCluster(r)
        PROVE  cluster.exists /\ ~keyring.exists
    <2>1. ASSUME NEW r \in Requests, HandleBootstrapAuth(r) \/ Handler(r)
          PROVE  cluster.exists /\ ~keyring.exists
      <3>1. CASE EditUpdateCluster(r)
        BY <3>1 DEF EditUpdateCluster, StoreCluster, EditedCluster, TypeInv
      <3>2. CASE PutKeyring(r) \/ CreateKeyring(r)
        BY <3>2 DEF PutKeyring, CreateKeyring, Overwrite, StoreKeyring
      <3>3. CASE ~EditUpdateCluster(r) /\ ~PutKeyring(r) /\ ~CreateKeyring(r)
        <4>1. cluster' = cluster /\ keyring' = keyring
          BY <1>5, <2>1, <3>3, Zenon
             DEF Handler, HandleBootstrapAuth, GetToken, GetCluster, CanInstall, CreateUpdateToken,
                  EditUpdateToken, UpdateToken, EditGetKeyring, InstallCapabilities, InstallSecret,
                  InstallLoggingCluster, InstallFatal, stores
        <4> QED BY <4>1
      <3> QED BY <3>1, <3>2, <3>3
    <2>2. CASE DeleteCluster
      BY <2>2 DEF DeleteCluster, StoreCluster, NoCluster
    <2>3. ASSUME NEW t \in Tokens, TokenEnds(t) PROVE cluster.exists /\ ~keyring.exists
      BY <2>3 DEF TokenEnds, RevokeBootstrapToken, garbageCollectToken, DeleteToken, TokenExpires
    <2>4. CASE UNCHANGED vars
      BY <2>4 DEF vars, stores
    <2> QED BY <1>5, <2>1, <2>2, <2>3, <2>4 DEF Next, Finished
  <1> QED BY <1>3, <1>4, <1>5, <1>6

\* A cluster without a keyring never goes unreported, on either backend: a request
\* is still at work on it, was answered with the error that stopped it, or died
\* with the gateway (handleCreate in pkg/bootstrap/server.go).
THEOREM BootstrapHalfReported == Spec => []HalfBootstrapReported
  <1>1. Init => HalfBootstrapReported
    BY DEF Init, HalfBootstrapReported, NoCluster
  <1> QED BY <1>1, InitTypeInv, NextTypeInv, NextHalf, PTL DEF Spec
-----------------------------------------------------------------------------
(* Custom resources, as long as the cluster is not deleted.                 *)

Early == {"createUpdateToken", "put", "putCreate"}
Late == {"install", "installSecret", "installCluster", "200"}

\* The request's creation of the keyring is under way.
Holds(r) == [by |-> r, write |-> "putCreate"] \in late

\* The request that made the cluster: it has read no keyring.
Founder(r) == read[r] = {} /\ (pc[r] \in Early \cup Late \/ Holds(r))

CapInv ==
    /\ \A r \in Requests :
          pc[r] \in Early \cup Late \cup {"editGet"} => cluster.exists /\ CapOf[r] \in cluster.caps
    /\ \A r \in Requests : Holds(r) => cluster.exists

\* Before there is a cluster there is no keyring, and nobody has read one. An update
\* of the keyring that is under way is of one that was read.
FreshInv ==
    /\ ~cluster.exists => ~keyring.exists /\ \A r \in Requests : read[r] = {}
    /\ keyring.exists <=> keyring.keys # {}
    /\ \A w \in late : w.write = "put" => read[w.by] # {}

\* There is one founder at most. Until it has stored the keyring there is none;
\* from then on its key is in the keyring and in whatever others have read.
FounderInv ==
    /\ \A r, s \in Requests : Founder(r) /\ Founder(s) => r = s
    /\ \A r \in Requests : Founder(r) /\ pc[r] \notin Late =>
           ~keyring.exists /\ \A q \in Requests : read[q] = {}
    /\ \A r \in Requests : Founder(r) /\ pc[r] \in Late =>
           r \in keyring.keys /\ \A q \in Requests : read[q] # {} => r \in read[q]

CrdsInv == backend = "crds" /\ deletes = 0 => CapInv /\ FreshInv /\ FounderInv

\* The invariant depends on no more of late than the creations and updates of the
\* keyring in it: a write to anything else that fails disturbs nothing.
LEMMA OthersLate ==
    ASSUME TypeInv, CapInv, FreshInv, FounderInv, NEW r \in Requests, NEW l \in Positions,
           pc' = [pc EXCEPT ![r] = l], l \notin Early \cup Late \cup {"editGet"},
           read' = read, keyring' = keyring, cluster' = cluster,
           \A w \in late' \ late : w.write \notin {"put", "putCreate"}
    PROVE  CapInv' /\ FreshInv' /\ FounderInv'
  <1>1. \A q \in Requests : Holds(q)' => Holds(q)
    BY DEF Holds
  <1>2. \A q \in Requests : Founder(q)' => Founder(q) /\ (pc'[q] \in Late <=> pc[q] \in Late)
    BY <1>1 DEF Founder, TypeInv, Holds, Early, Late
  <1>3. CapInv'
    BY <1>1 DEF CapInv, TypeInv
  <1>4. FreshInv'
    BY DEF FreshInv
  <1>5. FounderInv'
    BY <1>2 DEF FounderInv
  <1> QED BY <1>3, <1>4, <1>5

LEMMA HandlerCrdsInv ==
    ASSUME TypeInv, CapInv, FreshInv, FounderInv, backend = "crds",
           NEW r \in Requests, HandleBootstrapAuth(r) \/ Handler(r)
    PROVE  CapInv' /\ FreshInv' /\ FounderInv'
  <1>0. \A w \in late : w.by \in Requests /\ pc[w.by] \in {"failed", "dead"}
    BY DEF TypeInv
  <1>h. \A q \in Requests : Holds(q) => pc[q] \in {"failed", "dead"}
    BY <1>0 DEF Holds
  <1>1. CASE HandleBootstrapAuth(r) \/ GetToken(r) \/ GetCluster(r) \/ CanInstall(r)
    <2>1. cluster' = cluster /\ keyring' = keyring /\ read' = read /\ late' = late
      BY <1>1 DEF HandleBootstrapAuth, GetToken, GetCluster, CanInstall, stores
    <2>2. PICK l \in Positions : pc' = [pc EXCEPT ![r] = l] /\ l \notin Early \cup Late \cup {"editGet"}
      BY <1>1 DEF HandleBootstrapAuth, GetToken, Validate, GetCluster, Decision, CanInstall,
                  CannotInstall, Goto, Fault, Early, Late, Positions, Statuses, Steps
    <2> QED BY <2>1, <2>2, OthersLate, Zenon
  <1>2. CASE CreateCluster(r)
    <2>1. keyring' = keyring /\ read' = read /\ pc[r] = "createCluster"
      BY <1>2 DEF CreateCluster
    <2>2. CASE cluster' = cluster /\ pc' = [pc EXCEPT ![r] = "failed"] /\ late' \subseteq late \cup {WriteOf(r)}
      <3>1. \A w \in late' \ late : w.write \notin {"put", "putCreate"}
        BY <2>1, <2>2 DEF WriteOf
      <3>2. "failed" \in Positions /\ "failed" \notin Early \cup Late \cup {"editGet"}
        BY DEF Early, Late, Positions, Statuses
      <3> QED BY <2>1, <2>2, <3>1, <3>2, OthersLate, Zenon
    <2>3. CASE /\ ~cluster.exists /\ cluster' = [exists |-> TRUE, caps |-> {CapOf[r]}]
               /\ pc' = [pc EXCEPT ![r] = "createUpdateToken"] /\ late' \subseteq late
      <3>1. \A q \in Requests : ~Holds(q) /\ ~Holds(q)' /\ pc[q] \notin Early \cup Late \cup {"editGet"}
        BY <2>3, Zenon DEF CapInv, Holds
      <3>2. ~keyring.exists /\ \A q \in Requests : read[q] = {}
        BY <2>3 DEF FreshInv
      <3>3. \A q \in Requests : q # r => pc'[q] = pc[q]
        BY <2>3 DEF TypeInv
      <3>4. pc'[r] = "createUpdateToken"
        BY <2>3 DEF TypeInv
      <3>5. CapInv'
        BY <2>3, <3>1, <3>3, <3>4 DEF CapInv
      <3>6. FreshInv'
        BY <2>1, <2>3, <3>2 DEF FreshInv
      <3>7. FounderInv'
        BY <2>1, <3>1, <3>2, <3>3, <3>4 DEF FounderInv, Founder, Late
      <3> QED BY <3>5, <3>6, <3>7
    <2> QED BY <1>2, <2>2, <2>3 DEF CreateCluster, MayCreate, StoreCluster, NewCluster, WriteFault, Fault, Goto
  <1>3. CASE CreateUpdateToken(r) \/ EditUpdateToken(r)
    <2>1. cluster' = cluster /\ keyring' = keyring /\ read' = read
      BY <1>3, Zenon DEF CreateUpdateToken, EditUpdateToken, UpdateToken
    <2>2. late' \subseteq late \cup {WriteOf(r)} /\ pc[r] \in {"createUpdateToken", "editUpdateToken"}
      BY <1>3 DEF CreateUpdateToken, EditUpdateToken, UpdateToken, WriteFault, StoreToken
    <2>3. \A w \in late' \ late : w.write \notin {"put", "putCreate"}
      BY <2>2 DEF WriteOf
    <2>4. CASE \E l \in {"failed", "editUpdateCluster"} : pc' = [pc EXCEPT ![r] = l]
      BY <2>1, <2>3, <2>4, OthersLate, Zenon DEF Early, Late, Positions, Statuses, Steps
    <2>5. CASE pc[r] = "createUpdateToken" /\ pc' = [pc EXCEPT ![r] = "put"]
      <3>1. \A q \in Requests : Holds(q)' => Holds(q)
        BY <2>3 DEF Holds
      <3>2. \A q \in Requests :
                /\ pc'[q] \in Early \cup Late \cup {"editGet"} => pc[q] \in Early \cup Late \cup {"editGet"}
                /\ pc'[q] \in Early \cup Late => pc[q] \in Early \cup Late
                /\ pc'[q] \in Late <=> pc[q] \in Late
        BY <2>5 DEF TypeInv, Early, Late
      <3>3. CapInv' /\ FreshInv'
        BY <2>1, <2>3, <3>1, <3>2 DEF CapInv, FreshInv
      <3>4. FounderInv'
        BY <2>1, <3>1, <3>2 DEF FounderInv, Founder
      <3> QED BY <3>3, <3>4
    <2> QED BY <1>3, <2>4, <2>5, Zenon DEF CreateUpdateToken, EditUpdateToken, UpdateToken, WriteFault, Fault, Goto
  <1>4. CASE EditUpdateCluster(r)
    <2>1. keyring' = keyring /\ read' = read /\ pc[r] = "editUpdateCluster"
      BY <1>4 DEF EditUpdateCluster
    <2>2. CASE cluster' = cluster /\ pc' = [pc EXCEPT ![r] = "failed"] /\ late' \subseteq late \cup {WriteOf(r)}
      <3>1. \A w \in late' \ late : w.write \notin {"put", "putCreate"}
        BY <2>1, <2>2 DEF WriteOf
      <3>2. "failed" \in Positions /\ "failed" \notin Early \cup Late \cup {"editGet"}
        BY DEF Early, Late, Positions, Statuses
      <3> QED BY <2>1, <2>2, <3>1, <3>2, OthersLate, Zenon
    <2>3. CASE /\ cluster.exists /\ cluster' = EditedCluster(r) /\ late' \subseteq late
               /\ pc' = [pc EXCEPT ![r] = "editGet"]
      <3>1. cluster'.exists /\ cluster'.caps = cluster.caps \cup {CapOf[r]}
        BY <2>3 DEF EditedCluster, TypeInv
      <3>2. \A q \in Requests : Holds(q)' => Holds(q)
        BY <2>3 DEF Holds
      <3>3. \A q \in Requests : /\ q # r => pc'[q] = pc[q]
                                /\ pc'[q] \in Early \cup Late => pc[q] \in Early \cup Late
                                /\ pc'[q] \in Late <=> pc[q] \in Late
        BY <2>1, <2>3 DEF TypeInv, Early, Late
      <3>4. CapInv'
        BY <3>1, <3>3 DEF CapInv
      <3>5. FreshInv'
        BY <2>1, <2>3, <3>1 DEF FreshInv
      <3>6. FounderInv'
        BY <2>1, <3>2, <3>3 DEF FounderInv, Founder
      <3> QED BY <3>4, <3>5, <3>6
    <2> QED BY <1>4, <2>2, <2>3 DEF EditUpdateCluster, StoreCluster, WriteFault, Fault, Goto
  <1>5. CASE EditGetKeyring(r)
    <2>1. cluster' = cluster /\ keyring' = keyring /\ late' = late /\ pc[r] = "editGet"
      BY <1>5 DEF EditGetKeyring, stores
    <2>2. CASE pc' = [pc EXCEPT ![r] = "failed"] /\ read' = read
      BY <2>1, <2>2, OthersLate, Zenon DEF Early, Late, Positions, Statuses
    <2>3. CASE /\ keyring.exists /\ read' = [read EXCEPT ![r] = keyring.keys]
               /\ pc' = [pc EXCEPT ![r] = "put"]
      <3>1. cluster.exists /\ CapOf[r] \in cluster.caps /\ keyring.keys # {}
        BY <2>1, <2>3 DEF CapInv, FreshInv
      <3>2. /\ pc'[r] = "put" /\ read'[r] = keyring.keys
            /\ \A q \in Requests : q # r => pc'[q] = pc[q] /\ read'[q] = read[q]
        BY <2>3 DEF TypeInv
      <3>3. \A q \in Requests : Holds(q)' <=> Holds(q)
        BY <2>1 DEF Holds
      <3>4. CapInv'
        BY <2>1, <3>1, <3>2, <3>3 DEF CapInv
      <3>5. FreshInv'
        BY <1>0, <2>1, <3>1, <3>2 DEF FreshInv
      <3>6. \A q \in Requests : Founder(q)' => q # r /\ Founder(q) /\ pc'[q] = pc[q]
        BY <3>1, <3>2, <3>3 DEF Founder
      <3>7. FounderInv'
        BY <2>1, <2>3, <3>2, <3>6 DEF FounderInv
      <3> QED BY <3>4, <3>5, <3>7
    <2> QED BY <1>5, <2>2, <2>3 DEF EditGetKeyring, KeyringFound, Fault, Goto
  <1>6. CASE PutKeyring(r) \/ CreateKeyring(r)
    <2>1. cluster' = cluster /\ read' = read /\ pc[r] \in {"put", "putCreate"}
      BY <1>6 DEF PutKeyring, CreateKeyring
    <2>2. cluster.exists /\ CapOf[r] \in cluster.caps
      BY <2>1 DEF CapInv, Early
    <2>3. CASE keyring' = keyring /\ late' = late /\ \E l \in {"failed", "putCreate"} : pc' = [pc EXCEPT ![r] = l]
      <3>1. \A q \in Requests : Holds(q)' <=> Holds(q)
        BY <2>3 DEF Holds
      <3>2. \A q \in Requests :
                /\ pc'[q] \in Early \cup Late \cup {"editGet"} => pc[q] \in Early \cup Late \cup {"editGet"}
                /\ pc'[q] \in Early \cup Late => pc[q] \in Early \cup Late
                /\ pc'[q] \in Late <=> pc[q] \in Late
        BY <2>1, <2>3 DEF TypeInv, Early, Late
      <3>3. CapInv' /\ FreshInv'
        BY <2>1, <2>3, <3>1, <3>2 DEF CapInv, FreshInv
      <3>4. FounderInv'
        BY <2>1, <2>3, <3>1, <3>2 DEF FounderInv, Founder
      <3> QED BY <3>3, <3>4
    <2>4. CASE /\ keyring' = keyring /\ late' = late \cup {WriteOf(r)} /\ pc' = [pc EXCEPT ![r] = "failed"]
               /\ pc[r] = "put" => keyring.exists
      <3>1. \A q \in Requests : q # r => (Holds(q)' <=> Holds(q)) /\ pc'[q] = pc[q]
        BY <2>4 DEF Holds, WriteOf, TypeInv
      <3>2. pc'[r] = "failed" /\ pc[r] \in Early
        BY <2>1, <2>4 DEF TypeInv, Early
      <3>3. CapInv'
        BY <2>1, <2>2, <3>1, <3>2 DEF CapInv, Early, Late
      <3>4. pc[r] = "put" => read[r] # {}
        BY <2>4, <3>2 DEF FounderInv, Founder, Early, Late
      <3>5. FreshInv'
        BY <2>1, <2>4, <3>4 DEF FreshInv, WriteOf
      <3>6. \A q \in Requests : Founder(q)' => Founder(q) /\ (pc'[q] \in Late <=> pc[q] \in Late)
        BY <2>1, <3>1, <3>2 DEF Founder, Early, Late
      <3>7. FounderInv'
        BY <2>1, <2>4, <3>6 DEF FounderInv
      <3> QED BY <3>3, <3>5, <3>7
    <2>5. CASE /\ keyring' = [exists |-> TRUE, keys |-> read[r] \cup {r}] /\ late' \subseteq late
               /\ pc' = [pc EXCEPT ![r] = "install"]
      <3>1. \A q \in Requests : /\ Holds(q)' => Holds(q)
                                /\ q # r => pc'[q] = pc[q]
        BY <2>5 DEF Holds, TypeInv
      <3>2. pc'[r] = "install" /\ pc[r] \in Early /\ ~Holds(r)
        BY <1>h, <2>1, <2>5 DEF TypeInv, Early
      <3>3. CapInv'
        BY <2>1, <2>2, <3>1, <3>2 DEF CapInv
      <3>4. FreshInv'
        BY <2>1, <2>2, <2>5 DEF FreshInv
      <3>5. \A q \in Requests : Founder(q)' => Founder(q)
        BY <2>1, <3>1, <3>2 DEF Founder
      <3>6. CASE read[r] = {}
        <4>1. Founder(r)
          BY <3>2, <3>6 DEF Founder
        <4>2. \A q \in Requests : Founder(q)' => q = r
          BY <3>5, <4>1 DEF FounderInv
        <4>3. \A q \in Requests : read[q] = {}
          BY <3>2, <4>1 DEF FounderInv, Early, Late
        <4>4. FounderInv'
          BY <2>1, <2>5, <3>2, <4>2, <4>3 DEF FounderInv, Late
        <4> QED BY <3>3, <3>4, <4>4
      <3>7. CASE read[r] # {}
        <4>1. \A q \in Requests : Founder(q) => q # r /\ pc[q] \in Late /\ q \in read[r]
          BY <3>7 DEF FounderInv, Founder
        <4>2. FounderInv'
          BY <2>1, <2>5, <3>1, <3>5, <4>1 DEF FounderInv
        <4> QED BY <3>3, <3>4, <4>2
      <3> QED BY <3>3, <3>4, <3>6, <3>7
    <2> QED BY <1>6, <2>1, <2>3, <2>4, <2>5 DEF PutKeyring, CreateKeyring, Overwrite, StoreKeyring, Merge,
               WriteFault, Sends, Fault, Goto, KeyringFound
  <1>7. CASE InstallCapabilities(r) \/ InstallSecret(r) \/ InstallLoggingCluster(r)
    <2>1. cluster' = cluster /\ keyring' = keyring /\ read' = read /\ late' = late /\ pc[r] \in Late
      BY <1>7 DEF InstallCapabilities, InstallSecret, InstallLoggingCluster, stores, Late
    <2>2. PICK l \in Late : pc' = [pc EXCEPT ![r] = l]
      BY <1>7 DEF InstallCapabilities, InstallSecret, InstallLoggingCluster, Answer, Goto, Late
    <2>3. \A q \in Requests : (Holds(q)' <=> Holds(q)) /\ (pc'[q] = pc[q] \/ (pc'[q] \in Late /\ pc[q] \in Late))
      BY <2>1, <2>2 DEF Holds, TypeInv
    <2>4. CapInv' /\ FreshInv'
      BY <2>1, <2>3 DEF CapInv, FreshInv, Late
    <2>5. FounderInv'
      BY <2>1, <2>3 DEF FounderInv, Founder
    <2> QED BY <2>4, <2>5
  <1>8. CASE InstallFatal(r)
    <2>1. cluster' = cluster /\ keyring' = keyring /\ read' = read
      BY <1>8 DEF InstallFatal, stores
    <2>2. \A q \in Requests : pc'[q] = IF InFlight(q) THEN "dead" ELSE pc[q]
      BY <1>8 DEF InstallFatal
    <2>3. \A w \in late' \ late : \E q \in Requests : w = WriteOf(q) /\ Sends(q)
      BY <1>8 DEF InstallFatal
    <2>4. \A q \in Requests : Holds(q)' => Holds(q) \/ (pc[q] = "putCreate" /\ pc'[q] = "dead")
      BY <2>2, <2>3 DEF Holds, WriteOf, InFlight, Steps
    <2>5. CapInv'
      BY <2>1, <2>2, <2>4 DEF CapInv, Early, Late
    <2>6. \A q \in Requests : pc[q] = "put" /\ Sends(q) => read[q] # {}
      BY DEF Sends, KeyringFound, FounderInv, Founder, Early, Late
    <2>7. FreshInv'
      BY <2>1, <2>3, <2>6 DEF FreshInv, WriteOf
    <2>8. \A q \in Requests : Founder(q)' => Founder(q) /\ (pc'[q] \in Late <=> pc[q] \in Late)
      BY <1>h, <2>1, <2>2, <2>4 DEF Founder, InFlight, Steps, Early, Late
    <2>9. FounderInv'
      BY <2>1, <2>8 DEF FounderInv
    <2> QED BY <2>5, <2>7, <2>9
  <1> QED BY <1>1, <1>2, <1>3, <1>4, <1>5, <1>6, <1>7, <1>8 DEF Handler

\* A store that executes what is under way.
LEMMA LateCrdsInv ==
    ASSUME TypeInv, CapInv, FreshInv, FounderInv, backend = "crds", LateStore
    PROVE  CapInv' /\ FreshInv' /\ FounderInv'
  <1>0. \A w \in late : w.by \in Requests /\ pc[w.by] \in {"failed", "dead"}
    BY DEF TypeInv
  <1>1. PICK w \in late : LateWrite(w)
    BY Zenon DEF LateStore
  <1>2. pc' = pc /\ read' = read /\ late' \subseteq late /\ w.by \in Requests /\ w \notin late'
    <2>1. late' \subseteq late \ {w}
      BY <1>1, OneLess
    <2> QED BY <1>0, <2>1, LateShrinks
  <1>3. \A q \in Requests : (Holds(q)' => Holds(q)) /\ (Founder(q)' => Founder(q))
    BY <1>2 DEF Holds, Founder
  <1>4. CASE cluster' = cluster /\ keyring' = keyring
    <2>1. CapInv' /\ FreshInv'
      BY <1>2, <1>3, <1>4 DEF CapInv, FreshInv
    <2>2. FounderInv'
      BY <1>2, <1>3, <1>4 DEF FounderInv
    <2> QED BY <2>1, <2>2
  <1>5. CASE w.write \in {"createCluster", "editUpdateCluster"} /\ keyring' = keyring
    <2>1. /\ cluster.exists => cluster'.exists /\ cluster.caps \subseteq cluster'.caps
          /\ cluster' # cluster => cluster'.exists \/ ~cluster.exists
      BY <1>1, <1>5 DEF LateWrite, StoreCluster, MayCreate, NewCluster, EditedCluster, TypeInv, stores
    <2>2. CapInv'
      BY <1>2, <1>3, <2>1 DEF CapInv
    <2>3. FreshInv'
      BY <1>2, <1>5, <2>1 DEF FreshInv
    <2>4. FounderInv'
      BY <1>2, <1>3, <1>5 DEF FounderInv
    <2> QED BY <2>2, <2>3, <2>4
  <1>6. CASE /\ w.write \in {"put", "putCreate"} /\ cluster' = cluster
             /\ keyring' = [exists |-> TRUE, keys |-> read[w.by] \cup {w.by}]
             /\ w.write = "putCreate" => ~keyring.exists
    <2>1. w.write = "put" => read[w.by] # {}
      BY <1>6 DEF FreshInv
    <2>2. w.write = "putCreate" => Holds(w.by) /\ ~Holds(w.by)'
      BY <1>2 DEF Holds, TypeInv
    <2>3. cluster.exists
      BY <1>2, <1>6, <2>1, <2>2 DEF CapInv, FreshInv
    <2>4. CapInv'
      BY <1>2, <1>3, <1>6 DEF CapInv
    <2>5. FreshInv'
      BY <1>2, <1>6, <2>3 DEF FreshInv
    <2>6. CASE read[w.by] = {}
      <3>1. Founder(w.by) /\ ~Founder(w.by)'
        BY <1>0, <1>2, <1>6, <2>1, <2>2, <2>6 DEF Founder, Early, Late
      <3>2. \A q \in Requests : ~Founder(q)'
        BY <1>2, <1>3, <3>1 DEF FounderInv
      <3> QED BY <2>4, <2>5, <3>2 DEF FounderInv
    <2>7. CASE read[w.by] # {}
      <3>1. \A q \in Requests : Founder(q) => pc[q] \in Late /\ q \in read[w.by]
        BY <1>2, <2>7 DEF FounderInv
      <3>2. FounderInv'
        BY <1>2, <1>3, <1>6, <3>1 DEF FounderInv
      <3> QED BY <2>4, <2>5, <3>2
    <2> QED BY <2>6, <2>7
  <1> QED BY <1>1, <1>4, <1>5, <1>6 DEF LateWrite, StoreCluster, StoreToken, StoreKeyring, Merge, KeyringFound, stores

LEMMA NextCrdsInv == TypeInv /\ CrdsInv /\ [Next]_vars => CrdsInv'
  <1> SUFFICES ASSUME TypeInv, CrdsInv, [Next]_vars, backend' = "crds", deletes' = 0
               PROVE  CapInv' /\ FreshInv' /\ FounderInv'
    BY DEF CrdsInv
  <1>1. ASSUME NEW r \in Requests, HandleBootstrapAuth(r) \/ Handler(r)
        PROVE  backend = "crds" /\ deletes = 0
    BY <1>1, Zenon
       DEF Handler, HandleBootstrapAuth, GetToken, GetCluster, CanInstall, CreateCluster,
                CreateUpdateToken, EditUpdateToken, UpdateToken, EditUpdateCluster, EditGetKeyring,
                PutKeyring, CreateKeyring, InstallCapabilities, InstallSecret,
                InstallLoggingCluster, InstallFatal
  <1>2. CASE \E r \in Requests : HandleBootstrapAuth(r) \/ Handler(r)
    BY <1>1, <1>2, HandlerCrdsInv DEF CrdsInv
  <1>3. CASE DeleteCluster
    BY <1>3 DEF DeleteCluster, TypeInv
  <1>4. ASSUME UNCHANGED <<backend, cluster, keyring, pc, read, late, deletes>>
        PROVE  CapInv' /\ FreshInv' /\ FounderInv'
    BY <1>4 DEF CrdsInv, CapInv, FreshInv, FounderInv, Founder, Holds
  <1>5. ASSUME NEW t \in Tokens, TokenEnds(t)
        PROVE  UNCHANGED <<backend, cluster, keyring, pc, read, late, deletes>>
    BY <1>5 DEF TokenEnds, RevokeBootstrapToken, garbageCollectToken, DeleteToken, TokenExpires
  <1>6. CASE UNCHANGED vars
    BY <1>4, <1>6 DEF vars, stores
  <1>7. CASE LateStore
    BY <1>7, LateCrdsInv DEF CrdsInv, LateStore
  <1> QED BY <1>2, <1>3, <1>4, <1>5, <1>6, <1>7 DEF Next, Finished

\* With custom resources, however many requests create and edit the cluster at once
\* and however many of their calls fail: a capability that was answered 200 is on
\* the cluster, and the agent that created the cluster keeps its key.
THEOREM BootstrapCrdsAckedKept == Spec => []CrdsAckedKept
  <1>1. Init => CrdsInv
    BY DEF Init, CrdsInv, CapInv, FreshInv, FounderInv, Founder, Holds, Early, Late, NoCluster, NoKeyring
  <1>2. TypeInv /\ CrdsInv => CrdsAckedKept
    BY DEF CrdsInv, CapInv, FounderInv, Founder, Early, Late, CrdsAckedKept, AckedCapabilityKept
  <1> QED BY <1>1, <1>2, InitTypeInv, NextTypeInv, NextCrdsInv, PTL DEF Spec
=============================================================================
